CONSTANTS
    Packets <- SamplePackets
    MaxPackets = 3
    MAX_JSON_SIZE = 5462
    app_tcp_services <- TcpServices
    app_udp_services <- UdpServices
    HeaderFields = {140, 226, 1844}
SPECIFICATION Spec
INVARIANTS
    TypeOK
    BuffersSuffice
    ContentLengthIsBody
    PayloadIsDocument
    NamesAgreeBothWays
