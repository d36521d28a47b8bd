CONSTANTS
    Frames <- AllFrames
    Lengths <- AllLengths
    Stale = {0, 6, 255}
    Content = 65535
SPECIFICATION Spec
INVARIANTS
    TypeOK
    HeadersReceived
    TransportFound
    ReadsWithinContent
    PortsReceived
