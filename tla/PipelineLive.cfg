CONSTANTS
    MaxItens = 2
    MaxPackets = 2
    MaxTest = 2
    Window = 1
    MaxFrames = 3
SPECIFICATION TrafficSpec
PROPERTIES
    RawQueueDrains
    CaptureKeepsReceiving
    PacketsAreTakenInTraffic
