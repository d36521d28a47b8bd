CONSTANTS
    Environment = {"reset", "slow"}
    MaxFds = 3
    MaxBatches = 1
    MaxFailures = 1
    MaxStarts = 1
SPECIFICATION ClientSpec
PROPERTIES
    ReceiveTimesOut
