CONSTANTS
    Environment = {"reset", "close", "slow", "refuse", "split"}
    MaxFds = 3
    MaxBatches = 2
    MaxFailures = 1
    MaxStarts = 1
SPECIFICATION AnsweredSpec
PROPERTIES
    RetriesEnd
