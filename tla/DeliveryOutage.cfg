CONSTANTS
    Environment = {"outage"}
    MaxFds = 3
    MaxBatches = 1
    MaxFailures = 1
    MaxStarts = 1
SPECIFICATION AnsweredSpec
PROPERTIES
    ReconnectsAfterOutage
