CONSTANTS
    Environment = {"close"}
    MaxFds = 3
    MaxBatches = 2
    MaxFailures = 1
    MaxStarts = 1
SPECIFICATION Spec
INVARIANTS
    CompletedAreAnswered
