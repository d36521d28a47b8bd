CONSTANTS
    Environment = {"reset", "slow", "refuse", "kill"}
    MaxFds = 3
    MaxBatches = 2
    MaxFailures = 2
    MaxStarts = 3
SPECIFICATION Spec
INVARIANTS
    TypeOK
    CompletedAreAnswered
    DescriptorsAccounted
    IdentityPersisted
    UuidIsIssued
PROPERTIES
    FirstAnswerInOrder
