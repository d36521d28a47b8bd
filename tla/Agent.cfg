CONSTANTS
    Environment = {"reset", "slow", "kill"}
    MaxFds = 3
    MaxBatches = 3
    MaxFailures = 2
    MaxStarts = 2
    MaxItens = 2
    MaxPackets = 2
    MaxFrames = 3
SPECIFICATION FairAgentSpec
INVARIANTS
    TypeOKAgent
    TakenFramesAreAnswered
PROPERTIES
    FramesAnsweredInOrder
    FramesInHandAreAnswered
