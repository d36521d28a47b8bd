CONSTANTS
    MaxItens = 3
    MaxPackets = 2
    MaxTest = 2
    Window = 1
    MaxFrames = 6
SPECIFICATION Spec
INVARIANTS
    TypeOK
    MutualExclusion
    CountersMatch
    QueuesBounded
    TestBounded
    InOrder
PROPERTIES
    LossOnlyWhenFull
    ImplementsQueues
