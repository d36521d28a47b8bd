CONSTANTS
    Frames = {f1, f2}
    MaxItens = 2
    MaxPackets = 2
    Addr = {1, 2, 3, 4, 5, 6, 7, 8}
    NULL = NULL
SPECIFICATION Spec
INVARIANTS
    TypeOK
    NoDanglingUse
    NoLeak
PROPERTIES
    ImplementsQueues
