SPECIFICATION FbFairSpec
CONSTANTS
    c1 = c1
    c2 = c2
    Client = {c1, c2}
    Block = {b1, b2}
    NoBlock = NoBlock
    Memory = 1
    Workload <- EchoAndRead
    BlockCount <- TwoAndOne
    BlockSize <- BadSize
    OpCount <- TwiceAndOnce
    MaxBoots = 2
    Window = 1
    Stalls = FALSE
INVARIANTS
    EachMessageAlone
PROPERTIES
    AbortsOnlyWithCause
    ImplementsGrpc
    EveryRunEnds
