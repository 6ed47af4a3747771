SPECIFICATION FairSpec
CONSTANTS
    c1 = c1
    c2 = c2
    c3 = c3
    Client = {c1, c2, c3}
    Block = {b1, b2}
    NoBlock = NoBlock
    Memory = 2
    Workload <- Echoes
    BlockCount <- TwoNoneAndOne
    BlockSize <- OneBadSize
    OpCount <- TwiceAndOnce
    MaxBoots = 2
    Window = 2
INVARIANTS
    CompleteReply
    NeverTruncated
PROPERTIES
    AbortsOnlyWithCause
    ImplementsReqReply
    EveryRunEnds
