SPECIFICATION FairSpec
CONSTANTS
    c1 = c1
    c2 = c2
    Client = {c1, c2}
    Block = {b1, b2}
    NoBlock = NoBlock
    Memory = 1
    Workload <- EchoAndBadRead
    BlockCount <- EchoAndBadReadCount
    BlockSize <- Unit
    OpCount <- Twice
    MaxBoots = 2
    Window = 1
    Stalls = TRUE
INVARIANTS
    CompleteReply
    NoInvalidReply
    TruncatedOnlyIfBroken
PROPERTIES
    AbortsOnlyWithCause
    ImplementsReqReply
    EveryRunEndsUnlessSilent
