SPECIFICATION Spec
CONSTANTS
    c1 = c1
    c2 = c2
    Client = {c1, c2}
    Block = {b1}
    NoBlock = NoBlock
    Memory = 1
    Workload <- EchoAndRead
    BlockCount <- TwoAndOne
    BlockSize <- Unit
    OpCount <- OnceAndThrice
    MaxBoots = 1
    Garbage <- AnyHeaderOrData
INVARIANTS
    EchoNeverVerified
