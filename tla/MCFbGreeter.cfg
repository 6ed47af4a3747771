SPECIFICATION FairSpec
CONSTANTS
    Client = {c1, c2}
    NumGreetings = 2
    Failed = Failed
    Garbage = Garbage
    MaxBoots = 2
INVARIANTS
    HelloIsOwn
PROPERTIES
    EveryClientEnds
