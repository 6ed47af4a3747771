SPECIFICATION FairSpec
CONSTANTS
    SyncClient = {s1}
    AsyncClient = {a1, a2}
    NoName = NoName
    Failed = Failed
    MaxBoots = 2
INVARIANTS TypeOK FrameIsThere LineIsResult
PROPERTIES EveryCallEnds
