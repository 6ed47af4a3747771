SPECIFICATION FairSpec
CONSTANTS
    k1 = k1
    Client = {k1}
    CallCount <- TwoCalls
    Thread = {t1, t2}
    CallData = {o1, o2, o3, o4}
    NoObject = NoObject
    NoCall = NoCall
INVARIANTS
    OneOwner
    ServedOnce
    OwnGreeting
    AlwaysAccepting
PROPERTIES
    EveryCallEnds
