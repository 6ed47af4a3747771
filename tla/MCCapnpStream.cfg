SPECIFICATION StreamFairSpec
CONSTANTS
    StreamClient = {c1, c2}
    NumStrings = 3
    Window = 2
INVARIANTS StreamTypeOK ReturnsAll
PROPERTIES VecIsStable EveryWaitEnds
