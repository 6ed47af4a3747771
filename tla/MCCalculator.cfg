SPECIFICATION CalcFairSpec
CONSTANTS
    Scripts <- Both
    Untracked = Untracked
    Faults = TRUE
INVARIANTS
    AssertionsHold
    ReadsAreRight
PROPERTIES
    OneRoundTrip
    ClientEnds
