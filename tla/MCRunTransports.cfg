SPECIFICATION Spec
CONSTANTS
    Transports <- BothTransports
    Keys <- TwoKeys
    SharesPort = {"grpc"}
    Faults = TRUE
INVARIANTS
    NoServerLeft
    TestedTransportsEcho
    PointsAreOwn
    PassedRunsAreGraphed
