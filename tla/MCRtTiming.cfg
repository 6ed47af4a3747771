SPECIFICATION TimingSpec
CONSTANTS
    OpCount = 2
    TicksPerUs = 3
    Offset = 5
    MaxTime = 14
INVARIANT LatencyIsTransport
CHECK_DEADLOCK FALSE
