SPECIFICATION Spec
CONSTANTS
    ShutdownTimeout = 2
    FreeTimes <- MCFreeTimes
INVARIANTS
    StopWithinLimit
