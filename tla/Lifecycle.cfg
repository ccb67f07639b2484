SPECIFICATION FairSpec
CONSTANTS
    ShutdownTimeout = 2
    FreeTimes <- MCFreeTimes
INVARIANTS
    CleanExit
    EverythingStopped
    StopTime
PROPERTIES
    ReadyMeansServing
    EndsWhenTold
