SPECIFICATION FairSpec
CONSTANTS
    r1 = r1
    r2 = r2
    t1 = t1
    t2 = t2
    Requests = {r1, r2}
    NoCycle = NoCycle
    NDomains = 2
    Units <- MCUnits
    Topologies = {t1, t2}
    NoTopology = NoTopology
INVARIANTS
    OneCollector
    DefectAnnounced
    NoServiceAfterDefect
    CoherentSnapshot
    DeadlineHonoured
PROPERTIES
    RequestReturns
    CycleCompletes
    ImplementsSingleFlight
