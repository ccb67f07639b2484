SPECIFICATION FairSpec
CONSTANTS
    o1 = o1
    o2 = o2
    o3 = o3
    k1 = k1
    Observers = {o1, o2, o3}
    Closers = {k1}
    NoRequest = NoRequest
INVARIANTS
    SlotAccounting
    SendsNeverBlock
    FailureOrder
PROPERTIES
    NoAdmissionAfterStop
    CallsReturn
    SlotRecovers
