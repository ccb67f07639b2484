SPECIFICATION FairListenerSpec
CONSTANTS
    c1 = c1
    c2 = c2
    c3 = c3
    k1 = k1
    k2 = k2
    Connections = {c1, c2, c3}
    Closers = {k1, k2}
    Limit = 2
    NoConnection = NoConnection
INVARIANTS
    SlotAccounting
PROPERTIES
    CloseEndsAccept
