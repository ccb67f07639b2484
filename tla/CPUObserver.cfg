SPECIFICATION Spec
CONSTANTS
    Period = 3
    MinInterval = 2
    MaxInterval = 4
    MaxAge = 4
    Horizon = 9
    MaxUint = 3
    Epochs = {1, 2}
    Readings <- MCReadings
    Readers = {q1}
    q1 = q1
    Closers = {k1}
    k1 = k1
INVARIANTS
    SoundPublication
    NoDrift
    EndAnnounced
PROPERTIES
    FrozenAfterStop
    ExactUtilization
