SPECIFICATION Spec
CONSTANTS
    Period = 10
    MinInterval = 9
    MaxInterval = 11
    MaxAge = 12
    Horizon = 21
    MaxUint = 3
    Epochs = {1, 2}
    Readings <- MCReadings
    Readers = {q1}
    q1 = q1
    Closers = {k1}
    k1 = k1
INVARIANTS
    ReadIntervalValid
