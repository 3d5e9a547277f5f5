SPECIFICATION Spec
CONSTANTS
    Writers = {w1, w2}
    Clients = {c1}
    Foreign = TRUE
    LiveBuffer = 1
    MaxSequence = 3
    MaxLate = 1
    MaxRestarts = 1
SYMMETRY Symmetry
INVARIANTS
    StreamSafe
