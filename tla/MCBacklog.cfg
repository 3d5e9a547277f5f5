SPECIFICATION Spec
CONSTANTS
    None = None
    Bands <- MCBands
    Overflow = 1
    RateNum = 1
    RateDen = 1
    MaxStreak = 1
    RetentionTime = 1
    BatchSize = 1
    ScanFactor = 2
    Workers = {w1, w2}
    Models = {"m"}
    Kinds <- MCKinds
    MaxWait = 1
    MaxJobs = 3
    MaxTime = 2
SYMMETRY Symmetry
INVARIANTS
    OrderSafe
    SweepContinues
