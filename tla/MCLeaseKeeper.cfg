SPECIFICATION KeeperSpec
CONSTANTS
    Workers = {w1, w2}
    Lease = 6
    Renewal = 2
    ReapEvery = 1
    Gap = 1
    Tolerated = 1
    MaxTime = 10
SYMMETRY Symmetry
INVARIANT KeeperSafe
PROPERTY SurvivesMisses
