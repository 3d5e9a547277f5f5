SPECIFICATION FairSpec
CONSTANTS
    None = None
    Jobs = {j1}
    Workers = {w1}
    MaxAttempts = 2
PROPERTIES
    CancellingEnds
    EveryHoldEnds
