CONSTANTS
    Workers = {w1, w2}
    Scheduler = sched
    Window = 3
    MinSamples = 2
    FailurePercent = 50
    Cooldown = 1
    MaxTime = 5
SPECIFICATION Spec
SYMMETRY Symmetry
INVARIANTS IInv NeverExcludedForEver
PROPERTIES NeverTakenBack OpensOnNewEvidence
