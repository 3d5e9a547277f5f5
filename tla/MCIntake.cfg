SPECIFICATION Spec
CONSTANTS
    None = None
    Submitters = {s1, s2}
    Sources = {a, b}
    Keys = {k}
    MaxDepth = 2
    PerSource = 1
    Ttl = 3
    Duration = 1
    MaxJobs = 3
    MaxTime = 3
CHECK_DEADLOCK FALSE
SYMMETRY Symmetry
INVARIANTS
    KeyedOnce
    DepthBounded
    ShareBounded
