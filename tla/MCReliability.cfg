CONSTANTS
    Short = 1
    Long = 2
    MinFactor = 2
    MinRate = 1
    MinPercentile = 2
    MinRegression = 1
    DropPercent = 15
    ZSquared = 2
    Threads = {t1, t2}
    Jobs = {j1}
    Sources = {c1}
    Base = base
    Adapters = {adapter}
    AttemptKinds <- MCAttemptKinds
    FeedbackKinds <- MCFeedbackKinds
    Skew = 1
    MaxTime = 2
    MaxAttempts = 2
    Refreshers = {t1, t2}
    Breakers = {base, adapter}
    Recomputed = {base}
    Profiles = {p1, p2}
    Verdicts = {"closed", "open"}
SPECIFICATION MCSpec
SYMMETRY Symmetry
INVARIANTS IncrementalEqualsFull StatisticsExact AnnotationTrue ReadingsHonest
CHECK_DEADLOCK FALSE
