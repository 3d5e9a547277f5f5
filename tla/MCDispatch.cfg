SPECIFICATION DispatchSpec
CONSTANTS
    None = None
    Quality = Quality
    Speed = Speed
    Goal = Goal
    PerformanceCapabilities <- MCPerformance
    UserCapabilities <- MCUser
    QualityHalfLife = 3
    PerformanceHalfLife = 2
    DeclaredScore = 5
    DeclaredConfidence = 3
    BandFloor = 3
    BandCeiling = 6
    MinSamples = 10
    MinConfidence = 1
    LoadingOverhead = 11
    ActivationOverhead = 1
    SafetyMargin = 1
    Worlds <- MCWorlds
INVARIANTS
    ChoiceSound
    EvidenceSound
    AttemptsBounded
    FailureIsPermanent
    NoBounce
PROPERTY
    DeferralEnds
CHECK_DEADLOCK FALSE
