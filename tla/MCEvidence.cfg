SPECIFICATION Spec
CONSTANTS
    None = None
    bare = bare
    adapted = adapted
    Keys = {bare, adapted}
    Produced = {adapted}
    Identity <- MCIdentity
    Capability <- MCCapability
    MeasuredAt <- MCMeasuredAt
    Producer = "fw"
    Url = "url"
    Manual <- MCManual
    Filters <- MCFilters
    Pulls = {refresh, request}
    refresh = refresh
    request = request
    Scheduled = {refresh}
    Answers <- MCAnswers
    Majors = {1, 2}
    AcceptMajors = {1}
    Listings <- MCListings
    Configurations <- MCConfigurations
    Directories <- MCDirectories
    Orders <- MCOrders
    MaxClock = 2
    Today = 1
    AllowedHosts = {"here"}
    MaxRedirects = 1
    MaxBytes = 1
    PerformanceCapabilities = {"speed"}
    UserCapabilities = {}
    QualityHalfLife = 2
    PerformanceHalfLife = 1
INVARIANTS
    BindingsSound
    BadgeTrue
    PassSettles
PROPERTIES
    GapOnlyFromLoss
CHECK_DEADLOCK FALSE
