SPECIFICATION Spec
CONSTANTS
    s1 = s1
    s2 = s2
    s3 = s3
    Node = {n1, n2}
    User = {u1}
    SurveyID = {s1, s2}
    Handler = {h1, h2}
    NoUser = NoUser
    NoSurvey = NoSurvey
    TeamFilterType <- IncludeAndExclude
    NoTeams = {s2}
    LockExpiration = 2
    HandlerTimeout = 1
    CacheValidity = 0
    MaxTime = 3
    MaxMoves = 1
    MaxFaults = 1
SYMMETRY Symmetry
INVARIANTS
    TypeOK
    MutualExclusion
    LockHeld
    PostsAccounted
    ReceiptsAccounted
PROPERTIES
    FilterHonoured
    DeliverySpec
    DeliveryDrains
