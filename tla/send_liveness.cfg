SPECIFICATION FairSpec
CONSTANTS
    s1 = s1
    s2 = s2
    s3 = s3
    Node = {n1}
    User = {u1}
    SurveyID = {s1, s2, s3}
    Handler = {h1, h2, h3}
    NoUser = NoUser
    NoSurvey = NoSurvey
    TeamFilterType <- OneOfEach
    NoTeams = {s3}
    LockExpiration = 2
    HandlerTimeout = 1
    CacheValidity = 1
    MaxTime = 0
    MaxMoves = 0
    MaxFaults = 0
PROPERTIES
    SurveyReachesUser
