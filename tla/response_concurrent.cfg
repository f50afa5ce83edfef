SPECIFICATION FairSpec
CONSTANTS
    User = {u1}
    SurveyID = {s1}
    Rating <- TwoGroups
    Handler = {h1, h2}
    NoUser = NoUser
    NoSurvey = NoSurvey
    PerUser = 2
    StaleClients = TRUE
    MaxSubmits = 3
    MaxFaults = 1
INVARIANTS
    TypeOK
    ThanksBounded
    SubmittedIsRecorded
    ResponsesAccounted
PROPERTIES
    CompleteIsFinal
    EndedIsShown
    LedgerSpec
