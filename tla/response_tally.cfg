SPECIFICATION Spec
CONSTANTS
    User = {u1}
    SurveyID = {s1}
    Rating <- OneOfEach
    Handler = {h1, h2}
    NoUser = NoUser
    NoSurvey = NoSurvey
    PerUser = 2
    StaleClients = FALSE
    MaxSubmits = 3
    MaxFaults = 0
INVARIANTS
    CountsMatchTally
CHECK_DEADLOCK FALSE
