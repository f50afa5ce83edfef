SPECIFICATION Spec
CONSTANTS
    User = {u1}
    SurveyID = {s1}
    Rating <- OneOfEach
    Handler = {h1}
    NoUser = NoUser
    NoSurvey = NoSurvey
    PerUser = 1
    StaleClients = FALSE
    MaxSubmits = 1
    MaxFaults = 0
INVARIANTS
    NoNilDereference
