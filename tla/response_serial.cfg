SPECIFICATION Spec
CONSTANTS
    User = {u1, u2}
    SurveyID = {s1}
    Rating <- OneOfEach
    Handler = {h1, h2}
    NoUser = NoUser
    NoSurvey = NoSurvey
    PerUser = 1
    StaleClients = TRUE
    MaxSubmits = 3
    MaxFaults = 1
SYMMETRY Symmetry
INVARIANTS
    TallyAccounted
    SuccessIsStored
    PostShowsRow
    DeltaAsDocumented
PROPERTIES
    EndedSettles
