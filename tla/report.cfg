SPECIFICATION FairSpec
CONSTANTS
    SurveyID = {s1, s2}
    ResponseID <- Ids
    Rating = {r1}
    Report = {g1}
    NoSurvey = NoSurvey
    PageSize = 2
    MaxFaults = 1
    MaxResets = 1
CHECK_DEADLOCK FALSE
INVARIANTS
    TypeOK
    ReportComplete
    ReportTruthful
    OnlyArchiveRemains
PROPERTIES
    ReportDelivered
