SPECIFICATION Spec
CONSTANTS
    Node = {n1, n2}
    SurveyID = {s1, s2, s3}
    Request = {r1, r2}
    Content = {c1}
    NoQuestions = NoQuestions
    NoSurvey = NoSurvey
    ExpiryDays = {0, 1}
    MaxTime = 3
    MaxSaves = 2
    MaxFaults = 1
SYMMETRY Symmetry
INVARIANTS
    TypeOK
    AtMostOneInProgress
    ViewsHold
    StartedWhenDue
PROPERTIES
    NoEarlyEnd
    TimelineSpec
