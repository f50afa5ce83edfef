SPECIFICATION Spec
CONSTANTS
    Node = {n1}
    SurveyID = {s1, s2}
    Request = {}
    Content = {c1}
    NoQuestions = NoQuestions
    NoSurvey = NoSurvey
    ExpiryDays = {1}
    MaxTime = 2
    MaxSaves = 2
    MaxFaults = 0
PROPERTIES
    ScheduleNotLost
