SPECIFICATION FairSpec
CONSTANTS
    Node = {n1, n2}
    SurveyID = {s1, s2, s3}
    Request = {}
    Content = {c1}
    NoQuestions = NoQuestions
    NoSurvey = NoSurvey
    ExpiryDays = {1}
    MaxTime = 3
    MaxSaves = 2
    MaxFaults = 1
PROPERTIES
    NoBackToBackDuplicate
    ExpiredSurveyEnds
    ScheduleHonoured
