SPECIFICATION Spec
CONSTANTS
    Node = {n1}
    SurveyID = {s1, s2, s3}
    Request = {r1, r2}
    Content = {c1}
    NoQuestions = NoQuestions
    NoSurvey = NoSurvey
    ExpiryDays = {1, 2}
    MaxTime = 2
    MaxSaves = 2
    MaxFaults = 1
PROPERTIES
    NoBackToBackDuplicate
