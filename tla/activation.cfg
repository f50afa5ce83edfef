SPECIFICATION FairSpec
CONSTANTS
    Node = {n1, n2}
    Last <- AllMigrations
    Migration <- SurveyMigrations
    Queried <- StoreQueries
    DebugBuild = TRUE
    MaxStarts = 5
    MaxFaults = 3
INVARIANTS
    TypeOK
    QueriesFindTheirColumns
    NoneRefused
PROPERTIES
    ActivationEnds
    HistorySpec
CHECK_DEADLOCK FALSE
