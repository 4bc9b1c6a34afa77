SPECIFICATION FairSpec
CONSTANTS
    Offered = {40}
    WebTargets = {60}
    StoredFirst = {35, 255}
    QueueLength = 1
    MaxSaves = 1
    MaxWeb = 1
    MaxMishaps = 1
INVARIANTS
    Agreement
    EchoHeals
PROPERTIES
    SaveEnds
CHECK_DEADLOCK TRUE
