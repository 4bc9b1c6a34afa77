SPECIFICATION Spec
CONSTANTS
    N = 2
    Writers = {"UI", "control"}
    MaxLogs = 5
    MaxCrashes = 1
    MaxFaults = 0
INVARIANTS
    ExactLog
    SurvivesCrashes
CHECK_DEADLOCK FALSE
