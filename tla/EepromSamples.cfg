SPECIFICATION Spec
CONSTANTS
    N = 3
    MaxSamples = 9
    MaxCrashes = 2
    MaxFaults = 1
INVARIANTS
    ExactHistory
    TimeRunsForward
    OneLostPerCrash
CHECK_DEADLOCK FALSE
