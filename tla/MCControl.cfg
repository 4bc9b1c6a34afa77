SPECIFICATION FairSpec
CONSTANTS
    Targets <- MCTargets
    Readings <- MCReadings
    SampleEvery = 1
    QueueLength = 1
INVARIANTS
    OneCorrectionAtATime
    AlarmHandled
    BandCentre
    RunsTowardsBand
PROPERTIES
    Regulates
    BadWaterStopsDevices
    TargetAdopted
CHECK_DEADLOCK TRUE
