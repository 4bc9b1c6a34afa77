SPECIFICATION FairSpec
CONSTANTS
    MaxEntries = 2
    MaxLosses = 1
INVARIANTS
    ScanOwned
    WayHome
PROPERTIES
    SpinnerEnds
    ScanShown
    DropNoticed
