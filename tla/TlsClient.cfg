SPECIFICATION FairSpec
CONSTANTS
    Cells = {c1, c2}
    StreamSize = 3
    MaxConnects = 4
    MaxBytes = 4
INVARIANTS
    NothingLeaks
    ConnectedIsOpen
    InOrder
PROPERTIES
    AttemptEnds
CHECK_DEADLOCK FALSE
