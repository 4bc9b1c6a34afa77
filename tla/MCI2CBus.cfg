SPECIFICATION FairSpec
CONSTANTS
    Tasks = {control, ui}
    Ticked = {control}
    Transfers <- MCTransfers
    Depth = 2
    MaxTransfers = 3
    MaxTicks = 2
    MaxTroubles = 2
INVARIANTS
    Faithful
    FullReadIsRead
    ToldOnce
PROPERTIES
    EveryoneReturns
CHECK_DEADLOCK FALSE
