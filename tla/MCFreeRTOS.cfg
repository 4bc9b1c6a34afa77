SPECIFICATION Spec
CONSTANTS
    Task <- MCTask
    Idle = "idle"
    BasePrio <- MCPrio
    EventList <- MCEventList
    TickMod = 4
    OvfMod = 2
    Queue = {"q", "r", "m", "timers"}
    Length <- MCLength
    TimerQueue = "timers"
    Timer = {"auto", "once"}
    FirstPeriod <- MCPeriod
    AutoReload = {"auto"}
    Client <- MCClient
    Notice = "x"
    Value = {"x", "y", "z"}
    Urgent = {"z"}
    Scenario <- MCScenario
    MaxPended = 1
    MaxLate = 1
INVARIANTS
    ListsAgree
    RunsHighest
    WakesOnTime
    Inheritance
    NothingMissed
PROPERTIES
    NeverEarly
    FirstInFirstOut
