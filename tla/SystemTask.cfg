\* Two nodes, one type, two rows one after the other; claims shorter than the TTL.
CONSTANTS
    r1 = r1
    r2 = r2
    poll = poll
    Runners <- TwoRunners
    Types <- OneType
    MaxTasks = 2
    TTL = 2
    MaxPause = 1
    Interval = 0
    MaxFaults = 1
SPECIFICATION FairSpec
INVARIANTS
    OneActivePerType
    RunningHasLock
PROPERTIES
    TerminalIsFinal
    DispatchedOnce
    LiveLeaseIsKept
    TasksAreDone
