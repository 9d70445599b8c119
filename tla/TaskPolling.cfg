\* Overlapping passes over every kind of task, with failed lookups, a GET and a fault.
SPECIFICATION FairSpec
CHECK_DEADLOCK FALSE
CONSTANTS
    p1 = p1
    p2 = p2
    t1 = t1
    Tasks <- OneTask
    Pollers <- TwoPollers
    Kinds = {"video", "suno", "gemini"}
    Charge = 2
    Actuals <- Costs
    Legacy = TRUE
    MaxFaults = 1
    MaxFetches = 1
INVARIANTS
    OneBiller
    ClearedMeansRefunded
    BooksAgree
PROPERTIES
    IsPaidTask
    TerminalIsFinal
    FailedIsRefunded
    TimedOutEnds
