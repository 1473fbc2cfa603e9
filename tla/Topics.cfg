\* Two processes, one of them with two threads; all topics are published before the second one starts.
CONSTANTS
    Procs = {"p", "q"}
    PerProc <- TwoInP
    Names = {"t", "u"}
    NoName = NoName
    MaxTopics = 8
    MaxDepartures = 1
SPECIFICATION InTurnSpec
INVARIANTS
    IdsDistinct
    NoSilentPublish
    RegisteredIdIsFound
    SameIdEverywhere
PROPERTIES
    IdStable
CHECK_DEADLOCK FALSE
