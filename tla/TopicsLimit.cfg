\* Two processes; the array has room for two topics.
CONSTANTS
    Procs = {"p", "q"}
    PerProc <- OneEach
    Names = {"t", "u"}
    NoName = NoName
    MaxTopics = 2
    MaxDepartures = 0
SPECIFICATION Spec
INVARIANTS
    IdsAreBits
CHECK_DEADLOCK FALSE
