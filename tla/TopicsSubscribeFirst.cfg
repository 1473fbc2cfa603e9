\* Two processes of one thread, one topic.
CONSTANTS
    Procs = {"p", "q"}
    PerProc <- OneEach
    Names = {"t"}
    NoName = NoName
    MaxTopics = 10
    MaxDepartures = 0
SPECIFICATION Spec
INVARIANTS
    RegisteredIdIsFound
CHECK_DEADLOCK FALSE
