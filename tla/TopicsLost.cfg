\* Two processes, two topics.
CONSTANTS
    Procs = {"p", "q"}
    PerProc <- OneEach
    Names = {"t", "u"}
    NoName = NoName
    MaxTopics = 10
    MaxDepartures = 0
SPECIFICATION Spec
PROPERTIES
    NoTopicLost
CHECK_DEADLOCK FALSE
