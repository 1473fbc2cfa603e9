\* One caller, one task, one start.
CONSTANTS
    Callers = {"c1"}
    Tasks = {"k1"}
    MaxStarts = 1
    NoThread = NoThread
    NoTask = NoTask
CHECK_DEADLOCK FALSE
SPECIFICATION FairSpec
PROPERTIES
    StopAlwaysReturns
