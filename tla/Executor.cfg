\* Two callers and three tasks; the executor is started again.
CONSTANTS
    Callers = {"c1", "c2"}
    Tasks = {"k1", "k2", "k3"}
    MaxStarts = 2
    NoThread = NoThread
    NoTask = NoTask
CHECK_DEADLOCK FALSE
SPECIFICATION FairSpec
INVARIANTS
    InOrder
PROPERTIES
    TasksRun
    StopReturns
