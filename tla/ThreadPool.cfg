\* Two workers, two callers, three tasks, one owner.
CONSTANTS
    Workers = {"w1", "w2"}
    Callers = {"c1", "c2"}
    Owner = Owner
    Tasks = {"k1", "k2", "k3"}
    NoThread = NoThread
    NoTask = NoTask
SPECIFICATION FairSpec
INVARIANTS
    NoLostWakeup
    ExactlyOnce
    DrainedWhenStopped
PROPERTIES
    PoolSpec
    StopReturns
    TasksRun
CHECK_DEADLOCK FALSE
