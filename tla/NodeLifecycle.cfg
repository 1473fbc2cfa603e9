\* One worker, one timer whose callback may stop the node, a thread that may,
\* and two signals.
CONSTANTS
    WorkerOrder <- OneWorker
    Timers <- OneTimer
    StoppingTimers = {"t1"}
    Signals = {"s1", "s2"}
    Apps = {"app"}
    MaxSpins = 1
    MaxQueue = 1
    Nobody = Nobody
CHECK_DEADLOCK FALSE
SPECIFICATION FairSpec
INVARIANTS
    SafeStop
PROPERTIES
    StopEndsNode
    TimersRun
