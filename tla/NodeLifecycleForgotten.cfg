\* One signal, at any time, and nothing else that stops the node.
CONSTANTS
    WorkerOrder <- OneWorker
    Timers <- OneTimer
    StoppingTimers = {}
    Signals = {"s1"}
    Apps = {}
    MaxSpins = 1
    MaxQueue = 1
    Nobody = Nobody
CHECK_DEADLOCK FALSE
SPECIFICATION FairSpec
PROPERTIES
    SignalEndsNode
