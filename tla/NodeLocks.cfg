\* The loop, two workers with timer callbacks that publish, and main.
CONSTANTS
    NodeThreads <- Four
    MayRun <- Timers
    NoOne = NoOne
SPECIFICATION LocksFairSpec
INVARIANTS
    NoCircularWait
PROPERTIES
    ProgramsEnd
