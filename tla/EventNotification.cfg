\* Three threads, two event bits, every call in every thread.
CONSTANTS
    Threads = {"t1", "t2", "t3"}
    NoThread = NoThread
    EVENT_MAX_COUNT = 2
SPECIFICATION FairSpec
INVARIANTS
    TypeOK
    NoSleeperMissesTrigger
PROPERTIES
    FlagsSpec
    CallsReturn
