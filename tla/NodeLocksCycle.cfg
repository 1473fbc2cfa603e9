\* createSubscriber while the node spins.  With MayRun <- Publishing in its
\* place, a callback that publishes while the node spins.
CONSTANTS
    NodeThreads <- Four
    MayRun <- Subscribing
    NoOne = NoOne
SPECIFICATION LocksSpec
INVARIANTS
    NoCircularWait
