\* Publisher and subscription in two processes.
CONSTANTS
    Nodes = {"n1", "n2"}
    Topics = {"a"}
    Publishers = {"p1"}
    PubNode <- AllPubsInN1
    PubTopic <- AllPubsOnA
    Subs = {"s1"}
    SubNode <- AllSubsInN2
    SubTopic <- AllSubsOnA
    SubOrder <- ByName
    NumWorkers = 1
    MaxSent <- TwoEach
    NoHolder = NoHolder
    NoTask = NoTask
CHECK_DEADLOCK FALSE
SPECIFICATION Spec
INVARIANTS
    NoLostUpdate
