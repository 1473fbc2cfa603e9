\* Subscriptions of one topic in two processes.
CONSTANTS
    Nodes = {"n1", "n2"}
    Topics = {"a"}
    Publishers = {"p1"}
    PubNode <- AllPubsInN1
    PubTopic <- AllPubsOnA
    Subs = {"s1", "s2"}
    SubNode <- SubsInBothNodes
    SubTopic <- AllSubsOnA
    SubOrder <- ByName
    NumWorkers = 1
    MaxSent <- OneEach
    NoHolder = NoHolder
    NoTask = NoTask
CHECK_DEADLOCK FALSE
SPECIFICATION FairSpec
PROPERTIES
    EventuallyDelivered
