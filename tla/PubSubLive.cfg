\* One node; two publishers and two subscriptions of one topic.
CONSTANTS
    Nodes = {"n1"}
    Topics = {"a"}
    Publishers = {"p1", "p2"}
    PubNode <- AllPubsInN1
    PubTopic <- AllPubsOnA
    Subs = {"s1", "s2"}
    SubNode <- AllSubsInN1
    SubTopic <- AllSubsOnA
    SubOrder <- ByName
    NumWorkers = 2
    MaxSent <- TwoEach
    NoHolder = NoHolder
    NoTask = NoTask
SPECIFICATION FairSpec
PROPERTIES
    NodeStops
    EventuallyDelivered
CHECK_DEADLOCK FALSE
