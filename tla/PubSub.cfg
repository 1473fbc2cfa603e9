\* One node; two publishers and three subscriptions of two topics.
CONSTANTS
    Nodes = {"n1"}
    Topics = {"a", "b"}
    Publishers = {"p1", "p2"}
    PubNode <- AllPubsInN1
    PubTopic <- PubsApart
    Subs = {"s1", "s2", "s3"}
    SubNode <- AllSubsInN1
    SubTopic <- SubsApart
    SubOrder <- ByName
    NumWorkers = 1
    MaxSent <- TwoOnAOneOnB
    NoHolder = NoHolder
    NoTask = NoTask
CHECK_DEADLOCK FALSE
SPECIFICATION FairSpec
INVARIANTS
    NoLostUpdate
    NoSpuriousRead
    BegunInOrder
PROPERTIES
    NodeStops
    EventuallyDelivered
