\* A message that is read while another is written.
CONSTANTS
    Nodes = {"n1"}
    Topics = {"a"}
    Publishers = {"p1"}
    PubNode <- AllPubsInN1
    PubTopic <- AllPubsOnA
    Subs = {"s1"}
    SubNode <- AllSubsInN1
    SubTopic <- AllSubsOnA
    SubOrder <- ByName
    NumWorkers = 1
    MaxSent <- TwoEach
    NoHolder = NoHolder
    NoTask = NoTask
CHECK_DEADLOCK FALSE
SPECIFICATION Spec
INVARIANTS
    NoTornMessage
