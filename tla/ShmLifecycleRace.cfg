\* Two processes open segments at the same time, and one may be killed.
CONSTANTS
    Procs = {"p1", "p2"}
    Publishers = {"p1"}
    MaxObjects = 5
    MaxKills = 1
    Serial = FALSE
    Nobody = Nobody
SPECIFICATION FairSpec
INVARIANTS
    NameStaysBound
    UsableWhenUp
    NothingLeft
PROPERTIES
    OpeningEnds
CHECK_DEADLOCK FALSE
