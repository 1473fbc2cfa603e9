\* Two processes open segments at the same time.
CONSTANTS
    Procs = {"p1", "p2"}
    Publishers = {"p1"}
    MaxObjects = 5
    MaxKills = 0
    Serial = FALSE
    Nobody = Nobody
SPECIFICATION Spec
PROPERTIES
    NoReinit
CHECK_DEADLOCK FALSE
