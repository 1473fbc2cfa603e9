\* Three processes, none of which is killed, open segments one at a time.
CONSTANTS
    Procs = {"p1", "p2", "p3"}
    Publishers = {"p1"}
    MaxObjects = 5
    MaxKills = 0
    Serial = TRUE
    Nobody = Nobody
SPECIFICATION Spec
INVARIANTS
    MutualExclusion
PROPERTIES
    NoTriggerWiped
CHECK_DEADLOCK FALSE
