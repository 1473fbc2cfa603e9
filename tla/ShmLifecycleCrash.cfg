\* One process after the other; one is killed.
CONSTANTS
    Procs = {"p1", "p2"}
    Publishers = {"p1"}
    MaxObjects = 5
    MaxKills = 1
    Serial = TRUE
    Nobody = Nobody
SPECIFICATION Spec
INVARIANTS
    SurvivesCrash
CHECK_DEADLOCK FALSE
