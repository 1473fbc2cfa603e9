\* Two nodes, whose texts always fit.
CONSTANTS
    Procs = {"p", "q"}
    NoName = NoName
    MaxNodes = 3
    Sizes = {4}
    HeadSize = 1
    ReadSize = 14
    WriteSize = 16
SPECIFICATION Spec
INVARIANTS
    DestructorCompletes
CHECK_DEADLOCK FALSE
