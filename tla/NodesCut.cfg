\* Three nodes, the text of two of which no longer fits into the copy.
CONSTANTS
    Procs = {"p", "q", "r"}
    NoName = NoName
    MaxNodes = 4
    Sizes = {5}
    HeadSize = 1
    ReadSize = 10
    WriteSize = 12
SPECIFICATION Spec
INVARIANTS
    NextIdIsFree
CHECK_DEADLOCK FALSE
