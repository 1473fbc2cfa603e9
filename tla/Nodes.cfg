\* Three nodes for two slots, starting and leaving in any order.  A text of two
\* entries fits (9, 10), fills the copy (11), is cut (12), or throws (13).
CONSTANTS
    Procs = {p, q, r}
    NoName = NoName
    MaxNodes = 2
    Sizes = {4, 5, 6}
    HeadSize = 1
    ReadSize = 11
    WriteSize = 12
SPECIFICATION Spec
SYMMETRY Renamings
INVARIANTS
    SlotsUnique
    RunningNodesListed
    RefusedOnlyWhenFull
CHECK_DEADLOCK FALSE
