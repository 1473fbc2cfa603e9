\* Violated: the beginning of a longer number, at the root, is taken for a number.
SPECIFICATION Spec
CONSTANTS
    Precision = 6
    MaxExponent = 308
    IntMax <- Int32
    Values <- Numbers
    Foreign <- FewForeign
    Header = 4
    Page = 16
    MaxMessages = 3
    MaxStarts = 2
INVARIANTS
    NewestOrNothing
CHECK_DEADLOCK FALSE
