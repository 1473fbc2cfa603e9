\* Violated: a message of another length than the first one is lost.
SPECIFICATION Spec
CONSTANTS
    Precision = 6
    MaxExponent = 308
    IntMax <- Int32
    Values <- Structured
    Foreign <- FewForeign
    Header = 4
    Page = 16
    MaxMessages = 3
    MaxStarts = 2
INVARIANTS
    NewestArrives
CHECK_DEADLOCK FALSE
