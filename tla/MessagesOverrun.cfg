\* Violated: a longer message leaves the page that the first one was given.
SPECIFICATION Spec
CONSTANTS
    Precision = 6
    MaxExponent = 308
    IntMax <- Int32
    Values <- Structured
    Foreign <- FewForeign
    Header = 4
    Page = 10
    MaxMessages = 3
    MaxStarts = 2
INVARIANTS
    NeverOverruns
CHECK_DEADLOCK FALSE
