\* JsonValues of several lengths, and bytes of other types, through one segment.
SPECIFICATION Spec
CONSTANTS
    Precision = 6
    MaxExponent = 308
    IntMax <- Int32
    Values <- Structured
    Foreign <- AllForeign
    Header = 4
    Page = 16
    MaxMessages = 3
    MaxStarts = 2
INVARIANTS
    ParserExact
    NewestOrNothing
    EqualLengthsArrive
CHECK_DEADLOCK FALSE
