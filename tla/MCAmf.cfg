SPECIFICATION Spec
CONSTANTS
    NULL = NULL
    Base = 16
    MaxElems = 2
    MaxMembers = 2
    MaxDepth = 2
    MaxMarks = 1
    Keys <- MCKeys
    Strs <- MCStrs
    Values <- MCValues
INVARIANTS
    TypeOK
    SizeExact
    RoundTrip
CHECK_DEADLOCK FALSE
