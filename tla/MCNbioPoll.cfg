SPECIFICATION Spec
CONSTANTS
    Ios = {a, b}
INVARIANT
    StaysRegistered
CHECK_DEADLOCK FALSE
