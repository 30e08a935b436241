SPECIFICATION Spec
CONSTANTS
    a = a
    b = b
    l = l
    ListHead = ListHead
    Ios <- MCIos
    Listeners <- MCListeners
    Descriptors = 3
    Units = 2
INVARIANT
    ErrorReachesHandler
CHECK_DEADLOCK FALSE
