SPECIFICATION Spec
CONSTANTS
    a = a
    b = b
    l = l
    ListHead = ListHead
    Ios <- MCIos
    Listeners <- MCListeners
    Descriptors = 2
    Units = 2
INVARIANTS
    TypeOK
    ScanSafe
    NoLostWakeup
PROPERTIES
    DeadStaysDead
    ImplementsEventLoop
    ScanEnds
    Woken
    DeadReaped
CHECK_DEADLOCK FALSE
