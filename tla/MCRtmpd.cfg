SPECIFICATION Spec
CONSTANTS
    ObjSize = 2
    SlabSize = 2
    PtrSize = 1
    MaxSlabs = 2
    Fds = {1, 2, 3}
INVARIANTS
    TypeOK
    NeverUsedAfterReturn
    DescriptorsOwned
    OnlyErrorsLeak
    ToldOnce
    FreeListSound
    ObjectsApart
PROPERTIES
    ImplementsPool
    ClosedIsReturned
CHECK_DEADLOCK FALSE
