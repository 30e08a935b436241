SPECIFICATION Spec
INVARIANTS
    TypeOK
    PointersSound
    NoMemoryFault
    NeverVanishes
    ConnectedOnce
PROPERTY
    Reclaimed
CHECK_DEADLOCK FALSE
