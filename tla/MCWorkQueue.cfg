SPECIFICATION Spec
CONSTANTS
    Hosts = {site, images}
    Site = site
    Conns = {c1, c2, c3}
    MaxClicks = 2
    MaxImages = 1
INVARIANTS
    TypeOK
    NoLostWakeup
    LockOrder
PROPERTIES
    Served
    GdkComesBack
CHECK_DEADLOCK FALSE
