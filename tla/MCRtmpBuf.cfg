SPECIFICATION Spec
CONSTANTS
    HandshakeSz = 21
    HdrMaxSz = 14
    DefaultChunkSz = 16
    FullHdrs = {1, 4, 8, 12, 14, 18}
    NextHdrs = {1, 3, 5}
    CtlHdrs = {1, 4, 8, 12}
    ChunkSzs = {0, 2, 4, 9, 20, 27, 40}
    BodySzs = {1, 16, 30, 45}
INVARIANTS
    TypeOK
    WithinBuffer
    RoomKept
CHECK_DEADLOCK FALSE
