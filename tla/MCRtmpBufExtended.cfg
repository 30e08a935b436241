SPECIFICATION Spec
CONSTANTS
    HandshakeSz = 21
    HdrMaxSz = 14
    DefaultChunkSz = 16
    FullHdrs = {1, 8, 12, 14, 18}
    NextHdrs = {1, 3}
    CtlHdrs = {12}
    ChunkSzs = {0, 4, 9, 20, 27, 40}
    BodySzs = {1, 16, 30, 45}
INVARIANT
    RoomToFill
CHECK_DEADLOCK FALSE
