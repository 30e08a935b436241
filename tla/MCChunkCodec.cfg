SPECIFICATION Spec
CONSTANTS
    Chans = {3, 64, 400}
    Szs = {3}
    Dests = {1}
    Tss = {7, 16777215, 16777217}
    W = 4
    MaxChunks = 5
    ChunkSz = 2
INVARIANTS
    TypeOK
    SmallChannelsSound
    AllSoundUnlessCut
    FramingKept
PROPERTY
    BodyKept
CHECK_DEADLOCK FALSE
