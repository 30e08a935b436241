SPECIFICATION Spec
CONSTANTS
    W = 64
    F = 8
    Sizes = {1, 3, 5}
INVARIANT
    EveryMegabyte
