CONSTANTS
    Pools = {p1, p2}
    Buffers = {b1, b2, b3}
    Files = {f1, f2, f3}
    NoProxy = NoProxy
    NoFile = NoFile
    Itself = Itself
    OV_POOLS = 3
    OV_BUFS = 2
    MaxSize = 2
SPECIFICATION Spec
INVARIANTS CopiesOwnMemory NothingLeaks
SYMMETRY Symmetry
