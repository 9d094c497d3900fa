CONSTANTS
    Callbacks = {c1, c2}
    Buffers = {b1, b2}
    FLAT_PENDING = 2
    NoEntry = NoEntry
    Faults = {"slow_handlers"}
SPECIFICATION Spec
INVARIANTS NoLostFrame
SYMMETRY Symmetry
