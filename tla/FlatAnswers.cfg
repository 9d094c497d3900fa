CONSTANTS
    Callbacks = {c1, c2, c3}
    Buffers = {b1, b2}
    FLAT_PENDING = 3
    NoEntry = NoEntry
    Faults = {}
SPECIFICATION Spec
INVARIANTS NoLostFrame
PROPERTIES RoundNotOverwritten ImplementsService BuffersComeBack
