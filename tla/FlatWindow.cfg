CONSTANTS
    Callbacks = {c1}
    Buffers = {b1, b2}
    FLAT_PENDING = 1
    NoEntry = NoEntry
    Faults = {"late_listener", "sync_fails", "no_listener"}
    Flat = TRUE
    Surfaces = {s1}
    Pictures = {p1}
    HalfDrawn = HalfDrawn
    Blank = Blank
SPECIFICATION FlatSpec
INVARIANTS  NothingHalfDrawn WindowUpToDate
PROPERTIES WindowCatchesUp NeverDrawsOnScreen
