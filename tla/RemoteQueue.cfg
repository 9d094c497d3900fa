CONSTANTS
    Events = {press, release, wheel}
    NoEvent = NoEvent
    PTR_QUEUE = 4
    WakesMayFail = FALSE
SPECIFICATION Spec
INVARIANTS OneRoundTrip NothingStranded
PROPERTY ImplementsFifo
