CONSTANTS
    NumFds = 2
    Watcher = watcher
    Appliers = {apply}
    NoTracer = NoTracer
    AbsentPolls = 2
    MaxDeaths = 1
    MaxSignals = 1
SPECIFICATION Spec
INVARIANTS HandsOff
PROPERTIES WheelHidden WheelGoesBack
