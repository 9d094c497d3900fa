CONSTANTS
    Models = {m1, m2}
    NoModel = NoModel
    MaxInFlight = 3
SPECIFICATION Spec
INVARIANTS NoRequestOnDeadModel UpForAField EnterReachesGtk BeliefIsRight
PROPERTY GoesWithTheField
