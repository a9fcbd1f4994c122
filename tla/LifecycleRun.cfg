SPECIFICATION LiveSpec
CONSTANTS
    N = 3
    StartHooks = 2
    StopHooks = 2
INVARIANTS
    NilMeansClean
    StartedAreShut
PROPERTIES
    StopReturns
    EndStopsAll
