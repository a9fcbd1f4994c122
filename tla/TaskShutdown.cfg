SPECIFICATION LiveSpec
CONSTANTS
    Tasks = {t1, t2}
    Critical = {t1}
INVARIANTS
    UnstoppedAreNamed
    
PROPERTIES
    ImplementsComponent
    CriticalStops
    ShutdownReturns
