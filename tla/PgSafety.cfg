SPECIFICATION Spec
CONSTANTS
    Ops = {o1}
    Instances = {i1, i2}
    Slots = {s1}
    Fragile = {i1, i2}
    MaxAttempts <- TwoAttempts
    MaxInFlight = 1
    Nobody = Nobody
INVARIANTS
    TypeOK
    AttemptWithinLimit
    LeaseIffRunning
    NoTokenReuse
    LatestDeliveryOwns
PROPERTY ImplementsContract
CHECK_DEADLOCK FALSE
