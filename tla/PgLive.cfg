SPECIFICATION LiveSpec
CONSTANTS
    Ops = {o1}
    Instances = {i1, i2}
    Slots = {s1}
    Fragile = {i1}
    MaxAttempts <- TwoAttempts
    MaxInFlight = 0
    Nobody = Nobody
PROPERTIES
    LostLeaseStopsHandler
    AcceptedSettles
