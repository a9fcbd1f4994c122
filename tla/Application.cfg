SPECIFICATION AppSpec
CONSTANTS
    Labels <- MCLabels
    Groups = {"api", "v1", "more"}
    OptionLists <- MCOptionLists
    Registrars = {"g1", "g2"}
    Scripts <- MCScripts
    Modules <- MCModules
    Users = {"request", "run1", "run2"}
    RunCallers = {"run1", "run2"}
    Clients = {c1, c2}
    Arrivals <- MCArrivals
    Trusted = {"proxy"}
    Rate = 1
    Window = 2
    Burst = 1
    MaxKeys = 1
    MaxTime = 5
    MaxArrivals = 4
INVARIANTS
    ServedAsRegistered
    AdmittedWithinRate
ACTION_CONSTRAINT Focus
