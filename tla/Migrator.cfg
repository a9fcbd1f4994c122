SPECIFICATION LiveSpec
CONSTANTS
    p1 = p1
    p2 = p2
    Processes = {p1, p2}
    Names = {"a", "b"}
    Deployments <- MCDeployments
    Ddl = {"b"}
    MaxRuns = 3
INVARIANT MigratedOnce
PROPERTY LockComesFree
