SPECIFICATION LiveSpec
CONSTANTS
    Ops = {o1, o2}
    Names = {n1}
    Keys = {}
    Workers = {w1}
    Clients = {c1}
    Stoppers = {s1}
    QueueSize = 1
    Reports = {}
    NoOp = NoOp
    NoKey = NoKey
PROPERTIES
    ShutdownReturns
    AcceptedSettles
