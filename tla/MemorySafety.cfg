SPECIFICATION Spec
CONSTANTS
    Ops = {o1, o2}
    Names = {n1}
    Keys = {k1}
    Workers = {w1, w2}
    Clients = {c1}
    Stoppers = {s1}
    QueueSize = 1
    Reports = {50, 101}
    NoOp = NoOp
    NoKey = NoKey
INVARIANTS
    SettledWhenStopped
    NobodyForgotten
    DoneIffTerminal
    CancelledContextMeansCancelled
    QueueNeverPanics
    KeysResolve
    MetricsBalance
PROPERTIES
    TerminalIsFinal
    ImplementsContract
