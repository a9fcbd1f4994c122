SPECIFICATION LiveSpec
CONSTANTS
    Streams = {s1, s2}
    Topics = {t1, t2}
    Buffer = 1
    MaxEvents = 2
INVARIANTS
    KnownIffOpen
    NothingSkipped
PROPERTY StreamsEnd
