SPECIFICATION Spec
CONSTANTS
    Tasks = {t1, t2}
    Critical = {t1, t2}
INVARIANT ShutdownFailureIsReturned
