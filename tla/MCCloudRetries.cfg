SPECIFICATION CloudSpec
CONSTANTS
    Callers = {c1}
    Services <- OneService
    BatchSize = 1
    MaxQueue = 1
    MaxRetries = 1
    MaxLogged = 1
    NoCaller = NoCaller
CHECK_DEADLOCK FALSE
INVARIANTS AttemptsBounded
