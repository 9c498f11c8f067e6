SPECIFICATION Spec
CONSTANTS
    Callers = {c1, c2}
    Services <- BothServices
    BatchSize = 2
    MaxQueue = 2
    MaxRetries = 1
    MaxLogged = 3
    NoCaller = NoCaller
    Producers = {p1, p2}
    Consumers = {c1, c2}
    Closers = {s1}
    MaxRecords = 3
    MaxShutdowns = 2
    NoThread = NoThread
CHECK_DEADLOCK FALSE
INVARIANTS RecordsKept CloudInv
PROPERTIES RecordsConsumed ShutdownReturns ImplementsWorkQueue
    ArrivesInOrder Delivered CallsReturn ImplementsDelivery
