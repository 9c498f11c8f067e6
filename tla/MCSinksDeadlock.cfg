SPECIFICATION Spec
CONSTANTS
    Threads = {t1, t2}
    Entries = {e1}
    Names = {n1}
    Levels = {0, 1}
    MaxIndex = 1
    Programs <- BothCalls
    NoThread = NoThread
    NoEntry = NoEntry
    NoName = NoName
INVARIANTS NoLockCycle
