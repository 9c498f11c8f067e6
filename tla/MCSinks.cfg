SPECIFICATION Spec
CONSTANTS
    Threads = {t1, t2, t3}
    Entries = {e1, e2, e3}
    Names = {n1, n2}
    Levels = {0, 1}
    MaxIndex = 2
    Programs <- TwoPrograms
    NoThread = NoThread
    NoEntry = NoEntry
    NoName = NoName
SYMMETRY Symmetric
INVARIANTS CountsRight ScanStable NoLockCycle
PROPERTIES RemovedIsGone ImplementsSinkSet
