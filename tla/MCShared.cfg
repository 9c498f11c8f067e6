SPECIFICATION Spec
CONSTANTS
    Documents <- ManyDocuments
    Saved <- TwoDocuments
    Block = 9
    MaxSeconds = 3
    MaxSaves = 2
    MaxStarts = 2
    Callers = {c1, c2}
    Modes = {TRUE, FALSE}
    Capacity = 2
    Parts <- TextLine
    MaxCalls = 2
    Word = 1024
    Garbage = Garbage
CHECK_DEADLOCK FALSE
INVARIANTS ReloadInv ScannedAsMeant OneDocumentInForce RingIntact FileExact
PROPERTIES CallsComplete ReadInTheEnd CallsReturn
