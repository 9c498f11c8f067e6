SPECIFICATION ConfigSpec
CONSTANTS
    Documents <- Documented
    Saved <- Documented
    Block = 1
    MaxSeconds = 1
    MaxSaves = 0
    MaxStarts = 0
CHECK_DEADLOCK FALSE
INVARIANT ReadAsWritten
