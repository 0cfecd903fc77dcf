SPECIFICATION Spec
CONSTANTS
    MaxLines = 3
    Capacity = 2
    MaxOther = 1
    None = None
INVARIANTS PrintedWasCommitted NeverWaitsHoldingLock InOrderOnce SavesWhatItRead
PROPERTY LinePrinted
CHECK_DEADLOCK FALSE
