SPECIFICATION Spec
CONSTANTS
    Alphabets <- MCAlphabets
    MaxText = 6
    MaxChunk = 6
INVARIANTS SplitIsExact SplitIsTimely ScanIsExact
CHECK_DEADLOCK FALSE
