SPECIFICATION Spec
CONSTANTS
    Alphabets <- ClaimAlphabets
    MaxText = 5
    MaxChunk = 5
INVARIANTS NothingIsLost
CHECK_DEADLOCK FALSE
