SPECIFICATION Spec
CONSTANTS
    Chunks <- MCChunks
    MaxChunks = 2
INVARIANTS NativeCallsAreEmitted
CHECK_DEADLOCK FALSE
