SPECIFICATION Spec
CONSTANTS
    Chunks <- MCChunks
    MaxChunks = 5
INVARIANTS Terminated ToolsAreNumbered ContentIsExact OneShotAgrees
CHECK_DEADLOCK FALSE
