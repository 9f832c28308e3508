SPECIFICATION Spec
CONSTANTS
    Chunks <- MCChunks
    MaxChunks = 4
INVARIANTS WellFormed ContentIsExact ThinkingIsExact NeverSilent OneShotAgrees
CHECK_DEADLOCK FALSE
