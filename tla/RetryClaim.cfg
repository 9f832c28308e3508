SPECIFICATION CallSpec
CONSTANTS
    Responses <- MCResponses
    MaxAttempts = 3
INVARIANTS RetryPolicy
CHECK_DEADLOCK FALSE
