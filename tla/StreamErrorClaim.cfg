SPECIFICATION CallSpec
CONSTANTS
    Responses <- MCResponses
    MaxAttempts = 3
INVARIANTS StreamErrorsAreSeen
CHECK_DEADLOCK FALSE
