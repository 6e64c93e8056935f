SPECIFICATION Spec
CONSTANTS
    MaxTokens = 6
    MaxExpired = 1
    MaxLost = 1
INVARIANTS
    ClaimsAreReported
    OneHeartbeat
PROPERTIES
    SessionSettles
    ResultsGetThrough
    ShutdownEnds
CHECK_DEADLOCK FALSE
