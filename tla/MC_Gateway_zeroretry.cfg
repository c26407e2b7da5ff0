CONSTANTS
    NumURLs = 2
    RetryCount = 0
    MaxCalls = 2
SPECIFICATION Spec
CONSTRAINT MCRoundBound
CHECK_DEADLOCK FALSE
INVARIANTS
    GatewayContract
