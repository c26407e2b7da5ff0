CONSTANTS
    NumURLs = 2
    RetryCount = 2
    MaxCalls = 2
SPECIFICATION Spec
CONSTRAINT MCRoundBound
CHECK_DEADLOCK FALSE
INVARIANTS
    BackoffBetweenRounds
