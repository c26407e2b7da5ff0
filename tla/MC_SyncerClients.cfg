\* Five servers and four getter calls: every prefix of answers and
\* failures, before and after closeClient.
CONSTANTS
    NumServers = 5
    MaxCalls = 4
SPECIFICATION Spec
CHECK_DEADLOCK FALSE
PROPERTY SyncerImplementsFailoverCall
