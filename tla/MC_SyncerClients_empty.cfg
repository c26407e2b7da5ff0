\* An empty server list: dialServer returns nil without dialling anything.
CONSTANTS
    NumServers = 0
    MaxCalls = 3
SPECIFICATION Spec
CHECK_DEADLOCK FALSE
PROPERTY SyncerImplementsFailoverCall
