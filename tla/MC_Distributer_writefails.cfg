CONSTANTS
    a1 = a1
    a2 = a2
    Accounts = {a1, a2}
    Batches <- MCBatches
    Balances = {3}
    ExplicitNonces = {0}
    NoNonce = NoNonce
    MaxExternal = 0
    ExtSpend = 0
    LostAck = FALSE
    WriteFails = TRUE
SPECIFICATION Spec
CHECK_DEADLOCK FALSE
INVARIANT LedgerComplete
