CONSTANTS
    a1 = a1
    a2 = a2
    Accounts = {a1, a2}
    Batches <- MCBatches
    Balances = {2, 3}
    ExplicitNonces = {0}
    NoNonce = NoNonce
    MaxExternal = 1
    ExtSpend = 0
    LostAck = TRUE
    WriteFails = FALSE
SPECIFICATION Spec
CHECK_DEADLOCK FALSE
INVARIANTS
    TypeOK
    AtMostOncePerEntry
    LedgerFaithful
    LedgerBacked
    NoOwnNonceReuse
    NoRevertedTransfer
PROPERTIES
    ImplementsRewardBatch
    NonceNeverLowered
    Termination
    SentEventuallyMined
