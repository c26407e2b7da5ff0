\* An operator-supplied --nonce above the sender's pending nonce, with no
\* other transaction of the sender to fill the gap.
CONSTANTS
    a1 = a1
    a2 = a2
    Accounts = {a1, a2}
    Batches <- MCBatches
    Balances = {3}
    ExplicitNonces = {1}
    NoNonce = NoNonce
    MaxExternal = 0
    ExtSpend = 0
    LostAck = FALSE
    WriteFails = FALSE
SPECIFICATION Spec
CHECK_DEADLOCK FALSE
PROPERTY SentEventuallyMined
