\* Two key addresses and the zero address, each --sender form, keystore
\* loaded or not, dry or live.
CONSTANTS
    a1 = a1
    a2 = a2
    Addrs <- MCAddrs
    Zero = Zero
    NoKey = NoKey
SPECIFICATION Spec
CHECK_DEADLOCK FALSE
INVARIANTS
    TypeOK
    SignerIsSender
