CONSTANTS
    a1 = a1
    a2 = a2
    Addrs <- MCAddrs
    Zero = Zero
    NoKey = NoKey
SPECIFICATION Spec
CHECK_DEADLOCK FALSE
INVARIANT MatchingSenderAccepted
