----------------------------- MODULE SenderCheck -----------------------------
(***************************************************************************)
(* BuildTxArgs.Check up to setDefaults, with loadKeyStore                  *)
(* (src/distributer/sendtx.go:47-99): which sender a run ends up with.     *)
(*                                                                         *)
(* An address is a model value.  The --sender string is abstracted to the  *)
(* address its hex digits spell and its prefix ("0x", "0X" or none), to   *)
(* a malformed string (not 40 hex digits), or to "" (flag not given); the  *)
(* case of the hex digits is left out, because IsHexAddress,               *)
(* HexToAddress and EqualFold all ignore it.  fromAddr.String() is the     *)
(* "0x"-prefixed checksum form.                                            *)
(***************************************************************************)
EXTENDS Naturals

CONSTANTS
    Addrs,       \* addresses a keystore can hold
    Zero,        \* the zero address, common.Address{}
    NoKey        \* the keystore or password file cannot be read or decrypted

ASSUME AddrsAssumption == Zero \notin Addrs /\ NoKey \notin Addrs \cup {Zero}

Prefixes == {"0x", "0X", "none"}

\* a well-formed hex address string
HexString(a, p) == [kind |-> "hex", addr |-> a, prefix |-> p]

\* the empty string, and a string that is not 40 hex digits
EmptyString == [kind |-> "empty", addr |-> Zero, prefix |-> "none"]
Malformed == [kind |-> "malformed", addr |-> Zero, prefix |-> "none"]

\* the values --sender can take
SenderArgs ==
    {EmptyString, Malformed}
        \cup {HexString(a, p) : a \in Addrs \cup {Zero}, p \in Prefixes}

VARIABLES
    dryRun,    \* opt.DryRun
    key,       \* address of the key the keystore file holds, or NoKey
    sender,    \* args.Sender
    fromAddr,  \* args.fromAddr
    result     \* "pending", then "ok" (setDefaults runs) or "error"

vars == <<dryRun, key, sender, fromAddr, result>>

-----------------------------------------------------------------------------
(* go-ethereum's common package, on the abstraction above *)

\* common.IsHexAddress: 40 hex digits, with or without a 0x/0X prefix
IsHexAddress(s) == s.kind = "hex"

\* common.HexToAddress of a well-formed string
HexToAddress(s) == s.addr

\* Address.String(): "0x" followed by the checksummed digits
AddrString(a) == HexString(a, "0x")

\* strings.EqualFold: equal up to case, so "0X" folds to "0x" but a string
\* without prefix is shorter than any "0x" string
EqualFold(s, t) ==
    /\ IsHexAddress(s) /\ IsHexAddress(t)
    /\ s.addr = t.addr
    /\ {s.prefix, t.prefix} \subseteq {"0x", "0X"} \/ s.prefix = t.prefix

-----------------------------------------------------------------------------
Init ==
    /\ dryRun \in BOOLEAN
    /\ key \in Addrs \cup {NoKey}
    /\ sender \in SenderArgs
    /\ fromAddr = Zero
    /\ result = "pending"

\* the final comparison of Check: a mismatch is an error, dry run or not
Compare ==
    result' = IF EqualFold(sender', AddrString(fromAddr')) THEN "ok" ELSE "error"

\* a --sender that is not a hex address is rejected first
WrongSender ==
    /\ result = "pending"
    /\ sender # EmptyString /\ ~IsHexAddress(sender)
    /\ result' = "error"
    /\ UNCHANGED <<dryRun, key, sender, fromAddr>>

\* loadKeyStore fails and the run is live: Check returns its error
KeyFailsLive ==
    /\ result = "pending"
    /\ sender = EmptyString \/ IsHexAddress(sender)
    /\ key = NoKey
    /\ ~dryRun
    /\ result' = "error"
    /\ UNCHANGED <<dryRun, key, sender, fromAddr>>

\* (bug variant) the key's address is taken without comparing the sender
KeyLoadedUnchecked ==
    /\ result = "pending"
    /\ sender = EmptyString \/ IsHexAddress(sender)
    /\ key # NoKey
    /\ fromAddr' = key
    /\ sender' = IF sender = EmptyString THEN AddrString(key) ELSE sender
    /\ result' = "ok"
    /\ UNCHANGED <<dryRun, key>>

\* loadKeyStore succeeds: fromAddr is the key's address, and an empty
\* sender becomes its string form; then the comparison
KeyLoaded ==
    /\ result = "pending"
    /\ sender = EmptyString \/ IsHexAddress(sender)
    /\ key # NoKey
    /\ fromAddr' = key
    /\ sender' = IF sender = EmptyString THEN AddrString(key) ELSE sender
    /\ Compare
    /\ UNCHANGED <<dryRun, key>>

\* (bug variant) the failed load's key is used as the sender's address
KeyFailsDryUsesKey ==
    /\ result = "pending"
    /\ sender = EmptyString \/ IsHexAddress(sender)
    /\ key = NoKey
    /\ dryRun
    /\ fromAddr' = key
    /\ sender' = IF sender # EmptyString THEN sender ELSE AddrString(fromAddr)
    /\ Compare
    /\ UNCHANGED <<dryRun, key>>

\* loadKeyStore fails in a dry run: the given sender is parsed into
\* fromAddr, or an empty sender becomes the zero address's string form;
\* then the comparison
KeyFailsDry ==
    /\ result = "pending"
    /\ sender = EmptyString \/ IsHexAddress(sender)
    /\ key = NoKey
    /\ dryRun
    /\ fromAddr' = IF sender # EmptyString THEN HexToAddress(sender) ELSE fromAddr
    /\ sender' = IF sender # EmptyString THEN sender ELSE AddrString(fromAddr)
    /\ Compare
    /\ UNCHANGED <<dryRun, key>>

Next == WrongSender \/ KeyFailsLive \/ KeyLoaded \/ KeyFailsDry

Spec == Init /\ [][Next]_vars

-----------------------------------------------------------------------------
(* Properties *)

TypeOK ==
    /\ dryRun \in BOOLEAN
    /\ key \in Addrs \cup {NoKey}
    /\ sender \in SenderArgs
    /\ fromAddr \in Addrs \cup {Zero}
    /\ result \in {"pending", "ok", "error"}

\* A live run that passes Check signs with the keystore's key, and the
\* sender it reports and queries the nonce of is that key's address
\* (spec section 3: the sender is derived from the key and authoritative;
\* sendtx.go:52-69 and loadKeyStore).
SignerIsSender ==
    (result = "ok" /\ ~dryRun) =>
        /\ key # NoKey
        /\ fromAddr = key
        /\ HexToAddress(sender) = key

\* A --sender that IsHexAddress accepts and that names the keystore's own
\* address passes Check (sendtx.go:49 accepts it; line 64 then compares).
MatchingSenderAccepted ==
    (IsHexAddress(sender) /\ key # NoKey /\ HexToAddress(sender) = key)
        => result # "error"

=============================================================================
