-------------------------- MODULE SenderCheckProofs --------------------------
(***************************************************************************)
(* Proofs about SenderCheck: Check and loadKeyStore keep their types, and *)
(* a live run that passes Check signs with the key of the sender it        *)
(* reports, for every set of keystore addresses.                           *)
(***************************************************************************)
EXTENDS SenderCheck, TLAPS

USE AddrsAssumption

\* the strings a well-formed --sender can be
LEMMA HexSenders ==
    ASSUME NEW s \in SenderArgs, IsHexAddress(s)
    PROVE  /\ s.addr \in Addrs \cup {Zero}
           /\ s \in {HexString(a, p) : a \in Addrs \cup {Zero}, p \in Prefixes}
BY DEF SenderArgs, IsHexAddress, HexString, EmptyString, Malformed

\* the string form of an address is a --sender value
LEMMA AddrStringType ==
    ASSUME NEW a \in Addrs \cup {Zero}
    PROVE  AddrString(a) \in SenderArgs
BY DEF AddrString, SenderArgs, Prefixes

\* a successful comparison names the address it was compared with
LEMMA EqualFoldAddr ==
    ASSUME NEW s, NEW a, EqualFold(s, AddrString(a))
    PROVE  HexToAddress(s) = a
BY DEF EqualFold, AddrString, HexString, HexToAddress

\* the comparison yields "ok" or "error"
LEMMA CompareType == Compare => result' \in {"ok", "error"}
BY DEF Compare

\* Every step keeps the types.
LEMMA TypeStep == TypeOK /\ [Next]_vars => TypeOK'
<1> SUFFICES ASSUME TypeOK, [Next]_vars PROVE TypeOK'
    OBVIOUS
<1>1. CASE WrongSender
      BY <1>1 DEF WrongSender, TypeOK
<1>2. CASE KeyFailsLive
      BY <1>2 DEF KeyFailsLive, TypeOK
<1>3. CASE KeyLoaded
      <2>1. key \in Addrs
            BY <1>3 DEF KeyLoaded, TypeOK
      <2>2. fromAddr' \in Addrs \cup {Zero}
            BY <1>3, <2>1 DEF KeyLoaded
      <2>3. sender' \in SenderArgs
            BY <1>3, <2>1, AddrStringType DEF KeyLoaded, TypeOK
      <2>4. result' \in {"pending", "ok", "error"}
            BY <1>3, CompareType DEF KeyLoaded
      <2>. QED
           BY <1>3, <2>2, <2>3, <2>4 DEF KeyLoaded, TypeOK
<1>4. CASE KeyFailsDry
      <2>1. fromAddr' \in Addrs \cup {Zero}
            <3>1. CASE sender # EmptyString
                  <4>1. IsHexAddress(sender)
                        BY <1>4, <3>1 DEF KeyFailsDry
                  <4>. QED
                       BY <1>4, <3>1, <4>1, HexSenders DEF KeyFailsDry, TypeOK,
                          HexToAddress
            <3>2. CASE sender = EmptyString
                  BY <1>4, <3>2 DEF KeyFailsDry, TypeOK
            <3>. QED
                 BY <3>1, <3>2
      <2>2. sender' \in SenderArgs
            BY <1>4, AddrStringType DEF KeyFailsDry, TypeOK
      <2>3. result' \in {"pending", "ok", "error"}
            BY <1>4, CompareType DEF KeyFailsDry
      <2>. QED
           BY <1>4, <2>1, <2>2, <2>3 DEF KeyFailsDry, TypeOK
<1>5. CASE UNCHANGED vars
      BY <1>5 DEF vars, TypeOK
<1>. QED
     BY <1>1, <1>2, <1>3, <1>4, <1>5 DEF Next

\* Check's sender parameters keep their types, whatever the --sender string
\* and the keystore (sendtx.go:47-99).
THEOREM TypeCorrect == Spec => []TypeOK
<1>1. Init => TypeOK
      BY DEF Init, TypeOK
<1>2. TypeOK /\ [Next]_vars => TypeOK'
      BY TypeStep
<1>. QED
     BY <1>1, <1>2, PTL DEF Spec

-----------------------------------------------------------------------------
(* SignerIsSender *)

\* Every step keeps SignerIsSender.  Only KeyLoaded can end a live run
\* with "ok", and its comparison ties the sender to the key; after Check
\* has returned, no step changes anything.
LEMMA SignerStep ==
    TypeOK /\ SignerIsSender /\ [Next]_vars => SignerIsSender'
<1> SUFFICES ASSUME TypeOK, SignerIsSender, [Next]_vars PROVE SignerIsSender'
    OBVIOUS
<1>1. CASE WrongSender \/ KeyFailsLive
      BY <1>1 DEF WrongSender, KeyFailsLive, SignerIsSender
<1>2. CASE KeyLoaded
      <2>1. SUFFICES ASSUME result' = "ok", ~dryRun'
                     PROVE  key' # NoKey /\ fromAddr' = key' /\ HexToAddress(sender') = key'
            BY DEF SignerIsSender
      <2>2. key # NoKey /\ fromAddr' = key /\ key' = key
            BY <1>2 DEF KeyLoaded
      <2>3. EqualFold(sender', AddrString(fromAddr'))
            BY <1>2, <2>1 DEF KeyLoaded, Compare
      <2>4. HexToAddress(sender') = key
            BY <2>2, <2>3, EqualFoldAddr
      <2>. QED
           BY <2>2, <2>4
<1>3. CASE KeyFailsDry
      BY <1>3 DEF KeyFailsDry, SignerIsSender
<1>4. CASE UNCHANGED vars
      BY <1>4 DEF vars, SignerIsSender
<1>. QED
     BY <1>1, <1>2, <1>3, <1>4 DEF Next

\* A live run that passes Check has loaded a key, and both fromAddr and the
\* sender it reports (whose nonce setDefaults queries) are that key's
\* address: no transaction is signed for another account than the one its
\* nonce came from (sendtx.go:52-69, 72-98).
THEOREM SignerMatchesSender == Spec => []SignerIsSender
<1>1. Init => SignerIsSender
      BY DEF Init, SignerIsSender
<1>2. TypeOK /\ SignerIsSender /\ [Next]_vars => SignerIsSender'
      BY SignerStep
<1>. QED
     BY <1>1, <1>2, TypeCorrect, PTL DEF Spec

=============================================================================
