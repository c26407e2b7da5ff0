-------------------------- MODULE DistributerProofs --------------------------
(***************************************************************************)
(* Proofs about Distributer: type correctness, and that no input entry is  *)
(* ever submitted twice and no nonce of the run is reused.                 *)
(***************************************************************************)
EXTENDS Distributer, SequenceTheorems, TLAPS

(* The inductive invariant behind AtMostOncePerEntry and NoOwnNonceReuse:  *)
(* every transfer the run got accepted belongs to an entry the loop has    *)
(* passed and carries a nonce below the cached one, except the one whose  *)
(* send failed after being accepted, which ends the run.                   *)

\* before the loop the run has submitted nothing
OwnTxsLate ==
    pc \in {"check", "defaults", "validate"} => OwnTxs = {}

\* once it has, its nonce is resolved
OwnNonceResolved ==
    OwnTxs # {} => nonce \in Nat

\* each accepted transfer is behind the loop and below the cached nonce
OwnTxsBehind ==
    \A t \in OwnTxs :
        \/ t.entry < i /\ t.nonce < nonce
        \/ pc = "failed" /\ t.entry = i /\ t.nonce = nonce

\* one accepted transfer per entry
OwnTxsDistinct ==
    \A t1, t2 \in OwnTxs : t1.entry = t2.entry => t1 = t2

OwnTxInv ==
    /\ TypeOK
    /\ OwnTxsLate
    /\ OwnNonceResolved
    /\ OwnTxsBehind
    /\ OwnTxsDistinct

-----------------------------------------------------------------------------
(* Type correctness *)

USE BatchesAssumption, BalancesAssumption, NoncesAssumption,
    BoundsAssumption, FlagsAssumption

\* Writing the line of an entry of the batch keeps the ledger a sequence of
\* entries of the batch.
LEMMA WriteResultType ==
    ASSUME NEW S, NEW k \in S, ledger \in Seq(S), WriteResult(k)
    PROVE  ledger' \in Seq(S)
<1>1. PICK w \in IF WriteFails THEN BOOLEAN ELSE {TRUE} :
          ledger' = IF w THEN Append(ledger, k) ELSE ledger
      BY DEF WriteResult
<1>2. CASE w
      BY <1>1, <1>2, AppendProperties
<1>3. CASE ~w
      BY <1>1, <1>3
<1>. QED
     BY <1>2, <1>3

\* The entry the loop is at is an AccountStat of the batch.
LEMMA CurrentEntry ==
    ASSUME TypeOK, i <= Len(stats)
    PROVE  /\ i \in 1..Len(stats)
           /\ stats[i].reward \in Int
<1>1. i \in 1..Len(stats)
      BY DEF TypeOK
<1>2. stats[i] \in AccountStat
      BY <1>1, ElementOfSeq DEF TypeOK
<1>. QED
     BY <1>1, <1>2 DEF AccountStat

\* Every step keeps TypeOK: one step per action of Next.
LEMMA TypeStep == TypeOK /\ [Next]_vars => TypeOK'
<1> SUFFICES ASSUME TypeOK, [Next]_vars PROVE TypeOK'
    OBVIOUS
<1>1. CASE Check
      BY <1>1 DEF Check, TypeOK, PC
<1>2. CASE GetChainID
      BY <1>2 DEF GetChainID, TypeOK, PC
<1>3. CASE GetAccountNonce
      BY <1>3 DEF GetAccountNonce, TypeOK, PC
<1>4. CASE SuggestGasPrice
      BY <1>4 DEF SuggestGasPrice, TypeOK, PC
<1>5. CASE ValidateEmpty
      BY <1>5 DEF ValidateEmpty, TypeOK, PC
<1>6. CASE ValidatePass
      BY <1>6 DEF ValidatePass, TypeOK, PC
<1>7. CASE ValidateFail
      BY <1>7 DEF ValidateFail, TypeOK, PC
<1>8. CASE SkipReward
      BY <1>8 DEF SkipReward, TypeOK, PC
<1>9. CASE DryRunSend
      <2>1. i \in 1..Len(stats) /\ stats[i].reward \in Int
            BY <1>9, CurrentEntry DEF DryRunSend
      <2>2. ledger' \in Seq(1..Len(stats))
            BY <1>9, <2>1, WriteResultType DEF DryRunSend, TypeOK
      <2>. QED
           BY <1>9, <2>1, <2>2 DEF DryRunSend, TypeOK, PC
<1>10. CASE PrepareTx
       BY <1>10 DEF PrepareTx, TypeOK, PC
<1>11. CASE SendOk
       <2>1. i \in 1..Len(stats) /\ stats[i].reward \in Int
             <3>1. i <= Len(stats)
                   BY <1>11 DEF SendOk, TypeOK
             <3>. QED
                  BY <3>1, CurrentEntry
       <2>2. ledger' \in Seq(1..Len(stats))
             BY <1>11, <2>1, WriteResultType DEF SendOk, TypeOK
       <2>3. nonce \in Nat
             BY <1>11 DEF SendOk, TypeOK
       <2>4. pool' \subseteq [nonce : Nat, entry : 0..Len(stats)]
             BY <1>11, <2>1, <2>3 DEF SendOk, RawTx, TypeOK
       <2>. QED
            BY <1>11, <2>1, <2>2, <2>3, <2>4 DEF SendOk, TypeOK, PC
<1>12. CASE SendFail
       <2>1. i <= Len(stats) /\ nonce \in Nat
             <3>1. pc = "send"
                   BY <1>12 DEF SendFail
             <3>. QED
                  BY <3>1 DEF TypeOK
       <2>2. pool' \subseteq [nonce : Nat, entry : 0..Len(stats)]
             BY <1>12, <2>1 DEF SendFail, RawTx, TypeOK
       <2>. QED
            BY <1>12, <2>2 DEF SendFail, TypeOK, PC
<1>13. CASE Finish
       BY <1>13 DEF Finish, TypeOK, PC
<1>14. CASE Mine
       <2>1. PICK t \in pool : Mine!(t)
             BY <1>14 DEF Mine
       <2>2. t.entry # External => t.entry \in 1..Len(stats)
             BY DEF TypeOK, External
       <2>3. t.entry # External => stats[t.entry].reward \in Int
             <3>1. SUFFICES ASSUME t.entry # External
                            PROVE  stats[t.entry].reward \in Int
                   OBVIOUS
             <3>2. stats \in Seq(AccountStat) /\ t.entry \in 1..Len(stats)
                   BY <2>2, <3>1 DEF TypeOK
             <3>3. stats[t.entry] \in AccountStat
                   BY <3>2, ElementOfSeq
             <3>. QED
                  BY <3>3 DEF AccountStat
       <2>4. (IF t.entry = External THEN ExtSpend ELSE stats[t.entry].reward) \in Int
             BY <2>3
       <2>5. reverted' \subseteq 1..Len(stats)
             BY <2>1, <2>2 DEF TypeOK
       <2>6. balance' \in Int
             BY <2>1, <2>4 DEF TypeOK
       <2>. QED
            BY <2>1, <2>5, <2>6 DEF TypeOK, PC
<1>15. CASE ExternalTx
       BY <1>15 DEF ExternalTx, Acceptable, External, TypeOK, PC
<1>16. CASE UNCHANGED vars
       BY <1>16 DEF vars, TypeOK, PC
<1>. QED
     BY <1>1, <1>2, <1>3, <1>4, <1>5, <1>6, <1>7, <1>8, <1>9, <1>10,
        <1>11, <1>12, <1>13, <1>14, <1>15, <1>16 DEF Next, Run, Chain

\* Every initial state is well typed.
LEMMA InitType == Init => TypeOK
<1> SUFFICES ASSUME Init PROVE TypeOK
    OBVIOUS
<1>1. stats \in Seq(AccountStat)
      BY DEF Init
<1>2. << >> \in Seq(1..Len(stats))
      BY EmptySeq
<1>3. Len(stats) \in Nat
      BY <1>1, LenProperties
<1>4. nonce \in Nat \cup {NoNonce}
      BY DEF Init
<1>8. balance \in Int
      BY DEF Init
<1>5. i \in 1..Len(stats) + 1
      BY <1>3 DEF Init
<1>6. /\ ledger \in Seq(1..Len(stats))
      /\ pool \subseteq [nonce : Nat, entry : 0..Len(stats)]
      /\ reverted \subseteq 1..Len(stats)
      BY <1>2 DEF Init
<1>7. /\ pc = "check"
      /\ dryRun \in BOOLEAN /\ chainIDSet \in BOOLEAN /\ gasPriceSet \in BOOLEAN
      /\ rewardsSended = 0 /\ checkedBalance = 0
      /\ chainNonce = 0 /\ extCount = 0
      BY DEF Init
<1>. QED
     BY <1>1, <1>4, <1>5, <1>6, <1>7, <1>8 DEF TypeOK, PC

\* Type correctness: every reachable state is well typed.
THEOREM TypeCorrect == Spec => []TypeOK
<1>1. Init => TypeOK
      BY InitType
<1>2. QED
      BY <1>1, TypeStep, PTL DEF Spec

-----------------------------------------------------------------------------
(* No entry is submitted twice, no own nonce is reused *)

\* A step that leaves the run's accepted transfers, its position and its
\* nonce alone, and does not end the run, keeps the invariant.
LEMMA QuietStep ==
    ASSUME OwnTxInv, TypeOK',
           {t \in pool' : t.entry # External} = OwnTxs,
           UNCHANGED <<pc, i, nonce>>
    PROVE  OwnTxInv'
BY DEF OwnTxInv, OwnTxs, OwnTxsLate, OwnNonceResolved, OwnTxsBehind,
       OwnTxsDistinct

\* A step taken while the run has submitted nothing, that submits nothing,
\* keeps the invariant whatever else it changes.
LEMMA NothingSentStep ==
    ASSUME OwnTxInv, TypeOK', OwnTxs = {}, pool' = pool
    PROVE  OwnTxInv'
BY DEF OwnTxInv, OwnTxs, OwnTxsLate, OwnNonceResolved, OwnTxsBehind,
       OwnTxsDistinct

\* Every step keeps OwnTxInv: one step per action of Next.
LEMMA OwnTxStep == OwnTxInv /\ [Next]_vars => OwnTxInv'
<1> SUFFICES ASSUME OwnTxInv, [Next]_vars PROVE OwnTxInv'
    OBVIOUS
<1>0. TypeOK'
      BY TypeStep DEF OwnTxInv
<1>1. CASE Check \/ GetChainID \/ GetAccountNonce \/ SuggestGasPrice
                 \/ ValidateEmpty \/ ValidatePass \/ ValidateFail
      <2>1. pc \in {"check", "defaults", "validate"} /\ pool' = pool
            BY <1>1 DEF Check, GetChainID, GetAccountNonce, SuggestGasPrice,
                        ValidateEmpty, ValidatePass, ValidateFail
      <2>2. OwnTxs = {}
            BY <2>1 DEF OwnTxInv, OwnTxsLate
      <2>. QED
           BY <1>0, <2>1, <2>2, NothingSentStep
<1>2. CASE SkipReward \/ DryRunSend \/ Finish
      <2>1. /\ pc = "loop" /\ pc' \in {"loop", "done"}
            /\ pool' = pool /\ nonce' = nonce
            /\ i' \in {i, i + 1}
            BY <1>2 DEF SkipReward, DryRunSend, Finish
      <2>2. OwnTxsBehind'
            BY <2>1 DEF OwnTxInv, OwnTxsBehind, OwnTxs, TypeOK
      <2>. QED
           BY <1>0, <2>1, <2>2 DEF OwnTxInv, OwnTxs, OwnTxsLate,
                                   OwnNonceResolved, OwnTxsDistinct
<1>3. CASE PrepareTx
      <2>1. /\ pc = "loop" /\ pc' = "send"
            /\ pool' = pool /\ i' = i
            /\ nonce \in Nat /\ nonce' \in Nat /\ nonce' >= nonce
            BY <1>3 DEF PrepareTx, TypeOK, OwnTxInv
      <2>2. OwnTxsBehind'
            BY <2>1 DEF OwnTxInv, OwnTxsBehind, OwnTxs, TypeOK
      <2>. QED
           BY <1>0, <2>1, <2>2 DEF OwnTxInv, OwnTxs, OwnTxsLate,
                                   OwnNonceResolved, OwnTxsDistinct
<1>4. CASE SendOk
      <2> DEFINE new == RawTx(i)
      <2>1. /\ pc = "send" /\ pc' = "loop"
            /\ pool' = pool \cup {new}
            /\ nonce \in Nat /\ nonce' = nonce + 1 /\ i' = i + 1
            /\ new = [nonce |-> nonce, entry |-> i]
            /\ i \in Nat \ {0}
            BY <1>4 DEF SendOk, RawTx, TypeOK, OwnTxInv
      <2>2. {t \in pool' : t.entry # External} = OwnTxs \cup {new}
            BY <2>1 DEF OwnTxs, External
      <2>3. \A t \in OwnTxs : t.entry < i /\ t.nonce < nonce
            BY <2>1 DEF OwnTxInv, OwnTxsBehind
      <2>4. OwnTxsBehind'
            <3> SUFFICES ASSUME NEW t \in OwnTxs \cup {new}
                         PROVE  t.entry < i + 1 /\ t.nonce < nonce + 1
                BY <2>1, <2>2 DEF OwnTxsBehind, OwnTxs
            <3>1. t.nonce \in Nat /\ t.entry \in Nat
                  BY <2>1 DEF OwnTxInv, TypeOK, OwnTxs
            <3>2. t.entry <= i /\ t.nonce <= nonce
                  <4>1. CASE t = new
                        BY <2>1, <4>1
                  <4>2. CASE t \in OwnTxs
                        BY <2>1, <2>3, <3>1, <4>2
                  <4>. QED
                       BY <4>1, <4>2
            <3>. QED
                 BY <2>1, <3>1, <3>2
      <2>5. OwnTxsDistinct'
            BY <2>1, <2>2, <2>3 DEF OwnTxInv, OwnTxsDistinct, OwnTxs
      <2>. QED
           BY <1>0, <2>1, <2>4, <2>5 DEF OwnTxInv, OwnTxsLate, OwnNonceResolved
<1>5. CASE SendFail
      <2> DEFINE new == RawTx(i)
      <2>1. /\ pc = "send" /\ pc' = "failed"
            /\ pool' \in {pool, pool \cup {new}}
            /\ nonce \in Nat /\ nonce' = nonce /\ i' = i
            /\ new = [nonce |-> nonce, entry |-> i]
            /\ i \in Nat \ {0}
            BY <1>5 DEF SendFail, RawTx, TypeOK, OwnTxInv
      <2>2. {t \in pool' : t.entry # External} \subseteq OwnTxs \cup {new}
            BY <2>1 DEF OwnTxs, External
      <2>3. \A t \in OwnTxs : t.entry < i /\ t.nonce < nonce
            BY <2>1 DEF OwnTxInv, OwnTxsBehind
      <2>4. OwnTxsBehind'
            <3> SUFFICES ASSUME NEW t \in OwnTxs \cup {new}
                         PROVE  \/ t.entry < i /\ t.nonce < nonce
                                \/ t.entry = i /\ t.nonce = nonce
                BY <2>1, <2>2 DEF OwnTxsBehind, OwnTxs
            <3>1. CASE t = new
                  BY <2>1, <3>1
            <3>2. CASE t \in OwnTxs
                  BY <2>3, <3>2
            <3>. QED
                 BY <3>1, <3>2
      <2>5. OwnTxsDistinct'
            BY <2>1, <2>2, <2>3 DEF OwnTxInv, OwnTxsDistinct, OwnTxs
      <2>. QED
           BY <1>0, <2>1, <2>4, <2>5 DEF OwnTxInv, OwnTxsLate, OwnNonceResolved
<1>6. CASE Mine \/ ExternalTx \/ UNCHANGED vars
      <2>1. UNCHANGED <<pc, i, nonce>>
            BY <1>6 DEF Mine, ExternalTx, vars
      <2>3. {t \in pool' : t.entry # External} = OwnTxs
            <3>1. CASE Mine \/ UNCHANGED vars
                  BY <3>1 DEF Mine, vars, OwnTxs
            <3>2. CASE ExternalTx
                  <4>1. PICK n \in Int :
                            pool' = pool \cup {[nonce |-> n, entry |-> External]}
                        BY <3>2 DEF ExternalTx
                  <4>. QED
                       BY <4>1 DEF OwnTxs
            <3>. QED
                 BY <1>6, <3>1, <3>2
      <2>. QED
           BY <1>0, <2>1, <2>3, QuietStep
<1>. QED
     BY <1>1, <1>2, <1>3, <1>4, <1>5, <1>6 DEF Next, Run, Chain

\* The specification keeps OwnTxInv in every reachable state.
THEOREM OwnTxInvariant == Spec => []OwnTxInv
<1>1. Init => OwnTxInv
      <2> SUFFICES ASSUME Init PROVE OwnTxInv
          OBVIOUS
      <2>1. TypeOK
            BY InitType
      <2>2. OwnTxs = {}
            BY DEF Init, OwnTxs
      <2>. QED
           BY <2>1, <2>2 DEF OwnTxInv, OwnTxsLate, OwnNonceResolved,
                             OwnTxsBehind, OwnTxsDistinct
<1>2. QED
      BY <1>1, OwnTxStep, PTL DEF Spec

\* No input entry is ever submitted twice, in every run and for every
\* batch, balance and fault setting.
THEOREM NoDoubleSubmission == Spec => []AtMostOncePerEntry
<1>1. OwnTxInv => AtMostOncePerEntry
      BY DEF OwnTxInv, OwnTxsDistinct, AtMostOncePerEntry
<1>2. QED
      BY <1>1, OwnTxInvariant, PTL

\* The transaction about to be sent never carries a nonce the run already
\* had accepted.
THEOREM NoNonceReuse == Spec => []NoOwnNonceReuse
<1>1. OwnTxInv => NoOwnNonceReuse
      <2> SUFFICES ASSUME OwnTxInv, pc = "send"
                   PROVE  nonce \notin {t.nonce : t \in OwnTxs}
          BY DEF NoOwnNonceReuse
      <2>1. \A t \in OwnTxs : t.nonce < nonce
            BY DEF OwnTxInv, OwnTxsBehind
      <2>2. \A t \in OwnTxs : t.nonce \in Nat
            BY DEF OwnTxInv, TypeOK, OwnTxs
      <2>. QED
           BY <2>1, <2>2
<1>2. QED
      BY <1>1, OwnTxInvariant, PTL

-----------------------------------------------------------------------------
(* The output file *)

\* appending one element adds it to the range
LEMMA RangeAppend ==
    ASSUME NEW S, NEW s \in Seq(S), NEW e \in S
    PROVE  Range(Append(s, e)) = Range(s) \cup {e}
<1>1. /\ Append(s, e) \in Seq(S)
      /\ Len(Append(s, e)) = Len(s) + 1
      /\ \A k \in 1..Len(s) : Append(s, e)[k] = s[k]
      /\ Append(s, e)[Len(s) + 1] = e
      BY AppendProperties
<1>2. DOMAIN Append(s, e) = 1..(Len(s) + 1) /\ DOMAIN s = 1..Len(s)
      /\ Len(s) \in Nat
      BY <1>1, LenProperties
<1>3. Range(Append(s, e)) = {Append(s, e)[k] : k \in 1..(Len(s) + 1)}
      BY <1>2 DEF Range
<1>4. Range(s) = {s[k] : k \in 1..Len(s)}
      BY <1>2 DEF Range
<1>5. 1..(Len(s) + 1) = (1..Len(s)) \cup {Len(s) + 1}
      BY <1>2
<1>. QED
     BY <1>1, <1>3, <1>4, <1>5

\* the send step is reached only in a live run, for a positive entry
SendGuard ==
    pc = "send" => ~dryRun /\ stats[i].reward > 0

LEMMA SendGuardStep ==
    TypeOK /\ SendGuard /\ [Next]_vars => SendGuard'
<1> SUFFICES ASSUME TypeOK, SendGuard, [Next]_vars PROVE SendGuard'
    OBVIOUS
<1>1. CASE Check
      BY <1>1 DEF Check, SendGuard
<1>2. CASE GetChainID
      BY <1>2 DEF GetChainID, SendGuard
<1>3. CASE GetAccountNonce
      BY <1>3 DEF GetAccountNonce, SendGuard
<1>4. CASE SuggestGasPrice
      BY <1>4 DEF SuggestGasPrice, SendGuard
<1>5. CASE ValidateEmpty
      BY <1>5 DEF ValidateEmpty, SendGuard
<1>6. CASE ValidatePass
      BY <1>6 DEF ValidatePass, SendGuard
<1>7. CASE ValidateFail
      BY <1>7 DEF ValidateFail, SendGuard
<1>8. CASE SkipReward
      BY <1>8 DEF SkipReward, SendGuard
<1>9. CASE DryRunSend
      BY <1>9 DEF DryRunSend, SendGuard
<1>10. CASE PrepareTx
       BY <1>10 DEF PrepareTx, SendGuard
<1>11. CASE SendOk
       BY <1>11 DEF SendOk, SendGuard
<1>12. CASE SendFail
       BY <1>12 DEF SendFail, SendGuard
<1>13. CASE Finish
       BY <1>13 DEF Finish, SendGuard
<1>14. CASE Mine
       BY <1>14 DEF Mine, SendGuard
<1>15. CASE ExternalTx
       BY <1>15 DEF ExternalTx, SendGuard
<1>16. CASE UNCHANGED vars
       BY <1>16 DEF vars, SendGuard
<1>. QED
     BY <1>1, <1>2, <1>3, <1>4, <1>5, <1>6, <1>7, <1>8, <1>9, <1>10,
        <1>11, <1>12, <1>13, <1>14, <1>15, <1>16 DEF Next, Run, Chain

\* the ledger lines are the positive entries before i, in increasing order
LedgerInv == TypeOK /\ SendGuard /\ LedgerFaithful

\* A step that leaves the batch, the loop index and the ledger alone
\* keeps LedgerFaithful.
LEMMA LedgerQuiet ==
    ASSUME LedgerFaithful, UNCHANGED <<stats, i, ledger>>
    PROVE  LedgerFaithful'
BY DEF LedgerFaithful

\* Skipping an entry whose reward is not positive adds no line and none is
\* due.
LEMMA LedgerSkip ==
    ASSUME TypeOK, LedgerFaithful, i <= Len(stats), stats[i].reward <= 0,
           i' = i + 1, UNCHANGED <<stats, ledger>>
    PROVE  LedgerFaithful'
<1>1. i \in 1..Len(stats) /\ stats[i].reward \in Int
      BY CurrentEntry
<1>2. {k \in 1..(i' - 1) : stats'[k].reward > 0}
        = {k \in 1..(i - 1) : stats[k].reward > 0}
      BY <1>1
<1>. QED
     BY <1>2 DEF LedgerFaithful

\* Writing the line of a positive entry keeps the ledger in order and in
\* step with the loop index.
LEMMA LedgerWrite ==
    ASSUME TypeOK, LedgerFaithful, i <= Len(stats), stats[i].reward > 0,
           ledger' = Append(ledger, i), i' = i + 1, UNCHANGED stats
    PROVE  LedgerFaithful'
<1>1. i \in 1..Len(stats) /\ stats[i].reward \in Int
      BY CurrentEntry
<1>2. ledger \in Seq(1..Len(stats))
      BY DEF TypeOK
<1>3. Range(ledger') = Range(ledger) \cup {i}
      BY <1>1, <1>2, RangeAppend
<1>4. Range(ledger') = {k \in 1..(i' - 1) : stats'[k].reward > 0}
      <2>1. Range(ledger) = {k \in 1..(i - 1) : stats[k].reward > 0}
            BY DEF LedgerFaithful
      <2>. QED
           BY <1>1, <1>3, <2>1
<1>5. \A a, b \in DOMAIN ledger' : a < b => ledger'[a] < ledger'[b]
      <2>1. /\ Len(ledger') = Len(ledger) + 1
            /\ \A k \in 1..Len(ledger) : ledger'[k] = ledger[k]
            /\ ledger'[Len(ledger) + 1] = i
            BY <1>1, <1>2, AppendProperties
      <2>2. DOMAIN ledger' = 1..(Len(ledger) + 1) /\ DOMAIN ledger = 1..Len(ledger)
            /\ Len(ledger) \in Nat
            BY <1>1, <1>2, AppendProperties, LenProperties
      <2>3. \A k \in 1..Len(ledger) : ledger[k] < i
            <3>1. \A k \in 1..Len(ledger) : ledger[k] \in Range(ledger)
                  BY <2>2 DEF Range
            <3>2. Range(ledger) \subseteq 1..(i - 1)
                  <4>1. Range(ledger) = {k \in 1..(i - 1) : stats[k].reward > 0}
                        BY DEF LedgerFaithful
                  <4>. QED
                       BY <4>1
            <3>3. i \in Int
                  BY <1>1
            <3>. QED
                 BY <3>1, <3>2, <3>3
      <2>4. \A a, b \in DOMAIN ledger : a < b => ledger[a] < ledger[b]
            BY DEF LedgerFaithful
      <2>. TAKE a, b \in DOMAIN ledger'
      <2>5. CASE b = Len(ledger) + 1
            BY <2>1, <2>2, <2>3, <2>5
      <2>6. CASE b \in 1..Len(ledger)
            BY <2>1, <2>2, <2>4, <2>6
      <2>. QED
           BY <2>2, <2>5, <2>6
<1>. QED
     BY <1>4, <1>5 DEF LedgerFaithful


\* With every write succeeding, a step keeps the ledger faithful.
LEMMA LedgerStep ==
    ASSUME WriteFails = FALSE, LedgerInv, [Next]_vars
    PROVE  LedgerFaithful'
<1>. USE DEF LedgerInv
<1>1. CASE SkipReward
      BY <1>1, LedgerSkip DEF SkipReward
<1>2. CASE DryRunSend
      <2>1. ledger' = Append(ledger, i)
            BY <1>2 DEF DryRunSend, WriteResult
      <2>. QED
           BY <1>2, <2>1, LedgerWrite DEF DryRunSend
<1>3. CASE SendOk
      <2>1. ledger' = Append(ledger, i)
            BY <1>3 DEF SendOk, WriteResult
      <2>2. i <= Len(stats) /\ stats[i].reward > 0
            BY <1>3 DEF SendOk, TypeOK, SendGuard
      <2>. QED
           BY <1>3, <2>1, <2>2, LedgerWrite DEF SendOk
<1>4. CASE ~SkipReward /\ ~DryRunSend /\ ~SendOk
      <2>. UNCHANGED <<stats, i, ledger>>
           BY <1>4 DEF Next, Run, Chain, vars, Check, GetChainID,
                  GetAccountNonce, SuggestGasPrice, ValidateEmpty,
                  ValidatePass, ValidateFail, PrepareTx, SendFail, Finish,
                  Mine, ExternalTx
      <2>. QED
           BY LedgerQuiet
<1>. QED
     BY <1>1, <1>2, <1>3, <1>4

\* When every write to the output file succeeds, the file lists, in input
\* order and once each, exactly the positive-reward entries the send loop
\* has got past (sendtx.go:272-291).  The hypothesis is the point: the loop
\* discards the error of the write (the run distributer_write_fails), and
\* then a sent transfer can miss its line.
THEOREM LedgerExact == WriteFails = FALSE => (Spec => []LedgerFaithful)
<1>. SUFFICES ASSUME WriteFails = FALSE PROVE Spec => []LedgerFaithful
     OBVIOUS
<1>1. Init => LedgerInv
      <2> SUFFICES ASSUME Init PROVE LedgerInv
          OBVIOUS
      <2>1. TypeOK
            BY InitType
      <2>2. Range(ledger) = {} /\ DOMAIN ledger = {}
            BY DEF Init, Range
      <2>3. {k \in 1..(i - 1) : stats[k].reward > 0} = {}
            BY DEF Init
      <2>. QED
           BY <2>1, <2>2, <2>3 DEF Init, LedgerInv, SendGuard, LedgerFaithful
<1>2. LedgerInv /\ [Next]_vars => LedgerInv'
      BY TypeStep, SendGuardStep, LedgerStep DEF LedgerInv
<1>3. LedgerInv => LedgerFaithful
      BY DEF LedgerInv
<1>. QED
     BY <1>1, <1>2, <1>3, PTL DEF Spec


\* the output lines of a live run are backed by accepted transfers
BackedInv == TypeOK /\ SendGuard /\ LedgerBacked

\* A step that leaves the flag, the ledger and the run's own transfers
\* alone keeps LedgerBacked.
LEMMA BackedQuiet ==
    ASSUME LedgerBacked, UNCHANGED <<dryRun, ledger>>,
           {t \in pool' : t.entry # External} = OwnTxs
    PROVE  LedgerBacked'
BY DEF LedgerBacked, OwnTxs

\* A send by the live run adds its transfer to the pool and at most the line
\* of the same entry to the ledger.
LEMMA BackedSend ==
    ASSUME TypeOK, LedgerBacked, ~dryRun, UNCHANGED dryRun,
           i \in 1..Len(stats),
           pool' = pool \cup {RawTx(i)} \/ UNCHANGED pool,
           ledger' = Append(ledger, i) \/ UNCHANGED ledger,
           ledger' # ledger => pool' = pool \cup {RawTx(i)}
    PROVE  LedgerBacked'
<1>1. OwnTxs \subseteq {t \in pool' : t.entry # External}
      BY DEF OwnTxs
<1>2. Range(ledger') \subseteq Range(ledger) \cup {i}
      <2>1. ledger \in Seq(1..Len(stats))
            BY DEF TypeOK
      <2>2. CASE ledger' = Append(ledger, i)
            BY <2>1, <2>2, RangeAppend
      <2>. QED
           BY <2>2
<1>3. ASSUME NEW k \in Range(ledger')
      PROVE  \E t \in pool' : t.entry # External /\ t.entry = k
      <2>1. CASE k \in Range(ledger)
            BY <1>1, <2>1 DEF LedgerBacked, OwnTxs
      <2>2. CASE k = i /\ k \notin Range(ledger)
            <3>1. ledger' # ledger
                  BY <2>2
            <3>2. RawTx(i) \in pool' /\ RawTx(i).entry = i
                  BY <3>1 DEF RawTx
            <3>. QED
                 BY <2>2, <3>2 DEF External
      <2>. QED
           BY <1>2, <2>1, <2>2
<1>. QED
     BY <1>3 DEF LedgerBacked, OwnTxs

\* The ledger of a live run stays backed, and a dry run submits nothing.
LEMMA BackedStep ==
    ASSUME BackedInv, [Next]_vars
    PROVE  LedgerBacked'
<1>. USE DEF BackedInv
<1>1. CASE SendOk
      <2>1. ~dryRun /\ i \in 1..Len(stats)
            BY <1>1, CurrentEntry DEF SendOk, SendGuard, TypeOK
      <2>. QED
           BY <1>1, <2>1, BackedSend DEF SendOk, WriteResult
<1>2. CASE SendFail
      <2>1. ~dryRun /\ i \in 1..Len(stats)
            BY <1>2, CurrentEntry DEF SendFail, SendGuard, TypeOK
      <2>. QED
           BY <1>2, <2>1, BackedSend DEF SendFail
<1>3. CASE DryRunSend
      BY <1>3 DEF DryRunSend, LedgerBacked, OwnTxs
<1>4. CASE ExternalTx
      <2>1. {t \in pool' : t.entry # External} = OwnTxs
            BY <1>4 DEF ExternalTx, OwnTxs
      <2>. QED
           BY <1>4, <2>1, BackedQuiet DEF ExternalTx
<1>5. CASE ~SendOk /\ ~SendFail /\ ~DryRunSend /\ ~ExternalTx
      <2>. UNCHANGED <<dryRun, ledger, pool>>
           BY <1>5 DEF Next, Run, Chain, vars, Check, GetChainID,
                  GetAccountNonce, SuggestGasPrice, ValidateEmpty,
                  ValidatePass, ValidateFail, SkipReward, PrepareTx, Finish,
                  Mine
      <2>. QED
           BY BackedQuiet DEF OwnTxs
<1>. QED
     BY <1>1, <1>2, <1>3, <1>4, <1>5

\* Outside a dry run every line of the output file stands for a transfer an
\* endpoint accepted, and a dry run submits nothing: a line is written only
\* after SendTransaction returned, and the dry-run branch returns before
\* signing (sendtx.go:142-145, 171-175).  Unlike LedgerExact this holds
\* whether or not the writes fail.
THEOREM LedgerBackedInvariant == Spec => []LedgerBacked
<1>1. Init => BackedInv
      <2> SUFFICES ASSUME Init PROVE BackedInv
          OBVIOUS
      <2>1. TypeOK
            BY InitType
      <2>2. Range(ledger) = {} /\ OwnTxs = {}
            BY DEF Init, Range, OwnTxs
      <2>. QED
           BY <2>1, <2>2 DEF Init, BackedInv, SendGuard, LedgerBacked
<1>2. BackedInv /\ [Next]_vars => BackedInv'
      BY TypeStep, SendGuardStep, BackedStep DEF BackedInv
<1>. QED
     BY <1>1, <1>2, PTL DEF Spec, BackedInv


\* the step of NonceNeverLowered
NonceStep == nonce \in Nat => nonce' \in Nat /\ nonce' >= nonce

LEMMA NonceStepHolds == TypeOK /\ [Next]_vars => [NonceStep]_vars
<1> SUFFICES ASSUME TypeOK, [Next]_vars, nonce \in Nat
             PROVE  nonce' \in Nat /\ nonce' >= nonce
    BY DEF NonceStep
<1>1. CASE GetAccountNonce
      BY <1>1, NoncesAssumption DEF GetAccountNonce
<1>2. CASE PrepareTx
      <2>1. chainNonce \in Nat
            BY DEF TypeOK
      <2>. QED
           BY <1>2, <2>1 DEF PrepareTx
<1>3. CASE SendOk
      BY <1>3 DEF SendOk
<1>4. CASE ~GetAccountNonce /\ ~PrepareTx /\ ~SendOk
      <2>. UNCHANGED nonce
           BY <1>4 DEF Next, Run, Chain, vars, Check, GetChainID,
                  SuggestGasPrice, ValidateEmpty, ValidatePass, ValidateFail,
                  SkipReward, DryRunSend, SendFail, Finish, Mine, ExternalTx
      <2>. QED
           OBVIOUS
<1>. QED
     BY <1>1, <1>2, <1>3, <1>4

\* The cached nonce, once known, is never lowered: the reconciliation with
\* the live nonce keeps the greater of the two and an accepted send
\* increments it (sendtx.go:152-157, 175).
THEOREM NonceMonotone == Spec => NonceNeverLowered
<1>1. []TypeOK /\ [][Next]_vars => [][NonceStep]_vars
      BY NonceStepHolds, PTL
<1>. QED
     BY <1>1, TypeCorrect, PTL DEF Spec, NonceNeverLowered, NonceStep


=============================================================================
