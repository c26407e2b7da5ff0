---------------------------- MODULE FailoverLemmas ----------------------------
(***************************************************************************)
(* The outcome sequences of a failover round, as the Gateway and the       *)
(* SyncerClients proofs use them: the clients 1..n all failed, or 1..n-1   *)
(* failed and n answered; and what appending one more outcome gives.       *)
(***************************************************************************)
EXTENDS Naturals, Sequences, SequenceTheorems, TLAPS

\* the clients 1..n all failed in the current round
AllFailed(n) == [k \in 1..n |-> FALSE]

\* the results of a round in which clients 1..n-1 failed and n answered
AnsweredAt(n) == [k \in 1..n |-> k = n]

-----------------------------------------------------------------------------
\* the results of a round in which clients 1..n failed
LEMMA EmptyFailed == AllFailed(0) = << >>
BY DEF AllFailed

LEMMA FailedType ==
    ASSUME NEW n \in Nat
    PROVE  AllFailed(n) \in Seq(BOOLEAN) /\ Len(AllFailed(n)) = n
BY DEF AllFailed

LEMMA AnsweredType ==
    ASSUME NEW n \in Nat
    PROVE  AnsweredAt(n) \in Seq(BOOLEAN) /\ Len(AnsweredAt(n)) = n
BY DEF AnsweredAt

\* Append on Boolean sequences, as AppendProperties states it
LEMMA AppendBool ==
    ASSUME NEW s \in Seq(BOOLEAN), NEW b \in BOOLEAN
    PROVE  /\ Append(s, b) \in Seq(BOOLEAN)
           /\ Len(Append(s, b)) = Len(s) + 1
           /\ \A i \in 1..Len(s) : Append(s, b)[i] = s[i]
           /\ Append(s, b)[Len(s) + 1] = b
BY AppendProperties

\* one more client fails
LEMMA AppendFailed ==
    ASSUME NEW n \in Nat
    PROVE  Append(AllFailed(n), FALSE) = AllFailed(n + 1)
<1>1. AllFailed(n) \in Seq(BOOLEAN) /\ Len(AllFailed(n)) = n
      BY FailedType
<1>2. AllFailed(n + 1) \in Seq(BOOLEAN) /\ Len(AllFailed(n + 1)) = n + 1
      BY FailedType
<1>3. /\ Append(AllFailed(n), FALSE) \in Seq(BOOLEAN)
      /\ Len(Append(AllFailed(n), FALSE)) = n + 1
      /\ \A i \in 1..n : Append(AllFailed(n), FALSE)[i] = AllFailed(n)[i]
      /\ Append(AllFailed(n), FALSE)[n + 1] = FALSE
      BY <1>1, AppendBool
<1>4. \A k \in 1..(n + 1) : Append(AllFailed(n), FALSE)[k] = AllFailed(n + 1)[k]
      <2>. TAKE k \in 1..(n + 1)
      <2>1. CASE k \in 1..n
            <3>1. Append(AllFailed(n), FALSE)[k] = FALSE
                  BY <1>3, <2>1 DEF AllFailed
            <3>2. AllFailed(n + 1)[k] = FALSE
                  BY <2>1 DEF AllFailed
            <3>. QED
                 BY <3>1, <3>2
      <2>2. CASE k = n + 1
            <3>1. Append(AllFailed(n), FALSE)[k] = FALSE
                  BY <1>3, <2>2
            <3>2. AllFailed(n + 1)[k] = FALSE
                  BY <2>2 DEF AllFailed
            <3>. QED
                 BY <3>1, <3>2
      <2>3. k \in 1..n \/ k = n + 1
            OBVIOUS
      <2>. QED
           BY <2>1, <2>2, <2>3
<1>. QED
     BY <1>2, <1>3, <1>4, SeqEqual

\* client n+1 answers after clients 1..n failed
LEMMA AppendAnswer ==
    ASSUME NEW n \in Nat
    PROVE  Append(AllFailed(n), TRUE) = AnsweredAt(n + 1)
<1>1. AllFailed(n) \in Seq(BOOLEAN) /\ Len(AllFailed(n)) = n
      BY FailedType
<1>2. AnsweredAt(n + 1) \in Seq(BOOLEAN) /\ Len(AnsweredAt(n + 1)) = n + 1
      BY AnsweredType
<1>3. /\ Append(AllFailed(n), TRUE) \in Seq(BOOLEAN)
      /\ Len(Append(AllFailed(n), TRUE)) = n + 1
      /\ \A i \in 1..n : Append(AllFailed(n), TRUE)[i] = AllFailed(n)[i]
      /\ Append(AllFailed(n), TRUE)[n + 1] = TRUE
      BY <1>1, AppendBool
<1>4. \A k \in 1..(n + 1) : Append(AllFailed(n), TRUE)[k] = AnsweredAt(n + 1)[k]
      <2>. TAKE k \in 1..(n + 1)
      <2>1. CASE k \in 1..n
            <3>1. Append(AllFailed(n), TRUE)[k] = FALSE
                  BY <1>3, <2>1 DEF AllFailed
            <3>2. AnsweredAt(n + 1)[k] = FALSE
                  <4>1. k # n + 1 /\ k \in 1..(n + 1)
                        BY <2>1
                  <4>2. AnsweredAt(n + 1)[k] = (k = n + 1)
                        BY <4>1, Zenon DEF AnsweredAt
                  <4>. QED
                       BY <4>1, <4>2, Zenon
            <3>. QED
                 BY <3>1, <3>2
      <2>2. CASE k = n + 1
            <3>1. Append(AllFailed(n), TRUE)[k] = TRUE
                  BY <1>3, <2>2
            <3>2. AnsweredAt(n + 1)[k] = TRUE
                  <4>1. AnsweredAt(n + 1)[k] = (k = n + 1)
                        BY Zenon DEF AnsweredAt
                  <4>. QED
                       BY <2>2, <4>1, Zenon
            <3>. QED
                 BY <3>1, <3>2
      <2>3. k \in 1..n \/ k = n + 1
            OBVIOUS
      <2>. QED
           BY <2>1, <2>2, <2>3
<1>. QED
     BY <1>2, <1>3, <1>4, SeqEqual

=============================================================================
