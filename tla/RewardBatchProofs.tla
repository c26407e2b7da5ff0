--------------------------- MODULE RewardBatchProofs ---------------------------
(***************************************************************************)
(* The run of Distributer implements the pipeline of RewardBatch, when the *)
(* writes to the output file succeed.  The setDefaults queries, the nonce  *)
(* reconciliation and the chain are stutters of the pipeline; each step of *)
(* the send loop is one of its steps.                                      *)
(***************************************************************************)
EXTENDS DistributerProofs

-----------------------------------------------------------------------------
(* The accepted entries *)

\* A step that adds no transfer of the run keeps the accepted entries.
LEMMA SubmittedKept ==
    ASSUME {t \in pool' : t.entry # External} = OwnTxs
    PROVE  Submitted' = Submitted
BY DEF Submitted, OwnTxs

\* Pooling the transfer of entry i accepts that entry.
LEMMA SubmittedAdd ==
    ASSUME i \in Nat \ {0}, pool' = pool \cup {RawTx(i)}
    PROVE  Submitted' = Submitted \cup {i}
<1>1. RawTx(i).entry = i /\ i # External
      BY DEF RawTx, External
<1>2. OwnTxs' = OwnTxs \cup {RawTx(i)}
      BY <1>1 DEF OwnTxs
<1>. QED
     BY <1>1, <1>2 DEF Submitted

-----------------------------------------------------------------------------
(* Steps *)

\* the initial state of the run is an initial state of the pipeline
LEMMA BatchInit == Init => RB!Init
<1> SUFFICES ASSUME Init PROVE RB!Init
    OBVIOUS
<1>1. Status = "setup"
      BY DEF Init, Status
<1>2. Submitted = {}
      BY DEF Init, Submitted, OwnTxs
<1>. QED
     BY <1>1, <1>2 DEF Init, RB!Init

\* A step that keeps the phase and leaves the batch, the flag, the loop
\* index, the ledger, the count and the accepted entries alone is a stutter.
LEMMA BatchStutter ==
    ASSUME Status' = Status, Submitted' = Submitted,
           UNCHANGED <<stats, dryRun, i, ledger, rewardsSended>>
    PROVE  UNCHANGED RB!vars
BY DEF RB!vars

\* Every step of the run is a step of the pipeline or a stutter of it.
LEMMA BatchStep ==
    ASSUME WriteFails = FALSE, TypeOK, SendGuard, [Next]_vars
    PROVE  [RB!Next]_RB!vars
<1>1. CASE Check
      <2>1. CASE pc' = "defaults"
            <3>1. Status = "setup" /\ Status' = "setup"
                  BY <1>1, <2>1 DEF Check, Status
            <3>2. Submitted' = Submitted
                  BY <1>1, SubmittedKept DEF Check, OwnTxs
            <3>. QED
                 BY <1>1, <3>1, <3>2, BatchStutter DEF Check
      <2>2. CASE pc' = "failed"
            <3>1. Status = "setup" /\ Status' = "failed"
                  BY <1>1, <2>2 DEF Check, Status
            <3>2. Submitted' = Submitted
                  BY <1>1, SubmittedKept DEF Check, OwnTxs
            <3>. QED
                 BY <1>1, <3>1, <3>2 DEF Check, RB!Next, RB!Reject
      <2>. QED
           BY <1>1, <2>1, <2>2 DEF Check
<1>2. CASE GetChainID \/ GetAccountNonce \/ SuggestGasPrice
      <2>1. pc = "defaults" /\ pc' \in {"defaults", "validate"}
            BY <1>2 DEF GetChainID, GetAccountNonce, SuggestGasPrice
      <2>2. Status = "setup" /\ Status' = "setup"
            BY <2>1 DEF Status
      <2>3. UNCHANGED <<stats, dryRun, i, ledger, rewardsSended, pool>>
            BY <1>2 DEF GetChainID, GetAccountNonce, SuggestGasPrice
      <2>. QED
           BY <2>2, <2>3, SubmittedKept, BatchStutter DEF OwnTxs
<1>3. CASE ValidateEmpty \/ ValidatePass \/ ValidateFail
      <2>1. UNCHANGED <<stats, dryRun, i, ledger, rewardsSended, pool>>
            /\ pc = "validate" /\ Status = "setup"
            BY <1>3 DEF ValidateEmpty, ValidatePass, ValidateFail, Status
      <2>2. Submitted' = Submitted
            BY <2>1, SubmittedKept DEF OwnTxs
      <2>3. CASE ValidateEmpty
            <3>1. Status' = "done" /\ stats = << >>
                  BY <2>3 DEF ValidateEmpty, Status
            <3>. QED
                 BY <2>1, <2>2, <3>1 DEF RB!Next, RB!NothingToDo
      <2>4. CASE ValidatePass
            <3>1. Status' = "running" /\ stats # << >>
                  BY <2>4 DEF ValidatePass, Status
            <3>. QED
                 BY <2>1, <2>2, <3>1 DEF RB!Next, RB!Accept
      <2>5. CASE ValidateFail
            <3>1. Status' = "failed"
                  BY <2>5 DEF ValidateFail, Status
            <3>. QED
                 BY <2>1, <2>2, <3>1 DEF RB!Next, RB!Reject
      <2>. QED
           BY <1>3, <2>3, <2>4, <2>5
<1>4. CASE SkipReward
      <2>1. Status = "running" /\ Status' = "running"
            BY <1>4 DEF SkipReward, Status
      <2>2. Submitted' = Submitted
            BY <1>4, SubmittedKept DEF SkipReward, OwnTxs
      <2>. QED
           BY <1>4, <2>1, <2>2 DEF SkipReward, RB!Next, RB!Skip, RB!Current
<1>5. CASE DryRunSend
      <2>1. Status = "running" /\ Status' = "running"
            BY <1>5 DEF DryRunSend, Status
      <2>2. Submitted' = Submitted
            BY <1>5, SubmittedKept DEF DryRunSend, OwnTxs
      <2>3. ledger' = Append(ledger, i)
            BY <1>5 DEF DryRunSend, WriteResult
      <2>. QED
           BY <1>5, <2>1, <2>2, <2>3 DEF DryRunSend, RB!Next, RB!Pay, RB!Current
<1>6. CASE PrepareTx
      <2>1. Status = "running" /\ Status' = "running"
            BY <1>6 DEF PrepareTx, Status
      <2>2. Submitted' = Submitted
            BY <1>6, SubmittedKept DEF PrepareTx, OwnTxs
      <2>. QED
           BY <1>6, <2>1, <2>2, BatchStutter DEF PrepareTx
<1>7. CASE SendOk
      <2>1. Status = "running" /\ Status' = "running"
            BY <1>7 DEF SendOk, Status
      <2>2. /\ i <= Len(stats) /\ stats[i].reward > 0 /\ ~dryRun
            /\ i \in Nat \ {0}
            BY <1>7 DEF SendOk, SendGuard, TypeOK
      <2>3. Submitted' = Submitted \cup {i}
            BY <1>7, <2>2, SubmittedAdd DEF SendOk
      <2>4. ledger' = Append(ledger, i)
            BY <1>7 DEF SendOk, WriteResult
      <2>. QED
           BY <1>7, <2>1, <2>2, <2>3, <2>4 DEF SendOk, RB!Next, RB!Pay, RB!Current
<1>8. CASE SendFail
      <2>1. Status = "running" /\ Status' = "failed"
            BY <1>8 DEF SendFail, Status
      <2>2. /\ i <= Len(stats) /\ stats[i].reward > 0 /\ ~dryRun
            /\ i \in Nat \ {0}
            BY <1>8 DEF SendFail, SendGuard, TypeOK
      <2>3. Submitted' \in {Submitted, Submitted \cup {i}}
            <3>1. CASE UNCHANGED pool
                  BY <3>1, SubmittedKept DEF OwnTxs
            <3>2. CASE pool' = pool \cup {RawTx(i)}
                  BY <2>2, <3>2, SubmittedAdd
            <3>. QED
                 BY <1>8, <3>1, <3>2 DEF SendFail
      <2>. QED
           BY <1>8, <2>1, <2>2, <2>3 DEF SendFail, RB!Next, RB!Abort, RB!Current
<1>9. CASE Finish
      <2>1. Status = "running" /\ Status' = "done"
            BY <1>9 DEF Finish, Status
      <2>2. Submitted' = Submitted
            BY <1>9, SubmittedKept DEF Finish, OwnTxs
      <2>. QED
           BY <1>9, <2>1, <2>2 DEF Finish, RB!Next, RB!Complete
<1>10. CASE Mine
       <2>1. UNCHANGED <<pc, stats, dryRun, i, ledger, rewardsSended, pool>>
             BY <1>10 DEF Mine
       <2>2. Status' = Status
             BY <2>1 DEF Status
       <2>. QED
            BY <2>1, <2>2, SubmittedKept, BatchStutter DEF OwnTxs
<1>11. CASE ExternalTx
       <2>1. UNCHANGED <<pc, stats, dryRun, i, ledger, rewardsSended>>
             BY <1>11 DEF ExternalTx
       <2>2. Status' = Status
             BY <2>1 DEF Status
       <2>3. {t \in pool' : t.entry # External} = OwnTxs
             BY <1>11 DEF ExternalTx, OwnTxs
       <2>. QED
            BY <2>1, <2>2, <2>3, SubmittedKept, BatchStutter
<1>12. CASE UNCHANGED vars
       <2>1. UNCHANGED <<pc, stats, dryRun, i, ledger, rewardsSended, pool>>
             BY <1>12 DEF vars
       <2>2. Status' = Status
             BY <2>1 DEF Status
       <2>. QED
            BY <2>1, <2>2, SubmittedKept, BatchStutter DEF OwnTxs
<1>. QED
     BY <1>1, <1>2, <1>3, <1>4, <1>5, <1>6, <1>7, <1>8, <1>9, <1>10,
        <1>11, <1>12 DEF Next, Run, Chain

-----------------------------------------------------------------------------
\* When every write to the output file succeeds, the run is the pipeline of
\* spec section 4.4 (sendtx.go:262-296, 141-181): entries in input order,
\* non-positive rewards skipped, a positive one submitted once (never in a
\* dry run) and then written, and a failed send ending the batch.  Without
\* the hypothesis a sent transfer can miss its line, because the loop
\* discards the error of the write (run distributer_write_fails).
THEOREM RunImplementsRewardBatch ==
    WriteFails = FALSE => (Spec => ImplementsRewardBatch)
<1> SUFFICES ASSUME WriteFails = FALSE PROVE Spec => RB!Spec
    BY DEF ImplementsRewardBatch
<1>1. Init => RB!Init /\ TypeOK /\ SendGuard
      BY BatchInit, InitType DEF Init, SendGuard
<1>2. TypeOK /\ SendGuard /\ [Next]_vars => TypeOK' /\ SendGuard'
      BY TypeStep, SendGuardStep
<1>3. TypeOK /\ SendGuard /\ [Next]_vars => [RB!Next]_RB!vars
      BY BatchStep
<1>. QED
     BY <1>1, <1>2, <1>3, PTL DEF Spec, RB!Spec

=============================================================================
