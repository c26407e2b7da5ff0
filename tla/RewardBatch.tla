----------------------------- MODULE RewardBatch -----------------------------
(***************************************************************************)
(* What the reward distribution pipeline promises (spec section 4.4,       *)
(* runBatch), with RPCs, nonces and the chain left out.  After a setup     *)
(* phase that either accepts the batch, finds it empty, or rejects it with *)
(* nothing sent, the entries are taken in input order: a non-positive      *)
(* reward is skipped, a positive one is submitted (unless in a dry run)    *)
(* and its ledger line appended, and a failed submission, which an         *)
(* endpoint may nevertheless have accepted, aborts the whole batch.        *)
(* Module Distributer implements it.                                       *)
(***************************************************************************)
EXTENDS Integers, Sequences

CONSTANT Batches    \* the possible input batches, sequences of [reward : Int, ...]

VARIABLES
    batch,      \* the input entries
    dry,        \* dry-run mode
    status,     \* "setup", "running", "done", "failed"
    pos,        \* the entry taken next
    ledger,     \* the output lines, as entry indices
    submitted,  \* the entries whose transfer an endpoint accepted
    sentTotal   \* the rewards reported as sent

vars == <<batch, dry, status, pos, ledger, submitted, sentTotal>>

Init ==
    /\ batch \in Batches
    /\ dry \in BOOLEAN
    /\ status = "setup"
    /\ pos = 1
    /\ ledger = << >>
    /\ submitted = {}
    /\ sentTotal = 0

\* setup ends: a non-empty batch is accepted, an empty one is a no-op
\* success, and any validation or identity error rejects the batch
Accept ==
    /\ status = "setup"
    /\ batch # << >>
    /\ status' = "running"
    /\ UNCHANGED <<batch, dry, pos, ledger, submitted, sentTotal>>

NothingToDo ==
    /\ status = "setup"
    /\ batch = << >>
    /\ status' = "done"
    /\ UNCHANGED <<batch, dry, pos, ledger, submitted, sentTotal>>

Reject ==
    /\ status = "setup"
    /\ status' = "failed"
    /\ UNCHANGED <<batch, dry, pos, ledger, submitted, sentTotal>>

\* the entry at pos, while the batch runs
Current == status = "running" /\ pos <= Len(batch)

Skip ==
    /\ Current
    /\ batch[pos].reward <= 0
    /\ pos' = pos + 1
    /\ UNCHANGED <<batch, dry, status, ledger, submitted, sentTotal>>

Pay ==
    /\ Current
    /\ batch[pos].reward > 0
    /\ submitted' = IF dry THEN submitted ELSE submitted \cup {pos}
    /\ ledger' = Append(ledger, pos)
    /\ sentTotal' = sentTotal + batch[pos].reward
    /\ pos' = pos + 1
    /\ UNCHANGED <<batch, dry, status>>

Abort ==
    /\ Current
    /\ batch[pos].reward > 0
    /\ ~dry
    /\ submitted' \in {submitted, submitted \cup {pos}}
    /\ status' = "failed"
    /\ UNCHANGED <<batch, dry, pos, ledger, sentTotal>>

Complete ==
    /\ status = "running"
    /\ pos > Len(batch)
    /\ status' = "done"
    /\ UNCHANGED <<batch, dry, pos, ledger, submitted, sentTotal>>

Next ==
    \/ Accept \/ NothingToDo \/ Reject
    \/ Skip \/ Pay \/ Abort \/ Complete

Spec == Init /\ [][Next]_vars

=============================================================================
