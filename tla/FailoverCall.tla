----------------------------- MODULE FailoverCall -----------------------------
(***************************************************************************)
(* What an endpoint gateway promises its caller (spec section 4.1), with   *)
(* a call as one atomic step: the list of connections is dialled in       *)
(* order; a call returns the answer of the first endpoint that answered   *)
(* in its last attempt, no later endpoint having been asked, or the error  *)
(* of the last endpoint after every endpoint failed; a retrying read makes *)
(* at most RetryCount attempts and fails only after all of them.  Module  *)
(* Gateway, the loops of APICaller, and SyncerClients implement it.        *)
(***************************************************************************)
EXTENDS Integers, Sequences

CONSTANTS
    NumURLs,          \* length of the URL list
    RetryCount,       \* attempts of a retrying read
    MaxCalls,         \* bound on the calls one behaviour makes
    Ops,              \* the operations a caller may invoke
    BoundedRetryOps,  \* those retried at most RetryCount times
    EndlessRetryOps   \* those retried until they succeed

VARIABLES
    clients,   \* connections in the list
    closed,    \* the connections have been closed
    pc,        \* "dial", "dialFailed", "idle", "busy"
    op,        \* the operation in progress, or the one that returned last
    err,       \* the call returned an error
    answered,  \* index of the endpoint whose answer was returned, 0 if none
    tried,     \* outcomes of the endpoints asked in the last attempt
    round,     \* failed attempts before the one that ended the call
    calls      \* calls made so far

vars == <<clients, closed, pc, op, err, answered, tried, round, calls>>

Init ==
    /\ clients = 0
    /\ closed = FALSE
    /\ pc = "dial"
    /\ op \in Ops
    /\ err = FALSE
    /\ answered = 0
    /\ tried = << >>
    /\ round = 0
    /\ calls = 0

\* dialling stops at the first URL that fails; only a full list is usable
Dial ==
    /\ pc = "dial"
    /\ \E k \in 0..NumURLs :
          /\ clients' = k
          /\ pc' = IF k = NumURLs THEN "idle" ELSE "dialFailed"
    /\ UNCHANGED <<closed, op, err, answered, tried, round, calls>>

Close ==
    /\ pc = "idle"
    /\ ~closed
    /\ closed' = TRUE
    /\ UNCHANGED <<clients, pc, op, err, answered, tried, round, calls>>

Begin ==
    /\ pc = "idle"
    /\ calls < MaxCalls
    /\ \E o \in Ops : op' = o
    /\ pc' = "busy"
    /\ calls' = calls + 1
    /\ err' = FALSE
    /\ answered' = 0
    /\ tried' = << >>
    /\ round' = 0
    /\ UNCHANGED <<clients, closed>>

\* the numbers of attempts a call of o may have failed before its last one
FailedBefore(o) ==
    CASE o \in BoundedRetryOps -> 0..(RetryCount - 1)
      [] o \in EndlessRetryOps -> Nat
      [] OTHER                 -> {0}

\* the call returns: the first answer of an open endpoint, or, once every
\* endpoint of every allowed attempt failed, the last error
Return ==
    /\ pc = "busy"
    /\ pc' = "idle"
    /\ \/ \E a \in 1..clients :
             /\ ~closed
             /\ ~err'
             /\ answered' = a
             /\ tried' = [k \in 1..a |-> k = a]
             /\ round' \in FailedBefore(op)
       \/ /\ err'
          /\ answered' = 0
          /\ tried' = [k \in 1..clients |-> FALSE]
          /\ op \notin EndlessRetryOps
          /\ round' = IF op \in BoundedRetryOps THEN RetryCount ELSE 0
    /\ UNCHANGED <<clients, closed, op, calls>>

Next == Dial \/ Close \/ Begin \/ Return

Spec == Init /\ [][Next]_vars

=============================================================================
