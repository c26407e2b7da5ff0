------------------------------- MODULE Gateway -------------------------------
(***************************************************************************)
(* APICaller (src/unnamed/part_000, package callapi): the client list      *)
(* built by DialServer, the first-success failover every RPC wrapper runs  *)
(* over it, the bounded retry of GetCoinBalance and CallContract, the      *)
(* unbounded retry of GetSyncProgress, and CloseClient.  One caller makes *)
(* calls one after another, as the distributer does.                       *)
(*                                                                         *)
(* The eight wrappers BalanceAt, GetAccountNonce, SendTransaction,         *)
(* GetChainID, SuggestGasPrice, SyncProgress, DoCall and HeaderByNumber    *)
(* share one loop and are the operation Failover here; the syncer's       *)
(* getHeaderByNumber, getBlockByNumber and getTransactionReceipt           *)
(* (src/syncer/clients.go) are the same loop over the syncer's own list.   *)
(***************************************************************************)
EXTENDS Integers, Sequences

CONSTANTS
    NumURLs,      \* length of the serverURL list given to DialServer
    RetryCount,   \* rpcRetryCount (NewAPICaller accepts any int)
    MaxCalls      \* bound on the calls one behaviour makes

ASSUME URLsAssumption == NumURLs \in Nat
ASSUME RetryAssumption == RetryCount \in Int
ASSUME CallsAssumption == MaxCalls \in Nat

\* the operations, by the shape of their loop
Failover == "Failover"
CoinBalance == "GetCoinBalance"
CallContract == "CallContract"
SyncProgress == "GetSyncProgress"
Ops == {Failover, CoinBalance, CallContract, SyncProgress}
BoundedRetryOps == {CoinBalance, CallContract}

VARIABLES
    clients,   \* Len(c.clients): connections DialServer appended
    closed,    \* CloseClient has run
    pc,        \* "dial", "dialFailed", "idle" (between calls), "round", "client"
    op,        \* the operation in progress, or the one that returned last
    round,     \* the retry loop's i
    j,         \* index of the client the failover loop tries next
    err,       \* the named result err is non-nil
    answered,  \* index of the client whose answer is returned, 0 if none
    tried,     \* outcomes (TRUE = success) of the clients tried this round
    sleeps,    \* time.Sleep(rpcRetryInterval) calls in this call
    calls      \* calls made so far

vars == <<clients, closed, pc, op, round, j, err, answered, tried, sleeps, calls>>

-----------------------------------------------------------------------------
Init ==
    /\ clients = 0
    /\ closed = FALSE
    /\ pc = "dial"
    /\ op = Failover
    /\ round = 0
    /\ j = 1
    /\ err = FALSE
    /\ answered = 0
    /\ tried = << >>
    /\ sleeps = 0
    /\ calls = 0

\* DialServer: the URLs are dialled in order; the first one that fails ends
\* it with an error, the connections made before it stay in c.clients
DialServer ==
    /\ pc = "dial"
    /\ \E k \in 0..NumURLs :
          /\ clients' = k
          /\ pc' = IF k = NumURLs THEN "idle" ELSE "dialFailed"
    /\ UNCHANGED <<closed, op, round, j, err, answered, tried, sleeps, calls>>

\* CloseClient closes every client; calling it again changes nothing
CloseClient ==
    /\ pc = "idle"
    /\ ~closed
    /\ closed' = TRUE
    /\ UNCHANGED <<clients, pc, op, round, j, err, answered, tried, sleeps, calls>>

\* a wrapper is entered: its named results start as zero values
Invoke ==
    /\ pc = "idle"
    /\ calls < MaxCalls
    /\ \E o \in Ops :
          /\ op' = o
          /\ pc' = IF o = Failover THEN "client" ELSE "round"
    /\ calls' = calls + 1
    /\ round' = 0
    /\ j' = 1
    /\ err' = FALSE
    /\ answered' = 0
    /\ tried' = << >>
    /\ sleeps' = 0
    /\ UNCHANGED <<clients, closed>>

\* (bug variant) a retrying read gives up one attempt early
RetryLoopEarlyExit ==
    /\ pc = "round"
    /\ IF op \in BoundedRetryOps /\ round >= RetryCount - 1
       THEN /\ pc' = "idle"
            /\ UNCHANGED <<j, tried>>
       ELSE /\ pc' = "client"
            /\ j' = 1
            /\ tried' = << >>
    /\ UNCHANGED <<clients, closed, op, round, err, answered, sleeps, calls>>

\* the retry loop's test: GetCoinBalance and CallContract give up after
\* rpcRetryCount rounds, GetSyncProgress never does
RetryLoop ==
    /\ pc = "round"
    /\ IF op \in BoundedRetryOps /\ round >= RetryCount
       THEN /\ pc' = "idle"
            /\ UNCHANGED <<j, tried>>
       ELSE /\ pc' = "client"
            /\ j' = 1
            /\ tried' = << >>
    /\ UNCHANGED <<clients, closed, op, round, err, answered, sleeps, calls>>

\* (bug variant) the failover loop does not return on success
ClientSucceedsNoReturn ==
    /\ pc = "client"
    /\ j <= clients
    /\ ~closed
    /\ err' = FALSE
    /\ answered' = j
    /\ tried' = Append(tried, TRUE)
    /\ j' = j + 1
    /\ UNCHANGED <<clients, closed, pc, op, round, sleeps, calls>>

\* client j answers: the failover returns its result, and a retry loop
\* around it breaks
ClientSucceeds ==
    /\ pc = "client"
    /\ j <= clients
    /\ ~closed
    /\ err' = FALSE
    /\ answered' = j
    /\ tried' = Append(tried, TRUE)
    /\ pc' = "idle"
    /\ UNCHANGED <<clients, closed, op, round, j, sleeps, calls>>

\* (bug variant) the loop runs one index past the last client
ClientFailsPastEnd ==
    /\ pc = "client"
    /\ j <= clients + 1
    /\ err' = TRUE
    /\ answered' = 0
    /\ tried' = Append(tried, FALSE)
    /\ j' = j + 1
    /\ UNCHANGED <<clients, closed, pc, op, round, sleeps, calls>>

\* client j fails: its error (and zero result) overwrite the named results
ClientFails ==
    /\ pc = "client"
    /\ j <= clients
    /\ err' = TRUE
    /\ answered' = 0
    /\ tried' = Append(tried, FALSE)
    /\ j' = j + 1
    /\ UNCHANGED <<clients, closed, pc, op, round, sleeps, calls>>

\* the failover loop has run out of clients and returns the last error
\* (nil when there is no client); the retry loop breaks on nil, else
\* CallContract and GetSyncProgress sleep and all retry loops go round
RoundEnds ==
    /\ pc = "client"
    /\ j > clients
    /\ IF op = Failover \/ ~err
       THEN /\ pc' = "idle"
            /\ UNCHANGED <<round, sleeps>>
       ELSE /\ pc' = "round"
            /\ round' = round + 1
            /\ sleeps' = IF op = CoinBalance THEN sleeps ELSE sleeps + 1
    /\ UNCHANGED <<clients, closed, op, j, err, answered, tried, calls>>

Next ==
    \/ DialServer \/ CloseClient \/ Invoke \/ RetryLoop
    \/ ClientSucceeds \/ ClientFails \/ RoundEnds

Spec == Init /\ [][Next]_vars

-----------------------------------------------------------------------------
(* Properties *)

TypeOK ==
    /\ clients \in 0..NumURLs
    /\ closed \in BOOLEAN
    /\ pc \in {"dial", "dialFailed", "idle", "round", "client"}
    /\ op \in Ops
    /\ round \in Nat
    /\ j \in 1..(clients + 1)
    /\ err \in BOOLEAN
    /\ answered \in 0..clients
    /\ tried \in Seq(BOOLEAN)
    /\ sleeps \in Nat
    /\ calls \in 0..MaxCalls

\* a call has returned and its results are still in place
Returned == pc = "idle" /\ calls > 0

\* What every wrapper promises (spec section 4.1): it returns the result of
\* the first client that answered in its last round, no client after that
\* one having been asked, or else an error after every client of every
\* allowed round failed.  A nil error never comes without an answer.
GatewayContract ==
    Returned =>
        \/ /\ ~err
           /\ answered \in 1..clients
           /\ tried = [k \in 1..answered |-> k = answered]
        \/ /\ err
           /\ answered = 0
           /\ tried = [k \in 1..clients |-> FALSE]
           /\ op \in BoundedRetryOps => round = RetryCount

\* A retrying read waits rpcRetryInterval after every failed round before
\* it tries again (spec section 4.1, callWithRetry).
BackoffBetweenRounds ==
    (pc = "client" /\ op \in BoundedRetryOps \cup {SyncProgress})
        => sleeps = round

-----------------------------------------------------------------------------
(* Refinement: the loops implement the one-step call of FailoverCall.      *)

\* a call is in progress; its intermediate results are not yet returned
Busy == pc \in {"round", "client"}

FC == INSTANCE FailoverCall WITH
    pc <- IF Busy THEN "busy" ELSE pc,
    err <- IF Busy THEN FALSE ELSE err,
    answered <- IF Busy THEN 0 ELSE answered,
    tried <- IF Busy THEN << >> ELSE tried,
    round <- IF Busy THEN 0 ELSE round,
    EndlessRetryOps <- {SyncProgress}

\* APICaller's dial, close, failover and retry loops, seen from the caller,
\* behave as the gateway of spec section 4.1: each call returns the first
\* answer of its last attempt or the last error once every endpoint of
\* every allowed attempt failed, and a retrying read neither gives up early
\* nor retries past rpcRetryCount (part_000:41-267).
ImplementsFailoverCall == FC!Spec

=============================================================================
