---------------------------- MODULE SyncerClients ----------------------------
(***************************************************************************)
(* The syncer's own endpoint list (src/syncer/clients.go): dialServer,     *)
(* closeClient and the getters getHeaderByNumber, getBlockByNumber and     *)
(* getTransactionReceipt.  They are APICaller's dial loop, close loop and *)
(* failover loop over a package-level list, with no retry around them, so *)
(* each is Gateway's action restricted to the Failover operation.          *)
(***************************************************************************)
EXTENDS Integers

CONSTANTS
    NumServers,   \* length of the syncer's serverURL list
    MaxCalls      \* bound on the getter calls one behaviour makes

VARIABLES clients, closed, pc, op, round, j, err, answered, tried, sleeps, calls

vars == <<clients, closed, pc, op, round, j, err, answered, tried, sleeps, calls>>

\* no retry count is involved: RetryCount is only read by retrying reads
G == INSTANCE Gateway WITH NumURLs <- NumServers, RetryCount <- 0

Init == G!Init

\* dialServer: the URLs in order, the first failure returns its error
dialServer == G!DialServer

\* closeClient closes every client of the list
closeClient == G!CloseClient

\* one of the three getters is entered with zero named results
GetterCall == G!Invoke /\ op' = G!Failover

\* (bug variant) the getter keeps asking after a client answered
ClientAnswersNoReturn == G!ClientSucceedsNoReturn

\* a client answers: the getter returns its result
ClientAnswers == G!ClientSucceeds

\* a client fails: its error is kept and the next client is asked
ClientErrs == G!ClientFails

\* the loop has run out of clients and returns the last error
LoopEnds == G!RoundEnds

Next ==
    \/ dialServer \/ closeClient \/ GetterCall
    \/ ClientAnswers \/ ClientErrs \/ LoopEnds

Spec == Init /\ [][Next]_vars

-----------------------------------------------------------------------------
SFC == INSTANCE FailoverCall WITH
    NumURLs <- NumServers,
    RetryCount <- 0,
    Ops <- {G!Failover},
    BoundedRetryOps <- {},
    EndlessRetryOps <- {},
    pc <- IF G!Busy THEN "busy" ELSE pc,
    err <- IF G!Busy THEN FALSE ELSE err,
    answered <- IF G!Busy THEN 0 ELSE answered,
    tried <- IF G!Busy THEN << >> ELSE tried,
    round <- IF G!Busy THEN 0 ELSE round

\* Seen from the block syncer, each getter returns the header, block or
\* receipt of the first server that answered, with no later server asked,
\* or an error after every server failed; never a nil result with a nil
\* error (clients.go:18-68 against spec section 4.1).
SyncerImplementsFailoverCall == SFC!Spec

=============================================================================
