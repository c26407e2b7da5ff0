------------------------- MODULE SyncerClientsProofs -------------------------
(***************************************************************************)
(* Proofs about SyncerClients: the syncer's getters, a failover loop with  *)
(* no retry around it, implement the one-step call of FailoverCall         *)
(* whenever the server list is not empty.                                  *)
(***************************************************************************)
EXTENDS SyncerClients, FailoverLemmas, TLAPS

\* the constants under which the syncer keeps its contract; with no server
\* a getter returns a nil result with a nil error (syncer_empty_servers)
SyncerAssumption ==
    /\ NumServers \in Nat \ {0}
    /\ MaxCalls \in Nat

\* only the getters' failover loop runs, so no retry round is ever counted
FailoverOnly == op = G!Failover /\ round = 0 /\ pc # "round"

\* nothing is dialled, asked or answered before dialServer, no getter is
\* called before it, and once dialled the list is full
SDialInv == pc = "dial" => clients = 0 /\ j = 1 /\ answered = 0 /\ calls = 0
SListInv == pc \in {"idle", "client"} => clients = NumServers

\* during a getter call the servers before j have all failed
SClientInv ==
    pc = "client" =>
        /\ calls > 0
        /\ answered = 0
        /\ tried = AllFailed(j - 1)
        /\ j > 1 => err

SInv ==
    /\ G!TypeOK
    /\ FailoverOnly
    /\ SDialInv
    /\ SListInv
    /\ SClientInv
    /\ G!GatewayContract

-----------------------------------------------------------------------------
\* Every step keeps the inductive invariant.
LEMMA SyncerStep ==
    SyncerAssumption /\ SInv /\ [Next]_vars => SInv'
<1> SUFFICES ASSUME SyncerAssumption, SInv, [Next]_vars PROVE SInv'
    OBVIOUS
<1>0. /\ G!TypeOK /\ FailoverOnly /\ SDialInv /\ SListInv /\ SClientInv
      /\ G!GatewayContract
      /\ NumServers \in Nat /\ MaxCalls \in Nat
      BY DEF SInv, SyncerAssumption
<1>1. CASE dialServer
      <2>1. PICK k \in 0..NumServers :
               /\ clients' = k
               /\ pc' = IF k = NumServers THEN "idle" ELSE "dialFailed"
            BY <1>1 DEF dialServer, G!DialServer
      <2>2. /\ pc = "dial" /\ clients = 0 /\ j = 1 /\ answered = 0 /\ calls = 0
            /\ UNCHANGED <<closed, op, round, j, err, answered, tried, sleeps, calls>>
            BY <1>0, <1>1 DEF dialServer, G!DialServer, SDialInv
      <2>3. G!TypeOK'
            <3>1. pc' \in {"dial", "dialFailed", "idle", "round", "client"}
                  BY <2>1
            <3>2. clients' \in 0..NumServers /\ j' \in 1..(clients' + 1)
                  /\ answered' \in 0..clients'
                  BY <1>0, <2>1, <2>2
            <3>. QED
                 BY <1>0, <2>2, <3>1, <3>2 DEF G!TypeOK
      <2>4. FailoverOnly' /\ SDialInv' /\ SListInv' /\ SClientInv'
            BY <1>0, <2>1, <2>2 DEF FailoverOnly, SDialInv, SListInv, SClientInv
      <2>5. G!GatewayContract'
            BY <2>2 DEF G!GatewayContract, G!Returned
      <2>. QED
           BY <2>3, <2>4, <2>5 DEF SInv
<1>2. CASE closeClient
      <2>1. /\ pc = "idle" /\ pc' = "idle" /\ closed' = TRUE
            /\ UNCHANGED <<clients, op, round, j, err, answered, tried, sleeps, calls>>
            BY <1>2 DEF closeClient, G!CloseClient
      <2>. QED
           BY <1>0, <2>1 DEF SInv, G!TypeOK, FailoverOnly, SDialInv, SListInv,
              SClientInv, G!GatewayContract, G!Returned
<1>3. CASE GetterCall
      <2>1. /\ pc = "idle" /\ calls < MaxCalls /\ calls' = calls + 1
            /\ op' = G!Failover /\ pc' = "client"
            /\ round' = 0 /\ j' = 1 /\ err' = FALSE /\ answered' = 0
            /\ tried' = << >> /\ sleeps' = 0 /\ UNCHANGED <<clients, closed>>
            BY <1>3 DEF GetterCall, G!Invoke
      <2>2. << >> \in Seq(BOOLEAN) /\ AllFailed(0) = << >>
            BY EmptySeq, EmptyFailed
      <2>3. G!TypeOK'
            <3>1. op' \in G!Ops /\ pc' \in {"dial", "dialFailed", "idle", "round", "client"}
                  BY <2>1 DEF G!Ops
            <3>2. calls' \in 0..MaxCalls /\ j' \in 1..(clients' + 1)
                  /\ answered' \in 0..clients' /\ round' \in Nat /\ sleeps' \in Nat
                  BY <1>0, <2>1 DEF G!TypeOK
            <3>. QED
                 BY <1>0, <2>1, <2>2, <3>1, <3>2 DEF G!TypeOK
      <2>4. FailoverOnly' /\ SDialInv' /\ SListInv' /\ SClientInv'
            BY <1>0, <2>1, <2>2 DEF G!TypeOK, FailoverOnly, SDialInv, SListInv,
               SClientInv
      <2>5. G!GatewayContract'
            BY <2>1 DEF G!GatewayContract, G!Returned
      <2>. QED
           BY <2>3, <2>4, <2>5 DEF SInv
<1>4. CASE ClientAnswers
      <2>1. /\ pc = "client" /\ j <= clients /\ pc' = "idle"
            /\ err' = FALSE /\ answered' = j /\ tried' = Append(tried, TRUE)
            /\ UNCHANGED <<clients, closed, op, round, j, sleeps, calls>>
            BY <1>4 DEF ClientAnswers, G!ClientSucceeds
      <2>2. /\ tried = AllFailed(j - 1) /\ calls > 0 /\ clients = NumServers
            /\ j - 1 \in Nat /\ j \in 1..clients /\ (j - 1) + 1 = j
            BY <1>0, <2>1 DEF SClientInv, SListInv, G!TypeOK
      <2>3. tried' = AnsweredAt(j)
            BY <2>1, <2>2, AppendAnswer
      <2>4. G!TypeOK'
            <3>1. tried' \in Seq(BOOLEAN)
                  BY <2>2, <2>3, AnsweredType
            <3>2. answered' \in 0..clients'
                  <4>1. answered' = j /\ clients' = clients
                        BY <2>1
                  <4>. QED
                       BY <2>2, <4>1
            <3>. QED
                 BY <1>0, <2>1, <3>1, <3>2 DEF G!TypeOK
      <2>5. G!GatewayContract'
            BY <2>1, <2>2, <2>3 DEF G!GatewayContract, AnsweredAt
      <2>6. FailoverOnly' /\ SDialInv' /\ SListInv' /\ SClientInv'
            BY <1>0, <2>1, <2>2 DEF FailoverOnly, SDialInv, SListInv, SClientInv
      <2>. QED
           BY <2>4, <2>5, <2>6 DEF SInv
<1>5. CASE ClientErrs
      <2>1. /\ pc = "client" /\ j <= clients /\ j' = j + 1
            /\ err' = TRUE /\ answered' = 0 /\ tried' = Append(tried, FALSE)
            /\ UNCHANGED <<clients, closed, pc, op, round, sleeps, calls>>
            BY <1>5 DEF ClientErrs, G!ClientFails
      <2>2. /\ tried = AllFailed(j - 1) /\ calls > 0 /\ clients = NumServers
            /\ j - 1 \in Nat /\ (j - 1) + 1 = j' - 1 /\ j' - 1 \in Nat
            BY <1>0, <2>1 DEF SClientInv, SListInv, G!TypeOK
      <2>3. tried' = AllFailed(j' - 1)
            BY <2>1, <2>2, AppendFailed
      <2>4. G!TypeOK'
            BY <1>0, <2>1, <2>2, <2>3, FailedType DEF G!TypeOK
      <2>5. SClientInv'
            BY <2>1, <2>2, <2>3 DEF SClientInv
      <2>6. FailoverOnly' /\ SDialInv' /\ SListInv' /\ G!GatewayContract'
            BY <1>0, <2>1 DEF FailoverOnly, SDialInv, SListInv,
               G!GatewayContract, G!Returned
      <2>. QED
           BY <2>4, <2>5, <2>6 DEF SInv
<1>6. CASE LoopEnds
      <2>1. /\ pc = "client" /\ j > clients
            /\ UNCHANGED <<clients, closed, op, j, err, answered, tried, calls>>
            BY <1>6 DEF LoopEnds, G!RoundEnds
      <2>2. pc' = "idle" /\ UNCHANGED <<round, sleeps>>
            BY <1>0, <1>6, <2>1 DEF LoopEnds, G!RoundEnds, FailoverOnly
      <2>3. /\ answered = 0 /\ tried = AllFailed(j - 1) /\ (j > 1 => err)
            /\ calls > 0 /\ clients = NumServers
            BY <1>0, <2>1 DEF SClientInv, SListInv
      <2>4. j = clients + 1 /\ j > 1 /\ j - 1 = clients
            BY <1>0, <2>1, <2>3 DEF G!TypeOK, SyncerAssumption
      <2>5. err /\ tried = [k \in 1..clients |-> FALSE]
            <3>1. err
                  BY <2>3, <2>4
            <3>2. tried = AllFailed(clients)
                  BY <2>3, <2>4
            <3>. QED
                 BY <3>1, <3>2 DEF AllFailed
      <2>6. G!GatewayContract'
            <3>1. op \notin G!BoundedRetryOps
                  BY <1>0 DEF FailoverOnly, G!BoundedRetryOps, G!Failover,
                     G!CoinBalance, G!CallContract
            <3>. QED
                 BY <2>1, <2>2, <2>3, <2>5, <3>1 DEF G!GatewayContract
      <2>7. G!TypeOK' /\ FailoverOnly' /\ SDialInv' /\ SListInv' /\ SClientInv'
            BY <1>0, <2>1, <2>2, <2>3 DEF G!TypeOK, FailoverOnly, SDialInv,
               SListInv, SClientInv
      <2>. QED
           BY <2>6, <2>7 DEF SInv
<1>7. CASE UNCHANGED vars
      BY <1>0, <1>7 DEF vars, SInv, G!TypeOK, FailoverOnly, SDialInv, SListInv,
         SClientInv, G!GatewayContract, G!Returned
<1>. QED
     BY <1>1, <1>2, <1>3, <1>4, <1>5, <1>6, <1>7 DEF Next

\* The initial state satisfies the inductive invariant.
LEMMA SyncerInit == SyncerAssumption /\ Init => SInv
<1> SUFFICES ASSUME SyncerAssumption, Init PROVE SInv
    OBVIOUS
<1>1. << >> \in Seq(BOOLEAN)
      BY EmptySeq
<1>2. MaxCalls \in Nat /\ NumServers \in Nat
      BY DEF SyncerAssumption
<1>3. /\ pc = "dial" /\ clients = 0 /\ closed = FALSE /\ op = G!Failover
      /\ round = 0 /\ j = 1 /\ err = FALSE /\ answered = 0 /\ tried = << >>
      /\ sleeps = 0 /\ calls = 0
      BY DEF Init, G!Init
<1>4. G!TypeOK
      <2>1. op \in G!Ops
            BY <1>3 DEF G!Ops
      <2>2. /\ clients \in 0..NumServers /\ j \in 1..(clients + 1)
            /\ answered \in 0..clients /\ calls \in 0..MaxCalls
            /\ round \in Nat /\ sleeps \in Nat
            BY <1>2, <1>3
      <2>3. /\ pc \in {"dial", "dialFailed", "idle", "round", "client"}
            /\ closed \in BOOLEAN /\ err \in BOOLEAN /\ tried \in Seq(BOOLEAN)
            BY <1>1, <1>3
      <2>. QED
           BY <2>1, <2>2, <2>3 DEF G!TypeOK
<1>5. FailoverOnly /\ SDialInv /\ SListInv /\ SClientInv /\ G!GatewayContract
      BY <1>3 DEF FailoverOnly, SDialInv, SListInv, SClientInv,
         G!GatewayContract, G!Returned
<1>. QED
     BY <1>4, <1>5 DEF SInv

\* The inductive invariant holds in every reachable state.
THEOREM SyncerInvariant == SyncerAssumption => (Spec => []SInv)
<1> SUFFICES ASSUME SyncerAssumption PROVE Spec => []SInv
    OBVIOUS
<1>1. Init => SInv
      BY SyncerInit
<1>2. SInv /\ [Next]_vars => SInv'
      BY SyncerStep
<1>. QED
     BY <1>1, <1>2, PTL DEF Spec

-----------------------------------------------------------------------------
(* Refinement of FailoverCall *)

\* before dialServer the abstract state is FailoverCall's initial one
LEMMA SyncerInitRefines == Init => SFC!Init
BY DEF Init, G!Init, SFC!Init, G!Busy

\* A step of the syncer's loops is a step of FailoverCall, or leaves its
\* state alone.
LEMMA SyncerRefineStep ==
    SyncerAssumption /\ SInv /\ SInv' /\ [Next]_vars => [SFC!Next]_SFC!vars
<1> SUFFICES ASSUME SyncerAssumption, SInv, SInv', [Next]_vars
             PROVE  [SFC!Next]_SFC!vars
    OBVIOUS
<1>0. /\ G!TypeOK /\ G!TypeOK' /\ FailoverOnly /\ FailoverOnly'
      /\ SClientInv /\ SListInv /\ G!GatewayContract'
      BY DEF SInv
<1>1. CASE dialServer
      <2>1. pc = "dial" /\ pc' \in {"idle", "dialFailed"}
            BY <1>1 DEF dialServer, G!DialServer
      <2>2. ~G!Busy /\ ~G!Busy'
            BY <2>1 DEF G!Busy
      <2>3. SFC!Dial
            BY <1>1, <2>1, <2>2 DEF dialServer, G!DialServer, SFC!Dial
      <2>. QED
           BY <2>3 DEF SFC!Next
<1>2. CASE closeClient
      <2>1. ~G!Busy /\ ~G!Busy'
            BY <1>2 DEF closeClient, G!CloseClient, G!Busy
      <2>2. SFC!Close
            BY <1>2, <2>1 DEF closeClient, G!CloseClient, SFC!Close
      <2>. QED
           BY <2>2 DEF SFC!Next
<1>3. CASE GetterCall
      <2>1. /\ pc = "idle" /\ calls < MaxCalls /\ calls' = calls + 1
            /\ op' = G!Failover /\ pc' = "client"
            /\ round' = 0 /\ err' = FALSE /\ answered' = 0
            /\ tried' = << >> /\ UNCHANGED <<clients, closed>>
            BY <1>3 DEF GetterCall, G!Invoke
      <2>2. ~G!Busy /\ G!Busy'
            BY <2>1 DEF G!Busy
      <2>3. SFC!Begin
            BY <2>1, <2>2 DEF SFC!Begin
      <2>. QED
           BY <2>3 DEF SFC!Next
<1>4. CASE ClientAnswers
      <2>1. /\ pc = "client" /\ j <= clients /\ ~closed /\ pc' = "idle"
            /\ err' = FALSE /\ answered' = j
            /\ UNCHANGED <<clients, closed, op, round, calls>>
            BY <1>4 DEF ClientAnswers, G!ClientSucceeds
      <2>2. G!Busy /\ ~G!Busy'
            BY <2>1 DEF G!Busy
      <2>3. j \in 1..clients /\ tried' = [k \in 1..j |-> k = j]
            <3>1. j \in 1..clients
                  BY <1>0, <2>1 DEF G!TypeOK
            <3>2. G!Returned'
                  BY <1>0, <2>1 DEF SClientInv, G!Returned
            <3>3. tried' = [k \in 1..answered' |-> k = answered']
                  BY <1>0, <2>1, <3>2 DEF G!GatewayContract
            <3>. QED
                 BY <2>1, <3>1, <3>3
      <2>4. round' \in SFC!FailedBefore(op)
            BY <1>0 DEF FailoverOnly, SFC!FailedBefore
      <2>5. SFC!Return
            BY <2>1, <2>2, <2>3, <2>4 DEF SFC!Return
      <2>. QED
           BY <2>5 DEF SFC!Next
<1>5. CASE ClientErrs
      <2>1. pc = "client" /\ pc' = "client"
            /\ UNCHANGED <<clients, closed, op, calls>>
            BY <1>5 DEF ClientErrs, G!ClientFails
      <2>. QED
           BY <2>1 DEF G!Busy, SFC!vars
<1>6. CASE LoopEnds
      <2>1. /\ pc = "client" /\ G!Busy /\ j > clients
            /\ UNCHANGED <<clients, closed, op, j, err, answered, tried, calls>>
            BY <1>6 DEF LoopEnds, G!RoundEnds, G!Busy
      <2>2. pc' = "idle" /\ ~G!Busy'
            BY <1>0, <1>6, <2>1 DEF LoopEnds, G!RoundEnds, FailoverOnly, G!Busy
      <2>3. /\ err' /\ answered' = 0
            /\ tried' = [k \in 1..clients' |-> FALSE]
            <3>1. G!Returned'
                  BY <1>0, <2>1, <2>2 DEF SClientInv, G!Returned
            <3>2. err
                  <4>1. j \in 1..clients + 1 /\ clients = NumServers
                        /\ NumServers \in Nat \ {0}
                        BY <1>0, <2>1 DEF G!TypeOK, SListInv, SyncerAssumption
                  <4>2. j > 1
                        BY <2>1, <4>1
                  <4>. QED
                       BY <1>0, <2>1, <4>2 DEF SClientInv
            <3>. QED
                 BY <1>0, <2>1, <3>1, <3>2 DEF G!GatewayContract
      <2>4. round' = 0
            BY <1>0 DEF FailoverOnly
      <2>5. SFC!Return
            BY <2>1, <2>2, <2>3, <2>4 DEF SFC!Return
      <2>. QED
           BY <2>5 DEF SFC!Next
<1>7. CASE UNCHANGED vars
      BY <1>7 DEF vars, SFC!vars, G!Busy
<1>. QED
     BY <1>1, <1>2, <1>3, <1>4, <1>5, <1>6, <1>7 DEF Next

\* The syncer's getHeaderByNumber, getBlockByNumber and
\* getTransactionReceipt over a non-empty server list (clients.go:18-68)
\* implement the one-step call of FailoverCall: each returns the answer of
\* the first server that answered, no later server having been asked, or
\* the last error once every server failed, and never a nil result with a
\* nil error.  The hypothesis on NumServers is needed: syncer_empty_servers
\* shows the getters returning nothing with no error on an empty list.
THEOREM SyncerRefinesFailoverCall ==
    SyncerAssumption => (Spec => SyncerImplementsFailoverCall)
<1> SUFFICES ASSUME SyncerAssumption PROVE Spec => SFC!Spec
    BY DEF SyncerImplementsFailoverCall
<1>1. Init => SFC!Init
      BY SyncerInitRefines
<1>2. SInv /\ SInv' /\ [Next]_vars => [SFC!Next]_SFC!vars
      BY SyncerRefineStep
<1>3. Spec => []SInv
      BY SyncerInvariant
<1>. QED
     BY <1>1, <1>2, <1>3, PTL DEF Spec, SFC!Spec

=============================================================================
