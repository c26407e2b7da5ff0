---------------------------- MODULE GatewayProofs ----------------------------
(***************************************************************************)
(* Proofs about Gateway: APICaller keeps the gateway's contract, and       *)
(* implements the one-step call of FailoverCall, whenever there is at      *)
(* least one URL and rpcRetryCount is at least 1.                          *)
(***************************************************************************)
EXTENDS Gateway, FailoverLemmas, TLAPS

\* the constants under which the contract holds (the violation runs show
\* that it fails with RetryCount = 0, and a list of no URL gives the same)
ContractAssumption ==
    /\ NumURLs \in Nat \ {0}
    /\ RetryCount \in Nat \ {0}

\* The inductive invariant: during a round the clients before j have all
\* failed, a retry round follows only failed rounds, and a bounded read
\* never runs more rounds than rpcRetryCount.
ClientInv ==
    pc = "client" =>
        /\ answered = 0
        /\ tried = AllFailed(j - 1)
        /\ j > 1 => err
        /\ op \in BoundedRetryOps => round < RetryCount
        /\ op = Failover => round = 0

RoundInv ==
    pc = "round" =>
        /\ answered = 0
        /\ op \in BoundedRetryOps \cup {SyncProgress}
        /\ \/ round = 0 /\ ~err /\ tried = << >>
           \/ round > 0 /\ err /\ tried = AllFailed(clients)
        /\ op \in BoundedRetryOps => round <= RetryCount

\* nothing is dialled, asked or answered before DialServer, and no call
\* is made before it
DialInv ==
    pc = "dial" => clients = 0 /\ j = 1 /\ answered = 0 /\ calls = 0

\* once dialled, the list is full; a call in progress has been counted
ListInv == pc \in {"idle", "round", "client"} => clients = NumURLs
BusyInv == pc \in {"round", "client"} => calls > 0

CallInv ==
    /\ TypeOK
    /\ DialInv
    /\ ListInv
    /\ BusyInv
    /\ ClientInv
    /\ RoundInv
    /\ GatewayContract

-----------------------------------------------------------------------------
USE URLsAssumption, RetryAssumption, CallsAssumption

\* Every step keeps the types.
LEMMA TypeStep == TypeOK /\ DialInv /\ [Next]_vars => TypeOK'
<1> SUFFICES ASSUME TypeOK, DialInv, [Next]_vars PROVE TypeOK'
    OBVIOUS
<1>1. CASE DialServer
      <2>1. PICK k \in 0..NumURLs : clients' = k
            BY <1>1 DEF DialServer
      <2>2. j = 1 /\ answered = 0
            BY <1>1 DEF DialServer, DialInv
      <2>3. UNCHANGED <<closed, op, round, j, err, answered, tried, sleeps, calls>>
            /\ pc' \in {"idle", "dialFailed"}
            BY <1>1 DEF DialServer
      <2>. QED
           BY <2>1, <2>2, <2>3 DEF TypeOK
<1>2. CASE CloseClient
      BY <1>2 DEF CloseClient, TypeOK
<1>3. CASE Invoke
      <2>1. op' \in Ops /\ pc' \in {"round", "client"}
            BY <1>3 DEF Invoke, Ops
      <2>2. /\ j' = 1 /\ answered' = 0 /\ tried' = << >> /\ round' = 0
            /\ sleeps' = 0 /\ err' = FALSE /\ calls' = calls + 1
            /\ calls < MaxCalls /\ UNCHANGED <<clients, closed>>
            BY <1>3 DEF Invoke
      <2>3. tried' \in Seq(BOOLEAN)
            BY <2>2, EmptySeq
      <2>4. clients' \in 0..NumURLs /\ closed' \in BOOLEAN
            BY <2>2 DEF TypeOK
      <2>5. j' \in 1..(clients' + 1) /\ answered' \in 0..clients'
            BY <2>2, <2>4
      <2>6. calls' \in 0..MaxCalls /\ round' \in Nat /\ sleeps' \in Nat
            BY <2>2 DEF TypeOK
      <2>. QED
           BY <2>1, <2>2, <2>3, <2>4, <2>5, <2>6 DEF TypeOK
<1>4. CASE RetryLoop
      <2>1. tried' \in Seq(BOOLEAN)
            <3>1. << >> \in Seq(BOOLEAN)
                  BY EmptySeq
            <3>. QED
                 BY <1>4, <3>1 DEF RetryLoop, TypeOK
      <2>2. j' \in 1..clients' + 1 /\ pc' \in {"idle", "client"}
            BY <1>4 DEF RetryLoop, TypeOK
      <2>3. UNCHANGED <<clients, closed, op, round, err, answered, sleeps, calls>>
            BY <1>4 DEF RetryLoop
      <2>. QED
           BY <2>1, <2>2, <2>3 DEF TypeOK
<1>5. CASE ClientSucceeds
      <2>1. tried' \in Seq(BOOLEAN)
            BY <1>5, AppendProperties DEF ClientSucceeds, TypeOK
      <2>2. answered' \in 0..clients' /\ pc' = "idle" /\ err' = FALSE
            BY <1>5 DEF ClientSucceeds, TypeOK
      <2>3. UNCHANGED <<clients, closed, op, round, j, sleeps, calls>>
            BY <1>5 DEF ClientSucceeds
      <2>. QED
           BY <2>1, <2>2, <2>3 DEF TypeOK
<1>6. CASE ClientFails
      <2>1. tried' \in Seq(BOOLEAN)
            BY <1>6, AppendProperties DEF ClientFails, TypeOK
      <2>2. j' \in 1..clients' + 1 /\ answered' = 0 /\ err' = TRUE
            BY <1>6 DEF ClientFails, TypeOK
      <2>3. UNCHANGED <<clients, closed, pc, op, round, sleeps, calls>>
            BY <1>6 DEF ClientFails
      <2>. QED
           BY <2>1, <2>2, <2>3 DEF TypeOK
<1>7. CASE RoundEnds
      BY <1>7 DEF RoundEnds, TypeOK
<1>8. CASE UNCHANGED vars
      BY <1>8 DEF vars, TypeOK
<1>. QED
     BY <1>1, <1>2, <1>3, <1>4, <1>5, <1>6, <1>7, <1>8 DEF Next

\* Only DialServer leaves the dial state, and nothing returns to it.
LEMMA DialStep == TypeOK /\ DialInv /\ [Next]_vars => DialInv'
<1> SUFFICES ASSUME TypeOK, DialInv, [Next]_vars PROVE DialInv'
    OBVIOUS
<1>1. CASE DialServer
      BY <1>1 DEF DialServer, DialInv
<1>2. CASE UNCHANGED vars
      BY <1>2 DEF vars, DialInv
<1>3. CASE CloseClient \/ Invoke \/ RetryLoop \/ ClientSucceeds \/ ClientFails
           \/ RoundEnds
      <2>1. pc' # "dial"
            BY <1>3 DEF CloseClient, Invoke, RetryLoop, ClientSucceeds,
               ClientFails, RoundEnds
      <2>. QED
           BY <2>1 DEF DialInv
<1>. QED
     BY <1>1, <1>2, <1>3 DEF Next

\* Every reachable state of APICaller is well typed, for every list length,
\* retry count (rpcRetryCount may be any int) and bound on the calls: the
\* client index stays within the list and the answer is one of its clients
\* (part_000:41-267).
THEOREM GatewayTypeCorrect == Spec => []TypeOK
<1>1. Init => TypeOK /\ DialInv
      <2> SUFFICES ASSUME Init PROVE TypeOK /\ DialInv
          OBVIOUS
      <2>1. << >> \in Seq(BOOLEAN)
            BY EmptySeq
      <2>2. /\ clients \in 0..NumURLs /\ j \in 1..(clients + 1)
            /\ answered \in 0..clients /\ calls \in 0..MaxCalls
            /\ round \in Nat /\ sleeps \in Nat
            BY DEF Init
      <2>3. /\ op \in Ops /\ closed \in BOOLEAN /\ err \in BOOLEAN
            /\ tried \in Seq(BOOLEAN)
            /\ pc \in {"dial", "dialFailed", "idle", "round", "client"}
            BY <2>1 DEF Init, Ops
      <2>. QED
           BY <2>2, <2>3 DEF TypeOK, DialInv, Init
<1>2. TypeOK /\ DialInv /\ [Next]_vars => TypeOK' /\ DialInv'
      BY TypeStep, DialStep
<1>. QED
     BY <1>1, <1>2, PTL DEF Spec

\* Every step keeps the inductive invariant.
LEMMA CallStep ==
    ContractAssumption /\ CallInv /\ [Next]_vars => CallInv'
<1> SUFFICES ASSUME ContractAssumption, CallInv, [Next]_vars
             PROVE  CallInv'
    OBVIOUS
<1>0. TypeOK /\ TypeOK' /\ DialInv /\ ListInv /\ BusyInv /\ ClientInv /\ RoundInv
      /\ GatewayContract
      BY TypeStep DEF CallInv
<1>1. CASE DialServer
      <2>1. pc = "dial" /\ pc' \in {"idle", "dialFailed"}
            /\ (pc' = "idle" => clients' = NumURLs)
            BY <1>1 DEF DialServer
      <2>2. calls' = 0
            BY <1>0, <1>1, <2>1 DEF DialServer, DialInv
      <2>3. DialInv' /\ ListInv' /\ BusyInv' /\ ClientInv' /\ RoundInv'
            BY <2>1 DEF DialInv, ListInv, BusyInv, ClientInv, RoundInv
      <2>4. GatewayContract'
            BY <2>2 DEF GatewayContract, Returned
      <2>. QED
           BY <1>0, <2>3, <2>4 DEF CallInv
<1>2. CASE CloseClient
      <2>1. pc = "idle" /\ pc' = "idle"
            /\ UNCHANGED <<clients, op, round, j, err, answered, tried, calls>>
            BY <1>2 DEF CloseClient
      <2>2. DialInv' /\ ListInv' /\ BusyInv' /\ ClientInv' /\ RoundInv'
            BY <1>0, <2>1 DEF DialInv, ListInv, BusyInv, ClientInv, RoundInv
      <2>3. GatewayContract'
            BY <1>0, <2>1 DEF GatewayContract, Returned
      <2>. QED
           BY <1>0, <2>2, <2>3 DEF CallInv
<1>3. CASE Invoke
      <2>1. PICK o \in Ops : op' = o /\ pc' = IF o = Failover THEN "client" ELSE "round"
            BY <1>3 DEF Invoke
      <2>2. /\ pc = "idle" /\ calls' = calls + 1
            /\ round' = 0 /\ j' = 1 /\ err' = FALSE /\ answered' = 0
            /\ tried' = << >> /\ clients' = clients
            BY <1>3 DEF Invoke
      <2>3. pc' \in {"round", "client"}
            BY <2>1
      <2>4. DialInv' /\ ListInv' /\ BusyInv'
            BY <1>0, <2>2, <2>3 DEF TypeOK, DialInv, ListInv, BusyInv
      <2>5. ClientInv'
            BY <2>1, <2>2, EmptyFailed DEF ClientInv, BoundedRetryOps, Failover,
               CoinBalance, CallContract
      <2>6. RoundInv'
            BY <2>1, <2>2 DEF RoundInv, Ops, BoundedRetryOps, Failover, CoinBalance,
               CallContract, SyncProgress, ContractAssumption
      <2>7. GatewayContract'
            BY <2>3 DEF GatewayContract, Returned
      <2>. QED
           BY <1>0, <2>4, <2>5, <2>6, <2>7 DEF CallInv
<1>4. CASE RetryLoop
      <2>1. UNCHANGED <<clients, closed, op, round, err, answered, sleeps, calls>>
            /\ pc = "round"
            BY <1>4 DEF RetryLoop
      <2>2. /\ answered = 0 /\ op \in BoundedRetryOps \cup {SyncProgress}
            /\ \/ round = 0 /\ ~err /\ tried = << >>
               \/ round > 0 /\ err /\ tried = AllFailed(clients)
            /\ op \in BoundedRetryOps => round <= RetryCount
            /\ clients = NumURLs /\ calls > 0
            BY <1>0, <2>1 DEF RoundInv, ListInv, BusyInv
      <2>3. CASE op \in BoundedRetryOps /\ round >= RetryCount
            <3>1. pc' = "idle" /\ tried' = tried
                  BY <1>4, <2>3 DEF RetryLoop
            <3>2. round = RetryCount /\ round > 0
                  BY <1>0, <2>2, <2>3 DEF ContractAssumption, TypeOK
            <3>3. err /\ tried = AllFailed(clients)
                  BY <2>2, <3>2
            <3>4. GatewayContract'
                  BY <2>1, <2>2, <3>1, <3>2, <3>3 DEF GatewayContract, AllFailed
            <3>5. DialInv' /\ ListInv' /\ BusyInv' /\ ClientInv' /\ RoundInv'
                  BY <2>1, <2>2, <3>1 DEF DialInv, ListInv, BusyInv, ClientInv, RoundInv
            <3>. QED
                 BY <1>0, <3>4, <3>5 DEF CallInv
      <2>4. CASE ~(op \in BoundedRetryOps /\ round >= RetryCount)
            <3>1. pc' = "client" /\ j' = 1 /\ tried' = << >>
                  BY <1>4, <2>4 DEF RetryLoop
            <3>2. op \in BoundedRetryOps => round < RetryCount
                  BY <1>0, <2>4 DEF TypeOK, ContractAssumption
            <3>3. op # Failover
                  BY <2>2 DEF BoundedRetryOps, Failover, CoinBalance, CallContract,
                     SyncProgress
            <3>4. ClientInv'
                  BY <2>1, <2>2, <3>1, <3>2, <3>3, EmptyFailed DEF ClientInv
            <3>5. DialInv' /\ ListInv' /\ BusyInv' /\ RoundInv' /\ GatewayContract'
                  BY <2>1, <2>2, <3>1 DEF DialInv, ListInv, BusyInv, RoundInv,
                     GatewayContract, Returned
            <3>. QED
                 BY <1>0, <3>4, <3>5 DEF CallInv
      <2>. QED
           BY <2>3, <2>4
<1>5. CASE ClientSucceeds
      <2>1. /\ pc = "client" /\ j <= clients /\ pc' = "idle"
            /\ err' = FALSE /\ answered' = j /\ tried' = Append(tried, TRUE)
            /\ UNCHANGED <<clients, calls>>
            BY <1>5 DEF ClientSucceeds
      <2>2. tried = AllFailed(j - 1) /\ clients = NumURLs /\ calls > 0
            BY <1>0, <2>1 DEF ClientInv, ListInv, BusyInv
      <2>3. j - 1 \in Nat /\ j \in 1..clients /\ (j - 1) + 1 = j
            BY <1>0, <2>1 DEF TypeOK
      <2>4. tried' = AnsweredAt(j)
            <3>1. Append(AllFailed(j - 1), TRUE) = AnsweredAt((j - 1) + 1)
                  BY <2>3, AppendAnswer
            <3>. QED
                 BY <2>1, <2>2, <2>3, <3>1
      <2>5. tried' = [k \in 1..answered' |-> k = answered']
            BY <2>1, <2>4 DEF AnsweredAt
      <2>6. GatewayContract'
            BY <2>1, <2>3, <2>5 DEF GatewayContract
      <2>7. DialInv' /\ ListInv' /\ BusyInv' /\ ClientInv' /\ RoundInv'
            BY <2>1, <2>2 DEF DialInv, ListInv, BusyInv, ClientInv, RoundInv
      <2>. QED
           BY <1>0, <2>6, <2>7 DEF CallInv
<1>6. CASE ClientFails
      <2>1. /\ pc = "client" /\ j <= clients /\ j' = j + 1
            /\ err' = TRUE /\ answered' = 0 /\ tried' = Append(tried, FALSE)
            /\ UNCHANGED <<clients, closed, pc, op, round, sleeps, calls>>
            BY <1>6 DEF ClientFails
      <2>2. /\ tried = AllFailed(j - 1)
            /\ op \in BoundedRetryOps => round < RetryCount
            /\ op = Failover => round = 0
            /\ clients = NumURLs /\ calls > 0
            BY <1>0, <2>1 DEF ClientInv, ListInv, BusyInv
      <2>3. j - 1 \in Nat /\ (j - 1) + 1 = j' - 1
            BY <1>0, <2>1 DEF TypeOK
      <2>4. tried' = AllFailed(j' - 1)
            <3>1. Append(AllFailed(j - 1), FALSE) = AllFailed((j - 1) + 1)
                  BY <2>3, AppendFailed
            <3>. QED
                 BY <2>1, <2>2, <2>3, <3>1
      <2>5. ClientInv'
            BY <2>1, <2>2, <2>4 DEF ClientInv
      <2>6. DialInv' /\ ListInv' /\ BusyInv' /\ RoundInv' /\ GatewayContract'
            BY <2>1, <2>2 DEF DialInv, ListInv, BusyInv, RoundInv, GatewayContract,
               Returned
      <2>. QED
           BY <1>0, <2>5, <2>6 DEF CallInv
<1>7. CASE RoundEnds
      <2>1. /\ pc = "client" /\ j > clients
            /\ UNCHANGED <<clients, closed, op, j, err, answered, tried, calls>>
            BY <1>7 DEF RoundEnds
      <2>2. /\ answered = 0 /\ tried = AllFailed(j - 1) /\ (j > 1 => err)
            /\ (op \in BoundedRetryOps => round < RetryCount)
            /\ (op = Failover => round = 0)
            /\ clients = NumURLs /\ calls > 0
            BY <1>0, <2>1 DEF ClientInv, ListInv, BusyInv
      <2>3. j = clients + 1 /\ j > 1 /\ j - 1 = clients
            BY <1>0, <2>1, <2>2 DEF TypeOK, ContractAssumption
      <2>4. err /\ tried = AllFailed(clients)
            BY <2>2, <2>3
      <2>5. CASE op = Failover
            <3>1. pc' = "idle" /\ round' = round
                  BY <1>7, <2>5 DEF RoundEnds
            <3>2. op \notin BoundedRetryOps
                  BY <2>5 DEF BoundedRetryOps, Failover, CoinBalance, CallContract
            <3>3. GatewayContract'
                  BY <2>1, <2>2, <2>4, <3>1, <3>2 DEF GatewayContract, AllFailed
            <3>4. DialInv' /\ ListInv' /\ BusyInv' /\ ClientInv' /\ RoundInv'
                  BY <2>1, <2>2, <3>1 DEF DialInv, ListInv, BusyInv, ClientInv, RoundInv
            <3>. QED
                 BY <1>0, <3>3, <3>4 DEF CallInv
      <2>6. CASE op # Failover
            <3>1. pc' = "round" /\ round' = round + 1
                  BY <1>7, <2>4, <2>6 DEF RoundEnds
            <3>2. op \in BoundedRetryOps \cup {SyncProgress}
                  BY <1>0, <2>6 DEF TypeOK, Ops, BoundedRetryOps
            <3>3. round' > 0 /\ (op \in BoundedRetryOps => round' <= RetryCount)
                  BY <1>0, <2>2, <3>1 DEF TypeOK
            <3>4. RoundInv'
                  BY <2>1, <2>2, <2>4, <3>1, <3>2, <3>3 DEF RoundInv
            <3>5. DialInv' /\ ListInv' /\ BusyInv' /\ ClientInv' /\ GatewayContract'
                  BY <2>1, <2>2, <3>1 DEF DialInv, ListInv, BusyInv, ClientInv,
                     GatewayContract, Returned
            <3>. QED
                 BY <1>0, <3>4, <3>5 DEF CallInv
      <2>. QED
           BY <2>5, <2>6
<1>8. CASE UNCHANGED vars
      BY <1>8 DEF vars, CallInv, TypeOK, DialInv, ListInv, BusyInv, ClientInv,
                  RoundInv, GatewayContract, Returned
<1>. QED
     BY <1>1, <1>2, <1>3, <1>4, <1>5, <1>6, <1>7, <1>8 DEF Next

\* The initial state satisfies the inductive invariant.
LEMMA InitCall == Init => CallInv
<1> SUFFICES ASSUME Init PROVE CallInv
    OBVIOUS
<1>1. << >> \in Seq(BOOLEAN)
      BY EmptySeq
<1>2. /\ clients \in 0..NumURLs /\ j \in 1..(clients + 1) /\ answered \in 0..clients
      /\ calls \in 0..MaxCalls /\ round \in Nat /\ sleeps \in Nat
      BY DEF Init
<1>3. op \in Ops /\ closed \in BOOLEAN /\ err \in BOOLEAN /\ tried \in Seq(BOOLEAN)
      /\ pc \in {"dial", "dialFailed", "idle", "round", "client"}
      BY <1>1 DEF Init, Ops
<1>4. TypeOK
      BY <1>2, <1>3 DEF TypeOK
<1>. QED
     BY <1>4 DEF Init, CallInv, DialInv, ListInv, BusyInv, ClientInv, RoundInv,
        GatewayContract, Returned

\* The inductive invariant holds in every reachable state.
THEOREM CallInvariant == ContractAssumption => (Spec => []CallInv)
<1> SUFFICES ASSUME ContractAssumption PROVE Spec => []CallInv
    OBVIOUS
<1>1. Init => CallInv
      BY InitCall
<1>2. CallInv /\ [Next]_vars => CallInv'
      BY CallStep
<1>. QED
     BY <1>1, <1>2, PTL DEF Spec

\* Every call of every wrapper of APICaller (part_000:72-267), with at least
\* one URL and rpcRetryCount >= 1, returns the answer of the first client
\* that answered in its last round, or an error after every client of every
\* allowed round failed.
THEOREM GatewayKeepsContract == ContractAssumption => (Spec => []GatewayContract)
<1>1. CallInv => GatewayContract
      BY DEF CallInv
<1>. QED
     BY <1>1, CallInvariant, PTL

-----------------------------------------------------------------------------
(* Refinement of FailoverCall *)

\* the abstract state while no call is in progress is the concrete one
LEMMA InitRefines == Init => FC!Init
BY DEF Init, FC!Init, Busy, Ops

\* A step of the loops is a step of FailoverCall, or leaves its state alone.
LEMMA RefineStep ==
    ContractAssumption /\ CallInv /\ CallInv' /\ [Next]_vars => [FC!Next]_FC!vars
<1> SUFFICES ASSUME ContractAssumption, CallInv, CallInv', [Next]_vars
             PROVE  [FC!Next]_FC!vars
    OBVIOUS
<1>0. TypeOK /\ TypeOK'
      BY DEF CallInv
<1>1. CASE DialServer
      <2>1. pc = "dial" /\ pc' \in {"idle", "dialFailed"}
            BY <1>1 DEF DialServer
      <2>2. ~Busy /\ ~Busy'
            BY <2>1 DEF Busy
      <2>3. FC!Dial
            BY <1>1, <2>1, <2>2 DEF DialServer, FC!Dial
      <2>. QED
           BY <2>3 DEF FC!Next
<1>2. CASE CloseClient
      <2>1. ~Busy /\ ~Busy'
            BY <1>2 DEF CloseClient, Busy
      <2>2. FC!Close
            BY <1>2, <2>1 DEF CloseClient, FC!Close
      <2>. QED
           BY <2>2 DEF FC!Next
<1>3. CASE Invoke
      <2>1. PICK o \in Ops : op' = o /\ pc' = IF o = Failover THEN "client" ELSE "round"
            BY <1>3 DEF Invoke
      <2>2. ~Busy /\ Busy'
            BY <1>3, <2>1 DEF Invoke, Busy
      <2>3. FC!Begin
            BY <1>3, <2>1, <2>2 DEF Invoke, FC!Begin
      <2>. QED
           BY <2>3 DEF FC!Next
<1>4. CASE RetryLoop
      <2>1. pc = "round" /\ Busy
            /\ UNCHANGED <<clients, closed, op, round, err, answered, sleeps, calls>>
            BY <1>4 DEF RetryLoop, Busy
      <2>2. CASE op \in BoundedRetryOps /\ round >= RetryCount
            <3>1. pc' = "idle" /\ tried' = tried /\ ~Busy'
                  BY <1>4, <2>2 DEF RetryLoop, Busy
            <3>2. /\ err' /\ answered' = 0 /\ tried' = [k \in 1..clients' |-> FALSE]
                  /\ round' = RetryCount
                  <4>1. /\ answered = 0
                        /\ \/ round = 0 /\ ~err /\ tried = << >>
                           \/ round > 0 /\ err /\ tried = AllFailed(clients)
                        /\ round <= RetryCount
                        BY <2>1, <2>2 DEF CallInv, RoundInv
                  <4>2. round = RetryCount /\ round > 0
                        BY <1>0, <2>2, <4>1 DEF TypeOK, ContractAssumption
                  <4>. QED
                       BY <2>1, <3>1, <4>1, <4>2 DEF AllFailed
            <3>3. op \notin {SyncProgress}
                  BY <2>2 DEF BoundedRetryOps, CoinBalance, CallContract, SyncProgress
            <3>4. FC!Return
                  BY <2>1, <2>2, <3>1, <3>2, <3>3 DEF FC!Return
            <3>. QED
                 BY <3>4 DEF FC!Next
      <2>3. CASE ~(op \in BoundedRetryOps /\ round >= RetryCount)
            <3>1. pc' = "client" /\ Busy'
                  BY <1>4, <2>3 DEF RetryLoop, Busy
            <3>. QED
                 BY <2>1, <3>1 DEF FC!vars
      <2>. QED
           BY <2>2, <2>3
<1>5. CASE ClientSucceeds
      <2>1. /\ pc = "client" /\ j <= clients /\ ~closed /\ pc' = "idle"
            /\ err' = FALSE /\ answered' = j
            /\ UNCHANGED <<clients, closed, op, round, calls>>
            BY <1>5 DEF ClientSucceeds
      <2>2. Busy /\ ~Busy'
            BY <2>1 DEF Busy
      <2>3. /\ j \in 1..clients
            /\ tried' = [k \in 1..j |-> k = j]
            <3>1. j \in 1..clients
                  BY <1>0, <2>1 DEF TypeOK
            <3>2. Returned'
                  BY <2>1 DEF CallInv, BusyInv, Returned
            <3>3. tried' = [k \in 1..answered' |-> k = answered']
                  BY <2>1, <3>2 DEF CallInv, GatewayContract
            <3>. QED
                 BY <2>1, <3>1, <3>3
      <2>4. /\ op \in BoundedRetryOps => round < RetryCount
            /\ op = Failover => round = 0
            BY <2>1 DEF CallInv, ClientInv
      <2>5. round \in FC!FailedBefore(op)
            <3>1. CASE op \in BoundedRetryOps
                  BY <1>0, <2>4, <3>1 DEF FC!FailedBefore, TypeOK
            <3>2. CASE op = SyncProgress
                  BY <1>0, <3>2 DEF FC!FailedBefore, TypeOK, BoundedRetryOps,
                     CoinBalance, CallContract, SyncProgress
            <3>3. CASE op = Failover
                  BY <2>4, <3>3 DEF FC!FailedBefore, BoundedRetryOps,
                     CoinBalance, CallContract, SyncProgress, Failover
            <3>4. op \in BoundedRetryOps \/ op = SyncProgress \/ op = Failover
                  BY <1>0 DEF TypeOK, Ops, BoundedRetryOps
            <3>. QED
                 BY <3>1, <3>2, <3>3, <3>4
      <2>6. FC!Return
            BY <2>1, <2>2, <2>3, <2>5 DEF FC!Return
      <2>. QED
           BY <2>6 DEF FC!Next
<1>6. CASE ClientFails
      <2>1. pc = "client" /\ pc' = "client"
            /\ UNCHANGED <<clients, closed, op, calls>>
            BY <1>6 DEF ClientFails
      <2>. QED
           BY <2>1 DEF Busy, FC!vars
<1>7. CASE RoundEnds
      <2>1. /\ pc = "client" /\ Busy
            /\ UNCHANGED <<clients, closed, op, j, err, answered, tried, calls>>
            BY <1>7 DEF RoundEnds, Busy
      <2>2. CASE op = Failover \/ ~err
            <3>1. pc' = "idle" /\ ~Busy' /\ round' = round
                  BY <1>7, <2>2 DEF RoundEnds, Busy
            <3>2. op = Failover => round = 0
                  BY <2>1 DEF CallInv, ClientInv, Busy
            <3>3. /\ err' /\ answered' = 0
                  /\ tried' = [k \in 1..clients' |-> FALSE]
                  /\ op \in BoundedRetryOps => round' = RetryCount
                  <4>1. err
                        <5>1. j > clients /\ j \in 1..clients + 1 /\ clients = NumURLs
                              BY <1>0, <1>7, <2>1 DEF RoundEnds, TypeOK, CallInv, ListInv
                        <5>2. j > 1
                              BY <5>1 DEF ContractAssumption
                        <5>. QED
                             BY <5>2, <2>1 DEF CallInv, ClientInv
                  <4>2. Returned'
                        BY <2>1, <3>1 DEF CallInv, BusyInv, Returned
                  <4>. QED
                       BY <2>1, <3>1, <4>1, <4>2 DEF CallInv, GatewayContract
            <3>4. op = Failover
                  BY <2>1, <2>2, <3>3
            <3>5. op \notin {SyncProgress} /\ op \notin BoundedRetryOps
                  BY <3>4 DEF BoundedRetryOps, CoinBalance, CallContract,
                     SyncProgress, Failover
            <3>6. FC!Return
                  BY <2>1, <3>1, <3>2, <3>3, <3>4, <3>5 DEF FC!Return
            <3>. QED
                 BY <3>6 DEF FC!Next
      <2>3. CASE ~(op = Failover \/ ~err)
            <3>1. pc' = "round" /\ Busy'
                  BY <1>7, <2>3 DEF RoundEnds, Busy
            <3>. QED
                 BY <2>1, <3>1 DEF FC!vars
      <2>. QED
           BY <2>2, <2>3
<1>8. CASE UNCHANGED vars
      BY <1>8 DEF vars, FC!vars, Busy
<1>. QED
     BY <1>1, <1>2, <1>3, <1>4, <1>5, <1>6, <1>7, <1>8 DEF Next

\* APICaller's dial, close, failover and retry loops (part_000:41-267) implement
\* the one-step gateway of FailoverCall: seen from the caller, each call is
\* one step that returns the first answer of its last attempt, or the last
\* error once every client of every allowed attempt failed.
THEOREM GatewayRefinesFailoverCall ==
    ContractAssumption => (Spec => ImplementsFailoverCall)
<1> SUFFICES ASSUME ContractAssumption PROVE Spec => FC!Spec
    BY DEF ImplementsFailoverCall
<1>1. Init => FC!Init
      BY InitRefines
<1>2. CallInv /\ CallInv' /\ [Next]_vars => [FC!Next]_FC!vars
      BY RefineStep
<1>3. Spec => []CallInv
      BY CallInvariant
<1>. QED
     BY <1>1, <1>2, <1>3, PTL DEF Spec, FC!Spec

=============================================================================
