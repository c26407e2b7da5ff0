----------------------------- MODULE Distributer -----------------------------
(***************************************************************************)
(* The reward-distribution run of `sendrewards`: BuildTxArgs.Check and     *)
(* setDefaults (src/distributer/sendtx.go), checkSendRewardsFromFile and   *)
(* the send loop of SendRewardsFromFile with sendRewardsTransaction, and   *)
(* the part of the chain the run talks to: the sender's transaction pool,  *)
(* its pending nonce and its reward-token balance.                         *)
(*                                                                         *)
(* Every RPC goes through APICaller's first-success failover; here each    *)
(* one is a single step whose outcome is chosen with \E (the loop itself  *)
(* is modelled in module Gateway).  A failed query inside setDefaults is  *)
(* a `continue` that changes nothing, i.e. a stuttering step, so it is     *)
(* left implicit.                                                          *)
(***************************************************************************)
EXTENDS Integers, Sequences, FiniteSets, Functions

CONSTANTS
    Accounts,        \* reward receivers (model values)
    Batches,         \* possible contents of the input file: Seq of AccountStat
    Balances,        \* possible sender reward-token balances at start
    ExplicitNonces,  \* values the operator may pass with --nonce
    NoNonce,         \* args.Nonce == nil
    MaxExternal,     \* bound on out-of-band transactions of the same sender
    ExtSpend,        \* tokens an out-of-band transaction moves away
    LostAck,         \* SendTransaction may report an error for an accepted tx
    WriteFails       \* the ledger write may fail (its error is discarded)

AccountStat == [account : Accounts, reward : Int]

ASSUME BatchesAssumption == Batches \subseteq Seq(AccountStat)
ASSUME BalancesAssumption == Balances \subseteq Nat
ASSUME NoncesAssumption == ExplicitNonces \subseteq Nat /\ NoNonce \notin Nat
ASSUME BoundsAssumption == MaxExternal \in Nat /\ ExtSpend \in Nat
ASSUME FlagsAssumption == LostAck \in BOOLEAN /\ WriteFails \in BOOLEAN

VARIABLES
    pc,              \* where the run is (see PC)
    dryRun,          \* opt.DryRun
    stats,           \* the AccountStatSlice read from the input file
    chainIDSet,      \* args.chainID # nil (chainSigner is set with it)
    gasPriceSet,     \* args.GasPrice # nil
    nonce,           \* *args.Nonce, or NoNonce while args.Nonce == nil
    i,               \* index of the next entry of stats the loop handles
    rewardsSended,   \* the rewardsSended accumulator
    checkedBalance,  \* the balance CheckSenderRewardTokenBalance compared
    ledger,          \* body lines of the output file, as indices into stats
    pool,            \* sender's txs accepted by the endpoints: [nonce, entry]
    chainNonce,      \* sender's nonce as the endpoints report it
    balance,         \* sender's reward-token balance on chain
    reverted,        \* entries whose transfer was mined but reverted
    extCount         \* out-of-band transactions issued so far

vars == <<pc, dryRun, stats, chainIDSet, gasPriceSet, nonce, i, rewardsSended,
          checkedBalance, ledger, pool, chainNonce, balance, reverted, extCount>>

PC == {"check", "defaults", "validate", "loop", "send", "done", "failed"}

\* entry 0 marks an out-of-band transaction of the same sender
External == 0

-----------------------------------------------------------------------------
(* Helpers *)

\* opt.TotalValue = accountStats.CalcTotalReward(): the sum of all rewards
TotalReward(s) ==
    LET sum[n \in 0..Len(s)] == IF n = 0 THEN 0 ELSE sum[n-1] + s[n].reward
    IN  sum[Len(s)]

\* every index an input batch can have
EntryIndices == UNION {DOMAIN b : b \in Batches}

PoolNonces == {t.nonce : t \in pool}
OwnTxs == {t \in pool : t.entry # External}

\* the transfer this run sends for entry k, with the current nonce
RawTx(k) == [nonce |-> nonce, entry |-> k]

\* an endpoint accepts a tx whose nonce is neither used nor too low
Acceptable(n) == n >= chainNonce /\ n \notin PoolNonces

-----------------------------------------------------------------------------
(* Initial state: main has parsed its flags; nothing is resolved yet. *)

Init ==
    /\ pc = "check"
    /\ dryRun \in BOOLEAN
    /\ stats \in Batches
    /\ chainIDSet = FALSE
    /\ gasPriceSet \in BOOLEAN
    /\ nonce \in {NoNonce} \cup ExplicitNonces
    /\ i = 1
    /\ rewardsSended = 0
    /\ checkedBalance = 0
    /\ ledger = << >>
    /\ pool = {}
    /\ chainNonce = 0
    /\ balance \in Balances
    /\ reverted = {}
    /\ extCount = 0

-----------------------------------------------------------------------------
(* BuildTxArgs.Check: the keystore loads, or its failure is ignored in a   *)
(* dry run; the sender must then match the key's address.  keyLoaded and   *)
(* senderMatches stand for the outcomes of loadKeyStore and EqualFold.     *)
Check ==
    /\ pc = "check"
    /\ \E keyLoaded, senderMatches \in BOOLEAN :
          pc' = IF (keyLoaded \/ dryRun) /\ senderMatches
                THEN "defaults" ELSE "failed"
    /\ UNCHANGED <<dryRun, stats, chainIDSet, gasPriceSet, nonce, i,
                   rewardsSended, checkedBalance, ledger, pool, chainNonce,
                   balance, reverted, extCount>>

(* setDefaults, one successful query at a time, in the loop's order. *)
GetChainID ==
    /\ pc = "defaults"
    /\ ~chainIDSet
    /\ chainIDSet' = TRUE
    /\ UNCHANGED <<pc, dryRun, stats, gasPriceSet, nonce, i, rewardsSended,
                   checkedBalance, ledger, pool, chainNonce, balance,
                   reverted, extCount>>

GetAccountNonce ==
    /\ pc = "defaults"
    /\ chainIDSet
    /\ nonce = NoNonce
    /\ nonce' = chainNonce
    /\ UNCHANGED <<pc, dryRun, stats, chainIDSet, gasPriceSet, i,
                   rewardsSended, checkedBalance, ledger, pool, chainNonce,
                   balance, reverted, extCount>>

\* (bug variant) the loop breaks before the nonce query has succeeded
SuggestGasPriceEarlyBreak ==
    /\ pc = "defaults"
    /\ chainIDSet
    /\ gasPriceSet' = TRUE
    /\ pc' = "validate"
    /\ UNCHANGED <<dryRun, stats, chainIDSet, nonce, i, rewardsSended,
                   checkedBalance, ledger, pool, chainNonce, balance,
                   reverted, extCount>>

\* the gas price query (when needed), the default gas limit and the break
SuggestGasPrice ==
    /\ pc = "defaults"
    /\ chainIDSet
    /\ nonce # NoNonce
    /\ gasPriceSet' = TRUE
    /\ pc' = "validate"
    /\ UNCHANGED <<dryRun, stats, chainIDSet, nonce, i, rewardsSended,
                   checkedBalance, ledger, pool, chainNonce, balance,
                   reverted, extCount>>

-----------------------------------------------------------------------------
(* checkSendRewardsFromFile *)

\* an empty account list: nothing to do, SendRewardsFromFile returns nil
ValidateEmpty ==
    /\ pc = "validate"
    /\ stats = << >>
    /\ pc' = "done"
    /\ UNCHANGED <<dryRun, stats, chainIDSet, gasPriceSet, nonce, i,
                   rewardsSended, checkedBalance, ledger, pool, chainNonce,
                   balance, reverted, extCount>>

\* (bug variant) the balance comparison is off by one
ValidatePassOffByOne ==
    /\ pc = "validate"
    /\ stats # << >>
    /\ balance + 1 >= TotalReward(stats)
    /\ checkedBalance' = balance
    /\ pc' = "loop"
    /\ UNCHANGED <<dryRun, stats, chainIDSet, gasPriceSet, nonce, i,
                   rewardsSended, ledger, pool, chainNonce, balance,
                   reverted, extCount>>

\* the title line, the balance check and CheckBasic pass; the title is written
ValidatePass ==
    /\ pc = "validate"
    /\ stats # << >>
    /\ balance >= TotalReward(stats)
    /\ checkedBalance' = balance
    /\ pc' = "loop"
    /\ UNCHANGED <<dryRun, stats, chainIDSet, gasPriceSet, nonce, i,
                   rewardsSended, ledger, pool, chainNonce, balance,
                   reverted, extCount>>

\* a read, title-line, balance-query, balance or savedb error
ValidateFail ==
    /\ pc = "validate"
    /\ pc' = "failed"
    /\ UNCHANGED <<dryRun, stats, chainIDSet, gasPriceSet, nonce, i,
                   rewardsSended, checkedBalance, ledger, pool, chainNonce,
                   balance, reverted, extCount>>

-----------------------------------------------------------------------------
(* The loop of SendRewardsFromFile *)

\* (bug variant) a skipped entry does not advance the loop
SkipRewardStuck ==
    /\ pc = "loop"
    /\ i <= Len(stats)
    /\ stats[i].reward <= 0
    /\ UNCHANGED vars

\* an entry with a non-positive reward is skipped
SkipReward ==
    /\ pc = "loop"
    /\ i <= Len(stats)
    /\ stats[i].reward <= 0
    /\ i' = i + 1
    /\ UNCHANGED <<pc, dryRun, stats, chainIDSet, gasPriceSet, nonce,
                   rewardsSended, checkedBalance, ledger, pool, chainNonce,
                   balance, reverted, extCount>>

\* the body line of entry k is appended unless the write fails
WriteResult(k) ==
    \E written \in IF WriteFails THEN BOOLEAN ELSE {TRUE} :
        ledger' = IF written THEN Append(ledger, k) ELSE ledger

\* dry run: sendRewardsTransaction returns (nil, nil) at once
DryRunSend ==
    /\ pc = "loop"
    /\ i <= Len(stats)
    /\ stats[i].reward > 0
    /\ dryRun
    /\ rewardsSended' = rewardsSended + stats[i].reward
    /\ WriteResult(i)
    /\ i' = i + 1
    /\ UNCHANGED <<pc, dryRun, stats, chainIDSet, gasPriceSet, nonce,
                   checkedBalance, pool, chainNonce, balance, reverted,
                   extCount>>

\* (bug variant) the live nonce is adopted even when it is lower
PrepareTxAdoptLive ==
    /\ pc = "loop"
    /\ i <= Len(stats)
    /\ stats[i].reward > 0
    /\ ~dryRun
    /\ \/ nonce' = chainNonce
       \/ UNCHANGED nonce
    /\ pc' = "send"
    /\ UNCHANGED <<dryRun, stats, chainIDSet, gasPriceSet, i, rewardsSended,
                   checkedBalance, ledger, pool, chainNonce, balance,
                   reverted, extCount>>

\* (bug variant) the nonce is reserved when the tx is built, and advanced
\* again after the send
PrepareTxReserve ==
    /\ pc = "loop"
    /\ i <= Len(stats)
    /\ stats[i].reward > 0
    /\ ~dryRun
    /\ \/ nonce' = (IF chainNonce > nonce THEN chainNonce ELSE nonce) + 1
       \/ nonce' = nonce + 1
    /\ pc' = "send"
    /\ UNCHANGED <<dryRun, stats, chainIDSet, gasPriceSet, i, rewardsSended,
                   checkedBalance, ledger, pool, chainNonce, balance,
                   reverted, extCount>>

\* sendRewardsTransaction up to NewTransaction: the live nonce, when the
\* query succeeds, replaces the cached one if it is greater
PrepareTx ==
    /\ pc = "loop"
    /\ i <= Len(stats)
    /\ stats[i].reward > 0
    /\ ~dryRun
    /\ \/ nonce' = IF chainNonce > nonce THEN chainNonce ELSE nonce
       \/ UNCHANGED nonce
    /\ pc' = "send"
    /\ UNCHANGED <<dryRun, stats, chainIDSet, gasPriceSet, i, rewardsSended,
                   checkedBalance, ledger, pool, chainNonce, balance,
                   reverted, extCount>>

\* SendTransaction succeeds: nonce++, the reward is counted, the line written
SendOk ==
    /\ pc = "send"
    /\ Acceptable(nonce)
    /\ pool' = pool \cup {RawTx(i)}
    /\ nonce' = nonce + 1
    /\ rewardsSended' = rewardsSended + stats[i].reward
    /\ WriteResult(i)
    /\ i' = i + 1
    /\ pc' = "loop"
    /\ UNCHANGED <<dryRun, stats, chainIDSet, gasPriceSet, checkedBalance,
                   chainNonce, balance, reverted, extCount>>

\* (bug variant) a failed send is retried with a fresh nonce
SendFailRetry ==
    /\ pc = "send"
    /\ \/ UNCHANGED pool
       \/ /\ LostAck
          /\ Acceptable(nonce)
          /\ pool' = pool \cup {RawTx(i)}
    /\ pc' = "loop"
    /\ UNCHANGED <<dryRun, stats, chainIDSet, gasPriceSet, nonce, i,
                   rewardsSended, checkedBalance, ledger, chainNonce,
                   balance, reverted, extCount>>

\* (bug variant) a failed entry is skipped and the loop goes on
SendFailContinue ==
    /\ pc = "send"
    /\ \/ UNCHANGED pool
       \/ /\ LostAck
          /\ Acceptable(nonce)
          /\ pool' = pool \cup {RawTx(i)}
    /\ i' = i + 1
    /\ pc' = "loop"
    /\ UNCHANGED <<dryRun, stats, chainIDSet, gasPriceSet, nonce,
                   rewardsSended, checkedBalance, ledger, chainNonce,
                   balance, reverted, extCount>>

\* (bug variant) the send error is not checked: the line is written anyway
SendFailIgnored ==
    /\ pc = "send"
    /\ \/ UNCHANGED pool
       \/ /\ LostAck
          /\ Acceptable(nonce)
          /\ pool' = pool \cup {RawTx(i)}
    /\ rewardsSended' = rewardsSended + stats[i].reward
    /\ WriteResult(i)
    /\ i' = i + 1
    /\ pc' = "loop"
    /\ UNCHANGED <<dryRun, stats, chainIDSet, gasPriceSet, nonce,
                   checkedBalance, chainNonce, balance, reverted, extCount>>

\* SignTx or SendTransaction fails: the whole batch is abandoned; with a
\* lost answer the tx was accepted by an endpoint all the same
SendFail ==
    /\ pc = "send"
    /\ \/ UNCHANGED pool
       \/ /\ LostAck
          /\ Acceptable(nonce)
          /\ pool' = pool \cup {RawTx(i)}
    /\ pc' = "failed"
    /\ UNCHANGED <<dryRun, stats, chainIDSet, gasPriceSet, nonce, i,
                   rewardsSended, checkedBalance, ledger, chainNonce,
                   balance, reverted, extCount>>

\* the loop ends after the last entry
Finish ==
    /\ pc = "loop"
    /\ i > Len(stats)
    /\ pc' = "done"
    /\ UNCHANGED <<dryRun, stats, chainIDSet, gasPriceSet, nonce, i,
                   rewardsSended, checkedBalance, ledger, pool, chainNonce,
                   balance, reverted, extCount>>

-----------------------------------------------------------------------------
(* The chain *)

\* the pooled tx at the sender's next nonce is mined; a token transfer the
\* balance does not cover reverts but still uses its nonce
Mine ==
    \E t \in pool :
        /\ t.nonce = chainNonce
        /\ chainNonce' = chainNonce + 1
        /\ LET amount == IF t.entry = External THEN ExtSpend
                         ELSE stats[t.entry].reward
           IN  IF balance >= amount
               THEN /\ balance' = balance - amount
                    /\ UNCHANGED reverted
               ELSE /\ reverted' = IF t.entry = External THEN reverted
                                   ELSE reverted \cup {t.entry}
                    /\ UNCHANGED balance
        /\ UNCHANGED <<pc, dryRun, stats, chainIDSet, gasPriceSet, nonce, i,
                       rewardsSended, checkedBalance, ledger, pool, extCount>>

\* another program signs with the same key (spec section 4.3)
ExternalTx ==
    /\ extCount < MaxExternal
    /\ \E n \in chainNonce..(chainNonce + Cardinality(pool)) :
          /\ Acceptable(n)
          /\ pool' = pool \cup {[nonce |-> n, entry |-> External]}
    /\ extCount' = extCount + 1
    /\ UNCHANGED <<pc, dryRun, stats, chainIDSet, gasPriceSet, nonce, i,
                   rewardsSended, checkedBalance, ledger, chainNonce,
                   balance, reverted>>

-----------------------------------------------------------------------------
Run ==
    \/ Check \/ GetChainID \/ GetAccountNonce \/ SuggestGasPrice
    \/ ValidateEmpty \/ ValidatePass \/ ValidateFail
    \/ SkipReward \/ DryRunSend \/ PrepareTx \/ SendOk \/ SendFail \/ Finish

Chain == Mine \/ ExternalTx

Next == Run \/ Chain

\* The run is one goroutine that never blocks for ever: every step of it is
\* weakly fair.  For the setDefaults steps this is the assumption that an
\* endpoint eventually answers (the code retries them without bound).
Fairness ==
    /\ WF_vars(Run)
    /\ WF_vars(Mine)

Spec == Init /\ [][Next]_vars /\ Fairness

-----------------------------------------------------------------------------
(* Refinement: the run implements the pipeline of RewardBatch.             *)

\* where the run is, as the pipeline's phase
Status ==
    CASE pc \in {"check", "defaults", "validate"} -> "setup"
      [] pc \in {"loop", "send"}                  -> "running"
      [] pc = "done"                              -> "done"
      [] pc = "failed"                            -> "failed"

\* the entries whose transfer an endpoint accepted
Submitted == {t.entry : t \in OwnTxs}

RB == INSTANCE RewardBatch WITH
    batch <- stats,
    dry <- dryRun,
    status <- Status,
    pos <- i,
    submitted <- Submitted,
    sentTotal <- rewardsSended

-----------------------------------------------------------------------------
(* Properties *)

TypeOK ==
    /\ pc \in PC
    /\ dryRun \in BOOLEAN
    /\ stats \in Seq(AccountStat)
    /\ chainIDSet \in BOOLEAN
    /\ gasPriceSet \in BOOLEAN
    /\ nonce \in Nat \cup {NoNonce}
    /\ i \in 1..(Len(stats) + 1)
    /\ rewardsSended \in Int
    /\ checkedBalance \in Int
    /\ ledger \in Seq(1..Len(stats))
    /\ pool \subseteq [nonce : Nat, entry : 0..Len(stats)]
    /\ chainNonce \in Nat
    /\ balance \in Int
    /\ reverted \subseteq 1..Len(stats)
    /\ extCount \in 0..MaxExternal
    /\ pc \in {"validate", "loop", "send", "done"} => nonce \in Nat
    /\ pc = "send" => i <= Len(stats)

\* No input entry is ever submitted twice: a failed SendTransaction, even one
\* an endpoint in fact accepted, ends the batch instead of being retried
\* with a fresh nonce (sendtx.go:279-283).
AtMostOncePerEntry ==
    \A t1, t2 \in OwnTxs : t1.entry = t2.entry => t1 = t2

\* The output file lists, in input order and once each, exactly the
\* positive-reward entries the loop has got past: fail-fast leaves no gap
\* and skipped entries leave no line (sendtx.go:272-291).
LedgerFaithful ==
    /\ \A a, b \in DOMAIN ledger : a < b => ledger[a] < ledger[b]
    /\ Range(ledger) = {k \in 1..(i - 1) : stats[k].reward > 0}

\* Outside a dry run every line of the output file stands for a transfer an
\* endpoint accepted; a dry run submits nothing (sendtx.go:142-145, 171-175).
LedgerBacked ==
    /\ ~dryRun => \A k \in Range(ledger) : \E t \in OwnTxs : t.entry = k
    /\ dryRun => OwnTxs = {}

\* The tx about to be sent never carries a nonce this run already used: the
\* reconciliation with the live nonce only ever raises the cached nonce, and
\* the cached nonce is advanced after each accepted send (sendtx.go:152-175).
NoOwnNonceReuse ==
    pc = "send" => nonce \notin {t.nonce : t \in OwnTxs}

\* Once the nonce is known it is never lowered: the live nonce replaces the
\* cached one only when it is greater, and an accepted send increments it
\* (sendtx.go:152-157, 175).  A lowered nonce would re-sign a nonce the run
\* already spent while its earlier tx is still pending.
NonceNeverLowered ==
    [][(nonce \in Nat => nonce' \in Nat /\ nonce' >= nonce)]_vars

\* Seen from the operator, a run is the pipeline of spec section 4.4: the
\* entries in input order, a non-positive reward skipped, a positive one
\* submitted once and then written to the output file, a failed send
\* ending the batch with the count sent so far, and a dry run submitting
\* nothing (sendtx.go:262-296 with sendRewardsTransaction, 141-181).
ImplementsRewardBatch == RB!Spec

\* No transfer of the run is mined and reverted for want of tokens: the
\* balance checked before the loop covers every reward the loop sends
\* (sendtx.go:236-240 against 272-285).
NoRevertedTransfer ==
    reverted = {}

\* When the run ends, every transfer an endpoint accepted is in the output
\* file, which is what an operator resumes from (spec section 4.4).
LedgerComplete ==
    pc \in {"done", "failed"} => {t.entry : t \in OwnTxs} \subseteq Range(ledger)

\* The run ends: setDefaults' unbounded retries stop once endpoints answer,
\* and the loop visits every entry (sendtx.go:104-138, 272-292).
Termination ==
    <>(pc \in {"done", "failed"})

\* Every transfer recorded in the output file is eventually mined: the
\* nonces the run uses leave no gap below them (sendtx.go:152-159, 175).
SentEventuallyMined ==
    \A k \in EntryIndices :
        (~dryRun /\ k \in Range(ledger))
            ~> (\E t \in OwnTxs : t.entry = k /\ t.nonce < chainNonce)

=============================================================================
