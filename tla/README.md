# Formal model of ANYToken-distribution's reward sender

TLA+ modules, TLC configurations and TLAPS proofs for the code under `src/`:
the RPC gateway `APICaller` (`src/unnamed/part_000`, package `callapi`),
the transaction builder and reward pipeline (`src/distributer/sendtx.go`)
and the `sendrewards` command that joins them
(`src/cmd/distribute/sendrewards.go`).

## The system

`sendrewards` dials the gateway URLs, builds an `Option` and a `BuildTxArgs`,
and calls `SendRewardsFromFile`. That function:

1. `checkSendRewardsFromFile`: reads the input file (an `AccountStatSlice`
   and a title line). An empty list ends the run with success. Otherwise it
   checks the title line, sets `TotalValue = CalcTotalReward()`, checks the
   sender's token balance against it, runs `CheckBasic` and writes the title.
2. The send loop. Entries with a reward `<= 0` are skipped. For every other
   entry, `sendRewardsTransaction` runs: in a dry run it returns at once.
   Otherwise it re-reads the pending nonce and keeps the larger of it and the
   cached one. Then it builds, signs and submits the transfer, and increments
   the cached nonce only on success. A failure of any submission aborts the
   whole batch. A success adds the reward to `rewardsSended` and writes one
   output line. The write's error is discarded.

Before that, `BuildTxArgs.Check` loads the keystore. In a dry run a failure
to load it is tolerated. The sender given on the command line must equal the
key's address (`EqualFold`). `setDefaults` then loops until the chain ID,
the nonce (unless `--nonce` was given) and the gas price are all known. It
retries at once after every failure (`continue`).

Every RPC goes through `APICaller`. Each of its eight wrappers tries the
clients in order and returns the first success, or the last error.
`GetCoinBalance` and `CallContract` wrap that in `rpcRetryCount` rounds.
`GetSyncProgress` retries for ever. `DialServer` appends one client per URL
and stops at the first failed dial. `src/syncer/clients.go` repeats the
dial loop and the failover loop over its own client list. `src/worker/work.go`
only starts other packages.

## Modules

| Module | Models | State | Actions |
|---|---|---|---|
| `Distributer` | `Check`, `loadKeyStore`, `setDefaults`, `checkSendRewardsFromFile`, the loop of `SendRewardsFromFile`, `sendRewardsTransaction`; and the chain the run talks to | `pc`, `dryRun`, `stats`, `chainIDSet`, `gasPriceSet`, `nonce` (`*args.Nonce`, `NoNonce` for nil), `i` (loop index), `rewardsSended`, `checkedBalance`, `ledger` (output lines as entry indices), `pool` (accepted txs `[nonce, entry]`), `chainNonce`, `balance`, `reverted`, `extCount` | `Check`, `GetChainID`, `GetAccountNonce`, `SuggestGasPrice`, `ValidateEmpty/Pass/Fail`, `SkipReward`, `DryRunSend`, `PrepareTx`, `SendOk`, `SendFail`, `Finish`; chain: `Mine`, `ExternalTx` |
| `Gateway` | `DialServer`, `CloseClient`, the failover loop, the retry loops of `GetCoinBalance`, `CallContract`, `GetSyncProgress` | `clients` (`len(c.clients)`), `closed`, `pc`, `op`, `round`, `j` (client index), `err`, `answered`, `tried`, `sleeps`, `calls` | `DialServer`, `CloseClient`, `Invoke`, `RetryLoop`, `ClientSucceeds`, `ClientFails`, `RoundEnds` |
| `FailoverCall` | what a gateway call promises (spec section 4.1), with a whole call as one step | `clients`, `closed`, `pc` (`"busy"` during a call), `op`, `err`, `answered`, `tried`, `round` (failed attempts), `calls` | `Dial`, `Close`, `Begin`, `Return` |
| `RewardBatch` | what the pipeline promises (spec section 4.4, `runBatch`), with RPCs, nonces and the chain left out | `batch`, `dry`, `status` (`setup`, `running`, `done`, `failed`), `pos`, `ledger`, `submitted` (accepted entries), `sentTotal` | `Accept`, `NothingToDo`, `Reject`, `Skip`, `Pay`, `Abort`, `Complete` |
| `SyncerClients` | `src/syncer/clients.go`: `dialServer`, `closeClient`, `getHeaderByNumber`, `getBlockByNumber`, `getTransactionReceipt` | `Gateway`'s variables, through `INSTANCE Gateway` | `dialServer`, `closeClient`, `GetterCall`, `ClientAnswers`, `ClientErrs`, `LoopEnds` |
| `SenderCheck` | `BuildTxArgs.Check` up to `setDefaults`, and `loadKeyStore`, on the `--sender` string | `dryRun`, `key` (keystore address or `NoKey`), `sender` (`args.Sender`), `fromAddr`, `result` | `WrongSender`, `KeyFailsLive`, `KeyLoaded`, `KeyFailsDry` |
| `DistributerProofs`, `RewardBatchProofs`, `GatewayProofs`, `SyncerClientsProofs`, `SenderCheckProofs` | TLAPS proofs about `Distributer` (its refinement of `RewardBatch` in `RewardBatchProofs`), `Gateway`, `SyncerClients` and `SenderCheck` | | |
| `FailoverLemmas` | the outcome sequences of a failover round (`AllFailed`, `AnsweredAt`) and the lemmas on appending to them, shared by the Gateway and syncer proofs | | |
| `MC_Distributer`, `MC_Gateway`, `MC_SenderCheck` | small instances for TLC | | |

Correspondence to the code:

- In `Distributer`, one RPC is one step. Its outcome is chosen with `\E` or
  by a disjunct. A failed query inside `setDefaults` changes nothing, so it
  is a stuttering step. The failover loop itself is modelled in `Gateway`.
- `SendOk` and `SendFail` together are `sendRewardsTransaction` from
  `SignTx` on, plus what the loop does with its result. With `LostAck`,
  `SendFail` may leave the transfer accepted by an endpoint.
- `WriteResult` is the ledger write of lines 286-291. With `WriteFails` it
  may write nothing, because the code discards the error.
- The chain is the environment, not code of this repository. `chainNonce`
  is the next nonce to be mined, and `Mine` mines the pooled tx that carries
  it. `GetAccountNonce` and `PrepareTx` read `chainNonce`, where the code asks
  for the pending nonce, which also counts the pooled txs. The two differ
  only while txs are pooled. The reconciliation in `PrepareTx` only ever
  raises the cached nonce, so no property depends on the difference. A transfer the balance does not cover
  reverts but still uses its nonce. `ExternalTx` is another program
  signing with the same key. It is bounded by `MaxExternal` and moves
  `ExtSpend` tokens.
- Sums of rewards are integers, as `big.Int` is unbounded.
  `TotalReward` is `CalcTotalReward` (outside `src/`, taken from the spec:
  the sum of all rewards).
- In `Gateway`, `Failover` stands for the eight wrappers, which share one
  loop. `ClientSucceeds` and `ClientFails` are one iteration of it.
  `RoundEnds` is the exit of the loop and the retry decision, including
  `CallContract`'s sleep. `tried` records the outcomes of the current round,
  so the contract can say which clients were asked.
- `SyncerClients` reuses `Gateway` with `INSTANCE ... WITH NumURLs <-
  NumServers, RetryCount <- 0`: the syncer's getters are the same
  first-success loop with no retry around it, so `GetterCall` is `Invoke`
  restricted to the `Failover` operation, and the other actions are
  `Gateway`'s.
- In `SenderCheck`, an address is a model value and a `--sender` string is a
  record: a hex address with its prefix (`"0x"`, `"0X"` or none), a
  malformed string, or the empty string. The case of the hex digits is left
  out, because `IsHexAddress`, `HexToAddress` and `EqualFold` all ignore it.
  `Address.String()` is the `"0x"` form. `EqualFold` therefore equates
  `"0x"` and `"0X"` but not a string without prefix. Each action ends with
  the comparison of line 64 (`Compare`), which is part of `Check`.

## Properties and runs

`Distributer` (run `distributer_main`, `MC_Distributer.cfg`):

- `AtMostOncePerEntry`: no entry is ever submitted twice within a run.
- `LedgerFaithful`: the output lists exactly the positive entries the loop
  has passed, in order, once each.
- `LedgerBacked`: outside a dry run every output line stands for an accepted
  transfer, and a dry run submits nothing.
- `NoOwnNonceReuse`: the tx about to be sent never reuses a nonce of the run.
- `ImplementsRewardBatch` (refinement): `Distributer` implements
  `RewardBatch`. The mapping sends `pc` to the pipeline phase (`check`,
  `defaults`, `validate` are `setup`; `loop`, `send` are `running`), `i` to
  `pos`, `rewardsSended` to `sentTotal`, and the entries of the run's own
  pooled transfers to `submitted`. The RPC queries of `setDefaults`, the
  step from `loop` to `send` and the chain's steps are stutters. A dry or
  successful send is `Pay`; a failed send, with or without a lost
  acknowledgement, is `Abort`. The mutant `SendFailIgnored` (the send error
  ignored and the line written) breaks it.
- `NonceNeverLowered` (action property): once known, the cached nonce is
  never lowered. The reconciliation with the live nonce at sendtx.go:152-157
  keeps the greater of the two. The mutant `PrepareTxAdoptLive` adopts a
  lower live nonce while an earlier tx is pending, and breaks the property.
- `NoRevertedTransfer`: the balance check covers every transfer that is sent.
- `Termination` (liveness): the run reaches `done` or `failed`.
- `SentEventuallyMined` (liveness): every recorded transfer is eventually
  mined.

The instance has two accounts and three input files: one with a repeated
account and a zero line, one with a single entry, and an empty one. Both
dry and live runs occur, with the nonce either given explicitly or
resolved. Balances are 2 and 3, so the balance check both passes and fails.
Lost acknowledgements are on, and one out-of-band transaction may take a
nonce. Every action fires (927 distinct states). The runs are short because
the program is a bounded sequential loop. Longer files only repeat the
send / skip / fail cases already covered.

Violation runs, each checking one property (see `findings` in
`PROJECT.json`):

- `distributer_lost_ack`, `LedgerComplete`: a lost send acknowledgement
  leaves an accepted transfer out of the output. A resume from that output
  pays it again.
- `distributer_write_fails`, `LedgerComplete`: a discarded write error does
  the same while the run reports success.
- `distributer_negative_rewards`, `NoRevertedTransfer`: a negative line
  lowers `TotalValue` but is skipped by the loop. The balance check passes
  for less than is sent.
- `distributer_nonce_gap`, `SentEventuallyMined`: an explicit `--nonce` above
  the pending nonce is never checked. Everything is accepted and recorded,
  but nothing is ever mined.

`Gateway` (run `gateway_main`, 2 URLs, retry count 2, 2 calls):

- `GatewayContract`: a returned call carries the answer of the first client
  that answered in its last round, with no later client asked. Otherwise it
  carries an error after every client of every allowed round failed.
- Violation runs: `gateway_zero_retry` (retry count 0 gives nil result, nil
  error) and `gateway_coin_balance_backoff` (`BackoffBetweenRounds`:
  `GetCoinBalance` retries without sleeping).
- `ImplementsFailoverCall` (refinement): `Gateway` implements
  `FailoverCall`. The mapping hides a call in progress: while `pc` is
  `"round"` or `"client"` the abstract `pc` is `"busy"`, and `err`,
  `answered`, `tried` and `round` show their zero values. So `Invoke` is
  `Begin`, the step that leaves the loops (`ClientSucceeds`, the exit of
  `RetryLoop`, `RoundEnds` back to idle) is `Return`, and every other step
  of the loops is a stutter. `Return` says that a bounded read fails only
  after exactly `RetryCount` attempts and succeeds within them, and that
  `GetSyncProgress` never returns an error.
- `MCRoundBound` caps `GetSyncProgress`'s unbounded retry at three rounds.

`SyncerClients` (run `syncer_main`, 5 servers, 4 calls):
`SyncerImplementsFailoverCall`, the same refinement for the syncer's list.
With five servers, an answer at every position and a call that fails on
all of them both occur, before and after `closeClient`. Violation run
`syncer_empty_servers`: with an empty server list `dialServer` succeeds and
every getter returns nil with a nil error, which no `Return` step allows.

`SenderCheck` (run `sender_check_main`, two keystore addresses):

- `SignerIsSender`: a live run that passes `Check` has loaded a key, and
  both `fromAddr` and the sender it reports are that key's address. The
  nonce is queried for the sender and the transactions are signed with the
  key, so they must be one account.
- Violation run `sender_check_no_prefix` (`MatchingSenderAccepted`): the
  key's own address without `0x` passes `IsHexAddress` and then fails
  `EqualFold`. The same comparison also fails a dry run whose `--sender`
  names another address, where the spec says the mismatch is only logged.
  That is visible in the model, but no run is spent on it.

Every property of a passing run has a mutant in `PROJECT.json`. A mutant is
a plausible bug in the mapped action, for example a send failure that is
retried or skipped, a live nonce adopted even when it is lower, an
off-by-one balance check, or a failover loop that does not return on
success. TLC finds each one.

## Fairness and deadlock

`Spec` of `Distributer` assumes `WF_vars(Run) /\ WF_vars(Mine)`. The run is
a single goroutine that never waits on another one. For the `setDefaults`
steps, weak fairness is the assumption that an endpoint eventually answers,
since the code retries without bound. Mining is the chain's progress.
`ExternalTx` gets no fairness. `CHECK_DEADLOCK FALSE` is used because the
process exits at `done` or `failed`. `Termination` checks that no other
state is final. `Gateway`, `SyncerClients` and `FailoverCall` have no
liveness property and no fairness: a call waits on endpoints the code puts
no deadline on. `calls` is bounded by `MaxCalls`, and a failed dial ends
the program, so stopping there is expected. `SenderCheck` is one call of
`Check`, and it stops when the call returns.

## What is proved (`DistributerProofs.tla`)

For every value of the constants that satisfies the module's `ASSUME`s
(batches are sequences of `AccountStat`, balances and explicit nonces are
naturals, `NoNonce` is not a natural):

- `TypeCorrect`: `Spec => []TypeOK`. `TypeOK` already includes two facts that
  depend on `pc`: the nonce is resolved from validation on, and the loop
  index is in range while sending. Lemmas: `WriteResultType` (appending keeps
  the ledger a sequence of indices), `CurrentEntry`, `TypeStep` (one case
  per action), `InitType`.
- `OwnTxInvariant`: `Spec => []OwnTxInv`, the inductive strengthening. Every
  accepted transfer of the run belongs to an entry below `i` and has a nonce
  below the cached `nonce`. The one exception is the transfer whose failed
  send ended the run, which has exactly `i` and `nonce`. Entries are unique,
  nothing is accepted before the loop, and the nonce is resolved once
  something is. The invariant is needed because `AtMostOncePerEntry` alone is
  not inductive: a send for entry `i` keeps it only if no earlier transfer
  has entry `i`. Likewise, nonce freshness needs every pooled nonce to be
  below the cached one. `OwnTxStep` proves one step per action. `QuietStep`
  and `NothingSentStep` cover the actions that do not submit.
- `NoDoubleSubmission`: `Spec => []AtMostOncePerEntry`.
- `NoNonceReuse`: `Spec => []NoOwnNonceReuse`.
- `LedgerExact`: `WriteFails = FALSE => (Spec => []LedgerFaithful)`. The
  hypothesis matters. The loop discards the error of the ledger write, and
  the run `distributer_write_fails` shows a sent transfer without its line.
  The inductive invariant is `LedgerInv`: `TypeOK`, `LedgerFaithful` itself
  and `SendGuard`. `SendGuard` says that the send step is reached only in a
  live run and for a positive entry, because `SendOk` does not re-check the
  reward. Lemmas: `RangeAppend` (the range of `Append(s, e)` is `Range(s)`
  plus `e`), `LedgerSkip`, `LedgerWrite`, `LedgerQuiet`, `LedgerStep`.
  `LedgerWrite` keeps the ledger increasing: every line is below `i`, since
  the range is the set of positive entries before `i`.
- `LedgerBackedInvariant`: `Spec => []LedgerBacked`, whether or not writes
  fail. The inductive invariant is `BackedInv`, that is `TypeOK`,
  `SendGuard` and `LedgerBacked`. A dry run never reaches the send step, so
  it never pools a transfer. The pool only grows. A live write appends the
  entry whose transfer the same step pooled (`BackedSend`).
- `NonceMonotone`: `Spec => NonceNeverLowered`, an action property. It is
  proved from `TypeCorrect` and the step lemma `NonceStepHolds`, using
  `NoNonce \notin Nat`, which is an assumption of the module.

## What is proved (`RewardBatchProofs.tla`)

- `RunImplementsRewardBatch`:
  `WriteFails = FALSE => (Spec => ImplementsRewardBatch)`. It holds under the
  same hypothesis as `LedgerExact`, because the abstract `Pay` always writes
  the line and a failed write in the code drops it. The invariant it needs
  is `TypeOK /\ SendGuard`. `SendGuard` supplies the positive reward and the
  live mode that `Pay` and `Abort` require of a send step. `BatchInit` maps
  the initial state. `BatchStep` has one case per action and names the
  abstract step each one takes. `SubmittedKept` and `SubmittedAdd` say how
  the accepted entries move: an out-of-band transaction carries entry 0 and
  adds none, and a pooled `RawTx(i)` adds `i`.

## What is proved (`GatewayProofs.tla`)

These results hold under `ContractAssumption`: at least one URL and
`rpcRetryCount >= 1`. The violation run `gateway_zero_retry` shows that the
contract fails without the second condition.

- `CallInvariant`: `Spec => []CallInv`. `CallInv` is `TypeOK` plus the
  following. Before the dial nothing is dialled or counted. After it the
  list is full, and a call in progress has been counted. While a client is
  asked (`ClientInv`), the clients before `j` have all failed (`tried =
  AllFailed(j - 1)`), `j > 1` implies an error, a bounded read is below
  `RetryCount` rounds, and a plain failover is in round 0. Between rounds
  (`RoundInv`), either nothing was tried yet, or the last round failed on
  every client. `GatewayContract` itself is not inductive. When the loop
  exits, it needs `tried` to be all failures and `round` to be exactly
  `RetryCount`, and only these facts about the loop give that. Lemmas:
  `AppendFailed` and `AppendAnswer` (what appending one result does to
  `tried`), `TypeStep`, `CallStep` (one case per action, one step per
  conjunct), `InitCall`.
- `GatewayKeepsContract`: `Spec => []GatewayContract`.
- `GatewayRefinesFailoverCall`: `Spec => ImplementsFailoverCall`.
  `InitRefines` maps the initial state. `RefineStep` maps every step,
  assuming `CallInv` before and after it, to `Dial`, `Close`, `Begin`,
  `Return` or a stutter. The invariant supplies what `Return` needs: the
  answer's position, the round count, and that a failover's round is 0.

- `GatewayTypeCorrect`: `Spec => []TypeOK`, for any `NumURLs`,
  `RetryCount` and `MaxCalls`, with no `ContractAssumption`. It needs only
  `DialInv`.

## What is proved (`SyncerClientsProofs.tla`)

These results hold under `SyncerAssumption`: at least one server, and
`MaxCalls` a natural. The violation run `syncer_empty_servers` shows the
refinement failing on an empty list.

- `SyncerInvariant`: `Spec => []SInv`. `SInv` is `Gateway`'s `TypeOK` and
  `GatewayContract`, plus the following. Only the `Failover` operation
  runs, always in round 0 (`FailoverOnly`). The dial and list facts hold.
  During a call the servers before `j` have all failed (`SClientInv`).
- `SyncerRefinesFailoverCall`: `Spec => SyncerImplementsFailoverCall`.
  `SyncerInitRefines` maps the initial state. `SyncerRefineStep` maps each
  step to `Dial`, `Close`, `Begin`, `Return` or a stutter. With
  `BoundedRetryOps` and `EndlessRetryOps` empty, `FailedBefore(op)` is
  `{0}`, and `FailoverOnly` gives the round.

## What is proved (`SenderCheckProofs.tla`)

These results hold for every set of addresses (`AddrsAssumption`).

- `TypeCorrect`: `Spec => []TypeOK`.
- `SignerMatchesSender`: `Spec => []SignerIsSender`. When a live `Check`
  succeeds, the run holds a loaded key and uses the key's address as the
  sender address. The `--sender` string also parses to that address. The
  central lemma is `EqualFoldAddr`: a string that `EqualFold` equates with
  `AddrString(a)` parses to `a`. `HexSenders` and `SignerStep` complete the
  proof.

## What stays model-checked

- Liveness: `Termination` and `SentEventuallyMined`. Fairness, `ENABLED`
  and leads-to are beyond what TLAPS proves here.
- `NoRevertedTransfer`. It relates the balance checked before the loop to a
  sum of rewards over the entries mined so far. A proof needs facts about
  every prefix sum of `TotalReward`'s recursive function `sum`, such as
  `sum[n]` being at least `sum[m]` for `m <= n` when rewards are positive.
  Those facts need induction over the batch length. The library's
  induction theorems take the predicate as an operator parameter, and the
  installed provers cannot instantiate one.
- The properties of the violation runs. They are false on purpose.

## Not modelled

- In `Distributer`, `Check` chooses the outcome of the keystore load and of
  the comparison. `SenderCheck` models that comparison on its own.
- The title-line parsing and the ABI encoding and decoding.
- The worker (`src/worker/work.go`). It only starts goroutines of packages
  outside `src/` and then blocks on a channel nobody sends on, so it has no
  state of its own to model.
- Logging, flag parsing, MongoDB (`CheckBasic`, `SaveDB`), and the keystore
  crypto.

## Plan for later sittings

1. A composition in which `Distributer`'s RPC steps are `Gateway` calls over
   several endpoints, so that a lost acknowledgement comes from a failover
   after an endpoint accepted the transfer.
2. A crash of the process between submission and ledger write, and a resume
   run that starts from the written ledger.
3. A proof of `NoRevertedTransfer` for a fixed batch length, by unfolding the sum.
