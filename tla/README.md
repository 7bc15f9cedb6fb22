# Verifying the SeumStandard civic contract and its bridge

This directory holds TLA+ modules that model the code in `src/`, TLC
configurations that check them on small instances, and theorems about them
checked by TLAPS for every value of the constants. `PROJECT.json` maps every
modelled definition to its source lines and lists runs, mutants, hazards,
findings and theorems.

## 1. The system

People hold kWR on the Zion chain. On an EVM chain a *civic contract* turns
attested deeds into honor on three axes (capital, labor, verification), lets it
decay day by day, doubles voting power with volunteer weeks, and lets everybody
leave with the kWR they locked. A daemon (zion1) watches both chains, signs what
it saw on Zion as payloads for the contract, and releases kWR on Zion when
somebody leaves. A CosmWasm twin implements the same standard natively.

| Component | Source | State | Operations |
|---|---|---|---|
| EVM contract | `contracts/SeumStandard.sol` (`jjjajh_STD_SC.sol` is a copy) | `citizens`, `hasBadge`, `attestedPoP`, day bit maps, `consumed`, `attester` | attestPoP, join, setSabbathDay, bridgeMintCapital, attestHonor, attestDay, ragequit, grantBadge, revokeBadge, rotateAttester, views |
| Arithmetic | same file: `_applyDecay`, `_processWeeks`, views, `sqrt` | none | decay of up to 90 days, volunteer weeks, voting power |
| CosmWasm twin | `jjjajh_STD_CW/src/contract.rs` | the same in cw-storage maps; real funds in the bank | the same, `contribute_capital` instead of the mint, `ragequit` pays out |
| Event loop | `zion1-daemon/internal/pipeline`, `handlers/handler.go` | retry counter, event in hand | receive, dispatch, dedup, retry, abandon |
| Handlers | `handlers/{bridge_mint,attest_*}.go` | none | sign a payload, send a transaction |
| Ragequit path | `handlers/evm_ragequit.go`, `evmclient/client.go` | two channels; keys and dead letters in the store | watch logs, broadcast the unlock, mark |
| Store | `internal/store/{store,bolt}.go` | consumed keys, on disk | IsConsumed, MarkConsumed, flush, restart |
| EVM client | `evmclient/client.go` | nonce | send without waiting for the receipt |
| Zion client | `zionclient/client.go` | channel of 64 events | subscribe, decode |
| Life cycle | `cmd/zion1-daemon/main.go` | goroutines | start, shutdown |
| x/seum | `zion-seum-module-spec.md` (a proposal, external) | locks on Zion | lock, unlock |

How they interact: a lock on Zion becomes an event, the daemon's handler turns
it into a signed payload and a transaction, the contract checks expiry, replay
and signature and credits the worker; `ragequit` emits an event that the
daemon's watcher turns into an unlock on Zion. Anybody may submit a signed
payload to the contract: the daemon is only the usual sender.

What is hard, and what makes each part correct:

* **Contract.** Three axes are settled at different times by different calls,
  each call for at most 90 days, with a calendar of weeks shared by the axes,
  exemptions that may be attested late, and views that repeat the settlement in
  loops of their own. Correct means: clocks never run backwards, a settlement
  may be split anywhere, no week is rewarded twice even across ragequit and
  rejoin, views and settlement agree, and kWR is conserved.
* **Replay.** Four kinds of payloads share one set of used identifiers; keys
  rotate and payloads expire. Correct means: an identifier is spent once, and
  honor rises only by something attested.
* **Numbers.** Truncating integer division, checked multiplication near the
  largest integer, Newton's square root. Correct means: the documented rates,
  exact roots, and views that answer exactly where the settlement goes through.
* **Daemon.** At-least-once handling with a crash between sending and marking,
  retries against permanent failures, logs delivered twice, lost
  subscriptions, a store written by several goroutines. Correct means:
  nothing is credited twice, a mark is never ahead of the deed, one event cannot
  hold up the others for ever, and a shutdown comes to its end.
* **Twins.** Two implementations in two languages of rules that are promised to
  give the same results. Correct means: the same deeds in the same order lead to
  the same citizens.

## 2. Modules

| Module | Role |
|---|---|
| `SeumMath` | the arithmetic as pure operators on a citizen record; loops are recursive functions indexed by the iteration |
| `SeumStandard` | the EVM contract: one action per external function, and a day that passes |
| `CivicLedger` | abstract specification: verify, enter, deposit, credit, leave; nothing about time or honor |
| `SeumHistory` | `SeumStandard` with a history variable: the days that were decayed |
| `SeumHorizon` | one citizen under the source's own constants over 600 days |
| `SeumCW` | the CosmWasm twin over the same `SeumMath`: one action per message, and the bank balance of the contract |
| `TwinContracts` | `SeumCW` and an instance of `SeumStandard` in lockstep: every deed reaches both |
| `Daemon` | the way from Zion to the EVM chain: subscription, channel, pipeline, dedup, handler, mark, retry, crash, shutdown |
| `ConsumedStore` | the record of processed events: bbolt, and the memory store with its file, written in three steps by two goroutines |
| `RagequitWatcher` | the way back: log subscription, two goroutines, a bounded channel, unlock, dead letters, shutdown, kill, restart; on `ConsumedStore` |
| `Payloads` | the four handlers as pure operators: what they accept, sign and put into the calldata, and what the contract hashes |
| `CustodyLedger` | abstract specification of the bridge: a person's kWR is in flight, claimed or owed, in this order and never twice |
| `Bridge` | x/seum, the daemon's handlers and account, the pool of transactions and an instance of `SeumStandard` together |
| `MCSeumStandard`, `MCSeumHistory`, `MCSeumHorizon`, `MCSeumCW`, `MCTwinContracts`, `MCDaemon`, `MCRagequit`, `MCBridge` | finite instances for TLC |
| `SeumMathProofs` | sums over a finite set; the loops, the views, the square root and the voting power, for every value of the constants |
| `SeumStandardProofs` | safety and refinement of the contract; that its views agree with its settlement |
| `HorizonProofs` | when the rate is full under the source's constants; the roots of the views |
| `TwinProofs` | safety and refinement of the twin, that its locks are backed and can be paid, and that the two contracts agree |
| `DaemonProofs` | safety of the daemon |
| `RagequitProofs` | safety of the ragequit path and of the store's file |
| `CustodyProofs` | the ledger of custody conserves kWR |
| `BridgeProofs` | safety of the bridge, that it implements the ledger of custody and that the contract behind it runs as `SeumStandard` specifies |

### How the model corresponds to the code

* A transaction is atomic, so an action is a whole external function with every
  call it makes: `BridgeMintCapital` runs `_applyDecay`, which runs
  `_processWeeks`, then adds honor and lock. A failed `require` or an arithmetic
  overflow reverts, that is, the action is not enabled.
* `block.timestamp` enters only as the day number; expiries are day numbers.
  `NextDay` lets time pass.
* The bit maps are sets of days. Addresses, keys and identifiers are model
  values; the zero address is no key, as constructor and `rotateAttester`
  require.
* A signed payload is a record with the key that signed it. The constants
  `PoPAttestations`, `MintAttestations`, `HonorAttestations`, `DayAttestations`
  are all payloads anyone ever signed; anybody may submit any of them at any
  time, again and again. `Accepted` is the three checks that every attested
  function makes.
* `bridged`, `requested` and `weekEvents` are the contract's event log
  (`CapitalBridged`, `RagequitRequest`, `VolunteerWeekCounted`), which only the
  properties read.
* The `ok` field of the loops becomes FALSE where the 0.8 compiler's checked
  arithmetic would revert. A view is a total function, and a predicate of its own
  (`CurrentHonorFits`, `CurrentMultBPFits`, `VotingPowerFits`) says when its checked
  products fit and it answers at all.
* `getHonorBreakdown` regroups the other views and is left out.

The twin (`SeumCW`):

* A message is atomic and a failing one changes nothing, so the same rule
  applies: one action per `ExecuteMsg`, not enabled where the code returns an
  error or where arithmetic overflows (the build checks it).
* `Credited` is what `exec_contribute_capital` and `exec_attest_honor` share:
  `apply_decay`, the checked additions, `process_weeks_with_storage`. It uses the
  operators of `SeumMath`, because the loops are the same; the order of credit
  and weeks is the twin's own.
* Coins are a function from denominations to amounts. `held` is the bank's
  balance of the contract; `gifted`, `contributed` and `paidOut` are read by
  properties only. `BankMsg::Send` executes with the message and fails it if the
  balance is too small.
* `TwinContracts` instantiates `SeumStandard` with variables of its own. An
  integer has the same width on both chains there: amounts that fit 256 bits but
  not 128 are not compared. `Rounding` and `Power` only serve to state how far the
  twin's capital may lead. `IdAssumption` keeps the identifiers that only the EVM
  contract uses up (random nonces of registrations, lock ids) apart from those of
  jobs and days. A step needs both chains to take it; `TwinsAcceptAlike` says that
  this leaves nothing out but what overflows on the twin alone.

The daemon (`Daemon`):

* Three actors step concurrently: the goroutine of `Subscribe` (`Decode`,
  `Forward`, `CloseChannel`), the pipeline (`Take` to `Exit`) and the
  environment (deliveries, lost connection, SIGTERM, crash, restart).
* `processWithRetry` and `Dispatch` run in one goroutine; `pc` says which of
  their steps is next: `dispatch` before the handler, `handled` between the
  handler's return and `MarkConsumed`, `backoff` in the wait before a retry. A
  crash may fall between any two.
* An event carries what matters of it: its transaction and type (the dedup key),
  the identifier its handler spends on the contract, and whether the handler
  sends, has nothing to do or cannot use the attributes. The four handlers differ
  in nothing else, except that `attestPoP` draws a fresh nonce on every attempt.
* `sendTx` returns when the node has the transaction. `Execute` is the contract's
  answer, which nobody waits for; `HandleReplyLost` is a transaction the node
  took while the daemon saw an error.
* The store is the bbolt store, whose marks are durable transactions. An error
  of a mark is ignored by the code and not modelled.
* The branch for permanent errors in `processWithRetry`, and
  `MarkPermanentlyFailed`, cannot be reached: package `handlers` cannot import
  `pipeline`, where `PermanentError` is defined, because `pipeline` imports
  `handlers`. So unusable attributes are retried like a lost connection and then
  abandoned, although `errors.go` gives them as an example of a permanent error.

The ragequit path (`RagequitWatcher`, `ConsumedStore`):

* Four actors: the goroutine of `WatchRagequit` (`Decode`, `Forward`,
  `StopWatching`), that of `EVMRagequitHandler.Run` (`Take` to `StopHandling`),
  the pipeline, which appears only as the other goroutine that marks keys, and
  the environment (logs, lost connection, signal, `MainReturns`, `End`,
  `Restart`).
* `pc` is the handler's place in `handle`: before the look-up, after a broadcast
  that succeeded or failed, after the mark. The process may end between any two.
* `MainReturns` is the return of `p.Run` with the deferred `closeStore`. Nobody
  waits for the two goroutines: they may go on until the process is gone, with a
  closed bbolt database, whose errors the code ignores. The memory store has
  nothing to close.
* `MemoryStore.MarkConsumed` changes the map under the lock; `flush` takes its
  snapshot under the lock and calls `os.WriteFile` outside of it, which truncates
  and then writes: `Put`, `TakeSnapshot`, `Truncate`, `Write`. Two writers both
  start at the beginning of the file; the tail of a longer content remains and
  makes it unreadable.
* A log may be delivered any number of times under its transaction hash and index,
  also as removed by a reorganisation: the code looks neither at the `Removed` flag
  nor at blocks. What a reorganisation includes at another index has another key
  and is another request here. Neither the code nor a property excludes that it asks
  for a second unlock, or that a removed log nobody had seen is unlocked as if it stood.
* The channel of the subscription is drained by go-ethereum's buffer, so it has
  no bound here; `ragequitCh` has the bound of the source.
* `BroadcastMayFail` is TRUE in the instance: the interface may return an error.
  Under main's `LoggingBroadcaster`, which never does, the failing branch is dead.

The bridge (`Payloads`, `Bridge`):

* An attribute is a value, or absent or unreadable. `requireUintAttr` accepts any
  decimal integer; the encoder of the ABI keeps the low 256 bits (`Word`), in the
  digest and in the calldata alike.
* A hash is the tuple of its fields and a signature the digest with a key:
  `ecrecover` yields the key if the contract hashes the same tuple, and otherwise
  an address nobody has. So whether both sides list the same fields in the same
  order is a fact of the model, not an assumption.
* `pool` holds the daemon's transactions by account nonce, counted from the
  oldest pending one. `PendingNonceAt` answers the first free nonce; what is
  behind a gap is not mined. `sendTx` runs under `sendMu` and is one step.
* `Send` and `SendNothing` are one attempt at the oldest event: the handler, the
  broadcast, its reply (which may be lost after the node took the transaction)
  and the mark. Crashes between these, and redelivery, are in `Daemon`.
* `Revert` may hit any transaction, because the gas limit is fixed by the
  configuration. `Submit` lets anybody send a signature the daemon made public
  again, with an account of their own.
* x/seum is external. `Unlock` is `MsgUnlockCapitalForSeum` for one
  RagequitRequest, refused when that request was released before.
* The attester's key is also the sending account (main exports it), so a rotation
  stops the daemon until it is started again with another key and another
  account. Here the daemon keeps its key; a rotation strands what it signed.

Names follow the source. Definitions marked *mutant* are plausible bugs used by
the mutation runs of `PROJECT.json`: each replaces the definition it precedes,
and the property must then fail.

## 3. What is checked

| Run | Instance | Question |
|---|---|---|
| `money` | two workers, two keys, one badge, six days in two-day weeks, four identifiers one of which is signed both as a lock and as a nonce, an amount of 0, a mint that expires, honor at the largest integer on a day that is active or not, two volunteer weeks of which the second overflows the multiplier | Is kWR conserved over lives? Do badges and membership agree? Do views and settlement overflow alike? Does the contract implement `CivicLedger`? |
| `time` | one worker, nine days in three-day weeks, a four-day settlement limit, late and early attested days, any ragequit and rejoin | Do day clocks, week clock, rates, rewards and views stay consistent? |
| `horizon` | the source's constants, 600 days, gaps of 20, 65 and 130 days, with and without active days | When is the rate full? Is the square root exact (for 40 numbers on each of the 103 days that are reached)? |
| `horizon_462` | same | violation: the documented day 462 |
| `active_exempt` | one worker, one day attested as active | violation: an attested active day is exempt from decay |
| `cw` | two workers, two keys, two denominations, a strange coin alone and next to kWR, coins sent without a message, honor at the largest integer, four days in two-day weeks | Is every lock backed by coins? Is every exit paid? Is honor earned? Does the twin implement `CivicLedger` too? |
| `twin` | one worker on both chains, two locks, a job, volunteer days, nine days in three-day weeks | Do the two contracts agree on everything but capital honor, and accept the same deeds? |
| `twin_capital` | same | violation: identical to the bit |
| `daemon` | two transactions with five events (lock, registration, unhandled type, day without a gate, unusable lock), a channel of one, one retry, two deliveries, one crash or restart | Can anything be credited twice, sent too often, or marked unhandled? Does the queue move? Does a shutdown end? |
| `two_locks` | one transaction with two locks | violation: dedup by nonce |
| `ragequit` | three requests, one undecodable, two deliveries of any, a channel of one, either store, one key of the pipeline, one restart | Is an unlock repeated without a lost mark? Is a request dropped silently? Does the file hold the map? Does every request that reached the process get settled? |
| `bridge` | one worker, two keys, two days, six events of which three are emitted (a registration, two locks one of which has an unreadable identifier, a negative honor under the identifier of a lock, a day with and without a gate), two pending transactions, one drop, one failed attempt, one ragequit | Is every kWR in escrow accounted for? Does the contract accept what the daemon signs? What does a mark promise? Is the ledger of custody implemented? |

**Bounds and why they suffice.** `MaxDay` bounds the clock: three short weeks
hold every relation of an axis to a week (before, in and after it) and a gap
longer than the settlement limit of four days. Short weeks (`DAYS_PER_WEEK` 2 or
3) and steep growth (3/2 on 100 basis points) make sabbaths, complete weeks and
the full rate occur within nine days; the arithmetic is the same operator for
every value, the real constants are used in `horizon`, and the proofs hold for
all. In `daemon` a channel of one makes the subscriber block on every second
event, one retry has all cases (first, repeated and last attempt), two deliveries
in all are either a redelivery or two transactions, and one restart is enough to
meet a mark from an earlier life; the safety properties are proved for any
bounds. In `ragequit` (`MaxDeliveries` 2, `MaxRestarts` 1, `ChannelSize` 1) two deliveries
fill the channel and the handler, or are one request twice, before and after a
restart; the pipeline's one key is enough to overlap every step of a flush. In
`bridge`, `MaxEvents` 3 lets a worker be registered, lock twice or lock and meet a
shared identifier; `MaxQueued` 1 only makes x/seum wait, since the pipeline takes
events one by one; `MaxPending` 2 with `MaxDrops` 1 gives a gap with a transaction
behind it; `MaxFailures` 1 is one reply lost or one attempt refused;
`MaxRequests` 1 with a rejoin gives a second life that is funded by a lock still
in flight. Signatures expire on the day after (`SignatureTTL` 0). One worker is
enough because the properties speak of each worker alone and
identifiers are shared within one worker's events already. In `cw` a worker may contribute 60 in all, which one call reaches or not.
Two workers and two keys are enough for the interplay of identifiers
and rotation because workers share nothing else. `MAX_UINT` is small in `money`
so that honor overflows after one attestation, and the bonus 90/80 lets the first
volunteer week's multiplier fit and not the second's, in a `MaxDay` of 5 that holds
both, and in `twin` it lies between the
products of the two capitals after a lock with a pending week, so that there is a
settlement that overflows on the twin and goes through on the EVM chain.

**Deadlock** is checked in `money`, `time`, `cw` and `twin` (a rotation or a change of the
sabbath is always possible there). `horizon` sets `CHECK_DEADLOCK FALSE` because
its clock ends at `Horizon`; the runs of `Daemon` and `ragequit` because a process that
is down with no restart left has stopped, and `bridge` because its clock and its events end.

**Fairness.** None for the contracts: they do nothing unless called, so they
promise no liveness. Of the twin, whose bank has to pay, `LeavingNeverBlocked` states
that leaving is always enabled; on the EVM contract it only asks for citizenship. For
the daemon, weak fairness of the two goroutines: the Go scheduler runs them, and a call of a handler returns, because a cancelled
context ends it and otherwise the node answers or the connection breaks. No
call has a deadline of its own, so this is an assumption on the EVM node. Nothing
is assumed of the environment: no message need arrive and no restart need
happen. For the ragequit path, likewise, weak fairness of the watcher's and the
handler's goroutine, each taken as a whole: a goroutine that can run does, and a
broadcast returns. A write of the pipeline is not assumed to finish.

What the properties of the ragequit path concede is part of the result.
`NoSilentDrop` excepts requests of the time when nobody is subscribed: the
subscription starts at the head of the chain, so ragequits during a restart, and
all of them after a lost connection, are never seen; `RequestSettles` excepts them
too, so that neither property is about these losses. `RepeatsAreExplained` counts
the two ways a mark gets lost: the process ends between broadcast and mark, or the
store is closed before it. `FileIsCurrent` excepts a mark set while another
goroutine is in `flush`: then the file may hold the older snapshot, or be
unreadable, and stays so until the next mark.

### Findings

* The decay rate is full on day 520, not on day 462 as `DEV_SETUP.md` and the
  contract's header say: each day's truncating division loses part of the growth
  (about 56% on day 462).
* A day that is settled before its activity is attested is decayed for good,
  while the documents and a test describe an attested active day as exempt. A
  settlement settles the current day too, so one mint in the morning is enough.
* The two contracts are not identical to the bit, as the README and a comment in
  the twin say: `bridgeMintCapital` processes the volunteer weeks before it adds
  the amount, `contribute_capital` afterwards, so the 1% bonus is taken from
  another capital. Everything else agrees, and the twin's capital is never the
  smaller: it is equal until a week is counted, and at most `(e + 100) * 1.01^W` after
  W counted weeks, where e is that of the EVM contract (`TwinsAgree`, proved for all
  constants).
* Two locks in one Zion transaction share the daemon's dedup key (transaction
  and type); the second is dropped as already processed, while the comment says
  that dedup is by nonce and the Zion client emits every event on its own.

Observations without a run:

* The comment on `process_weeks_with_storage` says that an earlier version, which
  took the furthest of the three day clocks, broke the identity of the twins; the
  week clock already follows the furthest axis (`WeeksFollowClocks`), so that
  version gave the same results.
* `contribute_capital` says that exactly one coin is accepted, while it only looks
  for the kWR coin: others stay in the contract, which `LocksAreBacked` keeps apart
  from the locks.
* `WatchRagequit` says that its caller has to subscribe again after an error; main
  only logs the error, so the path back stays dead until the next start.
* A log that `decodeRagequit` cannot read is skipped without a word, though the
  comment leaves the alarm to a caller that never hears of it, and `Run` forbids
  silent drops (`NoSilentDrop` speaks of decodable requests only).
* A negative `honor_delta` passes `requireUintAttr` and `AttestHonorHandler`, is
  reduced modulo 2^256 on both sides (`SignedAsVerified`), and arrives as a very
  large honor if checked addition lets it. `kwr_amount` is checked for its sign.
* The proposed x/seum numbers locks by `uint64`; `requireBytes32Attr` wants 64 hex
  digits. Its event is called `EventLockedForSeum` there and `EventCapitalLocked`
  here.
* The proposal marks all locks of a person released at an unlock, also those
  not minted yet, and remembers an unlock by the EVM transaction only; two
  ragequits in one transaction (of contracts, say) would share it. `Bridge` gives
  every request an identity of its own.
* A lock made before its owner joins reverts on the contract although the event is
  marked: its kWR stays in `Flight` until somebody submits the signature again
  before it expires, and nobody in the daemon does.

## 4. What is proved

TLAPS checks, for any workers, badges, keys and payloads, any length of weeks and
any constants that satisfy `ConstantsAssumption` (naturals; growth factors at
least 1; base rate within the basis points; initial honor and basis points
representable) and `AttestationAssumption` (the payload sets have their types,
the first attester is a key, deployment is before the horizon):

| Theorem | Statement |
|---|---|
| `TypeCorrect` | `Spec => []TypeOK` |
| `ClaimsAlwaysMatch` | `Spec => []ClaimsMatchLocks` |
| `GatesAlwaysHold` | `Spec => []MembershipGates` |
| `WeeksNeverCountedTwice` | `Spec => []WeeksCountedOnce` |
| `WeekClockFollows` | `Spec => []WeeksFollowClocks` |
| `LivesStaySeparate` | `Spec => []LivesAreSeparate` |
| `ClocksOnlyAdvance` | `Spec => ClocksNeverRewind` |
| `HonorOnlyEarned` | `Spec => HonorIsEarned` |
| `RateAlwaysFollowsTenure` | `Spec => []RateFollowsTenure` |
| `RewardsAlwaysOfThisLife` | `Spec => []RewardsOfThisLife` |
| `SettlementIsTheView` | `Spec => []SettleMatchesView` |
| `MultiplierIsAhead` | `Spec => []MultiplierAnticipates` |
| `DecayIsPathFree` | `Spec => []SettlementSplits` |
| `NoVotesBySettling` | `Spec => []PowerSurvivesSettlement` |
| `OverflowAlwaysShared` | `Spec => []OverflowIsShared` |
| `ImplementsLedger` | `Spec => CivicSpec` |

of `SeumHorizon`, from `HorizonAssumption` (the deposit fits, the gaps between
settlements are natural numbers), for any horizon, deposit, gaps and attested days:

| Theorem | Statement |
|---|---|
| `FullOnlyFromDay520` | the four decay constants of the source (`SourceRates`) imply `Spec => []FullRateFromDay520` |
| `RootsAreAlwaysExact` | `Spec => []RootsAreExact` |

of `SeumCW`, for any finite set of workers, any denominations, keys and messages,
from `CallsAssumption` (the messages have their types, the denomination of kWR
exists, the first attester is a key):

| Theorem | Statement |
|---|---|
| `TwinTyped` | `Spec => []TypeOK` |
| `TwinCreditsOnce` | `Spec => HonorIsEarned` |
| `TwinImplementsLedger` | `Spec => CivicSpec` |
| `TwinIsBacked` | `Spec => []LocksAreBacked` |
| `LeavingIsPaid` | `Spec => []PayoutsAreCovered`: no lock exceeds the kWR held |

of `TwinContracts`, for any workers, signed payloads and constants, from
`PayloadAssumption` (the payload sets have their types), `IdAssumption` (a nonce
of a registration or a lock id names no job and no day) and `DecayAssumption` (the
base rate is not zero):

| Theorem | Statement |
|---|---|
| `TwinsAlwaysAgree` | `TwinSpec => []TwinsAgree` |
| `TwinsAlwaysAccept` | `TwinSpec => []TwinsAcceptAlike` |

of `Daemon`, for any log, handlers, channel size, retries, deliveries and
restarts, from `DaemonAssumption` (the log is typed, and a registration carries
no identifier of a lock or job):

| Theorem | Statement |
|---|---|
| `DaemonTyped` | `Spec => []TypeOK` |
| `NeverCreditedTwice` | `Spec => []CreditedOnce` |
| `MarksAreTrue` | `Spec => []MarkedMeansHandled` |
| `SentBounded` | `Spec => []SentOncePerFailure` |

of `RagequitWatcher`, for any requests, keys, channel size, deliveries and restarts,
from `WatcherAssumption` (keys of the two directions differ; two goroutines
mark; the channel holds at least one event):

| Theorem | Statement |
|---|---|
| `WatcherTyped` | `Spec => []TypeOK` |
| `NeverDroppedSilently` | `Spec => []NoSilentDrop` |
| `RepeatedOnlyForLostMarks` | `Spec => []RepeatsAreExplained` |
| `FileStaysCurrent` | `Spec => []FileIsCurrent` |

of `CustodyLedger`, for any persons and integer amounts, `LedgerConserves`:
`Spec => []Conserved`; of `Bridge`, for any workers, any events of Zion, keys and
bounds, from `BridgeAssumption` (lock ids are unique among locks,
events have a type some handler is registered for, amounts of locks are positive and
fit, no key recovers to `Nobody`) and `AttributeAssumption` (an attribute that parses
has the type its parser returns; a nonce the daemon draws is an identifier):

| Theorem | Statement |
|---|---|
| `SignaturesVerify` | `Spec => []SignedAsVerified` |
| `MarksAreAccounted` | `Spec => []MarkedIsAccounted` |
| `EscrowIsExplained` | `Spec => []EscrowExplained` |
| `BridgeImplementsCustody` | `Nat \subseteq Amounts` implies `Spec => CustodySpec` (`Amounts` only bounds what TLC enumerates) |
| `BridgeRunsContract` | `Spec => Chain!Spec`: the contract inside of the bridge behaves as `SeumStandard` specifies |
| `ContractHoldsInTheBridge` | `Spec` implies ten safety properties and the ledger of `SeumStandard`, of the contract in `Bridge` |
| `ReportsReconcile` | `Spec => []Reconciled`: what x/seum locked is minted or in flight, what the contract was asked for is what Zion has heard of |

and of `SeumMath`, for every natural number, `RootIsExact`: `Isqrt(n)` is the floor
of the root.

The argument. A loop of the code is a recursive function, which in TLA+ is a
CHOOSE: nothing is known of it until a function with that equation is shown to
exist. `SeumMathProofs` does so once for all loops (`LoopExists`, by induction
over a *set* of naturals, since an induction rule over an operator is out of the
provers' reach), gives each loop's unfolding (`DecayRunUnfolds`,
`WeeksRunUnfolds`), and from it what a loop keeps: decay never adds honor nor
lowers the rate, weeks are counted once each and only after the last processed
one. Two loops are related by comparing them day by day or week by week: that of
the view is that of the settlement (`ViewIsDecay`), a run over `m + n` days is a run
over `m` continued for `n` (`DecayRunContinues`, `MultRunContinues`), less honor never
decays to more (`ViewRunKeepsOrder`). `SeumStandardProofs` then shows that a step
does one of five things to each worker (`StepCases`), and proves every invariant by
these cases.

No checked invariant on weeks is inductive alone. That a week is counted once
needs that every counted week is behind the citizen's week clock
(`LivesAreSeparate`), also across ragequit and rejoin; that rejoining sets the
clock past them needs that no clock is ahead of the calendar, which needs that
the week clock follows the day clocks (`WeeksFollowClocks`). `WeekInv` is the
conjunction, and all its parts are checked by TLC as well (run `time`). `LifeInv`
stands on top of it: the rate of an axis and the multiplier are what the loops
`RateAfter` and `MultAfter` say, and the weeks on record are those counted after the
week of joining. A step moves rate and days, or multiplier and weeks, by the same
number of iterations, and the week of joining is behind the week clock by `WeekInv`.

The views need no invariant of their own. From the types and `WeekInv`, which puts
no clock ahead of today, `SettledSo` tells what a settlement leaves, and the
theorems on views compare that with what the views compute: the rest of the same
run. For the voting power the comparison goes through the product and its root, which
keeps order (`PowerKeepsOrder`) because it is exact. For `OverflowAlwaysShared` the
products are compared and not only what they leave: day by day those of view and
settlement are the same but at honor 0, where both fit (`DecayFitsAsViewed`), and a
loop over weeks that goes through has computed every product of the view's
(`WeeksFitWhenViewed`); after a settlement no day and no week of that axis is left to
overflow, and the other axes are as before (`VotesStay`). `RootIsExact` rests on two facts
on Newton's step, both by multiplication instead of division: no step falls below
the root, and a step from above the root goes down (`NewtonPass`); so the iteration,
which stops as soon as it does not go down, stops at the root.

`HorizonProofs` runs 520 iterations without computing any of them. Up to 9999 basis
points a day adds one hundredth, rounded down, so the growth is constant while the
rate stays within one hundred (`RateAfter` climbs by 1 a day up to 200, by 2 up to
300, and so on): a ladder of such segments, each by induction over a set of naturals,
leads from 100 on day 0 to 9970 on day 519 and to the full rate on day 520, where it
stays because later rates are no lower (`RateOnlyGrows`). The invariant adds that the
rate is `RateAfter` of the days settled.

The first part of `TwinProofs` strengthens the type invariant by `AbsentIsEmpty`: CITIZENS holds
nothing of those who left, without which a worker would join with an old lock and
the ledger's `Enter` would change a claim. `CreditedType` chains the facts on decay
and weeks in the twin's own order. That the locks are backed needs how a sum over
all citizens moves when one entry does: the fold is again a CHOOSE, so `SeumMathProofs`
shows that it exists and that changing one summand moves it by the difference
(`SumUpdate`), by induction on the sizes of subsets (`SubsetInduction`, over a *set* of
good subsets). One lock is part of a sum of naturals, so a payout is always covered.

Its second part compares two records step by step. The contracts agree between messages
and not inside of one: the twin credits before it counts the weeks. `Due(c, e, a, n,
lock)` says that e is behind c by a credit of n; with nothing due the two are `Twins`.
The credit of the twin makes it due (`FirstCredit`), the loop over weeks keeps it due,
for more capital earns no smaller bonus (`WeeksKeepLead`, `StillDue`), and the credit
of the EVM contract settles it (`LastCredit`). Overflow goes one way: whose honor is
larger overflows first (`LessDecaysToo`), which is why what the twin accepts the EVM
contract accepts. `TwinInv` is inductive; besides the twins it holds the days, the
payouts and the jobs used up to be equal, and that who is no citizen is deleted on
both chains, without which they would rejoin with different locks.

How far the twin leads is a second invariant on top (`LeadInv`): with `W` weeks counted,
`c * BP^W <= (e + R) * (BP + PCT)^W`, where R is `Rounding` (100 for the source). A week
multiplies by at most `(BP + PCT) / BP` or adds the minimum to both, also when e's
credit is still due and earns it no bonus (`BonusWithin`); a credit adds the same on
both sides (`CreditWithin`). A decayed day scales both down, and rounding may cost e up to
one unit and c nothing; R is large enough that the decay of `e + R` pays for it
(`DecayWithin`), since no citizen's rate is below the base rate (`Decaying`), which is
why the bound does not grow with the number of days. A lead of nothing stays nothing
while no week is counted. Day by day and week by week this gives `DecayKeepsLead` and
`WeeksKeepBound`.

`DaemonProofs` first sorts the steps by what they do to the chain and the store
(`StepCases`): a transaction is sent and its reply arrives or is lost, a mark is
set, the process starts, or neither changes. The invariants need one
strengthening each: a credited identifier is spent (`SpentInv`); an event in hand
that is handled has been sent or needs nothing (`HandledInv`); and the one
transaction beyond the counted failures is excused by a mark, by the event being
handled and not yet marked, or by a process that is down and whose restart has
not been counted (`SendInv`).

`RagequitProofs` first shows what any step may do to the store: the keys recorded
anywhere (map, file, snapshots under way) grow only by the key the handler or the
pipeline has just decided on (`StoreStep`). From this follows `Truthful`, that a
recorded key belongs to a request that was asked for or reported, and with
`Progress`, the same for the event in hand, a request that leaves the process is
accounted for (`StepAccounts`). For repeated unlocks the strengthening is a budget
(`Budget`): one unlock of each request is covered by a key that the next look-up
will find, by the handler that is about to write it, or by a store that is closed
already, when every further unlock is counted as blind; the end of the process
uncovers it only if its mark is not on disk, and then counts it as lost. For the
file, `FileFollows`: as long as no mark overlapped with a write, one goroutine at
most is in `flush`, its snapshot is the map, and the file is empty when it writes.

The inductive invariant of `BridgeProofs` adds to the types `Genuine` (every public
call, whoever sent it, comes of an event that Zion emitted), `Spent` (the identifier
of a mint that succeeded is used) and `MarkedIsAccounted`. With them a successful mint
takes exactly one lock out of `Flight`: it is some emitted lock's, of its amount and
for its owner, and it happens once, though several signatures for one lock may be public. The sums of `Flight` and `Owed` run over growing sets, hence
`TotalMore` and `TotalLess`, which need that a fold does not depend on the order in
which it takes the elements (`SumTakesAny`). Each action is then a step of
`CustodyLedger` or leaves it unchanged; that the escrow is explained follows as in
`CustodyProofs`, whose lemmas are instantiated.

`Bridge` has no sets of payloads: what reaches the contract is whatever the daemon
made of the events. For `BridgeRunsContract` the contract is instantiated once more,
as `Chain`, with *all* well typed payloads. Every public call is one of them, because
it was made of attributes that parsed (`PublishedPayload`, with the invariant `Genuine`),
so every step of the bridge is a step of `Chain` or leaves it alone (`ChainSteps`). The theorems of
`SeumStandardProofs` then hold of it as they stand (`ContractHoldsInTheBridge`): nothing
the daemon sends, however often and in whatever order, makes a week count twice or a
clock rewind. `ReportsReconcile` follows each amount through the steps: a lock enters
the sum of locks and `Flight` together (`EmittedLock`), a successful mint moves it
(`MintedFlight`), and a request enters both sides (`AppendedRequest`).

**Only model-checked**: the liveness of the daemon and of the ragequit path
(`QueueMoves`, `ShutdownCompletes`, `RequestSettles`) and the twin's
`LeavingNeverBlocked`, since liveness under fairness and ENABLED are out of the
prover's reach (`LeavingIsPaid` proves the guard of the twin's ragequit); and the four
runs that show a divergence.

## 5. Not modelled, and the plan

* Cryptography, the byte layout of the ABI and the fetching of the key
  (`signer.go`, `vault.go`): which fields are signed is in `Payloads`, how is not.
* `config.go` and `metrics.go`: the environment is read once, and nothing reads the
  counters back. The metrics server and the mock source of `main.go` likewise.
* `evmclient.New`: parses a key and an address before anything runs.
* `EVMRagequitHandler` without a broadcaster, which main never builds, and the
  permanent errors of the pipeline, which no handler can raise.
* x/seum beyond lock, registration and unlock: it is a proposal for another
  repository.
* Reorganisations of the EVM chain (`RagequitWatcher` has a log that is delivered
  again under its own hash and index, and nothing else of them), the daemon's change
  of keys, and more than one worker in `Bridge`.
* The simulator page, which is not part of the protocol.

Done, in the order of the plan: the EVM contract, the twin and the comparison of
both, the daemon, the ragequit path and the store, the bridge and its ledger; and
the proofs of every safety invariant, action property and refinement the runs
check, with the exceptions of section 4. What would come next:

1. A bound on how late the rate can be full for all constants, where
   `FullOnlyFromDay520` is about those of the source.
2. A run for the missing subscription of the watcher, with the connection that
   comes back, once main or `WatchRagequit` handles it.
