------------------------------- MODULE Bridge -------------------------------
(***************************************************************************)
(* The kWR bridge end to end: x/seum on Zion, the daemon's pipeline with   *)
(* its account on the EVM chain, the node's pool of transactions, the      *)
(* contract (module SeumStandard) and the way back of a ragequit.          *)
(*                                                                         *)
(* x/seum is external, modelled from what the daemon expects of it: lock   *)
(* identifiers are distinct, and an event is emitted once.                 *)
(* Redelivery and crashes of the pipeline are in module Daemon, those of   *)
(* the way back in RagequitWatcher: here an unlock is asked for any number *)
(* of times, once a request exists.                                        *)
(***************************************************************************)
EXTENDS Payloads, Sequences, FiniteSets, FiniteSetsExt

CONSTANTS
    Worker, Badge, Key, Governance, Id, FirstAttester, GenesisDay, MaxDay,
    ZionEvent,           \* the events x/seum may emit, each once
    FreshNonce,          \* what rand.Read draws from
    SignatureTTL,        \* in days
    MaxFailures,         \* bound on failed attempts to send
    Amounts,             \* what locks may add up to
    MaxEvents,           \* bound on the events emitted
    MaxQueued,           \* bound on those waiting for the handlers
    MaxRequests,         \* bound on the ragequits
    MaxPending,          \* bound on the daemon's transactions in the pool
    MaxDrops             \* bound on the transactions the node drops

Locks == {ev \in ZionEvent : ev.type = "EventCapitalLocked"}
WorkerOf(lock) == Attr(lock, "evm_addr")
AmountOf(lock) == Attr(lock, "kwr_amount")
LockId(lock) == Attr(lock, "lock_id")

HasId(lock) == requireBytes32Attr(lock, "lock_id")

\* The types a handler is registered for; the dispatcher skips any other.
EventType == {"EventEvmMappingRegistered", "EventCapitalLocked", "EventHonorAttested",
              "EventDayAttested"}

ASSUME BridgeAssumption ==
    /\ GenesisDay \in Nat /\ MaxDay \in Nat /\ GenesisDay <= MaxDay /\ FirstAttester \in Key
    /\ SignatureTTL \in Nat /\ MaxFailures \in Nat /\ MaxDrops \in Nat /\ MaxPending \in Nat
    /\ MaxEvents \in Nat /\ MaxQueued \in Nat /\ MaxRequests \in Nat
    /\ Nobody \notin Key /\ ZeroAddress \notin Worker
    /\ \A ev \in ZionEvent : ev.type \in EventType
    /\ \A lock \in Locks : WorkerOf(lock) \in Worker /\ AmountOf(lock) \in 1..MAX_UINT
    /\ \A lock, other \in {ev \in Locks : HasId(ev)} : LockId(lock) = LockId(other) => lock = other

\* Attributes that parse have the type their parser returns: an address, an integer
\* of any sign, a truth value, 32 bytes.
Parses(ev, key, type) == ev.attributes[key] # <<>> => Attr(ev, key) \in type

ASSUME AttributeAssumption ==
    /\ FreshNonce \subseteq Id
    /\ \A ev \in ZionEvent :
          /\ Parses(ev, "evm_addr", Worker \cup {ZeroAddress})
          /\ ev.type = "EventCapitalLocked" => Parses(ev, "lock_id", Id)
          /\ ev.type = "EventHonorAttested" =>
                Parses(ev, "honor_delta", Int) /\ Parses(ev, "job_id", Id)
          /\ ev.type = "EventDayAttested" =>
                /\ Parses(ev, "active_gate", BOOLEAN) /\ Parses(ev, "volunteer_gate", BOOLEAN)
                /\ Parses(ev, "nonce", Id)

VARIABLES
    today, attester, citizens, hasBadge, attestedPoP, activeDays, volunteerDays, consumed,
    bridged, requested, weekEvents,  \* the contract: see SeumStandard
    emitted,    \* the Zion events so far
    escrow,     \* escrow[w]: kWR x/seum holds for w
    queue,      \* events on their way to the handlers, oldest first
    failures,   \* failed attempts to send
    marked,     \* the events marked as consumed
    pool,       \* the daemon's pending transactions by account nonce, Gap where dropped
    drops,
    executed,   \* the calls that succeeded
    failed,     \* the calls of the daemon that were dropped or reverted
    requests,   \* the RagequitRequest logs, each of a transaction of its own
    released    \* the numbers of those for which x/seum has unlocked

evm == <<today, attester, citizens, hasBadge, attestedPoP, activeDays, volunteerDays,
         consumed, bridged, requested, weekEvents>>
zion == <<emitted, escrow, released>>
daemon == <<queue, failures, marked>>
node == <<pool, drops, failed>>
vars == <<evm, zion, daemon, node, executed, requests>>

EVM == INSTANCE SeumStandard WITH
    PoPAttestations <- {}, MintAttestations <- {}, HonorAttestations <- {}, DayAttestations <- {}

Gap == <<>>

Init ==
    /\ EVM!Init
    /\ drops = 0
    /\ emitted = {} /\ escrow = [w \in Worker |-> 0] /\ released = {}
    /\ queue = <<>> /\ failures = 0 /\ marked = {}
    /\ pool = <<>> /\ failed = {}
    /\ executed = {} /\ requests = <<>>

-----------------------------------------------------------------------------
(* Zion. *)

\* x/seum knows the address of a worker from an event of this type only.
Mapping == {ev \in ZionEvent : ev.type = "EventEvmMappingRegistered"}
Mapped == {Attr(ev, "evm_addr") : ev \in emitted \cap Mapping}

\* A lock moves the amount into the escrow of x/seum, which emits the event.
Emit(ev) ==
    /\ ev \in ZionEvent \ emitted /\ Cardinality(emitted) < MaxEvents /\ Len(queue) < MaxQueued
    /\ ev \in Mapping \/ Attr(ev, "evm_addr") \in Mapped
    /\ emitted' = emitted \cup {ev}
    /\ queue' = Append(queue, ev)
    /\ escrow' = IF ev \in Locks
                 THEN [escrow EXCEPT ![WorkerOf(ev)] = @ + AmountOf(ev)]
                 ELSE escrow
    /\ UNCHANGED <<evm, released, failures, marked, node, executed, requests>>

\* MsgUnlockCapitalForSeum, refused when the hash was used or the escrow is short.
Unlock(i) ==
    LET r == requests[i] IN
    /\ i \notin released
    /\ escrow[r.worker] >= r.amount
    /\ released' = released \cup {i}
    /\ escrow' = [escrow EXCEPT ![r.worker] = @ - r.amount]
    /\ UNCHANGED <<evm, emitted, daemon, node, executed, requests>>

-----------------------------------------------------------------------------
(* The daemon's handlers and sendTx. *)

Gaps == {n \in DOMAIN pool : pool[n] = Gap}

\* mutant: the nonce of the last transaction sent, not the one after it
LatestNonceAt == IF pool = <<>> THEN 1 ELSE Len(pool)

\* The first free nonce, counted from the oldest pending transaction.
PendingNonceAt == IF Gaps = {} THEN Len(pool) + 1 ELSE Min(Gaps)

sendTx(call) ==
    pool' = [n \in 1..Len(pool) \cup {PendingNonceAt} |->
                  IF n = PendingNonceAt THEN <<call>> ELSE pool[n]]

\* What the handler of the oldest event comes to today.
Outcome(nonce) == Handle(Head(queue), today + SignatureTTL, nonce, FirstAttester)

Finish == queue' = Tail(queue) /\ UNCHANGED failures

Succeeds == Finish /\ marked' = marked \cup {Head(queue)}

\* The attempt is repeated, or it was the last one, or the daemon shuts down.
Fails ==
    /\ failures < MaxFailures
    /\ failures' = failures + 1
    /\ queue' \in {queue, Tail(queue)}
    /\ UNCHANGED marked

\* Every attempt at such an event ends the same, and it is given up.
Refuse == Finish /\ UNCHANGED marked

\* The reply of the node may be lost after the transaction was taken.
Send(nonce) ==
    /\ queue # <<>>
    /\ PendingNonceAt <= MaxPending
    /\ Outcome(nonce).outcome = "call"
    /\ sendTx(Outcome(nonce).call)
    /\ Succeeds \/ Fails
    /\ UNCHANGED <<evm, zion, drops, failed, executed, requests>>

\* Nothing is sent: the node refuses, or the handler does, or a day has no gate.
SendNothing ==
    /\ queue # <<>>
    /\ \E nonce \in FreshNonce :
          CASE Outcome(nonce).outcome = "call"    -> Fails
            [] Outcome(nonce).outcome = "error"   -> Refuse
            [] Outcome(nonce).outcome = "nothing" -> Succeeds
    /\ UNCHANGED <<evm, zion, node, executed, requests>>

-----------------------------------------------------------------------------
(* The EVM node and the chain. *)

Execute(call) ==
    LET att == Attestation(call) IN
    /\ \/ call.fn = "attestPoP" /\ EVM!AttestPoP(att)
       \/ call.fn = "bridgeMintCapital" /\ EVM!BridgeMintCapital(att)
       \/ call.fn = "attestHonor" /\ EVM!AttestHonor(att)
       \/ call.fn = "attestDay" /\ EVM!AttestDay(att)
    /\ executed' = executed \cup {call}

\* The oldest transaction; none is mined past a gap.
Mine ==
    /\ pool # <<>> /\ Head(pool) # Gap
    /\ Execute(Head(pool)[1])
    /\ pool' = Tail(pool)
    /\ UNCHANGED <<zion, daemon, drops, failed, requests>>

\* A require fails, or the gas, which the configuration fixes, runs out.
Revert ==
    /\ pool # <<>> /\ Head(pool) # Gap
    /\ pool' = Tail(pool)
    /\ failed' = failed \cup {Head(pool)[1]}
    /\ UNCHANGED <<evm, zion, daemon, drops, executed, requests>>

\* The node drops a pending transaction: later ones wait for its nonce.
Drop(n) ==
    /\ drops < MaxDrops
    /\ n \in DOMAIN pool /\ pool[n] # Gap
    /\ drops' = drops + 1
    /\ failed' = failed \cup {pool[n][1]}
    /\ pool' = [pool EXCEPT ![n] = Gap]
    /\ UNCHANGED <<evm, zion, daemon, executed, requests>>

Pending == {pool[n][1] : n \in DOMAIN pool \ Gaps}

\* Every call the daemon ever sent.
Published == Pending \cup executed \cup failed

\* Anybody sends a signed call from an account of their own.
Submit(call) ==
    /\ Execute(call)
    /\ UNCHANGED <<zion, daemon, node, requests>>

Join(w) ==
    /\ EVM!Join(w)
    /\ UNCHANGED <<zion, daemon, node, executed, requests>>

Ragequit(w) ==
    /\ Len(requests) < MaxRequests
    /\ EVM!Ragequit(w)
    /\ requests' = Append(requests, [worker |-> w, amount |-> citizens[w].lockedKWR])
    /\ UNCHANGED <<zion, daemon, node, executed>>

RotateAttester(key) ==
    /\ EVM!RotateAttester(Governance, key)
    /\ UNCHANGED <<zion, daemon, node, executed, requests>>

NextDay ==
    /\ EVM!NextDay
    /\ UNCHANGED <<zion, daemon, node, executed, requests>>

Next ==
    \/ \E ev \in ZionEvent : Emit(ev)
    \/ \E i \in DOMAIN requests : Unlock(i)
    \/ \E nonce \in FreshNonce : Send(nonce)
    \/ SendNothing
    \/ Mine \/ Revert
    \/ \E n \in DOMAIN pool : Drop(n)
    \/ \E call \in Published : Submit(call)
    \/ \E w \in Worker : Join(w) \/ Ragequit(w)
    \/ \E key \in Key : RotateAttester(key)
    \/ NextDay

Spec == Init /\ [][Next]_vars

-----------------------------------------------------------------------------
(* Properties. *)

Minted == {call.id : call \in {c \in executed : c.fn = "bridgeMintCapital"}}

SumOver(S, f(_)) == MapThenSumSet(f, S)

\* kWR in flight: locked for w, and not minted.
Flight(w) ==
    SumOver({lock \in emitted \cap Locks : /\ WorkerOf(lock) = w
                                           /\ HasId(lock) => LockId(lock) \notin Minted}, AmountOf)

\* kWR w has requested by leaving, and Zion has not released.
Owed(w) ==
    LET Amount(i) == requests[i].amount
    IN  SumOver({i \in DOMAIN requests \ released : requests[i].worker = w}, Amount)

\* Every kWR in the escrow of Zion is accounted for: in flight, locked to a
\* citizen of the contract, or requested by one who left, and nothing is claimed
\* that Zion does not hold (x/seum lock and unlock, bridgeMintCapital, ragequit).
EscrowExplained ==
    \A w \in Worker : escrow[w] = Flight(w) + citizens[w].lockedKWR + Owed(w)

Custody == INSTANCE CustodyLedger WITH
    Person <- Worker, Amount <- Amounts,
    flight <- [w \in Worker |-> Flight(w)],
    claim  <- [w \in Worker |-> citizens[w].lockedKWR],
    owed   <- [w \in Worker |-> Owed(w)]

\* The chains, the daemon and whoever submits its signatures implement the ledger.
CustodySpec == Custody!Spec

\* The bytes signed are the bytes the contract hashes: under every attribute the
\* handlers let through, of any width or sign, the contract recovers the daemon's
\* key (signer.go, SeumStandard.sol).
SignedAsVerified == \A call \in Published : ecrecover(call) = FirstAttester

\* The call of an event, whatever its expiry and random nonce.
CallOf(ev, call) ==
    \E nonce \in FreshNonce, day \in GenesisDay..MaxDay :
        Handle(ev, day + SignatureTTL, nonce, FirstAttester) = Calling(call)

\* A mark promises no more, and no less, than that a transaction of the event
\* was handed over: it is pending, it succeeded, or it was dropped or reverted.
\* Nothing sent disappears by another transaction taking its nonce (client.go).
MarkedIsAccounted ==
    \A ev \in marked :
        \/ \E call \in Published : CallOf(ev, call)
        \/ Handle(ev, GenesisDay, Id, FirstAttester) = Nothing
=============================================================================
