------------------------------- MODULE Daemon -------------------------------
(***************************************************************************)
(* The daemon's way from Zion to the EVM chain: the goroutine of           *)
(* zionclient.Subscribe decodes transactions into a bounded channel, and   *)
(* the pipeline takes one event at a time through dedup, handler, mark and *)
(* retry.  Between any two steps the process may crash or be told to stop; *)
(* what the store has marked survives (one bbolt transaction per mark).    *)
(*                                                                         *)
(* The four handlers differ only in what they sign, so that an event       *)
(* carries what matters of it: which identifier it will spend on the EVM   *)
(* chain and whether its attributes are usable.                            *)
(***************************************************************************)
EXTENDS Integers, Sequences, FiniteSets

CONSTANTS
    ZionTx,         \* hashes of Zion transactions
    Log,            \* Log[tx]: the sequence of x/seum events of tx
    Type,           \* event types
    Registered,     \* the types a handler is registered for
    PoPType,        \* the type of attestPoP, whose nonce is drawn afresh
    Id,             \* lock_id, job_id, nonce
    MaxRetries,
    ChannelSize,    \* 64 in the source
    MaxRestarts,    \* bound on crashes and restarts
    MaxDeliveries   \* bound on the deliveries of the node, repeated ones included

\* kind: the handler sends a transaction, has nothing to do (attest_day without
\* a gate), or cannot use the attributes.
Event == [tx : ZionTx, type : Type, id : Id, kind : {"send", "noop", "bad"}]

Elements(s) == {s[i] : i \in DOMAIN s}
AllEvents == UNION {Elements(Log[tx]) : tx \in ZionTx}

ASSUME DaemonAssumption ==
    /\ \A tx \in ZionTx :
          Log[tx] \in Seq(Event) /\ \A ev \in Elements(Log[tx]) : ev.tx = tx
    \* the payload of a PoP names a worker and no identifier of a lock or job
    /\ \A ev, other \in AllEvents :
          ev.type = PoPType /\ other.type # PoPType => ev.id # other.id
    /\ Registered \subseteq Type
    /\ PoPType \in Type
    /\ MaxRetries \in Nat /\ ChannelSize \in Nat \ {0}
    /\ MaxRestarts \in Nat /\ MaxDeliveries \in Nat

NoEvent == [tx |-> "none"]

VARIABLES
    running,    \* the process is up
    cancelled,  \* ctx is cancelled: SIGTERM was received
    connected,  \* the subscription to the Zion node is open
    feed,       \* transactions the node has delivered, not yet decoded
    decoded,    \* events of the transaction in the range loop of Subscribe
    channel,    \* the channel out
    closed,     \* close(out) was deferred and run
    work,       \* the event in processWithRetry
    pc,         \* where the pipeline is: "idle", "dispatch", "handled", "backoff"
    attempt,    \* the loop variable of processWithRetry
    store,      \* the consumed keys, durable
    delivered,  \* deliveries of the node
    restarts,
    sent,       \* sent[ev]: transactions the EVM node accepted for ev
    lostReply,  \* lostReply[ev]: those of them for which sendTx reported an error
    credited,   \* credited[id]: calls with id that succeeded on the contract
    spent,      \* the identifiers used on the contract
    skipped     \* the events dropped as already processed

source == <<connected, feed, decoded, channel, closed>>
pipeline == <<work, pc, attempt>>
evm == <<sent, lostReply, credited, spent>>
vars == <<running, cancelled, source, pipeline, store, delivered, restarts, evm, skipped>>

\* The dedup key of Dispatch.
KeyOf(ev) == <<ev.tx, ev.type>>

TypeOK ==
    /\ running \in BOOLEAN /\ cancelled \in BOOLEAN /\ connected \in BOOLEAN
    /\ closed \in BOOLEAN
    /\ feed \in Seq(ZionTx) /\ decoded \in Seq(AllEvents) /\ channel \in Seq(AllEvents)
    /\ Len(channel) <= ChannelSize
    /\ work \in AllEvents \cup {NoEvent}
    /\ pc \in {"idle", "dispatch", "handled", "backoff"} /\ (pc = "idle" <=> work = NoEvent)
    /\ attempt \in 0..MaxRetries /\ (pc = "backoff" => attempt < MaxRetries)
    /\ store \subseteq ZionTx \X Type
    /\ delivered \in 0..MaxDeliveries /\ restarts \in 0..MaxRestarts
    /\ sent \in [AllEvents -> Nat] /\ lostReply \in [AllEvents -> Nat]
    /\ credited \in [Id -> Nat] /\ spent \subseteq Id
    /\ skipped \subseteq AllEvents

\* What main builds before the pipeline runs.
Fresh ==
    /\ feed = <<>> /\ decoded = <<>> /\ channel = <<>> /\ closed = FALSE
    /\ work = NoEvent /\ pc = "idle" /\ attempt = 0

Init ==
    /\ running = TRUE /\ cancelled = FALSE /\ connected = TRUE
    /\ Fresh
    /\ store = {} /\ restarts = 0
    /\ delivered = 0
    /\ sent = [ev \in AllEvents |-> 0] /\ lostReply = [ev \in AllEvents |-> 0]
    /\ credited = [id \in Id |-> 0] /\ spent = {}
    /\ skipped = {}

-----------------------------------------------------------------------------
(* The Zion node and zionclient.Subscribe. *)

\* The node delivers a transaction to an open subscription, perhaps again.
Deliver(tx) ==
    /\ running /\ connected
    /\ delivered < MaxDeliveries
    /\ feed' = Append(feed, tx)
    /\ delivered' = delivered + 1
    /\ UNCHANGED <<running, cancelled, connected, decoded, channel, closed, pipeline, store,
                   restarts, evm, skipped>>

Disconnect ==
    /\ running /\ connected
    /\ connected' = FALSE
    /\ UNCHANGED <<running, cancelled, feed, decoded, channel, closed, pipeline, store,
                   delivered, restarts, evm, skipped>>

\* DecodeResultEvent: one TypedEvent per event of the transaction.
Decode ==
    /\ running /\ ~closed
    /\ decoded = <<>> /\ feed # <<>>
    /\ decoded' = Log[Head(feed)]
    /\ feed' = Tail(feed)
    /\ UNCHANGED <<running, cancelled, connected, channel, closed, pipeline, store,
                   delivered, restarts, evm, skipped>>

\* mutant: the channel has no bound
ForwardUnbounded ==
    /\ running /\ ~closed
    /\ decoded # <<>>
    /\ channel' = Append(channel, Head(decoded))
    /\ decoded' = Tail(decoded)
    /\ UNCHANGED <<running, cancelled, connected, feed, closed, pipeline, store,
                   delivered, restarts, evm, skipped>>

Forward ==
    /\ running /\ ~closed
    /\ decoded # <<>> /\ Len(channel) < ChannelSize
    /\ channel' = Append(channel, Head(decoded))
    /\ decoded' = Tail(decoded)
    /\ UNCHANGED <<running, cancelled, connected, feed, closed, pipeline, store,
                   delivered, restarts, evm, skipped>>

\* The goroutine ends when the subscription is drained or the context is
\* cancelled, and closes the channel.
CloseChannel ==
    /\ running /\ ~closed
    /\ cancelled \/ (~connected /\ feed = <<>> /\ decoded = <<>>)
    /\ closed' = TRUE
    /\ UNCHANGED <<running, cancelled, connected, feed, decoded, channel, pipeline, store,
                   delivered, restarts, evm, skipped>>

-----------------------------------------------------------------------------
(* The pipeline: Run, processWithRetry, Dispatch. *)

\* select takes an event although ctx may be cancelled: both cases may be ready.
Take ==
    /\ running /\ pc = "idle"
    /\ channel # <<>>
    /\ work' = Head(channel)
    /\ channel' = Tail(channel)
    /\ attempt' = 0 /\ pc' = "dispatch"
    /\ UNCHANGED <<running, cancelled, connected, feed, decoded, closed, store, delivered,
                   restarts, evm, skipped>>

Done == work' = NoEvent /\ pc' = "idle" /\ attempt' = 0

\* mutant: no dedup
NeverConsumed(ev) == FALSE

IsConsumed(ev) == KeyOf(ev) \in store

\* No handler, or the key of the event is marked: nothing to do.
Skip ==
    /\ running /\ pc = "dispatch"
    /\ work.type \notin Registered \/ IsConsumed(work)
    /\ Done
    /\ skipped' = IF work.type \in Registered THEN skipped \cup {work} ELSE skipped
    /\ UNCHANGED <<running, cancelled, source, store, delivered, restarts, evm>>

Handling == /\ running /\ pc = "dispatch"
            /\ work.type \in Registered /\ ~IsConsumed(work)

\* attest_day without a gate succeeds without a transaction.
HandleNothing ==
    /\ Handling
    /\ work.kind = "noop"
    /\ pc' = "handled"
    /\ UNCHANGED <<running, cancelled, source, work, attempt, store, delivered, restarts, evm,
                   skipped>>

\* mutant: a fresh nonce is drawn for locks and jobs too
AlwaysFresh(ev) == TRUE

\* attestPoP draws its nonce; the other handlers pass the identifier of the event.
FreshNonce(ev) == ev.type = PoPType

\* The contract's answer, which sendTx does not wait for: the call succeeds, if
\* its identifier is unused, or reverts (no citizen, expired, ...).
Execute(ev) ==
    \/ UNCHANGED <<credited, spent>>
    \/ /\ FreshNonce(ev) \/ ev.id \notin spent
       /\ credited' = [credited EXCEPT ![ev.id] = @ + 1]
       /\ spent' = IF FreshNonce(ev) THEN spent ELSE spent \cup {ev.id}

\* sendTx returns without an error as soon as the node has the transaction; its
\* calls fail at once under a cancelled context.
HandleSent ==
    /\ Handling
    /\ work.kind = "send" /\ ~cancelled
    /\ sent' = [sent EXCEPT ![work] = @ + 1]
    /\ Execute(work)
    /\ pc' = "handled"
    /\ UNCHANGED <<running, cancelled, source, work, attempt, store, delivered, restarts,
                   lostReply, skipped>>

\* An error of any kind ends the attempt.  The branch for a PermanentError is never
\* taken: package handlers cannot import pipeline, which imports it, so no handler
\* returns one and unusable attributes are retried like a lost connection.
Fail == IF attempt < MaxRetries THEN pc' = "backoff" /\ UNCHANGED <<work, attempt>> ELSE Done

\* mutant: an error of the handler is swallowed
HandleFailedUnnoticed ==
    /\ Handling
    /\ work.kind # "noop"
    /\ pc' = "handled"
    /\ UNCHANGED <<running, cancelled, source, work, attempt, store, delivered, restarts, evm,
                   skipped>>

HandleFailed ==
    /\ Handling
    /\ work.kind # "noop"
    /\ Fail
    /\ UNCHANGED <<running, cancelled, source, store, delivered, restarts, evm, skipped>>

\* The node took the transaction but its answer was lost.
HandleReplyLost ==
    /\ Handling
    /\ work.kind = "send" /\ ~cancelled
    /\ sent' = [sent EXCEPT ![work] = @ + 1]
    /\ lostReply' = [lostReply EXCEPT ![work] = @ + 1]
    /\ Execute(work)
    /\ Fail
    /\ UNCHANGED <<running, cancelled, source, store, delivered, restarts, skipped>>

Mark ==
    /\ running /\ pc = "handled"
    /\ store' = store \cup {KeyOf(work)}
    /\ Done
    /\ UNCHANGED <<running, cancelled, source, delivered, restarts, evm, skipped>>

\* mutant: the attempt is not counted
RetryForever ==
    /\ running /\ pc = "backoff"
    /\ pc' = "dispatch"
    /\ UNCHANGED <<running, cancelled, source, work, attempt, store, delivered, restarts, evm,
                   skipped>>

Retry ==
    /\ running /\ pc = "backoff"
    /\ attempt' = attempt + 1
    /\ pc' = "dispatch"
    /\ UNCHANGED <<running, cancelled, source, work, store, delivered, restarts, evm, skipped>>

\* The wait before a retry ends with the context.
GiveUp ==
    /\ running /\ pc = "backoff" /\ cancelled
    /\ Done
    /\ UNCHANGED <<running, cancelled, source, store, delivered, restarts, evm, skipped>>

-----------------------------------------------------------------------------
(* Life of the process. *)

Signal ==
    /\ running /\ ~cancelled
    /\ cancelled' = TRUE
    /\ UNCHANGED <<running, source, pipeline, store, delivered, restarts, evm, skipped>>

\* Everything but the store is gone.
Ended ==
    /\ running' = FALSE /\ connected' = FALSE /\ cancelled' = FALSE
    /\ feed' = <<>> /\ decoded' = <<>> /\ channel' = <<>> /\ closed' = FALSE
    /\ Done
    /\ UNCHANGED <<store, delivered, restarts, evm, skipped>>

\* mutant: Run does not look at the context
ExitWhenClosed ==
    /\ running /\ pc = "idle"
    /\ closed /\ channel = <<>> /\ ~cancelled
    /\ Ended

\* Run returns between two events: ctx is cancelled, or the channel is closed
\* and empty, which main turns into exit code 1.
Exit ==
    /\ running /\ pc = "idle"
    /\ cancelled \/ (closed /\ channel = <<>>)
    /\ Ended

Crash ==
    /\ running
    /\ restarts < MaxRestarts
    /\ Ended

\* A supervisor starts the daemon again; the subscription begins with the
\* transactions of now.
Restart ==
    /\ ~running
    /\ restarts < MaxRestarts
    /\ running' = TRUE /\ connected' = TRUE
    /\ restarts' = restarts + 1
    /\ UNCHANGED <<cancelled, feed, decoded, channel, closed, pipeline, store, delivered, evm,
                   skipped>>

Subscriber == Decode \/ Forward \/ CloseChannel

Pipeline == \/ Take \/ Skip
            \/ HandleNothing \/ HandleSent \/ HandleFailed \/ HandleReplyLost
            \/ Mark \/ Retry \/ GiveUp \/ Exit

Environment == \/ \E tx \in ZionTx : Deliver(tx)
               \/ Disconnect \/ Signal \/ Crash \/ Restart

Next == Subscriber \/ Pipeline \/ Environment

Spec == Init /\ [][Next]_vars

\* The Go scheduler runs both goroutines.  A call of a handler is assumed to return:
\* cancelling the context ends it, and otherwise the EVM node answers or the
\* connection breaks (no call has a deadline of its own).
FairSpec == Spec /\ WF_vars(Subscriber) /\ WF_vars(Pipeline)

-----------------------------------------------------------------------------
(* Safety. *)

\* A lock, a job or a day is credited at most once, however often the node
\* delivers it, the daemon crashes between sending and marking, or a lost reply
\* makes it send again: the identifier travels with every retry.
CreditedOnce ==
    \A ev \in AllEvents : ev.type # PoPType => credited[ev.id] <= 1

\* Gas is spent on an event of a key once, but for each crash between sending
\* and marking and each reply that was lost.
SentOncePerFailure ==
    \A ev \in AllEvents :
        sent[ev] <= 1 + restarts + lostReply[ev]

\* A mark is never ahead of the deed: whatever the process died of, a marked key
\* belongs to an event whose transaction the node has, or that needed none.
MarkedMeansHandled ==
    \A key \in store : \E ev \in AllEvents :
        KeyOf(ev) = key /\ (sent[ev] > 0 \/ ev.kind = "noop")

\* handler.go: dedup is by nonce; zionclient: every event of a transaction is
\* emitted on its own.  But the key is the transaction and the type, so of two
\* locks in one transaction the second is dropped as if it had been handled.
SkippedWasHandled ==
    \A ev \in skipped : ev.kind = "send" => sent[ev] > 0

-----------------------------------------------------------------------------
(* Liveness. *)

Pending(ev) == work = ev \/ ev \in Elements(channel)

\* One event cannot hold up the queue for ever: whatever its handler does, an
\* event in the channel is taken out and finished (or lost with the process).
QueueMoves == \A ev \in AllEvents : Pending(ev) ~> ~Pending(ev)

\* SIGTERM ends the process, in any retry and with any events still queued.
ShutdownCompletes == cancelled ~> ~running
=============================================================================
