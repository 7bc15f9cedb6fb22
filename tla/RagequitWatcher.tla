--------------------------- MODULE RagequitWatcher ---------------------------
(***************************************************************************)
(* The daemon's way from the EVM chain to Zion: one goroutine watches      *)
(* RagequitRequest logs, another takes them from a bounded channel, asks   *)
(* for the unlock on Zion and marks them.  A failed unlock is marked as a  *)
(* dead letter at once.  The pipeline of module Daemon appears only as the *)
(* other goroutine that marks keys in the same store.                      *)
(*                                                                         *)
(* A request is the transaction hash and log index of a log.  The node may *)
(* deliver a log with both again, after the subscription was renewed or    *)
(* because the log is removed, and nothing but the key tells.  One that a  *)
(* reorganisation includes at another index is another request, and one    *)
(* that is removed without having been delivered is a request like any.    *)
(***************************************************************************)
EXTENDS ConsumedStore, Integers, Sequences

CONSTANTS
    Request,          \* <<TxHash, LogIndex>> of the logs
    Decodable,        \* those decodeRagequit can read
    PipelineKey,      \* keys of Zion events
    ChannelSize,      \* 16 in the source
    BroadcastMayFail, \* FALSE for the LoggingBroadcaster of main
    MaxDeliveries,    \* bound on the logs delivered, repeated ones included
    MaxRestarts       \* bound on restarts

NoRequest == <<>>

Handled(r) == <<"evm_ragequit", r>>
DeadLetter(r) == <<"failed", r>>
Key == {Handled(r) : r \in Request} \cup {DeadLetter(r) : r \in Request} \cup PipelineKey

ASSUME WatcherAssumption ==
    /\ NoRequest \notin Request /\ Decodable \subseteq Request
    /\ \A r \in Request : {Handled(r), DeadLetter(r)} \cap PipelineKey = {}
    /\ Thread = {"pipeline", "ragequit"}
    /\ ChannelSize \in Nat \ {0}
    /\ BroadcastMayFail \in BOOLEAN
    /\ MaxDeliveries \in Nat /\ MaxRestarts \in Nat

Elements(s) == {s[i] : i \in DOMAIN s}

VARIABLES
    life,        \* "up"; "closing" once main has returned; "down"
    cancelled,   \* ctx is cancelled
    subscribed,  \* the node delivers logs
    watching,    \* the goroutine of WatchRagequit runs
    logs,        \* the channel of the subscription
    inHand,      \* the event waiting in WatchRagequit for room in out
    ragequitCh,  \* the channel between the goroutines
    handling,    \* the goroutine of EVMRagequitHandler.Run runs
    work,        \* the event in handle
    pc,          \* "idle", "handle", "unlocked", "failed", "marked"
    deliveries, restarts,
    \* What the properties read.
    requested,   \* the logs the contract emitted
    missed,      \* those emitted while nobody was subscribed
    perished,    \* those in a channel or in hand when its goroutine ended
    broadcasts,  \* broadcasts[r]: unlocks asked for
    reported,    \* requests whose failure was reported as an error
    lost,        \* lost[r]: ends of the process without a mark for an unlock
    blind        \* blind[r]: unlocks asked for after the store was closed

watcher == <<subscribed, watching, logs, inHand>>
handler == <<handling, work, pc>>
process == <<life, cancelled, restarts>>
history == <<requested, missed, perished, broadcasts, reported, lost, blind>>
vars == <<process, watcher, ragequitCh, handler, deliveries, history, storeVars>>

TypeOK ==
    /\ life \in {"up", "closing", "down"} /\ cancelled \in BOOLEAN
    /\ subscribed \in BOOLEAN /\ watching \in BOOLEAN /\ handling \in BOOLEAN
    /\ logs \in Seq(Request) /\ inHand \in Seq(Request) /\ Len(inHand) <= 1
    /\ ragequitCh \in Seq(Request) /\ Len(ragequitCh) <= ChannelSize
    /\ work \in Request \cup {NoRequest}
    /\ pc \in {"idle", "handle", "unlocked", "failed", "marked"}
    /\ (pc = "idle" <=> work = NoRequest)
    /\ deliveries \in 0..MaxDeliveries /\ restarts \in 0..MaxRestarts
    /\ requested \subseteq Request /\ missed \subseteq Request /\ perished \subseteq Request
    /\ reported \subseteq Request
    /\ broadcasts \in [Request -> Nat] /\ lost \in [Request -> Nat]
    /\ blind \in [Request -> Nat]
    /\ StoreTyped(Key)

\* What main wires together: the subscription starts at the head of the chain.
Wired ==
    /\ life' = "up" /\ subscribed' = TRUE /\ watching' = TRUE /\ handling' = TRUE

Init ==
    /\ StoreInit
    /\ life = "up" /\ cancelled = FALSE
    /\ subscribed = TRUE /\ watching = TRUE /\ handling = TRUE
    /\ logs = <<>> /\ inHand = <<>> /\ ragequitCh = <<>>
    /\ work = NoRequest /\ pc = "idle"
    /\ deliveries = 0 /\ restarts = 0
    /\ requested = {} /\ missed = {} /\ perished = {} /\ reported = {}
    /\ broadcasts = [r \in Request |-> 0]
    /\ lost = [r \in Request |-> 0] /\ blind = [r \in Request |-> 0]

-----------------------------------------------------------------------------
(* The EVM node and WatchRagequit. *)

\* The node has a log, for the first time or again under the same hash and index.
Deliver(r) ==
    /\ deliveries < MaxDeliveries
    /\ deliveries' = deliveries + 1
    /\ requested' = requested \cup {r}
    /\ logs' = IF subscribed THEN Append(logs, r) ELSE logs
    /\ missed' = IF subscribed THEN missed ELSE missed \cup {r}
    /\ UNCHANGED <<process, subscribed, watching, inHand, ragequitCh, handler, perished,
                   broadcasts, reported, lost, blind, storeVars>>

ConnectionLost ==
    /\ subscribed
    /\ subscribed' = FALSE
    /\ UNCHANGED <<process, watching, logs, inHand, ragequitCh, handler, deliveries, history,
                   storeVars>>

decodeRagequit(log) == IF log \in Decodable THEN <<log>> ELSE <<>>

\* A log that cannot be decoded is skipped without a trace.
Decode ==
    /\ watching
    /\ inHand = <<>> /\ logs # <<>>
    /\ logs' = Tail(logs)
    /\ inHand' = decodeRagequit(Head(logs))
    /\ UNCHANGED <<process, subscribed, watching, ragequitCh, handler, deliveries, history,
                   storeVars>>

\* mutant: an event is dropped when the channel is full
ForwardOrDrop ==
    /\ watching /\ inHand # <<>>
    /\ ragequitCh' = IF Len(ragequitCh) < ChannelSize THEN ragequitCh \o inHand ELSE ragequitCh
    /\ inHand' = <<>>
    /\ UNCHANGED <<process, subscribed, watching, logs, handler, deliveries, history, storeVars>>

\* mutant: the channel has no bound
ForwardUnbounded ==
    /\ watching /\ inHand # <<>>
    /\ ragequitCh' = ragequitCh \o inHand
    /\ inHand' = <<>>
    /\ UNCHANGED <<process, subscribed, watching, logs, handler, deliveries, history, storeVars>>

Forward ==
    /\ watching /\ inHand # <<>>
    /\ Len(ragequitCh) < ChannelSize
    /\ ragequitCh' = ragequitCh \o inHand
    /\ inHand' = <<>>
    /\ UNCHANGED <<process, subscribed, watching, logs, handler, deliveries, history, storeVars>>

\* A subscription error is seen between two events, a cancelled context always.
\* main only logs the error: nobody subscribes again.
StopWatching ==
    /\ watching
    /\ cancelled \/ (~subscribed /\ inHand = <<>>)
    /\ watching' = FALSE /\ subscribed' = FALSE
    /\ logs' = <<>> /\ inHand' = <<>>
    /\ perished' = perished \cup Elements(logs) \cup Elements(inHand)
    /\ UNCHANGED <<process, ragequitCh, handler, deliveries, requested, missed, broadcasts,
                   reported, lost, blind, storeVars>>

-----------------------------------------------------------------------------
(* EVMRagequitHandler: Run and handle. *)

Take ==
    /\ handling /\ pc = "idle" /\ ragequitCh # <<>>
    /\ work' = Head(ragequitCh) /\ pc' = "handle"
    /\ ragequitCh' = Tail(ragequitCh)
    /\ UNCHANGED <<process, watcher, handling, deliveries, history, storeVars>>

Known(r) == IsConsumed(Handled(r)) \/ IsConsumed(DeadLetter(r))

Done == work' = NoRequest /\ pc' = "idle" /\ UNCHANGED handling

\* Handled before, or failed before.
Skip ==
    /\ pc = "handle" /\ Known(work)
    /\ Done
    /\ UNCHANGED <<process, watcher, ragequitCh, deliveries, history, storeVars>>

\* The request reaches Zion, or with the LoggingBroadcaster the operator's log.
BroadcastUnlockCapital(r) ==
    /\ broadcasts' = [broadcasts EXCEPT ![r] = @ + 1]
    /\ blind' = IF open THEN blind ELSE [blind EXCEPT ![r] = @ + 1]

Unlock ==
    /\ pc = "handle" /\ ~Known(work)
    /\ BroadcastUnlockCapital(work)
    /\ pc' = "unlocked"
    /\ UNCHANGED <<process, watcher, ragequitCh, handling, work, deliveries, requested, missed,
                   perished, reported, lost, storeVars>>

\* mutant: an error ends the goroutine
UnlockFailsFatally ==
    /\ BroadcastMayFail
    /\ pc = "handle" /\ ~Known(work)
    /\ reported' = reported \cup {work}
    /\ handling' = FALSE /\ work' = NoRequest /\ pc' = "idle"
    /\ UNCHANGED <<process, watcher, ragequitCh, deliveries, requested, missed, perished,
                   broadcasts, lost, blind, storeVars>>

\* An error, with or without an effect on Zion.
UnlockFails ==
    /\ BroadcastMayFail
    /\ pc = "handle" /\ ~Known(work)
    /\ UNCHANGED <<broadcasts, blind>> \/ BroadcastUnlockCapital(work)
    /\ reported' = reported \cup {work}
    /\ pc' = "failed"
    /\ UNCHANGED <<process, watcher, ragequitCh, handling, work, deliveries, requested, missed,
                   perished, lost, storeVars>>

\* A dead letter is never retried: its key makes handle skip the request.
Mark ==
    /\ \/ pc = "unlocked" /\ MarkConsumed("ragequit", Handled(work))
       \/ pc = "failed" /\ MarkConsumed("ragequit", DeadLetter(work))
    /\ pc' = "marked"
    /\ UNCHANGED <<process, watcher, ragequitCh, handling, work, deliveries, history>>

FinishMark ==
    /\ pc = "marked" /\ "ragequit" \notin Flushing
    /\ Done
    /\ UNCHANGED <<process, watcher, ragequitCh, deliveries, history, storeVars>>

StopHandling ==
    /\ handling /\ pc = "idle" /\ cancelled
    /\ handling' = FALSE
    /\ UNCHANGED <<process, watcher, ragequitCh, work, pc, deliveries, history, storeVars>>

-----------------------------------------------------------------------------
(* The pipeline, which marks its own keys, and the life of the process. *)

PipelineMarks(key) ==
    /\ life = "up" /\ ~IsConsumed(key)
    /\ MarkConsumed("pipeline", key)
    /\ UNCHANGED <<process, watcher, ragequitCh, handler, deliveries, history>>

Flush(t) ==
    /\ FlushStep(t)
    /\ UNCHANGED <<process, watcher, ragequitCh, handler, deliveries, history>>

Signal ==
    /\ life = "up" /\ ~cancelled
    /\ cancelled' = TRUE
    /\ UNCHANGED <<life, restarts, watcher, ragequitCh, handler, deliveries, history, storeVars>>

\* p.Run returns and main's deferred calls close the store, while the two
\* goroutines may still be at work: nobody waits for them.
MainReturns ==
    /\ life = "up" /\ cancelled /\ "pipeline" \notin Flushing
    /\ life' = "closing"
    /\ CloseStore
    /\ UNCHANGED <<cancelled, restarts, watcher, ragequitCh, handler, deliveries, history>>

Unmarked(r) == broadcasts[r] > 0 /\ {Handled(r), DeadLetter(r)} \cap disk.keys = {}

\* main is done, or the process is killed, or exits with a failed pipeline.
End ==
    /\ life # "down"
    /\ life' = "down" /\ cancelled' = FALSE
    /\ subscribed' = FALSE /\ watching' = FALSE /\ handling' = FALSE
    /\ logs' = <<>> /\ inHand' = <<>> /\ ragequitCh' = <<>>
    /\ work' = NoRequest /\ pc' = "idle"
    /\ perished' = perished \cup Elements(logs) \cup Elements(inHand) \cup Elements(ragequitCh)
                            \cup (IF pc = "handle" THEN {work} ELSE {})
    /\ lost' = [r \in Request |-> IF Unmarked(r) THEN lost[r] + 1 ELSE lost[r]]
    /\ StoreLost
    /\ UNCHANGED <<restarts, deliveries, requested, missed, broadcasts, reported, blind>>

\* A file that cannot be parsed keeps the daemon from starting.
Restart ==
    /\ life = "down" /\ restarts < MaxRestarts
    /\ restarts' = restarts + 1
    /\ OpenStore
    /\ Wired
    /\ UNCHANGED <<cancelled, logs, inHand, ragequitCh, work, pc, deliveries, history>>

Watcher == Decode \/ Forward \/ StopWatching
Handler == Take \/ Skip \/ Unlock \/ UnlockFails \/ Mark \/ Flush("ragequit") \/ FinishMark
              \/ StopHandling
Pipeline == (\E key \in PipelineKey : PipelineMarks(key)) \/ Flush("pipeline")
Environment == (\E r \in Request : Deliver(r)) \/ ConnectionLost \/ Signal \/ MainReturns
                  \/ End \/ Restart

Next == Watcher \/ Handler \/ Pipeline \/ Environment

Spec == Init /\ [][Next]_vars

\* The Go scheduler runs both goroutines, and a broadcast returns.
FairSpec == Spec /\ WF_vars(Watcher) /\ WF_vars(Handler)

-----------------------------------------------------------------------------
(* Properties. *)

\* Zion is asked once to unlock a request, but for each end of the process that
\* lost its mark and each unlock made while the closed store answered "not found"
\* (evm_ragequit.go, main.go): redelivery alone never repeats an unlock.
RepeatsAreExplained ==
    \A r \in Request : broadcasts[r] <= 1 + lost[r] + blind[r]

\* "Never drop silently" (evm_ragequit.go): whatever became of a request, it
\* waits in the process, was asked for on Zion, or was reported as failed, unless
\* it came while nobody was subscribed, could not be decoded, or was in a channel
\* when its goroutine ended.
InProcess == Elements(logs) \cup Elements(inHand) \cup Elements(ragequitCh) \cup {work}

Settled(r) == broadcasts[r] > 0 \/ r \in reported

NoSilentDrop ==
    \A r \in requested \cap Decodable :
        r \in InProcess \/ Settled(r) \/ r \in missed \/ r \in perished

\* One request cannot hold up the others: what has reached the daemon is settled,
\* or its goroutine ends with the connection, the context or the process.
RequestSettles ==
    \A r \in Decodable :
        r \in InProcess ~> Settled(r) \/ r \in perished \/ cancelled \/ life # "up"
=============================================================================
