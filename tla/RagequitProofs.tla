--------------------------- MODULE RagequitProofs ---------------------------
(***************************************************************************)
(* Safety of RagequitWatcher with either store, for any requests, keys of  *)
(* the pipeline, channel size, number of deliveries and of restarts.       *)
(***************************************************************************)
EXTENDS RagequitWatcher, TLAPS

-----------------------------------------------------------------------------
(* Keys. *)

LEMMA KeysAreTyped ==
    /\ \A r \in Request : Handled(r) \in Key /\ DeadLetter(r) \in Key
    /\ PipelineKey \subseteq Key
BY DEF Key

LEMMA KeysDiffer ==
    ASSUME NEW r \in Request, NEW q \in Request
    PROVE  /\ Handled(r) # DeadLetter(q)
           /\ (Handled(r) = Handled(q) => r = q)
           /\ (DeadLetter(r) = DeadLetter(q) => r = q)
           /\ Handled(r) \notin PipelineKey /\ DeadLetter(r) \notin PipelineKey
BY WatcherAssumption DEF Handled, DeadLetter

-----------------------------------------------------------------------------
(* The store, under any keys.  The keys that are recorded anywhere only grow *)
(* by marks.                                                                 *)

Stored == consumed \cup disk.keys \cup UNION {flush[t].data : t \in Thread}

LEMMA MarkStores ==
    ASSUME NEW t \in Thread, NEW key \in Key, StoreTyped(Key), MarkConsumed(t, key)
    PROVE  StoreTyped(Key)' /\ Stored' \subseteq Stored \cup {key}
<1>1. CASE MarkBolt(key)
  BY <1>1 DEF MarkBolt, StoreTyped, Stored
<1>2. CASE Put(t, key)
  <2>1. \A u \in Thread : flush'[u].data = flush[u].data
    BY <1>2 DEF Put, StoreTyped
  <2>2. flush' \in [Thread -> [step : {"idle", "snapshot", "truncate", "write"},
                               data : SUBSET Key]]
    BY <1>2 DEF Put, StoreTyped
  <2> QED
    BY <1>2, <2>1, <2>2 DEF Put, StoreTyped, Stored
<1> QED
  BY <1>1, <1>2 DEF MarkConsumed

LEMMA SnapshotStores ==
    ASSUME NEW t \in Thread, StoreTyped(Key), TakeSnapshot(t)
    PROVE  StoreTyped(Key)' /\ Stored' \subseteq Stored
<1>1. \A u \in Thread : flush'[u].data = IF u = t THEN consumed ELSE flush[u].data
  BY DEF TakeSnapshot, StoreTyped
<1>2. flush' \in [Thread -> [step : {"idle", "snapshot", "truncate", "write"},
                             data : SUBSET Key]]
  BY DEF TakeSnapshot, StoreTyped
<1> QED
  BY <1>1, <1>2 DEF TakeSnapshot, StoreTyped, Stored

LEMMA TruncateStores ==
    ASSUME NEW t \in Thread, StoreTyped(Key), Truncate(t)
    PROVE  StoreTyped(Key)' /\ Stored' \subseteq Stored
<1>1. \A u \in Thread : flush'[u].data = flush[u].data
  BY DEF Truncate, StoreTyped
<1>2. flush' \in [Thread -> [step : {"idle", "snapshot", "truncate", "write"},
                             data : SUBSET Key]]
  BY DEF Truncate, StoreTyped
<1> QED
  BY <1>1, <1>2 DEF Truncate, StoreTyped, Stored

LEMMA WriteStores ==
    ASSUME NEW t \in Thread, StoreTyped(Key), Write(t)
    PROVE  StoreTyped(Key)' /\ Stored' \subseteq Stored
<1>1. \A u \in Thread : flush'[u].data = IF u = t THEN {} ELSE flush[u].data
  BY DEF Write, StoreTyped, NotFlushing
<1>2. flush' \in [Thread -> [step : {"idle", "snapshot", "truncate", "write"},
                             data : SUBSET Key]]
  BY DEF Write, StoreTyped, NotFlushing
<1>3. flush[t].data \subseteq Key
  BY DEF StoreTyped
<1>4. disk' \in [ok : BOOLEAN, keys : SUBSET Key]
  BY <1>3 DEF Write, StoreTyped
<1>5. disk'.keys \subseteq Stored
  BY DEF Write, Stored
<1>6. Stored' \subseteq Stored
  BY <1>1, <1>5 DEF Write, Stored
<1> QED
  BY <1>2, <1>4, <1>6 DEF Write, StoreTyped

LEMMA FlushStores ==
    ASSUME NEW t \in Thread, StoreTyped(Key), FlushStep(t)
    PROVE  StoreTyped(Key)' /\ Stored' \subseteq Stored
BY SnapshotStores, TruncateStores, WriteStores DEF FlushStep

LEMMA CloseStores ==
    ASSUME StoreTyped(Key), CloseStore
    PROVE  StoreTyped(Key)' /\ Stored' \subseteq Stored
BY DEF CloseStore, StoreTyped, Stored

LEMMA LossStores ==
    ASSUME StoreTyped(Key), StoreLost
    PROVE  StoreTyped(Key)' /\ Stored' \subseteq Stored
<1>1. \A u \in Thread : flush'[u].data = {}
  BY DEF StoreLost, NotFlushing
<1>2. flush' \in [Thread -> [step : {"idle", "snapshot", "truncate", "write"},
                             data : SUBSET Key]]
  BY DEF StoreLost, NotFlushing
<1>3. UNCHANGED disk /\ consumed' = {} /\ open' = FALSE /\ overlapped' = FALSE
  BY DEF StoreLost
<1>4. Stored' \subseteq Stored
  BY <1>1, <1>3 DEF Stored
<1>5. StoreTyped(Key)'
  BY <1>2, <1>3 DEF StoreLost, StoreTyped
<1> QED
  BY <1>4, <1>5

LEMMA OpenStores ==
    ASSUME StoreTyped(Key), OpenStore
    PROVE  StoreTyped(Key)' /\ Stored' \subseteq Stored
BY DEF OpenStore, NewBoltStore, NewMemoryStore, StoreTyped, Stored

LEMMA IdleStores ==
    ASSUME StoreTyped(Key), UNCHANGED storeVars
    PROVE  StoreTyped(Key)' /\ Stored' \subseteq Stored
BY DEF storeVars, StoreTyped, Stored

-----------------------------------------------------------------------------
(* Type correctness. *)

PathTyped ==
    /\ life \in {"up", "closing", "down"} /\ cancelled \in BOOLEAN
    /\ subscribed \in BOOLEAN /\ watching \in BOOLEAN /\ handling \in BOOLEAN
    /\ logs \in Seq(Request) /\ inHand \in Seq(Request) /\ Len(inHand) <= 1
    /\ ragequitCh \in Seq(Request) /\ Len(ragequitCh) <= ChannelSize
    /\ work \in Request \cup {NoRequest}
    /\ pc \in {"idle", "handle", "unlocked", "failed", "marked"}
    /\ (pc = "idle" <=> work = NoRequest)

HistoryTyped ==
    /\ deliveries \in 0..MaxDeliveries /\ restarts \in 0..MaxRestarts
    /\ requested \subseteq Request /\ missed \subseteq Request /\ perished \subseteq Request
    /\ reported \subseteq Request
    /\ broadcasts \in [Request -> Nat] /\ lost \in [Request -> Nat]
    /\ blind \in [Request -> Nat]

LEMMA TypeParts == TypeOK <=> PathTyped /\ HistoryTyped /\ StoreTyped(Key)
BY DEF TypeOK, PathTyped, HistoryTyped

LEMMA WorkIsRequest ==
    ASSUME PathTyped, pc # "idle"
    PROVE  work \in Request
BY DEF PathTyped

LEMMA EmptyQueue ==
    /\ <<>> \in Seq(Request)
    /\ Len(<<>>) <= 1
    /\ Len(<<>>) <= ChannelSize
<1>1. Len(<<>>) = 0
  OBVIOUS
<1> QED
  BY <1>1, WatcherAssumption

LEMMA InitTyped == Init => TypeOK
<1> SUFFICES ASSUME Init PROVE TypeOK
  OBVIOUS
<1>1. PathTyped
  BY EmptyQueue DEF Init, PathTyped
<1>2. HistoryTyped
  BY WatcherAssumption DEF Init, HistoryTyped
<1>3. StoreTyped(Key)
  BY DEF Init, StoreInit, StoreTyped, NotFlushing
<1> QED
  BY <1>1, <1>2, <1>3, TypeParts

LEMMA ElementsOfSeq ==
    ASSUME NEW s \in Seq(Request)
    PROVE  Elements(s) \subseteq Request
BY DEF Elements

LEMMA DeliverTyped ==
    ASSUME PathTyped, HistoryTyped, NEW r \in Request, Deliver(r)
    PROVE  PathTyped' /\ HistoryTyped'
<1>1. PathTyped'
  BY DEF Deliver, PathTyped, process, handler
<1>2. HistoryTyped'
  BY WatcherAssumption DEF Deliver, HistoryTyped, process
<1> QED
  BY <1>1, <1>2

LEMMA DecodeTyped ==
    ASSUME PathTyped, HistoryTyped, Decode
    PROVE  PathTyped' /\ HistoryTyped'
<1>1. Head(logs) \in Request /\ Tail(logs) \in Seq(Request)
  BY DEF Decode, PathTyped
<1>2. inHand' \in Seq(Request) /\ Len(inHand') <= 1
  BY <1>1 DEF Decode, decodeRagequit
<1>3. PathTyped'
  BY <1>1, <1>2 DEF Decode, PathTyped, process, handler
<1>4. HistoryTyped'
  BY DEF Decode, HistoryTyped, process, history
<1> QED
  BY <1>3, <1>4

LEMMA ForwardTyped ==
    ASSUME PathTyped, HistoryTyped, Forward
    PROVE  PathTyped' /\ HistoryTyped'
<1>1. ragequitCh' \in Seq(Request) /\ Len(ragequitCh') <= ChannelSize
  BY WatcherAssumption DEF Forward, PathTyped
<1>2. PathTyped'
  BY <1>1 DEF Forward, PathTyped, process, handler
<1>3. HistoryTyped'
  BY DEF Forward, HistoryTyped, process, history
<1> QED
  BY <1>2, <1>3

LEMMA StopWatchingTyped ==
    ASSUME PathTyped, HistoryTyped, StopWatching
    PROVE  PathTyped' /\ HistoryTyped'
<1>1. PathTyped'
  BY EmptyQueue DEF StopWatching, PathTyped, process, handler
<1>2. perished' \subseteq Request
  BY ElementsOfSeq DEF StopWatching, PathTyped, HistoryTyped
<1>3. HistoryTyped'
  BY <1>2 DEF StopWatching, HistoryTyped, process
<1> QED
  BY <1>1, <1>3

LEMMA TakeTyped ==
    ASSUME PathTyped, HistoryTyped, Take
    PROVE  PathTyped' /\ HistoryTyped'
<1>1. Head(ragequitCh) \in Request /\ Tail(ragequitCh) \in Seq(Request)
  BY DEF Take, PathTyped
<1>2. Len(Tail(ragequitCh)) <= ChannelSize
  BY WatcherAssumption DEF Take, PathTyped
<1>3. PathTyped'
  BY <1>1, <1>2, WatcherAssumption DEF Take, PathTyped, process, watcher
<1>4. HistoryTyped'
  BY DEF Take, HistoryTyped, process, history
<1> QED
  BY <1>3, <1>4

LEMMA BroadcastTyped ==
    ASSUME HistoryTyped, NEW r \in Request, BroadcastUnlockCapital(r)
    PROVE  broadcasts' \in [Request -> Nat] /\ blind' \in [Request -> Nat]
BY DEF BroadcastUnlockCapital, HistoryTyped

LEMMA UnlockTyped ==
    ASSUME PathTyped, HistoryTyped, Unlock
    PROVE  PathTyped' /\ HistoryTyped'
<1>1. work \in Request
  BY WorkIsRequest DEF Unlock
<1>2. PathTyped'
  BY WorkIsRequest DEF Unlock, PathTyped, process, watcher
<1>3. HistoryTyped'
  BY <1>1, BroadcastTyped DEF Unlock, HistoryTyped, process
<1> QED
  BY <1>2, <1>3

LEMMA UnlockFailsTyped ==
    ASSUME PathTyped, HistoryTyped, UnlockFails
    PROVE  PathTyped' /\ HistoryTyped'
<1>1. work \in Request
  BY WorkIsRequest DEF UnlockFails
<1>2. PathTyped'
  BY WorkIsRequest DEF UnlockFails, PathTyped, process, watcher
<1>3. broadcasts' \in [Request -> Nat] /\ blind' \in [Request -> Nat]
  BY <1>1, BroadcastTyped DEF UnlockFails, HistoryTyped
<1>4. HistoryTyped'
  BY <1>1, <1>3 DEF UnlockFails, HistoryTyped, process
<1> QED
  BY <1>2, <1>4

LEMMA EndTyped ==
    ASSUME PathTyped, HistoryTyped, End
    PROVE  PathTyped' /\ HistoryTyped'
<1>1. PathTyped'
  BY EmptyQueue DEF End, PathTyped
<1>2. pc = "handle" => work \in Request
  BY WorkIsRequest
<1>3. perished' \subseteq Request
  BY <1>2, ElementsOfSeq DEF End, PathTyped, HistoryTyped
<1>4. lost' \in [Request -> Nat]
  BY DEF End, HistoryTyped
<1>5. HistoryTyped'
  BY <1>3, <1>4 DEF End, HistoryTyped
<1> QED
  BY <1>1, <1>5

\* The other steps leave the requests in their places.
LEMMA OtherTyped ==
    ASSUME PathTyped, HistoryTyped,
           \/ ConnectionLost \/ Skip \/ Mark \/ FinishMark \/ StopHandling
           \/ \E key \in PipelineKey : PipelineMarks(key)
           \/ \E t \in Thread : Flush(t)
           \/ Signal \/ MainReturns \/ Restart \/ UNCHANGED vars
    PROVE  PathTyped' /\ HistoryTyped'
<1> USE DEF process, watcher, handler, history, PathTyped, HistoryTyped
<1>1. CASE ConnectionLost
  BY <1>1 DEF ConnectionLost
<1>2. CASE Skip
  BY <1>2 DEF Skip, Done
<1>3. CASE Mark
  BY <1>3 DEF Mark
<1>4. CASE FinishMark
  BY <1>4 DEF FinishMark, Done
<1>5. CASE StopHandling
  BY <1>5 DEF StopHandling
<1>6. CASE \E key \in PipelineKey : PipelineMarks(key)
  BY <1>6 DEF PipelineMarks
<1>7. CASE \E t \in Thread : Flush(t)
  BY <1>7 DEF Flush
<1>8. CASE Signal
  BY <1>8 DEF Signal
<1>9. CASE MainReturns
  BY <1>9 DEF MainReturns
<1>10. CASE Restart
  BY <1>10, WatcherAssumption DEF Restart, Wired
<1>11. CASE UNCHANGED vars
  BY <1>11 DEF vars
<1> QED
  BY <1>1, <1>2, <1>3, <1>4, <1>5, <1>6, <1>7, <1>8, <1>9, <1>10, <1>11

\* Every step is one of these.
LEMMA StepCases ==
    ASSUME [Next]_vars
    PROVE  \/ \E r \in Request : Deliver(r)
           \/ Decode \/ Forward \/ StopWatching \/ Take \/ Unlock \/ UnlockFails \/ End
           \/ ConnectionLost \/ Skip \/ Mark \/ FinishMark \/ StopHandling
           \/ \E key \in PipelineKey : PipelineMarks(key)
           \/ \E t \in Thread : Flush(t)
           \/ Signal \/ MainReturns \/ Restart \/ UNCHANGED vars
BY WatcherAssumption DEF Next, Watcher, Handler, Pipeline, Environment

LEMMA PathStep == PathTyped /\ HistoryTyped /\ [Next]_vars => PathTyped' /\ HistoryTyped'
BY StepCases, DeliverTyped, DecodeTyped, ForwardTyped, StopWatchingTyped, TakeTyped, UnlockTyped,
   UnlockFailsTyped, EndTyped, OtherTyped

\* What a step does to the store: it adds at most the key that was just decided on.
Adds(key) == StoreTyped(Key)' /\ Stored' \subseteq Stored \cup {key}
KeepsStore == StoreTyped(Key)' /\ Stored' \subseteq Stored

LEMMA StoreStep ==
    ASSUME PathTyped, StoreTyped(Key), [Next]_vars
    PROVE  \/ KeepsStore
           \/ Mark /\ pc = "unlocked" /\ Adds(Handled(work))
           \/ Mark /\ pc = "failed" /\ Adds(DeadLetter(work))
           \/ \E key \in PipelineKey : PipelineMarks(key) /\ Adds(key)
<1>1. CASE Mark
  <2>1. work \in Request /\ "ragequit" \in Thread
    BY <1>1, WorkIsRequest, WatcherAssumption DEF Mark
  <2>2. Handled(work) \in Key /\ DeadLetter(work) \in Key
    BY <2>1, KeysAreTyped
  <2>3. CASE pc = "unlocked" /\ MarkConsumed("ragequit", Handled(work))
    BY <1>1, <2>1, <2>2, <2>3, MarkStores DEF Adds
  <2>4. CASE pc = "failed" /\ MarkConsumed("ragequit", DeadLetter(work))
    BY <1>1, <2>1, <2>2, <2>4, MarkStores DEF Adds
  <2> QED
    BY <1>1, <2>3, <2>4 DEF Mark
<1>2. ASSUME NEW key \in PipelineKey, PipelineMarks(key)
      PROVE  Adds(key)
  BY <1>2, MarkStores, KeysAreTyped, WatcherAssumption DEF PipelineMarks, Adds
<1>3. CASE \E t \in Thread : Flush(t)
  BY <1>3, FlushStores DEF Flush, KeepsStore
<1>4. CASE MainReturns
  BY <1>4, CloseStores DEF MainReturns, KeepsStore
<1>5. CASE End
  BY <1>5, LossStores DEF End, KeepsStore
<1>6. CASE Restart
  BY <1>6, OpenStores DEF Restart, KeepsStore
<1>7. CASE UNCHANGED storeVars
  BY <1>7, IdleStores DEF KeepsStore
<1>8. ASSUME NEW r \in Request, Deliver(r)
      PROVE  UNCHANGED storeVars
  BY <1>8 DEF Deliver
<1>9. CASE Decode \/ Forward \/ StopWatching \/ Take \/ Unlock \/ UnlockFails
  BY <1>7, <1>9 DEF Decode, Forward, StopWatching, Take, Unlock, UnlockFails
<1>10. CASE ConnectionLost \/ Skip \/ FinishMark \/ StopHandling \/ Signal \/ UNCHANGED vars
  BY <1>7, <1>10 DEF ConnectionLost, Skip, FinishMark, StopHandling, Signal, vars
<1> QED
  BY <1>1, <1>2, <1>3, <1>4, <1>5, <1>6, <1>7, <1>8, <1>9, <1>10, StepCases

LEMMA TypeStep == TypeOK /\ [Next]_vars => TypeOK'
<1> SUFFICES ASSUME TypeOK, [Next]_vars PROVE TypeOK'
  OBVIOUS
<1>1. PathTyped /\ HistoryTyped /\ StoreTyped(Key)
  BY TypeParts
<1>2. PathTyped' /\ HistoryTyped'
  BY <1>1, PathStep
<1>3. StoreTyped(Key)'
  BY <1>1, StoreStep DEF KeepsStore, Adds
<1>4. (PathTyped /\ HistoryTyped /\ StoreTyped(Key))' => TypeOK'
  BY DEF TypeOK, PathTyped, HistoryTyped
<1> QED
  BY <1>2, <1>3, <1>4

\* The state is well typed, whatever the node delivers and whenever the process
\* ends: above all the channel never holds more than its size, and the handler
\* has an event exactly while it is busy.
THEOREM WatcherTyped == Spec => []TypeOK
<1> QED
  BY InitTyped, TypeStep, PTL DEF Spec
-----------------------------------------------------------------------------
(* What the queues hold. *)

LEMMA ElementsOfAppend ==
    ASSUME NEW s \in Seq(Request), NEW r \in Request
    PROVE  Elements(s) \cup {r} \subseteq Elements(Append(s, r))
<1>1. \A i \in DOMAIN s : i \in DOMAIN Append(s, r) /\ Append(s, r)[i] = s[i]
  OBVIOUS
<1>2. Len(s) + 1 \in DOMAIN Append(s, r) /\ Append(s, r)[Len(s) + 1] = r
  OBVIOUS
<1> QED
  BY <1>1, <1>2 DEF Elements

LEMMA ElementsOfTail ==
    ASSUME NEW s \in Seq(Request), s # <<>>
    PROVE  Elements(s) \subseteq {Head(s)} \cup Elements(Tail(s))
<1> SUFFICES ASSUME NEW i \in DOMAIN s, i # 1
             PROVE  s[i] \in Elements(Tail(s))
  BY DEF Elements
<1>1. i - 1 \in DOMAIN Tail(s) /\ Tail(s)[i - 1] = s[i]
  OBVIOUS
<1> QED
  BY <1>1 DEF Elements

LEMMA ElementsOfConcat ==
    ASSUME NEW s \in Seq(Request), NEW u \in Seq(Request)
    PROVE  Elements(s) \cup Elements(u) \subseteq Elements(s \o u)
<1>1. \A i \in DOMAIN s : i \in DOMAIN (s \o u) /\ (s \o u)[i] = s[i]
  OBVIOUS
<1>2. \A i \in DOMAIN u : Len(s) + i \in DOMAIN (s \o u) /\ (s \o u)[Len(s) + i] = u[i]
  OBVIOUS
<1> QED
  BY <1>1, <1>2 DEF Elements

LEMMA ElementsOfUnit ==
    ASSUME NEW r \in Request
    PROVE  r \in Elements(<<r>>)
BY DEF Elements

-----------------------------------------------------------------------------
(* A request is settled before its key is stored anywhere. *)

Truthful ==
    \A r \in Request : /\ Handled(r) \in Stored => broadcasts[r] > 0
                       /\ DeadLetter(r) \in Stored => r \in reported

Progress ==
    /\ pc = "unlocked" => broadcasts[work] > 0
    /\ pc = "failed" => work \in reported
    /\ pc = "marked" => Settled(work)

Grows ==
    /\ \A r \in Request : broadcasts[r] > 0 => broadcasts'[r] > 0
    /\ reported \subseteq reported' /\ missed \subseteq missed' /\ perished \subseteq perished'

LEMMA BroadcastGrows ==
    ASSUME HistoryTyped, NEW q \in Request, BroadcastUnlockCapital(q)
    PROVE  /\ \A r \in Request : broadcasts[r] > 0 => broadcasts'[r] > 0
           /\ broadcasts'[q] > 0
BY DEF BroadcastUnlockCapital, HistoryTyped

LEMMA HistoryGrows ==
    ASSUME PathTyped, HistoryTyped, [Next]_vars
    PROVE  Grows
<1> USE DEF Grows
<1>1. ASSUME NEW r \in Request, Deliver(r) PROVE Grows
  BY <1>1 DEF Deliver
<1>2. CASE Unlock
  BY <1>2, WorkIsRequest, BroadcastGrows DEF Unlock
<1>3. CASE UnlockFails
  BY <1>3, WorkIsRequest, BroadcastGrows DEF UnlockFails
<1>4. CASE Decode \/ Forward \/ StopWatching \/ Take
  BY <1>4 DEF Decode, Forward, StopWatching, Take, history
<1>5. CASE End
  BY <1>5 DEF End
<1>6. CASE ConnectionLost \/ Skip \/ Mark \/ FinishMark \/ StopHandling
  BY <1>6 DEF ConnectionLost, Skip, Mark, FinishMark, StopHandling, history
<1>7. CASE \/ \E key \in PipelineKey : PipelineMarks(key)
           \/ \E t \in Thread : Flush(t)
  BY <1>7 DEF PipelineMarks, Flush, history
<1>8. CASE Signal \/ MainReturns \/ Restart \/ UNCHANGED vars
  BY <1>8 DEF Signal, MainReturns, Restart, vars, history
<1> QED
  BY <1>1, <1>2, <1>3, <1>4, <1>5, <1>6, <1>7, <1>8, StepCases

LEMMA TruthfulStep ==
    ASSUME PathTyped, HistoryTyped, StoreTyped(Key), Truthful, Progress, [Next]_vars
    PROVE  Truthful'
<1>1. Grows
  BY HistoryGrows
<1>2. CASE KeepsStore
  BY <1>1, <1>2 DEF KeepsStore, Truthful, Grows
<1>3. CASE Mark /\ pc = "unlocked" /\ Adds(Handled(work))
  <2>1. work \in Request /\ broadcasts[work] > 0
    BY <1>3, WorkIsRequest DEF Progress
  <2> QED
    BY <1>1, <1>3, <2>1, KeysDiffer DEF Adds, Truthful, Grows
<1>4. CASE Mark /\ pc = "failed" /\ Adds(DeadLetter(work))
  <2>1. work \in Request /\ work \in reported
    BY <1>4, WorkIsRequest DEF Progress
  <2> QED
    BY <1>1, <1>4, <2>1, KeysDiffer DEF Adds, Truthful, Grows
<1>5. ASSUME NEW key \in PipelineKey, Adds(key)
      PROVE  Truthful'
  BY <1>1, <1>5, KeysDiffer DEF Adds, Truthful, Grows
<1> QED
  BY <1>2, <1>3, <1>4, <1>5, StoreStep

\* What a step does to the handler: it goes on with its event or leaves it alone.
LEMMA ProgressStep ==
    ASSUME PathTyped, HistoryTyped, Progress, [Next]_vars
    PROVE  Progress'
<1>1. Grows
  BY HistoryGrows
<1>2. ASSUME UNCHANGED <<work, pc>>
      PROVE  Progress'
  <2>1. pc # "idle" => work \in Request
    BY WorkIsRequest
  <2> QED
    BY <1>1, <1>2, <2>1 DEF Progress, Settled, Grows
<1>3. CASE Take \/ Skip \/ FinishMark \/ End
  BY <1>3 DEF Take, Skip, FinishMark, End, Done, Progress
<1>4. CASE Unlock
  BY <1>4, WorkIsRequest, BroadcastGrows DEF Unlock, Progress
<1>5. CASE UnlockFails
  BY <1>5 DEF UnlockFails, Progress
<1>6. CASE Mark
  <2>1. work \in Request
    BY <1>6, WorkIsRequest DEF Mark
  <2> QED
    BY <1>1, <1>6, <2>1 DEF Mark, Progress, Settled, Grows
<1>7. ASSUME NEW r \in Request, Deliver(r) PROVE Progress'
  BY <1>2, <1>7 DEF Deliver, handler
<1>8. CASE Decode \/ Forward \/ StopWatching \/ ConnectionLost \/ StopHandling
  BY <1>2, <1>8 DEF Decode, Forward, StopWatching, ConnectionLost, StopHandling, handler
<1>9. CASE \/ \E key \in PipelineKey : PipelineMarks(key)
           \/ \E t \in Thread : Flush(t)
  BY <1>2, <1>9 DEF PipelineMarks, Flush, handler
<1>10. CASE Signal \/ MainReturns \/ Restart \/ UNCHANGED vars
  BY <1>2, <1>10 DEF Signal, MainReturns, Restart, vars, handler
<1> QED
  BY <1>3, <1>4, <1>5, <1>6, <1>7, <1>8, <1>9, <1>10, StepCases
-----------------------------------------------------------------------------
(* No request is dropped silently. *)

Accounted(r) == r \in InProcess \/ Settled(r) \/ r \in missed \/ r \in perished

LEMMA KnownIsSettled ==
    ASSUME Truthful, NEW r \in Request, Known(r)
    PROVE  Settled(r)
BY DEF Truthful, Known, IsConsumed, Stored, Settled

LEMMA DeliverAccounts ==
    ASSUME PathTyped, HistoryTyped, NEW q \in Request, Deliver(q), NEW r \in Request,
           Accounted(r) \/ r = q
    PROVE  Accounted(r)'
<1>1. Elements(logs) \cup {q} \subseteq Elements(Append(logs, q))
  BY ElementsOfAppend DEF PathTyped
<1>2. InProcess \subseteq InProcess'
  BY <1>1 DEF Deliver, InProcess, handler
<1>3. r = q => Accounted(r)'
  BY <1>1 DEF Deliver, InProcess, Accounted
<1> QED
  BY <1>2, <1>3 DEF Deliver, Accounted, Settled

LEMMA DecodeAccounts ==
    ASSUME PathTyped, Decode, NEW r \in Decodable, r \in InProcess
    PROVE  r \in InProcess'
<1>1. logs \in Seq(Request) /\ logs # <<>> /\ Head(logs) \in Request
  BY DEF Decode, PathTyped
<1>2. Elements(logs) \subseteq {Head(logs)} \cup Elements(logs')
  BY <1>1, ElementsOfTail DEF Decode
<1>3. Head(logs) \in Decodable => Head(logs) \in Elements(inHand')
  BY <1>1, ElementsOfUnit DEF Decode, decodeRagequit
<1>4. Elements(inHand) = {}
  BY DEF Decode, Elements
<1> QED
  BY <1>2, <1>3, <1>4 DEF Decode, InProcess, handler

LEMMA ForwardAccounts ==
    ASSUME PathTyped, Forward
    PROVE  InProcess \subseteq InProcess'
<1>1. Elements(ragequitCh) \cup Elements(inHand) \subseteq Elements(ragequitCh')
  BY ElementsOfConcat DEF Forward, PathTyped
<1> QED
  BY <1>1 DEF Forward, InProcess, handler

LEMMA TakeAccounts ==
    ASSUME PathTyped, Take, NEW r \in Request, r \in InProcess
    PROVE  r \in InProcess'
<1>1. Elements(ragequitCh) \subseteq {Head(ragequitCh)} \cup Elements(ragequitCh')
  BY ElementsOfTail DEF Take, PathTyped
<1>2. work = NoRequest
  BY DEF Take, PathTyped
<1> QED
  BY <1>1, <1>2, WatcherAssumption DEF Take, InProcess, watcher

LEMMA StepAccounts ==
    ASSUME PathTyped, HistoryTyped, StoreTyped(Key), Truthful, Progress, [Next]_vars,
           NEW r \in Decodable, Accounted(r)
    PROVE  Accounted(r)'
<1>1. r \in Request
  BY WatcherAssumption
<1>2. Settled(r) \/ r \in missed \/ r \in perished => Accounted(r)'
  BY <1>1, HistoryGrows DEF Grows, Settled, Accounted
<1> SUFFICES ASSUME r \in InProcess PROVE Accounted(r)'
  BY <1>2 DEF Accounted
<1>3. r # NoRequest
  BY <1>1, WatcherAssumption
<1>4. ASSUME NEW q \in Request, Deliver(q) PROVE Accounted(r)'
  BY <1>1, <1>4, DeliverAccounts
<1>5. CASE Decode
  BY <1>5, DecodeAccounts DEF Accounted
<1>6. CASE Forward
  BY <1>6, ForwardAccounts DEF Accounted
<1>7. CASE Take
  BY <1>1, <1>7, TakeAccounts DEF Accounted
<1>8. CASE StopWatching
  BY <1>8 DEF StopWatching, Accounted, InProcess, handler
<1>9. CASE Skip \/ FinishMark
  <2>1. r = work => Settled(r)
    BY <1>1, <1>9, KnownIsSettled DEF Skip, FinishMark, Progress
  <2>2. r # work => r \in InProcess'
    BY <1>9 DEF Skip, FinishMark, InProcess, watcher
  <2> QED
    BY <1>2, <2>1, <2>2 DEF Accounted
<1>10. CASE End
  <2>1. r = work => pc = "handle" \/ Settled(r)
    BY <1>3 DEF Progress, PathTyped, Settled
  <2>2. r # work \/ pc = "handle" => r \in perished'
    BY <1>10 DEF End, InProcess
  <2> QED
    BY <1>2, <2>1, <2>2 DEF Accounted
<1>11. ASSUME UNCHANGED <<logs, inHand, ragequitCh, work>>
       PROVE  Accounted(r)'
  BY <1>11 DEF Accounted, InProcess
<1>12. CASE Unlock \/ UnlockFails \/ Mark \/ StopHandling \/ ConnectionLost
  BY <1>11, <1>12 DEF Unlock, UnlockFails, Mark, StopHandling, ConnectionLost, watcher, handler
<1>13. CASE \/ \E key \in PipelineKey : PipelineMarks(key)
            \/ \E t \in Thread : Flush(t)
  BY <1>11, <1>13 DEF PipelineMarks, Flush, watcher, handler
<1>14. CASE Signal \/ MainReturns \/ Restart \/ UNCHANGED vars
  BY <1>11, <1>14 DEF Signal, MainReturns, Restart, vars, watcher, handler
<1> QED
  BY <1>4, <1>5, <1>6, <1>7, <1>8, <1>9, <1>10, <1>12, <1>13, <1>14, StepCases

\* The only way into requested is Deliver.
LEMMA RequestedStep ==
    ASSUME [Next]_vars, NEW r \in requested', r \notin requested
    PROVE  \E q \in Request : Deliver(q) /\ r = q
<1>1. ASSUME NEW q \in Request, Deliver(q) PROVE r = q
  BY <1>1 DEF Deliver
<1>2. CASE \E q \in Request : Deliver(q)
  BY <1>1, <1>2
<1>3. CASE Decode \/ Forward \/ StopWatching \/ Take \/ Unlock \/ UnlockFails \/ End
  BY <1>3 DEF Decode, Forward, StopWatching, Take, Unlock, UnlockFails, End, history
<1>4. CASE ConnectionLost \/ Skip \/ Mark \/ FinishMark \/ StopHandling
  BY <1>4 DEF ConnectionLost, Skip, Mark, FinishMark, StopHandling, history
<1>5. CASE \/ \E key \in PipelineKey : PipelineMarks(key)
           \/ \E t \in Thread : Flush(t)
  BY <1>5 DEF PipelineMarks, Flush, history
<1>6. CASE Signal \/ MainReturns \/ Restart \/ UNCHANGED vars
  BY <1>6 DEF Signal, MainReturns, Restart, vars, history
<1> QED
  BY <1>2, <1>3, <1>4, <1>5, <1>6, StepCases

Followed == TypeOK /\ Truthful /\ Progress /\ NoSilentDrop

LEMMA InitFollowed == Init => Followed
<1> SUFFICES ASSUME Init PROVE Followed
  OBVIOUS
<1>1. TypeOK
  BY InitTyped
<1>2. Stored = {}
  BY DEF Init, StoreInit, NotFlushing, Stored
<1>3. Truthful
  BY <1>2 DEF Truthful
<1>4. Progress /\ NoSilentDrop
  BY DEF Init, Progress, NoSilentDrop
<1> QED
  BY <1>1, <1>3, <1>4 DEF Followed

LEMMA StepFollowed == Followed /\ [Next]_vars => Followed'
<1> SUFFICES ASSUME Followed, [Next]_vars PROVE Followed'
  OBVIOUS
<1>1. PathTyped /\ HistoryTyped /\ StoreTyped(Key) /\ Truthful /\ Progress
  BY TypeParts DEF Followed
<1>2. TypeOK'
  BY TypeStep DEF Followed
<1>3. Truthful' /\ Progress'
  BY <1>1, TruthfulStep, ProgressStep
<1>4. ASSUME NEW r \in requested', r \in Decodable
      PROVE  Accounted(r)'
  <2>1. CASE r \in requested
    BY <1>1, <1>4, <2>1, StepAccounts DEF Followed, NoSilentDrop, Accounted
  <2>2. CASE r \notin requested
    BY <1>1, <2>2, RequestedStep, DeliverAccounts
  <2> QED
    BY <2>1, <2>2
<1>5. NoSilentDrop'
  BY <1>4 DEF NoSilentDrop, Accounted
<1> QED
  BY <1>2, <1>3, <1>5 DEF Followed

\* "Never drop silently", for any number of requests, deliveries and restarts: a
\* decodable request the contract emitted waits in the process, was asked for on
\* Zion or reported as failed, unless nobody was subscribed or its goroutine ended.
THEOREM NeverDroppedSilently == Spec => []NoSilentDrop
<1>1. Followed => NoSilentDrop
  BY DEF Followed
<1> QED
  BY <1>1, InitFollowed, StepFollowed, PTL DEF Spec
-----------------------------------------------------------------------------
(* The store is open exactly while main runs, and nothing works when the     *)
(* process is down.                                                          *)

Quiet == \A t \in Thread : flush[t].step = "idle"

Phases ==
    /\ open <=> life = "up"
    /\ life = "down" => ~handling /\ pc = "idle" /\ Quiet
    /\ storeType = "bolt" => Quiet

\* A step of a flush needs one that is under way.
LEMMA FlushNeedsOne ==
    ASSUME NEW t \in Thread, FlushStep(t)
    PROVE  ~Quiet
BY DEF FlushStep, TakeSnapshot, Truncate, Write, Quiet

LEMMA MarkPhases ==
    ASSUME NEW t \in Thread, NEW key \in Key, MarkConsumed(t, key)
    PROVE  UNCHANGED <<storeType, open>> /\ (storeType = "bolt" => UNCHANGED flush)
BY DEF MarkConsumed, MarkBolt, Put

LEMMA PhasesStep ==
    ASSUME PathTyped, Phases, [Next]_vars
    PROVE  Phases'
<1>1. ASSUME UNCHANGED <<life, open, storeType, flush>>,
             life = "down" => UNCHANGED <<handling, pc>>
      PROVE  Phases'
  BY <1>1 DEF Phases, Quiet
<1>2. CASE Mark
  <2>1. work \in Request /\ "ragequit" \in Thread
    BY <1>2, WorkIsRequest, WatcherAssumption DEF Mark
  <2>2. UNCHANGED <<storeType, open>> /\ (storeType = "bolt" => UNCHANGED flush)
    BY <1>2, <2>1, MarkPhases, KeysAreTyped DEF Mark
  <2>3. life # "down" /\ UNCHANGED life
    BY <1>2 DEF Mark, Phases, process
  <2> QED
    BY <2>2, <2>3 DEF Phases, Quiet
<1>3. ASSUME NEW key \in PipelineKey, PipelineMarks(key)
      PROVE  Phases'
  <2>1. UNCHANGED <<storeType, open>> /\ (storeType = "bolt" => UNCHANGED flush)
    BY <1>3, MarkPhases, KeysAreTyped, WatcherAssumption DEF PipelineMarks
  <2>2. life = "up" /\ UNCHANGED life
    BY <1>3 DEF PipelineMarks, process
  <2> QED
    BY <2>1, <2>2 DEF Phases, Quiet
<1>4. ASSUME NEW t \in Thread, Flush(t)
      PROVE  Phases'
  <2>1. life # "down" /\ storeType # "bolt"
    BY <1>4, FlushNeedsOne DEF Flush, Phases
  <2>2. UNCHANGED <<life, open, storeType>>
    BY <1>4 DEF Flush, FlushStep, TakeSnapshot, Truncate, Write, process
  <2> QED
    BY <2>1, <2>2 DEF Phases
<1>5. CASE MainReturns
  BY <1>5 DEF MainReturns, CloseStore, Phases, Quiet
<1>6. CASE End
  <2>1. Quiet'
    BY <1>6 DEF End, StoreLost, NotFlushing, Quiet
  <2> QED
    BY <1>6, <2>1 DEF End, StoreLost, Phases
<1>7. CASE Restart
  BY <1>7 DEF Restart, OpenStore, Wired, Phases, Quiet
<1>8. ASSUME NEW r \in Request, Deliver(r) PROVE Phases'
  BY <1>1, <1>8 DEF Deliver, process, handler, storeVars
<1>9. CASE Decode \/ Forward \/ StopWatching \/ ConnectionLost
  BY <1>1, <1>9 DEF Decode, Forward, StopWatching, ConnectionLost, process, handler, storeVars
<1>10. CASE Take \/ Skip \/ Unlock \/ UnlockFails \/ FinishMark \/ StopHandling
  BY <1>1, <1>10 DEF Take, Skip, Unlock, UnlockFails, FinishMark, StopHandling, Phases, process,
                     storeVars
<1>11. CASE Signal \/ UNCHANGED vars
  BY <1>1, <1>11 DEF Signal, vars, process, handler, storeVars
<1> QED
  BY <1>2, <1>3, <1>4, <1>5, <1>6, <1>7, <1>8, <1>9, <1>10, <1>11, StepCases

-----------------------------------------------------------------------------
(* Unlocks are repeated only for marks that were lost.  Of every request one *)
(* unlock is covered by a key that will be found, by the handler that is     *)
(* about to write it, or by the closing of the store, after which every      *)
(* unlock is blind.                                                          *)

View == IF storeType = "bolt" \/ life = "down" THEN disk.keys ELSE consumed

Found(r) == Handled(r) \in View \/ DeadLetter(r) \in View

Covered(r) == \/ ~open /\ life # "down"
              \/ Found(r)
              \/ work = r /\ pc \in {"unlocked", "failed"}

Budget(r) == /\ broadcasts[r] <= lost[r] + blind[r] + 1
             /\ ~Covered(r) => broadcasts[r] <= lost[r] + blind[r]

Budgeted == \A r \in Request : Budget(r)

\* A step that asks for nothing and uncovers nothing keeps to the budget.
LEMMA BudgetKept ==
    ASSUME NEW r \in Request, Budget(r), UNCHANGED <<broadcasts, lost, blind>>,
           Covered(r) => Covered(r)'
    PROVE  Budget(r)'
BY DEF Budget

LEMMA UnlockBudget ==
    ASSUME PathTyped, HistoryTyped, Phases, NEW r \in Request, Budget(r),
           pc = "handle", ~Known(work), BroadcastUnlockCapital(work),
           pc' \in {"unlocked", "failed"},
           UNCHANGED <<life, work, lost, storeVars>>
    PROVE  Budget(r)'
<1>1. work \in Request
  BY WorkIsRequest
<1>2. broadcasts[r] \in Nat /\ lost[r] \in Nat /\ blind[r] \in Nat
  BY DEF HistoryTyped
<1>3. Found(r)' = Found(r)
  BY DEF Found, View, storeVars
<1>4. CASE r # work
  <2>1. broadcasts'[r] = broadcasts[r] /\ blind'[r] = blind[r] /\ lost' = lost
    BY <1>1, <1>4 DEF BroadcastUnlockCapital, HistoryTyped
  <2>2. Covered(r)' <=> Covered(r)
    BY <1>3, <1>4 DEF Covered, storeVars
  <2> QED
    BY <1>2, <2>1, <2>2 DEF Budget
<1>5. CASE r = work
  <2>1. broadcasts'[r] = broadcasts[r] + 1 /\ lost'[r] = lost[r]
    BY <1>1, <1>5 DEF BroadcastUnlockCapital, HistoryTyped
  <2>2. Covered(r)'
    BY <1>5 DEF Covered
  <2>3. CASE open
    <3>1. life = "up"
      BY <2>3 DEF Phases
    <3>2. ~Found(r)
      BY <1>5, <2>3, <3>1 DEF Known, IsConsumed, Found, View
    <3>3. ~Covered(r)
      BY <2>3, <3>2 DEF Covered
    <3>4. blind' = blind
      BY <2>3 DEF BroadcastUnlockCapital
    <3> QED
      BY <1>2, <2>1, <2>2, <3>3, <3>4 DEF Budget
  <2>4. CASE ~open
    <3>1. blind'[r] = blind[r] + 1
      BY <1>1, <1>5, <2>4 DEF BroadcastUnlockCapital, HistoryTyped
    <3> QED
      BY <1>2, <2>1, <2>2, <3>1 DEF Budget
  <2> QED
    BY <2>3, <2>4
<1> QED
  BY <1>4, <1>5

\* A mark is found by the one who looks for it, or the store is closed.
LEMMA MarkIsFound ==
    ASSUME NEW t \in Thread, NEW key \in Key, StoreTyped(Key), MarkConsumed(t, key),
           UNCHANGED life, life # "down"
    PROVE  View \subseteq View' /\ (key \in View' \/ ~open') /\ UNCHANGED open
<1>1. CASE MarkBolt(key)
  BY <1>1 DEF MarkBolt, View, StoreTyped
<1>2. CASE Put(t, key)
  BY <1>2 DEF Put, View
<1> QED
  BY <1>1, <1>2 DEF MarkConsumed

LEMMA MarkBudget ==
    ASSUME PathTyped, StoreTyped(Key), Phases, Mark, NEW r \in Request, Budget(r)
    PROVE  Budget(r)'
<1>1. work \in Request /\ "ragequit" \in Thread
  BY WorkIsRequest, WatcherAssumption DEF Mark
<1>2. UNCHANGED life /\ life # "down"
  BY DEF Mark, Phases, process
<1>3. Handled(work) \in Key /\ DeadLetter(work) \in Key
  BY <1>1, KeysAreTyped
<1>4. View \subseteq View' /\ UNCHANGED <<open, work>>
  BY <1>1, <1>2, <1>3, MarkIsFound DEF Mark
<1>5. Found(work)' \/ ~open'
  BY <1>1, <1>2, <1>3, <1>4, MarkIsFound DEF Mark, Found
<1>6. Covered(r) => Covered(r)'
  BY <1>2, <1>4, <1>5 DEF Covered, Found
<1> QED
  BY <1>6, BudgetKept DEF Mark, history

LEMMA PipelineBudget ==
    ASSUME StoreTyped(Key), NEW key \in PipelineKey, PipelineMarks(key), NEW r \in Request,
           Budget(r)
    PROVE  Budget(r)'
<1>1. UNCHANGED life /\ life # "down"
  BY DEF PipelineMarks, process
<1>2. View \subseteq View' /\ UNCHANGED open
  BY <1>1, MarkIsFound, KeysAreTyped, WatcherAssumption DEF PipelineMarks
<1>3. Covered(r) => Covered(r)'
  BY <1>1, <1>2 DEF PipelineMarks, Covered, Found, handler
<1> QED
  BY <1>3, BudgetKept DEF PipelineMarks, history

LEMMA FlushBudget ==
    ASSUME Phases, NEW t \in Thread, Flush(t), NEW r \in Request, Budget(r)
    PROVE  Budget(r)'
<1>1. life # "down" /\ storeType # "bolt"
  BY FlushNeedsOne DEF Flush, Phases
<1>2. UNCHANGED <<life, open, storeType, consumed>>
  BY DEF Flush, FlushStep, TakeSnapshot, Truncate, Write, process
<1>3. View' = View
  BY <1>1, <1>2 DEF View
<1>4. Covered(r) => Covered(r)'
  BY <1>2, <1>3 DEF Flush, Covered, Found, handler
<1> QED
  BY <1>4, BudgetKept DEF Flush, history

\* What the end of the process uncovers is counted as lost.
LEMMA EndBudget ==
    ASSUME HistoryTyped, End, NEW r \in Request, Budget(r)
    PROVE  Budget(r)'
<1>1. broadcasts[r] \in Nat /\ lost[r] \in Nat /\ blind[r] \in Nat
  BY DEF HistoryTyped
<1>2. broadcasts' = broadcasts /\ blind' = blind
  BY DEF End
<1>3. lost'[r] = IF Unmarked(r) THEN lost[r] + 1 ELSE lost[r]
  BY DEF End
<1>4. CASE Unmarked(r)
  BY <1>1, <1>2, <1>3, <1>4 DEF Budget
<1>5. CASE broadcasts[r] = 0
  BY <1>1, <1>2, <1>3, <1>5 DEF Budget
<1>6. CASE ~Unmarked(r) /\ broadcasts[r] > 0
  <2>1. Found(r)'
    BY <1>6 DEF Unmarked, End, StoreLost, Found, View
  <2> QED
    BY <1>1, <1>2, <1>3, <1>6, <2>1 DEF Budget, Covered
<1> QED
  BY <1>1, <1>4, <1>5, <1>6

LEMMA RestartBudget ==
    ASSUME StoreTyped(Key), Phases, Restart, NEW r \in Request, Budget(r)
    PROVE  Budget(r)'
<1>1. View' = View
  BY DEF Restart, OpenStore, NewBoltStore, NewMemoryStore, Wired, View, StoreTyped
<1>2. Covered(r) => Covered(r)'
  BY <1>1 DEF Restart, Phases, Covered, Found
<1> QED
  BY <1>2, BudgetKept DEF Restart, history

LEMMA StepBudget ==
    ASSUME PathTyped, HistoryTyped, StoreTyped(Key), Phases, [Next]_vars,
           NEW r \in Request, Budget(r)
    PROVE  Budget(r)'
<1>1. ASSUME UNCHANGED <<broadcasts, lost, blind, life, storeVars>>,
             Covered(r) /\ work = r /\ pc \in {"unlocked", "failed"}
                => work' = r /\ pc' \in {"unlocked", "failed"}
      PROVE  Budget(r)'
  <2>1. Covered(r) => Covered(r)'
    BY <1>1 DEF Covered, Found, View, storeVars
  <2> QED
    BY <1>1, <2>1, BudgetKept
<1>2. CASE Unlock
  BY <1>2, UnlockBudget DEF Unlock, process
<1>3. CASE UnlockFails /\ BroadcastUnlockCapital(work)
  BY <1>3, UnlockBudget DEF UnlockFails, process
<1>4. CASE UnlockFails /\ UNCHANGED <<broadcasts, blind>>
  BY <1>1, <1>4 DEF UnlockFails, process
<1>5. CASE Take \/ Skip \/ FinishMark \/ StopHandling
  BY <1>1, <1>5 DEF Take, Skip, FinishMark, StopHandling, process, history
<1>6. ASSUME NEW q \in Request, Deliver(q) PROVE Budget(r)'
  BY <1>1, <1>6 DEF Deliver, process, handler
<1>7. CASE Decode \/ Forward \/ StopWatching \/ ConnectionLost
  BY <1>1, <1>7 DEF Decode, Forward, StopWatching, ConnectionLost, process, handler, history
<1>8. CASE Signal \/ UNCHANGED vars
  BY <1>1, <1>8 DEF Signal, vars, process, handler, history
<1>9. CASE MainReturns
  <2>1. Covered(r)'
    BY <1>9 DEF MainReturns, CloseStore, Covered
  <2> QED
    BY <1>9, <2>1, BudgetKept DEF MainReturns, history
<1>10. CASE Mark
  BY <1>10, MarkBudget
<1>11. ASSUME NEW key \in PipelineKey, PipelineMarks(key) PROVE Budget(r)'
  BY <1>11, PipelineBudget
<1>12. ASSUME NEW t \in Thread, Flush(t) PROVE Budget(r)'
  BY <1>12, FlushBudget
<1>13. CASE End
  BY <1>13, EndBudget
<1>14. CASE Restart
  BY <1>14, RestartBudget
<1>15. UnlockFails => BroadcastUnlockCapital(work) \/ UNCHANGED <<broadcasts, blind>>
  BY DEF UnlockFails
<1> QED
  BY <1>2, <1>3, <1>4, <1>5, <1>6, <1>7, <1>8, <1>9, <1>10, <1>11, <1>12, <1>13, <1>14, <1>15,
     StepCases

Explained == TypeOK /\ Phases /\ Budgeted

LEMMA InitExplained == Init => Explained
<1> SUFFICES ASSUME Init PROVE Explained
  OBVIOUS
<1>1. TypeOK
  BY InitTyped
<1>2. Phases
  BY DEF Init, StoreInit, NotFlushing, Phases, Quiet
<1>3. Budgeted
  BY DEF Init, Budgeted, Budget
<1> QED
  BY <1>1, <1>2, <1>3 DEF Explained

LEMMA StepExplained == Explained /\ [Next]_vars => Explained'
<1> SUFFICES ASSUME Explained, [Next]_vars PROVE Explained'
  OBVIOUS
<1>1. PathTyped /\ HistoryTyped /\ StoreTyped(Key) /\ Phases
  BY TypeParts DEF Explained
<1>2. TypeOK'
  BY TypeStep DEF Explained
<1>3. Phases'
  BY <1>1, PhasesStep
<1>4. Budgeted'
  BY <1>1, StepBudget DEF Explained, Budgeted
<1> QED
  BY <1>2, <1>3, <1>4 DEF Explained

\* Redelivery alone never repeats an unlock, with either store and for any number
\* of deliveries: every unlock of a request beyond the first is matched by an end
\* of the process without its mark, or was asked for after the store was closed.
THEOREM RepeatedOnlyForLostMarks == Spec => []RepeatsAreExplained
<1>1. Explained => RepeatsAreExplained
  <2> SUFFICES ASSUME Explained, NEW r \in Request
               PROVE  broadcasts[r] <= 1 + lost[r] + blind[r]
    BY DEF RepeatsAreExplained
  <2>1. HistoryTyped /\ Budget(r)
    BY TypeParts DEF Explained, Budgeted
  <2> QED
    BY <2>1 DEF Budget, HistoryTyped
<1> QED
  BY <1>1, InitExplained, StepExplained, PTL DEF Spec
-----------------------------------------------------------------------------
(* The file of the memory store.  A goroutine alone in flush writes what the *)
(* map holds; that breaks only when another puts a key before it is done.    *)

Within == disk.keys \subseteq consumed /\ \A t \in Thread : flush[t].data \subseteq consumed

Alone == \A t, u \in Thread : flush[t].step # "idle" /\ flush[u].step # "idle" => t = u

UpToDate == \A t \in Thread :
    /\ flush[t].step = "truncate" => flush[t].data = consumed
    /\ flush[t].step = "write" => flush[t].data = consumed /\ disk.keys = {}

Saved == Quiet => disk = [ok |-> TRUE, keys |-> consumed]

FileFollows == Within /\ (~overlapped => Alone /\ UpToDate /\ Saved)

Empty == \A t \in Thread : flush[t].data = {}

FileInv == storeType = "memory" => IF life = "down" THEN Empty ELSE FileFollows

LEMMA PutFollows ==
    ASSUME NEW t \in Thread, NEW key \in Key, StoreTyped(Key), FileFollows, t \notin Flushing,
           Put(t, key)
    PROVE  FileFollows'
<1>1. \A u \in Thread : flush'[u].data = flush[u].data
  BY DEF Put, StoreTyped
<1>2. \A u \in Thread : flush'[u].step = IF u = t THEN "snapshot" ELSE flush[u].step
  BY DEF Put, StoreTyped
<1>3. Within'
  BY <1>1 DEF Put, FileFollows, Within
<1>4. ASSUME ~overlapped'
      PROVE  \A u \in Thread : u # t => flush[u].step = "idle"
  BY <1>4 DEF Put, Flushing
<1>5. ~overlapped' => Alone' /\ UpToDate' /\ Saved'
  BY <1>2, <1>4 DEF Alone, UpToDate, Saved, Quiet
<1> QED
  BY <1>3, <1>5 DEF FileFollows

LEMMA MarkFollows ==
    ASSUME NEW t \in Thread, NEW key \in Key, StoreTyped(Key), storeType = "memory",
           FileFollows, MarkConsumed(t, key)
    PROVE  FileFollows'
BY PutFollows DEF MarkConsumed, MarkBolt

LEMMA SnapshotFollows ==
    ASSUME NEW t \in Thread, StoreTyped(Key), FileFollows, TakeSnapshot(t)
    PROVE  FileFollows'
<1>1. \A u \in Thread : flush'[u].data = IF u = t THEN consumed ELSE flush[u].data
  BY DEF TakeSnapshot, StoreTyped
<1>2. \A u \in Thread : flush'[u].step = IF u = t THEN "truncate" ELSE flush[u].step
  BY DEF TakeSnapshot, StoreTyped
<1>3. flush[t].step # "idle" /\ ~Quiet'
  BY <1>2 DEF TakeSnapshot, Quiet
<1>4. Within'
  BY <1>1 DEF TakeSnapshot, FileFollows, Within
<1>5. Alone => Alone'
  BY <1>2, <1>3 DEF Alone
<1>6. UpToDate => UpToDate'
  BY <1>1, <1>2 DEF TakeSnapshot, UpToDate
<1> QED
  BY <1>3, <1>4, <1>5, <1>6 DEF TakeSnapshot, FileFollows, Saved

LEMMA TruncateFollows ==
    ASSUME NEW t \in Thread, StoreTyped(Key), FileFollows, Truncate(t)
    PROVE  FileFollows'
<1>1. \A u \in Thread : flush'[u].data = flush[u].data
  BY DEF Truncate, StoreTyped
<1>2. \A u \in Thread : flush'[u].step = IF u = t THEN "write" ELSE flush[u].step
  BY DEF Truncate, StoreTyped
<1>3. flush[t].step # "idle" /\ ~Quiet'
  BY <1>2 DEF Truncate, Quiet
<1>4. disk'.keys = {} /\ UNCHANGED <<consumed, overlapped>>
  BY DEF Truncate
<1>5. Within'
  BY <1>1, <1>4 DEF FileFollows, Within
<1>6. Alone => Alone'
  BY <1>2, <1>3 DEF Alone
<1>7. UpToDate => UpToDate'
  BY <1>1, <1>2, <1>4 DEF Truncate, UpToDate
<1> QED
  BY <1>3, <1>4, <1>5, <1>6, <1>7 DEF FileFollows, Saved

LEMMA WriteFollows ==
    ASSUME NEW t \in Thread, StoreTyped(Key), FileFollows, Write(t)
    PROVE  FileFollows'
<1>1. \A u \in Thread : flush'[u].data = IF u = t THEN {} ELSE flush[u].data
  BY DEF Write, StoreTyped, NotFlushing
<1>2. \A u \in Thread : flush'[u].step = IF u = t THEN "idle" ELSE flush[u].step
  BY DEF Write, StoreTyped, NotFlushing
<1>3. flush[t].step = "write" /\ UNCHANGED <<consumed, overlapped>>
  BY DEF Write
<1>4. disk' = [ok |-> disk.keys \subseteq flush[t].data, keys |-> disk.keys \cup flush[t].data]
  BY DEF Write
<1>5. Within'
  BY <1>1, <1>3, <1>4 DEF FileFollows, Within
<1>6. ASSUME ~overlapped
      PROVE  Alone' /\ UpToDate' /\ Saved'
  <2>1. Alone /\ UpToDate
    BY <1>6 DEF FileFollows
  <2>2. \A u \in Thread : flush'[u].step = "idle"
    BY <1>2, <1>3, <2>1 DEF Alone
  <2>3. flush[t].data = consumed /\ disk.keys = {}
    BY <1>3, <2>1 DEF UpToDate
  <2>4. disk' = [ok |-> TRUE, keys |-> consumed]
    <3>1. (disk.keys \subseteq flush[t].data) = TRUE
      BY <2>3
    <3>2. disk.keys \cup flush[t].data = consumed
      BY <2>3
    <3> QED
      BY <1>4, <3>1, <3>2
  <2> QED
    BY <1>3, <2>2, <2>4 DEF Alone, UpToDate, Saved
<1> QED
  BY <1>3, <1>5, <1>6 DEF FileFollows

LEMMA FileStep ==
    ASSUME PathTyped, StoreTyped(Key), Phases, FileInv, [Next]_vars
    PROVE  FileInv'
<1>1. ASSUME UNCHANGED <<life, storeVars>>
      PROVE  FileInv'
  BY <1>1 DEF FileInv, FileFollows, Within, Alone, UpToDate, Saved, Quiet, Empty, storeVars
<1>2. CASE Mark
  <2>1. work \in Request /\ "ragequit" \in Thread
    BY <1>2, WorkIsRequest, WatcherAssumption DEF Mark
  <2>2. PICK key \in Key : MarkConsumed("ragequit", key)
    BY <1>2, <2>1, KeysAreTyped DEF Mark
  <2>3. life # "down" /\ UNCHANGED <<life, storeType>>
    BY <1>2, <2>1, <2>2, MarkPhases DEF Mark, Phases, process
  <2> QED
    BY <2>1, <2>2, <2>3, MarkFollows DEF FileInv
<1>3. ASSUME NEW key \in PipelineKey, PipelineMarks(key)
      PROVE  FileInv'
  <2>1. "pipeline" \in Thread /\ key \in Key /\ MarkConsumed("pipeline", key)
    BY <1>3, KeysAreTyped, WatcherAssumption DEF PipelineMarks
  <2>2. life = "up" /\ UNCHANGED <<life, storeType>>
    BY <1>3, <2>1, MarkPhases DEF PipelineMarks, process
  <2> QED
    BY <2>1, <2>2, MarkFollows DEF FileInv
<1>4. ASSUME NEW t \in Thread, Flush(t)
      PROVE  FileInv'
  <2>1. life # "down" /\ FlushStep(t)
    BY <1>4, FlushNeedsOne DEF Flush, Phases
  <2>2. UNCHANGED <<life, storeType>>
    BY <1>4 DEF Flush, FlushStep, TakeSnapshot, Truncate, Write, process
  <2>3. FileFollows => FileFollows'
    BY <2>1, SnapshotFollows, TruncateFollows, WriteFollows DEF FlushStep
  <2> QED
    BY <2>1, <2>2, <2>3 DEF FileInv
<1>5. CASE MainReturns
  BY <1>5 DEF MainReturns, CloseStore, FileInv, FileFollows, Within, Alone, UpToDate, Saved, Quiet
<1>6. CASE End
  BY <1>6 DEF End, StoreLost, NotFlushing, FileInv, Empty
<1>7. CASE Restart
  <2>1. ASSUME storeType = "memory"
        PROVE  FileFollows'
    <3>1. Empty /\ Quiet
      BY <1>7, <2>1 DEF Restart, FileInv, Phases
    <3>2. consumed' = disk.keys /\ UNCHANGED <<disk, flush, overlapped>>
      BY <1>7, <2>1 DEF Restart, OpenStore, NewBoltStore, NewMemoryStore
    <3>3. disk = [ok |-> TRUE, keys |-> disk.keys]
      BY <1>7, <2>1 DEF Restart, OpenStore, NewBoltStore, NewMemoryStore, StoreTyped
    <3> QED
      BY <3>1, <3>2, <3>3 DEF Empty, Quiet, FileFollows, Within, Alone, UpToDate, Saved
  <2> QED
    BY <1>7, <2>1 DEF Restart, OpenStore, Wired, FileInv
<1>8. ASSUME NEW r \in Request, Deliver(r) PROVE FileInv'
  BY <1>1, <1>8 DEF Deliver, process
<1>9. CASE Decode \/ Forward \/ StopWatching \/ ConnectionLost
  BY <1>1, <1>9 DEF Decode, Forward, StopWatching, ConnectionLost, process
<1>10. CASE Take \/ Skip \/ Unlock \/ UnlockFails \/ FinishMark \/ StopHandling
  BY <1>1, <1>10 DEF Take, Skip, Unlock, UnlockFails, FinishMark, StopHandling, process
<1>11. CASE Signal \/ UNCHANGED vars
  BY <1>1, <1>11 DEF Signal, vars, process
<1> QED
  BY <1>2, <1>3, <1>4, <1>5, <1>6, <1>7, <1>8, <1>9, <1>10, <1>11, StepCases

Kept == TypeOK /\ Phases /\ FileInv

LEMMA InitKept == Init => Kept
<1> SUFFICES ASSUME Init PROVE Kept
  OBVIOUS
<1>1. TypeOK /\ Phases
  BY InitExplained DEF Explained
<1>2. Quiet /\ Empty /\ consumed = {} /\ disk = [ok |-> TRUE, keys |-> {}]
  BY DEF Init, StoreInit, NotFlushing, Quiet, Empty
<1>3. FileFollows
  BY <1>2 DEF Quiet, Empty, FileFollows, Within, Alone, UpToDate, Saved
<1> QED
  BY <1>1, <1>2, <1>3 DEF Kept, FileInv

LEMMA StepKept == Kept /\ [Next]_vars => Kept'
<1> SUFFICES ASSUME Kept, [Next]_vars PROVE Kept'
  OBVIOUS
<1>1. PathTyped /\ StoreTyped(Key)
  BY TypeParts DEF Kept
<1> QED
  BY <1>1, TypeStep, PhasesStep, FileStep DEF Kept

\* The file of the memory store holds the map at rest unless the last mark was set
\* while another goroutine was writing, and never a key nobody marked: for any
\* interleaving of snapshots, truncations and writes, with crashes between them.
THEOREM FileStaysCurrent == Spec => []FileIsCurrent
<1>1. Kept => FileIsCurrent
  <2> SUFFICES ASSUME Kept, storeType = "memory", open PROVE FileIsCurrent
    BY DEF FileIsCurrent
  <2>1. FileFollows
    BY DEF Kept, Phases, FileInv
  <2>2. Flushing = {} => Quiet
    BY DEF Flushing, Quiet
  <2> QED
    BY <2>1, <2>2 DEF FileIsCurrent, FileFollows, Within, Saved
<1> QED
  BY <1>1, InitKept, StepKept, PTL DEF Spec
=============================================================================
