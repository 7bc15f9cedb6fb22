---------------------------- MODULE DaemonProofs ----------------------------
(***************************************************************************)
(* Safety of Daemon, for any log of transactions, any handlers, any number *)
(* of retries, deliveries and restarts, and a channel of any size.         *)
(***************************************************************************)
EXTENDS Daemon, TLAPS

LEMMA EventsOfLog ==
    \A tx \in ZionTx : Log[tx] \in Seq(AllEvents)
BY DaemonAssumption DEF AllEvents, Elements

LEMMA EventsAreTyped ==
    /\ AllEvents \subseteq Event
    /\ NoEvent \notin AllEvents
<1>1. AllEvents \subseteq Event
  BY DaemonAssumption DEF AllEvents, Elements
<1>2. \A ev \in Event : ev # NoEvent
  <2>1. \A ev \in Event : DOMAIN ev = {"tx", "type", "id", "kind"}
    BY DEF Event
  <2>2. DOMAIN NoEvent = {"tx"}
    BY DEF NoEvent
  <2> QED
    BY <2>1, <2>2
<1> QED
  BY <1>1, <1>2

LEMMA KeysAreTyped ==
    ASSUME NEW ev \in AllEvents
    PROVE  /\ ev.type \in Type /\ ev.id \in Id
           /\ KeyOf(ev) \in ZionTx \X Type
BY EventsAreTyped DEF Event, KeyOf

-----------------------------------------------------------------------------
(* Type correctness. *)

LEMMA InitTyped == Init => TypeOK
<1> SUFFICES ASSUME Init PROVE TypeOK
  OBVIOUS
<1>1. feed \in Seq(ZionTx) /\ decoded \in Seq(AllEvents) /\ channel \in Seq(AllEvents)
  BY DEF Init, Fresh
<1>2. Len(channel) <= ChannelSize
  BY DaemonAssumption DEF Init, Fresh
<1>3. /\ sent \in [AllEvents -> Nat] /\ lostReply \in [AllEvents -> Nat]
      /\ credited \in [Id -> Nat]
  BY DEF Init
<1>4. /\ pc \in {"idle", "dispatch", "handled", "backoff"} /\ (pc = "idle" <=> work = NoEvent)
      /\ attempt \in 0..MaxRetries /\ (pc = "backoff" => attempt < MaxRetries)
      /\ work \in AllEvents \cup {NoEvent}
  BY DaemonAssumption DEF Init, Fresh
<1>5. delivered \in 0..MaxDeliveries /\ restarts \in 0..MaxRestarts
  BY DaemonAssumption DEF Init
<1> QED
  BY <1>1, <1>2, <1>3, <1>4, <1>5 DEF Init, Fresh, TypeOK

LEMMA FeedTyped ==
    ASSUME TypeOK, \E tx \in ZionTx : Deliver(tx)
    PROVE  TypeOK'
BY DaemonAssumption DEF TypeOK, Deliver, pipeline, evm

LEMMA DecodeTyped ==
    ASSUME TypeOK, Decode
    PROVE  TypeOK'
<1>1. Head(feed) \in ZionTx /\ Tail(feed) \in Seq(ZionTx)
  BY DEF TypeOK, Decode
<1>2. decoded' \in Seq(AllEvents) /\ feed' \in Seq(ZionTx)
  BY <1>1, EventsOfLog DEF Decode
<1> QED
  BY <1>2 DEF TypeOK, Decode, pipeline, evm

LEMMA ForwardTyped ==
    ASSUME TypeOK, Forward
    PROVE  TypeOK'
<1>1. /\ Head(decoded) \in AllEvents /\ Tail(decoded) \in Seq(AllEvents)
  BY DEF TypeOK, Forward
<1>2. /\ decoded' \in Seq(AllEvents) /\ channel' \in Seq(AllEvents)
      /\ Len(channel') <= ChannelSize
  BY <1>1, DaemonAssumption DEF TypeOK, Forward
<1> QED
  BY <1>2 DEF TypeOK, Forward, pipeline, evm

LEMMA TakeTyped ==
    ASSUME TypeOK, Take
    PROVE  TypeOK'
<1>1. /\ Head(channel) \in AllEvents /\ Tail(channel) \in Seq(AllEvents)
      /\ Len(Tail(channel)) <= ChannelSize
  BY DaemonAssumption DEF TypeOK, Take
<1>2. /\ channel' \in Seq(AllEvents) /\ Len(channel') <= ChannelSize
      /\ work' \in AllEvents \cup {NoEvent}
      /\ (pc' = "idle" <=> work' = NoEvent)
      /\ attempt' \in 0..MaxRetries /\ pc' # "backoff"
  BY <1>1, EventsAreTyped, DaemonAssumption DEF Take
<1> QED
  BY <1>2 DEF TypeOK, Take, evm

\* The state after Done, with a changed store or none.
LEMMA DoneTyped ==
    ASSUME TypeOK, Done
    PROVE  /\ work' \in AllEvents \cup {NoEvent}
           /\ pc' \in {"idle", "dispatch", "handled", "backoff"}
           /\ (pc' = "idle" <=> work' = NoEvent)
           /\ attempt' \in 0..MaxRetries /\ (pc' = "backoff" => attempt' < MaxRetries)
BY DaemonAssumption DEF Done

LEMMA FailTyped ==
    ASSUME TypeOK, Handling, Fail
    PROVE  /\ work' \in AllEvents \cup {NoEvent}
           /\ pc' \in {"idle", "dispatch", "handled", "backoff"}
           /\ (pc' = "idle" <=> work' = NoEvent)
           /\ attempt' \in 0..MaxRetries /\ (pc' = "backoff" => attempt' < MaxRetries)
BY DaemonAssumption DEF Fail, Done, Handling, TypeOK

\* An event in hand is an event.
LEMMA WorkIsEvent ==
    ASSUME TypeOK, pc # "idle"
    PROVE  work \in AllEvents
BY DEF TypeOK

LEMMA ExecuteTyped ==
    ASSUME TypeOK, work \in AllEvents, Execute(work)
    PROVE  credited' \in [Id -> Nat] /\ spent' \subseteq Id
<1>1. credited \in [Id -> Nat] /\ spent \subseteq Id
  BY DEF TypeOK
<1>2. work.id \in Id
  BY KeysAreTyped
<1>3. CASE UNCHANGED <<credited, spent>>
  BY <1>1, <1>3
<1>4. CASE /\ credited' = [credited EXCEPT ![work.id] = @ + 1]
           /\ spent' = IF FreshNonce(work) THEN spent ELSE spent \cup {work.id}
  <2>1. credited' \in [Id -> Nat]
    BY <1>1, <1>2, <1>4
  <2>2. spent' \subseteq Id
    BY <1>1, <1>2, <1>4
  <2> QED BY <2>1, <2>2
<1> QED BY <1>3, <1>4 DEF Execute

LEMMA EndedTyped ==
    ASSUME TypeOK, Ended
    PROVE  TypeOK'
<1>1. /\ feed' \in Seq(ZionTx) /\ decoded' \in Seq(AllEvents) /\ channel' \in Seq(AllEvents)
  BY DEF Ended
<1>2. Len(channel') <= ChannelSize
  BY DaemonAssumption DEF Ended
<1>3. /\ sent' = sent /\ lostReply' = lostReply /\ credited' = credited /\ spent' = spent
  BY DEF Ended, evm
<1> QED
  BY <1>1, <1>2, <1>3, DoneTyped DEF Ended, TypeOK

LEMMA PipelineTyped ==
    ASSUME TypeOK, Pipeline
    PROVE  TypeOK'
<1>1. CASE Take
  BY <1>1, TakeTyped
<1>2. CASE Skip
  <2>1. skipped' \subseteq AllEvents
    BY <1>2, WorkIsEvent DEF Skip, TypeOK
  <2> QED
    BY <1>2, <2>1, DoneTyped DEF Skip, TypeOK, source, evm
<1>3. CASE HandleNothing
  BY <1>3 DEF HandleNothing, Handling, TypeOK, source, evm
<1>4. CASE HandleSent
  <2>1. work \in AllEvents
    BY <1>4, WorkIsEvent DEF HandleSent, Handling
  <2>2. sent' \in [AllEvents -> Nat]
    BY <1>4, <2>1 DEF HandleSent, TypeOK
  <2>3. credited' \in [Id -> Nat] /\ spent' \subseteq Id
    BY <1>4, <2>1, ExecuteTyped DEF HandleSent
  <2> QED
    BY <1>4, <2>2, <2>3 DEF HandleSent, Handling, TypeOK, source
<1>5. CASE HandleFailed
  BY <1>5, FailTyped DEF HandleFailed, TypeOK, source, evm
<1>6. CASE HandleReplyLost
  <2>1. work \in AllEvents
    BY <1>6, WorkIsEvent DEF HandleReplyLost, Handling
  <2>2. sent' \in [AllEvents -> Nat] /\ lostReply' \in [AllEvents -> Nat]
    BY <1>6, <2>1 DEF HandleReplyLost, TypeOK
  <2>3. credited' \in [Id -> Nat] /\ spent' \subseteq Id
    BY <1>6, <2>1, ExecuteTyped DEF HandleReplyLost
  <2> QED
    BY <1>6, <2>2, <2>3, FailTyped DEF HandleReplyLost, TypeOK, source
<1>7. CASE Mark
  <2>1. store' \subseteq ZionTx \X Type
    BY <1>7, WorkIsEvent, KeysAreTyped DEF Mark, TypeOK
  <2> QED
    BY <1>7, <2>1, DoneTyped DEF Mark, TypeOK, source, evm
<1>8. CASE Retry
  <2>1. attempt + 1 \in 0..MaxRetries
    BY <1>8, DaemonAssumption DEF Retry, TypeOK
  <2> QED
    BY <1>8, <2>1 DEF Retry, TypeOK, source, evm
<1>9. CASE GiveUp
  BY <1>9, DoneTyped DEF GiveUp, TypeOK, source, evm
<1>10. CASE Exit
  BY <1>10, EndedTyped DEF Exit
<1> QED
  BY <1>1, <1>2, <1>3, <1>4, <1>5, <1>6, <1>7, <1>8, <1>9, <1>10 DEF Pipeline

LEMMA NextTyped ==
    ASSUME TypeOK, [Next]_vars
    PROVE  TypeOK'
<1>1. CASE Subscriber
  <2>1. CASE CloseChannel
    BY <2>1 DEF CloseChannel, TypeOK, pipeline, evm
  <2> QED
    BY <1>1, <2>1, DecodeTyped, ForwardTyped DEF Subscriber
<1>2. CASE Pipeline
  BY <1>2, PipelineTyped
<1>3. CASE Environment
  <2>1. CASE Disconnect
    BY <2>1 DEF Disconnect, TypeOK, pipeline, evm
  <2>2. CASE Signal
    BY <2>2 DEF Signal, TypeOK, source, pipeline, evm
  <2>3. CASE Crash
    BY <2>3, EndedTyped DEF Crash
  <2>4. CASE Restart
    <3>1. restarts' \in 0..MaxRestarts
      BY <2>4, DaemonAssumption DEF Restart, TypeOK
    <3> QED
      BY <2>4, <3>1 DEF Restart, TypeOK, pipeline, evm
  <2> QED
    BY <1>3, <2>1, <2>2, <2>3, <2>4, FeedTyped DEF Environment
<1>4. CASE UNCHANGED vars
  BY <1>4 DEF TypeOK, vars, source, pipeline, evm
<1> QED
  BY <1>1, <1>2, <1>3, <1>4 DEF Next

\* Every reachable state is well typed; the channel never holds more than its
\* size, and no event is tried more often than the retries allow.
THEOREM DaemonTyped == Spec => []TypeOK
BY InitTyped, NextTyped, PTL DEF Spec

-----------------------------------------------------------------------------
(* What the steps do to the chain, the store and the event in hand. *)

\* The effect of a step on the sent transactions: one more for the event in
\* hand, of which the reply arrives or is lost, or none.
Sends(ev) ==
    /\ pc = "dispatch" /\ work = ev /\ ~IsConsumed(ev) /\ running
    /\ sent' = [sent EXCEPT ![ev] = @ + 1]
    /\ Execute(ev)
    /\ running' = running /\ store' = store /\ restarts' = restarts

Keeps == sent' = sent /\ lostReply' = lostReply /\ credited' = credited /\ spent' = spent

\* A mark is set for an event that is handled, and an event becomes handled when
\* its transaction is sent or it needs none.
Marks == /\ pc = "handled" /\ running /\ running' = running
         /\ store' = store \cup {KeyOf(work)} /\ restarts' = restarts /\ pc' = "idle"

\* A process that is down stays so, or starts with an empty pipeline.
Starts == /\ ~running /\ running' /\ restarts' = restarts + 1
          /\ store' = store /\ pc' = pc /\ work' = work

\* Every other step leaves store and restarts alone; a handled event stays in
\* hand unless the process ends.
Proceeds ==
    /\ store' = store /\ restarts' = restarts
    /\ \/ ~running' /\ pc' = "idle"
       \/ running' = running /\ pc' = pc /\ work' = work
       \/ running' = running /\ pc # "handled" /\ pc' # "handled"
       \/ /\ running' = running /\ pc = "dispatch"
          /\ pc' = "handled" /\ work' = work /\ work.kind = "noop"

LEMMA StepCases ==
    ASSUME TypeOK, [Next]_vars
    PROVE  \/ /\ work \in AllEvents /\ Sends(work) /\ lostReply' = lostReply
              /\ pc' = "handled" /\ work' = work
           \/ /\ work \in AllEvents /\ Sends(work) /\ pc' # "handled"
              /\ lostReply' = [lostReply EXCEPT ![work] = @ + 1]
           \/ Keeps /\ (Marks \/ Starts \/ Proceeds)
<1>1. CASE Subscriber
  BY <1>1 DEF Subscriber, Decode, Forward, CloseChannel, Keeps, Proceeds, pipeline, evm
<1>2. CASE Take \/ Skip \/ Retry \/ GiveUp \/ HandleNothing \/ HandleFailed
  BY <1>2 DEF Take, Skip, Retry, GiveUp, HandleNothing, HandleFailed, Fail, Done, Handling,
              Keeps, Proceeds, evm
<1>3. CASE HandleSent
  BY <1>3, WorkIsEvent DEF HandleSent, Handling, Sends
<1>4. CASE HandleReplyLost
  BY <1>4, WorkIsEvent DEF HandleReplyLost, Handling, Fail, Done, Sends
<1>5. CASE Mark
  BY <1>5 DEF Mark, Done, Keeps, Marks, evm
<1>6. CASE Exit \/ Crash
  BY <1>6 DEF Exit, Crash, Ended, Done, Keeps, Proceeds, evm
<1>7. CASE Restart
  BY <1>7 DEF Restart, Keeps, Starts, pipeline, evm
<1>8. CASE (\E tx \in ZionTx : Deliver(tx)) \/ Disconnect \/ Signal
  BY <1>8 DEF Deliver, Disconnect, Signal, Keeps, Proceeds, pipeline, evm
<1>9. CASE UNCHANGED vars
  BY <1>9 DEF vars, Keeps, Proceeds, pipeline, evm
<1> QED
  BY <1>1, <1>2, <1>3, <1>4, <1>5, <1>6, <1>7, <1>8, <1>9 DEF Next, Pipeline, Environment

-----------------------------------------------------------------------------
(* Nothing is credited twice. *)

\* A credited identifier is spent, so that it cannot be credited again.
SpentInv ==
    \A ev \in AllEvents : ev.type # PoPType =>
        credited[ev.id] <= 1 /\ (credited[ev.id] = 1 => ev.id \in spent)

LEMMA ExecuteSpends ==
    ASSUME TypeOK, SpentInv, NEW w \in AllEvents, Execute(w)
    PROVE  SpentInv'
<1> SUFFICES ASSUME NEW ev \in AllEvents, ev.type # PoPType
             PROVE  credited'[ev.id] <= 1 /\ (credited'[ev.id] = 1 => ev.id \in spent')
  BY DEF SpentInv
<1>1. ev.id \in Id /\ w.id \in Id
  BY KeysAreTyped
<1>2. w.type = PoPType => w.id # ev.id
  BY DaemonAssumption
<1>3. credited[ev.id] \in Nat
  BY <1>1 DEF TypeOK
<1>4. CASE UNCHANGED <<credited, spent>>
  BY <1>4 DEF SpentInv
<1>5. CASE FreshNonce(w) /\ credited' = [credited EXCEPT ![w.id] = @ + 1] /\ spent' = spent
  BY <1>1, <1>2, <1>5 DEF SpentInv, TypeOK, FreshNonce
<1>6. CASE /\ ~FreshNonce(w) /\ w.id \notin spent
           /\ credited' = [credited EXCEPT ![w.id] = @ + 1] /\ spent' = spent \cup {w.id}
  BY <1>1, <1>3, <1>6 DEF SpentInv, TypeOK
<1> QED
  BY <1>4, <1>5, <1>6 DEF Execute

\* A lock, a job or a day is credited at most once, whatever is redelivered,
\* retried, lost or crashed.
THEOREM NeverCreditedTwice == Spec => []CreditedOnce
<1>1. Init => SpentInv
  BY KeysAreTyped DEF Init, SpentInv
<1>2. TypeOK /\ SpentInv /\ [Next]_vars => SpentInv'
  <2> SUFFICES ASSUME TypeOK, SpentInv, [Next]_vars PROVE SpentInv'
    OBVIOUS
  <2>1. CASE Keeps
    BY <2>1 DEF Keeps, SpentInv
  <2>2. CASE work \in AllEvents /\ Execute(work)
    BY <2>2, ExecuteSpends
  <2> QED
    BY <2>1, <2>2, StepCases DEF Sends
<1>3. SpentInv => CreditedOnce
  BY DEF SpentInv, CreditedOnce
<1> QED
  BY <1>1, <1>2, <1>3, DaemonTyped, PTL DEF Spec

-----------------------------------------------------------------------------
(* A mark is never ahead of the deed. *)

Handled(ev) == sent[ev] > 0 \/ ev.kind = "noop"

HandledInv ==
    /\ MarkedMeansHandled
    /\ pc = "handled" => Handled(work)

\* Sent transactions are not unsent.
LEMMA SentGrows ==
    ASSUME TypeOK, [Next]_vars, NEW ev \in AllEvents, Handled(ev)
    PROVE  Handled(ev)'
<1>1. CASE sent' = sent
  BY <1>1 DEF Handled
<1>2. CASE work \in AllEvents /\ sent' = [sent EXCEPT ![work] = @ + 1]
  BY <1>2 DEF Handled, TypeOK
<1> QED
  BY <1>1, <1>2, StepCases DEF Sends, Keeps

\* Whatever the process dies of, a marked key belongs to an event that was
\* handed to the EVM node or needed no transaction.
THEOREM MarksAreTrue == Spec => []MarkedMeansHandled
<1>1. Init => HandledInv
  BY DEF Init, Fresh, HandledInv, MarkedMeansHandled
<1>2. TypeOK /\ TypeOK' /\ HandledInv /\ [Next]_vars => HandledInv'
  <2> SUFFICES ASSUME TypeOK, TypeOK', HandledInv, [Next]_vars PROVE HandledInv'
    OBVIOUS
  <2>1. ASSUME NEW key \in store
        PROVE  \E ev \in AllEvents : KeyOf(ev) = key /\ Handled(ev)'
    <3>1. PICK ev \in AllEvents : KeyOf(ev) = key /\ Handled(ev)
      BY DEF HandledInv, MarkedMeansHandled, Handled
    <3> QED
      BY <3>1, SentGrows
  <2>2. ASSUME Marks
        PROVE  work \in AllEvents /\ Handled(work)
    BY <2>2, WorkIsEvent DEF Marks, HandledInv
  <2>3. ASSUME NEW key \in store'
        PROVE  \E ev \in AllEvents : KeyOf(ev) = key /\ Handled(ev)'
    <3>1. CASE key \in store
      BY <2>1, <3>1
    <3>2. CASE key \notin store
      <4>1. Marks /\ key = KeyOf(work)
        BY <3>2, StepCases DEF Marks, Sends, Starts, Proceeds
      <4> QED
        BY <4>1, <2>2, SentGrows
    <3> QED
      BY <3>1, <3>2
  <2>4. MarkedMeansHandled'
    BY <2>3 DEF MarkedMeansHandled, Handled, KeyOf
  <2>5. ASSUME pc' = "handled"
        PROVE  Handled(work)'
    <3>1. CASE pc = "handled" /\ work' = work
      <4>1. work \in AllEvents /\ Handled(work)
        BY <3>1, WorkIsEvent DEF HandledInv
      <4>2. \A ev \in AllEvents : Handled(ev) => Handled(ev)'
        BY SentGrows
      <4> QED
        BY <3>1, <4>1, <4>2 DEF Handled
    <3>2. CASE work \in AllEvents /\ Sends(work) /\ work' = work
      BY <3>2 DEF Sends, Handled, TypeOK
    <3>3. CASE work' = work /\ work.kind = "noop"
      BY <3>3 DEF Handled
    <3> QED
      BY <2>5, <3>1, <3>2, <3>3, StepCases DEF Sends, Keeps, Marks, Starts, Proceeds
  <2> QED
    BY <2>4, <2>5 DEF HandledInv
<1>3. HandledInv => MarkedMeansHandled
  BY DEF HandledInv
<1> QED
  BY <1>1, <1>2, <1>3, DaemonTyped, PTL DEF Spec

-----------------------------------------------------------------------------
(* Gas is spent once per failure. *)

\* Between sending and marking, one transaction is excused: the event is in hand
\* and handled, its key is marked, or the process is down and the restart that
\* will excuse it has not been counted.
Excused(ev) == ~running \/ KeyOf(ev) \in store \/ (pc = "handled" /\ work = ev)

SendBound(ev) ==
    /\ sent[ev] <= 1 + restarts + lostReply[ev]
    /\ ~Excused(ev) => sent[ev] <= restarts + lostReply[ev]

SendInv == \A ev \in AllEvents : SendBound(ev)

LEMMA StepKeepsBound ==
    ASSUME TypeOK, [Next]_vars, NEW ev \in AllEvents, SendBound(ev)
    PROVE  SendBound(ev)'
<1>1. /\ sent[ev] \in Nat /\ lostReply[ev] \in Nat /\ restarts \in Nat
      /\ running \in BOOLEAN
  BY DaemonAssumption DEF TypeOK
<1>2. CASE work \in AllEvents /\ Sends(work) /\ lostReply' = lostReply
           /\ pc' = "handled" /\ work' = work
  <2>1. CASE work = ev
    BY <1>1, <1>2, <2>1 DEF SendBound, Excused, Sends, IsConsumed, TypeOK
  <2>2. CASE work # ev
    <3>1. sent'[ev] = sent[ev] /\ restarts' = restarts /\ running' = running /\ store' = store
      BY <1>2, <2>2 DEF Sends, TypeOK
    <3>2. Excused(ev) => Excused(ev)'
      BY <1>2, <2>2, <3>1 DEF Excused, Sends, KeyOf
    <3> QED
      BY <1>1, <1>2, <3>1, <3>2 DEF SendBound
  <2> QED
    BY <2>1, <2>2
<1>3. CASE work \in AllEvents /\ Sends(work) /\ pc' # "handled"
           /\ lostReply' = [lostReply EXCEPT ![work] = @ + 1]
  <2>1. CASE work = ev
    BY <1>1, <1>3, <2>1 DEF SendBound, Excused, Sends, IsConsumed, TypeOK
  <2>2. CASE work # ev
    <3>1. /\ sent'[ev] = sent[ev] /\ lostReply'[ev] = lostReply[ev]
          /\ restarts' = restarts /\ running' = running /\ store' = store
      BY <1>3, <2>2 DEF Sends, TypeOK
    <3>2. Excused(ev) => Excused(ev)'
      BY <1>3, <2>2, <3>1 DEF Excused, Sends, KeyOf
    <3> QED
      BY <1>1, <3>1, <3>2 DEF SendBound
  <2> QED
    BY <2>1, <2>2
<1>4. CASE Keeps /\ Marks
  <2>1. Excused(ev) => Excused(ev)'
    BY <1>4 DEF Excused, Marks, KeyOf
  <2> QED
    BY <1>1, <1>4, <2>1 DEF SendBound, Keeps, Marks
<1>5. CASE Keeps /\ Starts
  BY <1>1, <1>5 DEF SendBound, Keeps, Starts
<1>6. CASE Keeps /\ Proceeds
  <2>1. Excused(ev) => Excused(ev)'
    BY <1>1, <1>6 DEF Excused, Proceeds, KeyOf
  <2> QED
    BY <1>1, <1>6, <2>1 DEF SendBound, Keeps, Proceeds
<1> QED
  BY <1>2, <1>3, <1>4, <1>5, <1>6, StepCases

\* An event costs one transaction, and one more for each crash or restart and for
\* each reply that was lost, however often it is delivered.
THEOREM SentBounded == Spec => []SentOncePerFailure
<1>1. Init => SendInv
  BY DaemonAssumption DEF Init, SendInv, SendBound
<1>2. TypeOK /\ SendInv /\ [Next]_vars => SendInv'
  <2> SUFFICES ASSUME TypeOK, SendInv, [Next]_vars, NEW ev \in AllEvents
               PROVE  SendBound(ev)'
    BY DEF SendInv
  <2> QED
    BY StepKeepsBound DEF SendInv
<1>3. SendInv => SentOncePerFailure
  BY DEF SendInv, SendBound, SentOncePerFailure
<1> QED
  BY <1>1, <1>2, <1>3, DaemonTyped, PTL DEF Spec
=============================================================================
