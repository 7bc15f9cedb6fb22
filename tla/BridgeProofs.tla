---------------------------- MODULE BridgeProofs ----------------------------
(***************************************************************************)
(* Safety of the bridge for any workers, keys, events of Zion and bounds.  *)
(***************************************************************************)
EXTENDS Bridge, SeumMathProofs

-----------------------------------------------------------------------------
(* The handlers. *)

\* Who is paid what by a call, told by the event it comes of.
Pays(ev, call) ==
    /\ ev \in Locks /\ HasId(ev)
    /\ {"worker", "id", "kWRAmount"} \subseteq DOMAIN call
    /\ call.worker = WorkerOf(ev) /\ call.id = LockId(ev) /\ call.kWRAmount = AmountOf(ev)

\* What a handler makes of an event.
Handles(ev, result) ==
    \/ result = Refused
    \/ /\ result = Nothing
       /\ \A expiry, nonce, key : Handle(ev, expiry, nonce, key) = Nothing
    \/ \E call : /\ result = Calling(call)
                 /\ ecrecover(call) = FirstAttester
                 /\ call.fn = "bridgeMintCapital" => Pays(ev, call)

\* A word of the ABI holds every amount that can be locked.
LEMMA WordOfAmount ==
    ASSUME NEW n \in 1..MAX_UINT
    PROVE  Word(n) = n
  BY ConstantsAssumption DEF Word

LEMMA PoPHandles ==
    ASSUME NEW ev \in ZionEvent, ev.type = "EventEvmMappingRegistered", NEW expiry, NEW nonce
    PROVE  Handles(ev, Handle(ev, expiry, nonce, FirstAttester))
<1> DEFINE result == Handle(ev, expiry, nonce, FirstAttester)
           worker == Attr(ev, "evm_addr")
           digest == <<"ATTEST_POP", Contract, worker, expiry, nonce>>
           call   == [fn |-> "attestPoP", worker |-> worker, expiry |-> expiry, id |-> nonce,
                      sig |-> [digest |-> digest, key |-> FirstAttester]]
<1>1. result = AttestPoPHandler(ev, expiry, nonce, FirstAttester)
  BY DEF Handle
<1>2. result = Refused \/ result = Calling(call)
  BY <1>1 DEF AttestPoPHandler, PackAttestPoPDigest, BroadcastAttestPoP, SignDigest
<1>3. ecrecover(call) = FirstAttester /\ call.fn # "bridgeMintCapital"
  BY DEF ecrecover, DigestOf
<1> HIDE DEF result, call
<1> QED BY <1>2, <1>3 DEF Handles, result

LEMMA MintHandles ==
    ASSUME NEW ev \in ZionEvent, ev.type = "EventCapitalLocked", NEW expiry, NEW nonce
    PROVE  Handles(ev, Handle(ev, expiry, nonce, FirstAttester))
<1> DEFINE result == Handle(ev, expiry, nonce, FirstAttester)
           worker == Attr(ev, "evm_addr")
           amount == Word(Attr(ev, "kwr_amount"))
           lockID == Attr(ev, "lock_id")
           digest == <<"BRIDGE_MINT_CAPITAL", Contract, worker, amount, lockID, expiry>>
           call   == [fn |-> "bridgeMintCapital", worker |-> worker, kWRAmount |-> amount,
                      id |-> lockID, expiry |-> expiry,
                      sig |-> [digest |-> digest, key |-> FirstAttester]]
<1>1. result = BridgeMintHandler(ev, expiry, FirstAttester)
  BY DEF Handle
<1>2. result = Refused \/ (result = Calling(call) /\ HasId(ev))
  BY <1>1 DEF BridgeMintHandler, PackBridgeMintCapitalDigest, BroadcastBridgeMintCapital,
              SignDigest, HasId
<1>3. ecrecover(call) = FirstAttester
  BY DEF ecrecover, DigestOf
<1>4. HasId(ev) => Pays(ev, call)
  <2>1. ev \in Locks
    BY DEF Locks
  <2>2. amount = AmountOf(ev)
    BY <2>1, BridgeAssumption, WordOfAmount DEF AmountOf
  <2> QED BY <2>1, <2>2 DEF Pays, WorkerOf, LockId
<1> HIDE DEF result, call
<1> QED BY <1>2, <1>3, <1>4 DEF Handles, result

LEMMA HonorHandles ==
    ASSUME NEW ev \in ZionEvent, ev.type = "EventHonorAttested", NEW expiry, NEW nonce
    PROVE  Handles(ev, Handle(ev, expiry, nonce, FirstAttester))
<1> DEFINE result == Handle(ev, expiry, nonce, FirstAttester)
           worker == Attr(ev, "evm_addr")
           axis   == AxisOf(Attr(ev, "axis"))
           delta  == Word(Attr(ev, "honor_delta"))
           jobID  == Attr(ev, "job_id")
           digest == <<"ATTEST_HONOR", Contract, worker, axis, delta, jobID, expiry>>
           call   == [fn |-> "attestHonor", worker |-> worker, axis |-> axis,
                      honorDelta |-> delta, id |-> jobID, expiry |-> expiry,
                      sig |-> [digest |-> digest, key |-> FirstAttester]]
<1>1. result = AttestHonorHandler(ev, expiry, FirstAttester)
  BY DEF Handle
<1>2. result = Refused \/ result = Calling(call)
  BY <1>1 DEF AttestHonorHandler, PackAttestHonorDigest, BroadcastAttestHonor, SignDigest
<1>3. ecrecover(call) = FirstAttester /\ call.fn # "bridgeMintCapital"
  BY DEF ecrecover, DigestOf
<1> HIDE DEF result, call
<1> QED BY <1>2, <1>3 DEF Handles, result

LEMMA DayHandles ==
    ASSUME NEW ev \in ZionEvent, ev.type = "EventDayAttested", NEW expiry, NEW nonce
    PROVE  Handles(ev, Handle(ev, expiry, nonce, FirstAttester))
<1> DEFINE result    == Handle(ev, expiry, nonce, FirstAttester)
           worker    == Attr(ev, "evm_addr")
           day       == Attr(ev, "day")
           active    == Attr(ev, "active_gate")
           volunteer == Attr(ev, "volunteer_gate")
           id        == Attr(ev, "nonce")
           digest == <<"ATTEST_DAY", Contract, worker, day, active, volunteer, expiry, id>>
           call   == [fn |-> "attestDay", worker |-> worker, day |-> day, active |-> active,
                      volunteer |-> volunteer, expiry |-> expiry, id |-> id,
                      sig |-> [digest |-> digest, key |-> FirstAttester]]
<1>1. \A e, n, key : Handle(ev, e, n, key) = AttestDayHandler(ev, e, key)
  BY DEF Handle
<1>2. \/ result = Refused
      \/ result = Calling(call)
      \/ result = Nothing /\ \A e, key : AttestDayHandler(ev, e, key) = Nothing
  BY <1>1 DEF AttestDayHandler, PackAttestDayDigest, BroadcastAttestDay, SignDigest
<1>3. ecrecover(call) = FirstAttester /\ call.fn # "bridgeMintCapital"
  BY DEF ecrecover, DigestOf
<1> HIDE DEF result, call
<1> QED BY <1>1, <1>2, <1>3 DEF Handles, result

\* An event of Zion is refused, has nothing to do whenever it is handled, or leads
\* to a call that the contract takes for one of the daemon's (internal/handlers).
LEMMA HandlerFacts ==
    ASSUME NEW ev \in ZionEvent, NEW expiry, NEW nonce
    PROVE  Handles(ev, Handle(ev, expiry, nonce, FirstAttester))
<1>1. ev.type \in EventType
  BY BridgeAssumption
<1> QED BY <1>1, PoPHandles, MintHandles, HonorHandles, DayHandles DEF EventType

\* The three outcomes are told apart, and a call is read back from its outcome.
LEMMA Outcomes ==
    ASSUME NEW call
    PROVE  /\ Calling(call).outcome = "call" /\ Calling(call).call = call
           /\ Refused.outcome = "error" /\ Nothing.outcome = "nothing"
  BY DEF Calling, Refused, Nothing

LEMMA CallFacts ==
    ASSUME NEW ev \in ZionEvent, NEW call, CallOf(ev, call)
    PROVE  /\ ecrecover(call) = FirstAttester
           /\ call.fn = "bridgeMintCapital" => Pays(ev, call)
<1>1. PICK nonce \in FreshNonce, day \in GenesisDay..MaxDay :
          Handle(ev, day + SignatureTTL, nonce, FirstAttester) = Calling(call)
  BY DEF CallOf
<1>2. Handles(ev, Calling(call))
  BY <1>1, HandlerFacts
<1>3. PICK other : /\ Calling(call) = Calling(other)
                   /\ ecrecover(other) = FirstAttester
                   /\ other.fn = "bridgeMintCapital" => Pays(ev, other)
  BY <1>2, Outcomes DEF Handles
<1>4. call = other
  BY <1>3, Outcomes
<1> QED BY <1>3, <1>4

-----------------------------------------------------------------------------
(* The contract, as far as locks go. *)

Field == {"isCitizen", "joinDay", "sabbathOffset", "lockedKWR", "baseHonor", "lastDecayDay",
          "decayRateAtLastDay", "volunteerWeeks", "lastProcessedWeek", "volunteerMultBP"}

\* A struct of the mapping, whatever its fields hold.
IsStruct(c) == c = [f \in Field |-> c[f]]

\* d is a struct of the same citizen, with the same lock.
SameLock(c, d) == IsStruct(d) /\ d.lockedKWR = c.lockedKWR /\ d.isCitizen = c.isCitizen

\* Only citizens have kWR locked.
IsPerson(c) == IsStruct(c) /\ c.lockedKWR \in Nat /\ (~ c.isCitizen => c.lockedKWR = 0)

People(all) == all = [w \in Worker |-> all[w]] /\ \A w \in Worker : IsPerson(all[w])

\* Decay touches no lock.
LEMMA DecayedLock ==
    ASSUME NEW c, IsStruct(c), NEW a, NEW active, NEW day
    PROVE  SameLock(c, EVM!Decayed(c, a, active, day).citizen)
<1> DEFINE n    == EVM!DaysToSettle(c, a, day)
           last == EVM!DecayRun(c, a, active, n)
           m    == [c EXCEPT !.baseHonor[a] = last.honor, !.lastDecayDay[a] = @ + n,
                             !.decayRateAtLastDay[a] = last.rate]
<1>1. EVM!Decayed(c, a, active, day).citizen = m
  BY DEF EVM!Decayed
<1>2. SameLock(c, m)
  <2> HIDE DEF n, last
  <2> QED BY DEF SameLock, IsStruct, Field
<1> QED BY <1>1, <1>2

\* Volunteer weeks touch none either.
LEMMA WeeksLock ==
    ASSUME NEW c, IsStruct(c), NEW volunteer, NEW day
    PROVE  SameLock(c, EVM!WeeksProcessed(c, volunteer, day).citizen)
<1> DEFINE pending == EVM!LastCompleteWeek(day) - c.lastProcessedWeek
           n       == IF pending > 0 THEN pending ELSE 0
           last    == EVM!WeeksRun(c, volunteer, n)
           m       == [c EXCEPT !.baseHonor["CAPITAL"] = last.capital,
                                !.volunteerMultBP      = last.mult,
                                !.volunteerWeeks       = last.weeks,
                                !.lastProcessedWeek    = @ + n]
<1>1. EVM!WeeksProcessed(c, volunteer, day).citizen = m
  BY DEF EVM!WeeksProcessed
<1>2. SameLock(c, m)
  <2> HIDE DEF n, last
  <2> QED BY DEF SameLock, IsStruct, Field
<1> QED BY <1>1, <1>2

\* So _applyDecay touches none.
LEMMA SettledLock ==
    ASSUME NEW w, IsStruct(citizens[w]), NEW a
    PROVE  SameLock(citizens[w], EVM!Settled(w, a).citizen)
<1> DEFINE m == EVM!Decayed(citizens[w], a, activeDays[w], today).citizen
           d == EVM!WeeksProcessed(m, volunteerDays[w], m.lastDecayDay[a]).citizen
<1>1. EVM!Settled(w, a).citizen = d
  BY DEF EVM!Settled
<1>2. SameLock(citizens[w], m)
  BY DecayedLock
<1> HIDE DEF m
<1>3. SameLock(m, d)
  BY <1>2, WeeksLock DEF SameLock
<1> HIDE DEF d
<1> QED BY <1>1, <1>2, <1>3 DEF SameLock

\* A step that leaves every lock as it is.
LocksKept ==
    /\ People(citizens)'
    /\ \A w \in Worker : citizens'[w].lockedKWR = citizens[w].lockedKWR

LEMMA JoinKeeps ==
    ASSUME People(citizens), NEW w \in Worker, EVM!Join(w)
    PROVE  LocksKept
<1> DEFINE c == citizens[w]
           d == EVM!Joined(c, today)
<1>1. IsPerson(c) /\ citizens' = [citizens EXCEPT ![w] = d] /\ ~ c.isCitizen
  BY DEF EVM!Join, People
<1>2. IsStruct(d) /\ d.lockedKWR = c.lockedKWR
  BY <1>1 DEF EVM!Joined, IsPerson, IsStruct, Field
<1>3. IsPerson(d)
  BY <1>1, <1>2 DEF IsPerson
<1> HIDE DEF d
<1> QED BY <1>1, <1>2, <1>3 DEF LocksKept, People

LEMMA HonorKeeps ==
    ASSUME People(citizens), NEW att, EVM!AttestHonor(att)
    PROVE  LocksKept
<1> DEFINE w == att.worker
           c == citizens[w]
           s == EVM!Settled(w, att.axis).citizen
           d == [s EXCEPT !.baseHonor[att.axis] = @ + att.honorDelta]
<1>1. citizens' = [citizens EXCEPT ![w] = d]
  BY DEF EVM!AttestHonor
<1>2. CASE w \in Worker
  <2>1. IsPerson(c)
    BY <1>2 DEF People
  <2>2. SameLock(c, s)
    BY <2>1, SettledLock DEF IsPerson
  <2> HIDE DEF s
  <2>3. SameLock(c, d)
    BY <2>2 DEF SameLock, IsStruct, Field
  <2> HIDE DEF d
  <2>4. IsPerson(d) /\ d.lockedKWR = c.lockedKWR
    BY <2>1, <2>3 DEF SameLock, IsPerson
  <2> QED BY <1>1, <1>2, <2>4 DEF LocksKept, People
<1>3. CASE w \notin Worker
  <2> HIDE DEF d, w
  <2>1. citizens' = citizens
    BY <1>1, <1>3 DEF People
  <2> QED BY <2>1 DEF LocksKept
<1> QED BY <1>2, <1>3

\* What a mint does: the claim of one worker grows by the amount of the call.
LEMMA MintAdds ==
    ASSUME People(citizens), NEW att, att.worker \in Worker, att.kWRAmount \in Nat,
           EVM!BridgeMintCapital(att)
    PROVE  /\ People(citizens)'
           /\ citizens'[att.worker].lockedKWR = citizens[att.worker].lockedKWR + att.kWRAmount
           /\ \A w \in Worker \ {att.worker} : citizens'[w].lockedKWR = citizens[w].lockedKWR
<1> DEFINE w == att.worker
           n == att.kWRAmount
           c == citizens[w]
           s == EVM!Settled(w, "CAPITAL").citizen
           d == [s EXCEPT !.baseHonor["CAPITAL"] = @ + n, !.lockedKWR = @ + n]
<1>1. citizens' = [citizens EXCEPT ![w] = d] /\ c.isCitizen
  BY DEF EVM!BridgeMintCapital
<1>2. IsPerson(c)
  BY DEF People
<1>3. SameLock(c, s)
  BY <1>2, SettledLock DEF IsPerson
<1> HIDE DEF s
<1>4. IsStruct(d) /\ d.lockedKWR = s.lockedKWR + n /\ d.isCitizen = s.isCitizen
  BY <1>3 DEF SameLock, IsStruct, Field
<1> HIDE DEF d
<1>5. IsPerson(d) /\ d.lockedKWR = c.lockedKWR + n
  BY <1>1, <1>2, <1>3, <1>4 DEF SameLock, IsPerson
<1> QED BY <1>1, <1>5 DEF People

\* What leaving does: the claim of one worker is gone.
LEMMA RagequitClears ==
    ASSUME People(citizens), NEW w \in Worker, EVM!Ragequit(w)
    PROVE  /\ People(citizens)'
           /\ citizens'[w].lockedKWR = 0
           /\ \A v \in Worker \ {w} : citizens'[v].lockedKWR = citizens[v].lockedKWR
<1> DEFINE d == EVM!NoCitizen
<1>1. citizens' = [citizens EXCEPT ![w] = d]
  BY DEF EVM!Ragequit, EVM!Deleted
<1>2. IsPerson(d) /\ d.lockedKWR = 0
  BY DEF EVM!NoCitizen, IsPerson, IsStruct, Field
<1> HIDE DEF d
<1> QED BY <1>1, <1>2 DEF People

\* The effect of an executed call on the claims; only a mint has one, and only
\* under an identifier that was not used.
LEMMA ExecuteFacts ==
    ASSUME People(citizens), NEW call, Execute(call),
           call.fn = "bridgeMintCapital" =>
              /\ {"worker", "id", "kWRAmount"} \subseteq DOMAIN call
              /\ call.worker \in Worker /\ call.kWRAmount \in Nat
    PROVE  /\ today' = today /\ consumed \subseteq consumed' /\ executed' = executed \cup {call}
           /\ People(citizens)'
           /\ \/ call.fn # "bridgeMintCapital" /\ LocksKept
              \/ /\ call.fn = "bridgeMintCapital"
                 /\ call.id \notin consumed /\ call.id \in consumed'
                 /\ citizens'[call.worker].lockedKWR
                       = citizens[call.worker].lockedKWR + call.kWRAmount
                 /\ \A w \in Worker \ {call.worker} :
                       citizens'[w].lockedKWR = citizens[w].lockedKWR
<1> DEFINE att == Attestation(call)
<1>1. executed' = executed \cup {call}
  BY DEF Execute
<1>2. CASE call.fn = "attestPoP" /\ EVM!AttestPoP(att)
  <2>1. today' = today /\ citizens' = citizens /\ consumed \subseteq consumed'
    BY <1>2 DEF EVM!AttestPoP
  <2> QED BY <1>1, <1>2, <2>1 DEF LocksKept
<1>3. CASE call.fn = "bridgeMintCapital" /\ EVM!BridgeMintCapital(att)
  <2>1. att.worker = call.worker /\ att.id = call.id /\ att.kWRAmount = call.kWRAmount
    BY <1>3 DEF Attestation
  <2> HIDE DEF att
  <2>2. today' = today /\ consumed' = consumed \cup {call.id} /\ call.id \notin consumed
    BY <1>3, <2>1 DEF EVM!BridgeMintCapital, EVM!Accepted
  <2>3. /\ People(citizens)'
        /\ citizens'[call.worker].lockedKWR = citizens[call.worker].lockedKWR + call.kWRAmount
        /\ \A w \in Worker \ {call.worker} : citizens'[w].lockedKWR = citizens[w].lockedKWR
    BY <1>3, <2>1, MintAdds
  <2> QED BY <1>1, <1>3, <2>2, <2>3
<1>4. CASE call.fn = "attestHonor" /\ EVM!AttestHonor(att)
  <2>1. today' = today /\ consumed \subseteq consumed'
    BY <1>4 DEF EVM!AttestHonor
  <2>2. LocksKept
    BY <1>4, HonorKeeps
  <2> QED BY <1>1, <1>4, <2>1, <2>2 DEF LocksKept
<1>5. CASE call.fn = "attestDay" /\ EVM!AttestDay(att)
  <2>1. today' = today /\ citizens' = citizens /\ consumed \subseteq consumed'
    BY <1>5 DEF EVM!AttestDay
  <2> QED BY <1>1, <1>5, <2>1 DEF LocksKept
<1> QED BY <1>2, <1>3, <1>4, <1>5 DEF Execute

-----------------------------------------------------------------------------
(* The pool of the node. *)

\* Every call a handler can make of an event that may be emitted.
Calls == {Handle(ev, day + SignatureTTL, nonce, FirstAttester).call :
             ev \in ZionEvent, nonce \in FreshNonce, day \in GenesisDay..MaxDay}

Slot == {Gap} \cup {<<call>> : call \in Calls}

\* The calls that wait in a pool p.
Waiting(p) == {p[n][1] : n \in {k \in DOMAIN p : p[k] # Gap}}

LEMMA PendingIs == Pending = Waiting(pool) /\ Pending' = Waiting(pool')
  BY DEF Pending, Waiting, Gaps

\* A slot is empty or holds a call, which is then what it is.
LEMMA SlotFacts ==
    ASSUME NEW call
    PROVE  <<call>> # Gap /\ <<call>>[1] = call
  BY DEF Gap

\* The head leaves the pool, the others stay.
LEMMA TailWaits ==
    ASSUME NEW p \in Seq(Slot), p # <<>>, Head(p) # Gap
    PROVE  /\ Tail(p) \in Seq(Slot)
           /\ Waiting(p) = Waiting(Tail(p)) \cup {Head(p)[1]}
<1>1. Tail(p) \in Seq(Slot) /\ Len(p) \in Nat /\ 1 \in 1..Len(p) /\ Head(p) = p[1]
      /\ Len(Tail(p)) = Len(p) - 1 /\ DOMAIN p = 1..Len(p) /\ DOMAIN Tail(p) = 1..Len(Tail(p))
      /\ \A n \in 1..Len(Tail(p)) : Tail(p)[n] = p[n+1]
  OBVIOUS
<1> DEFINE q == Tail(p)
<1> HIDE DEF q
<1>2. ASSUME NEW call \in Waiting(p) PROVE call \in Waiting(q) \cup {p[1][1]}
  <2>1. PICK n \in 1..Len(p) : p[n] # Gap /\ call = p[n][1]
    BY <1>1 DEF Waiting
  <2>2. CASE n = 1
    BY <2>1, <2>2
  <2>3. CASE n # 1
    <3>1. n - 1 \in 1..Len(q) /\ q[n - 1] = p[n]
      BY <1>1, <2>3 DEF q
    <3> QED BY <1>1, <2>1, <3>1 DEF Waiting, q
  <2> QED BY <2>2, <2>3
<1>3. ASSUME NEW call \in Waiting(q) PROVE call \in Waiting(p)
  <2>1. PICK n \in 1..Len(q) : q[n] # Gap /\ call = q[n][1]
    BY <1>1 DEF Waiting, q
  <2>2. n + 1 \in 1..Len(p) /\ q[n] = p[n + 1]
    BY <1>1 DEF q
  <2> QED BY <1>1, <2>1, <2>2 DEF Waiting
<1>4. p[1][1] \in Waiting(p)
  BY <1>1 DEF Waiting
<1> QED BY <1>1, <1>2, <1>3, <1>4 DEF q

\* A dropped call leaves a gap.
LEMMA DropWaits ==
    ASSUME NEW p \in Seq(Slot), NEW n \in DOMAIN p, p[n] # Gap, NEW q, q = [p EXCEPT ![n] = Gap]
    PROVE  /\ q \in Seq(Slot)
           /\ Waiting(p) = Waiting(q) \cup {p[n][1]}
<1>1. /\ DOMAIN q = DOMAIN p /\ q[n] = Gap /\ \A k \in DOMAIN p \ {n} : q[k] = p[k]
      /\ Gap \in Slot
  BY DEF Slot
<1>2. q \in Seq(Slot)
  BY <1>1
<1>3. ASSUME NEW call \in Waiting(p) PROVE call \in Waiting(q) \cup {p[n][1]}
  <2>1. PICK k \in DOMAIN p : p[k] # Gap /\ call = p[k][1]
    BY DEF Waiting
  <2> QED BY <1>1, <2>1 DEF Waiting
<1>4. ASSUME NEW call \in Waiting(q) PROVE call \in Waiting(p)
  <2>1. PICK k \in DOMAIN q : q[k] # Gap /\ call = q[k][1]
    BY DEF Waiting
  <2> QED BY <1>1, <2>1 DEF Waiting
<1>5. p[n][1] \in Waiting(p)
  BY DEF Waiting
<1> QED BY <1>2, <1>3, <1>4, <1>5

\* A nonce is taken that nobody holds: the next one, or that of a dropped call.
LEMMA NonceIsFree ==
    ASSUME pool \in Seq(Slot)
    PROVE  \/ PendingNonceAt = Len(pool) + 1
           \/ PendingNonceAt \in DOMAIN pool /\ pool[PendingNonceAt] = Gap
<1>1. CASE Gaps = {}
  BY <1>1 DEF PendingNonceAt
<1>2. CASE Gaps # {}
  <2>1. Gaps \subseteq Nat
    BY DEF Gaps
  <2>2. \E m \in Gaps : \A k \in Gaps : m <= k
    BY <1>2, <2>1, LeastNatural
  <2>3. PendingNonceAt \in Gaps
    BY <1>2, <2>2 DEF PendingNonceAt, Min
  <2> QED BY <2>3 DEF Gaps
<1> QED BY <1>1, <1>2

\* So a sent call joins those that wait, and replaces none.
LEMMA SendWaits ==
    ASSUME pool \in Seq(Slot), NEW call \in Calls, sendTx(call)
    PROVE  /\ pool' \in Seq(Slot)
           /\ Waiting(pool') = Waiting(pool) \cup {call}
<1> DEFINE m == PendingNonceAt
           N == 1..Len(pool) \cup {m}
<1>1. /\ m = Len(pool) + 1 \/ (m \in DOMAIN pool /\ pool[m] = Gap)
      /\ Len(pool) \in Nat /\ DOMAIN pool = 1..Len(pool)
  BY NonceIsFree
<1>2. pool' = [n \in N |-> IF n = m THEN <<call>> ELSE pool[n]]
  BY DEF sendTx
<1>3. <<call>> \in Slot
  BY DEF Slot
<1> HIDE DEF m
<1>4. \E k \in Nat : N = 1..k
  <2>1. CASE m = Len(pool) + 1
    <3>1. N = 1..(Len(pool) + 1)
      BY <1>1, <2>1
    <3> QED BY <1>1, <3>1
  <2>2. CASE m \in DOMAIN pool
    <3>1. N = 1..Len(pool)
      BY <1>1, <2>2
    <3> QED BY <1>1, <3>1
  <2> QED BY <1>1, <2>1, <2>2
<1>5. \A n \in N : pool'[n] = IF n = m THEN <<call>> ELSE pool[n]
  BY <1>2
<1>6. \A n \in N : pool'[n] \in Slot
  BY <1>1, <1>3, <1>5
<1>7. pool' \in [N -> Slot] /\ DOMAIN pool' = N
  BY <1>2, <1>6
<1>8. pool' \in Seq(Slot)
  BY <1>4, <1>7
<1>9. ASSUME NEW c \in Waiting(pool') PROVE c \in Waiting(pool) \cup {call}
  <2>1. PICK n \in N : pool'[n] # Gap /\ c = pool'[n][1]
    BY <1>7 DEF Waiting
  <2>2. CASE n = m
    BY <1>5, <2>1, <2>2, SlotFacts
  <2>3. CASE n # m
    <3>1. n \in DOMAIN pool /\ pool'[n] = pool[n]
      BY <1>1, <1>5, <2>3
    <3> QED BY <2>1, <3>1 DEF Waiting
  <2> QED BY <2>2, <2>3
<1>10. ASSUME NEW c \in Waiting(pool) PROVE c \in Waiting(pool')
  <2>1. PICK n \in DOMAIN pool : pool[n] # Gap /\ c = pool[n][1]
    BY DEF Waiting
  <2>2. n # m /\ n \in N
    BY <1>1, <2>1
  <2>3. pool'[n] = pool[n]
    BY <1>5, <2>2
  <2> QED BY <1>7, <2>1, <2>2, <2>3 DEF Waiting
<1>11. call \in Waiting(pool')
  <2>1. m \in N /\ pool'[m] = <<call>>
    BY <1>5
  <2> QED BY <1>7, <2>1, SlotFacts DEF Waiting
<1> QED BY <1>8, <1>9, <1>10, <1>11

-----------------------------------------------------------------------------
(* The inductive invariant. *)

Request == [worker : Worker, amount : Nat]

Typed ==
    /\ today \in GenesisDay..MaxDay
    /\ People(citizens)
    /\ emitted \subseteq ZionEvent /\ IsFiniteSet(emitted)
    /\ escrow \in [Worker -> Nat]
    /\ queue \in Seq(emitted)
    /\ pool \in Seq(Slot)
    /\ requests \in Seq(Request)
    /\ released \subseteq DOMAIN requests

\* Whoever sent it, a call comes of an event that Zion emitted.
Genuine == \A call \in Published : \E ev \in emitted : CallOf(ev, call)

\* The identifier of a mint that succeeded is used.
Spent == \A call \in executed : call.fn = "bridgeMintCapital" => call.id \in consumed

IInv == Typed /\ Genuine /\ Spent /\ MarkedIsAccounted

\* What a genuine call is, and that it is one of the calls of the pool.
LEMMA GenuineCall ==
    ASSUME IInv, NEW call \in Published
    PROVE  \E ev \in emitted :
              /\ CallOf(ev, call)
              /\ call.fn = "bridgeMintCapital" => Pays(ev, call)
<1>1. PICK ev \in emitted : CallOf(ev, call)
  BY DEF IInv, Genuine
<1>2. ev \in ZionEvent
  BY DEF IInv, Typed
<1> QED BY <1>1, <1>2, CallFacts

\* A mint pays a worker an amount.
LEMMA MintTyped ==
    ASSUME IInv, NEW call \in Published, call.fn = "bridgeMintCapital"
    PROVE  /\ {"worker", "id", "kWRAmount"} \subseteq DOMAIN call
           /\ call.worker \in Worker /\ call.kWRAmount \in Nat
<1>1. PICK ev \in emitted : Pays(ev, call)
  BY GenuineCall
<1> QED BY <1>1, BridgeAssumption, ConstantsAssumption DEF Pays

LEMMA InitInv == Init => IInv
<1> SUFFICES ASSUME Init PROVE IInv
  OBVIOUS
<1>1. today = GenesisDay /\ citizens = [w \in Worker |-> EVM!NoCitizen]
  BY DEF Init, EVM!Init
<1>2. IsPerson(EVM!NoCitizen)
  BY DEF EVM!NoCitizen, IsPerson, IsStruct, Field
<1>3. People(citizens)
  BY <1>1, <1>2 DEF People
<1>4. IsFiniteSet({})
  BY FS_EmptySet
<1>5. Typed
  BY <1>1, <1>3, <1>4, BridgeAssumption DEF Init, Typed
<1>6. Published = {}
  BY DEF Init, Published, Pending
<1> QED BY <1>5, <1>6 DEF Init, IInv, Genuine, Spent, MarkedIsAccounted

\* A mark stays accounted for while no call is lost.
LEMMA GrownMarks ==
    ASSUME MarkedIsAccounted, Published \subseteq Published', marked' = marked
    PROVE  MarkedIsAccounted'
  BY DEF MarkedIsAccounted

LEMMA EmitInv ==
    ASSUME IInv, NEW ev \in ZionEvent, Emit(ev)
    PROVE  IInv'
<1>1. /\ UNCHANGED <<evm, released, failures, marked, node, executed, requests>>
      /\ emitted' = emitted \cup {ev} /\ queue' = Append(queue, ev)
      /\ escrow' = IF ev \in Locks
                   THEN [escrow EXCEPT ![WorkerOf(ev)] = @ + AmountOf(ev)] ELSE escrow
  BY DEF Emit
<1>2. Published' = Published /\ UNCHANGED <<today, citizens, consumed, pool>>
  BY <1>1, PendingIs DEF Published, node, evm
<1>3. emitted' \subseteq ZionEvent /\ IsFiniteSet(emitted')
  BY <1>1, FS_AddElement DEF IInv, Typed
<1>4. queue' \in Seq(emitted')
  <2>1. queue \in Seq(emitted')
    <3>1. queue \in Seq(emitted) /\ emitted \subseteq emitted'
      BY <1>1 DEF IInv, Typed
    <3> QED BY <3>1
  <2> QED BY <1>1, <2>1
<1>5. escrow' \in [Worker -> Nat]
  <2>1. CASE ev \in Locks
    <3>1. WorkerOf(ev) \in Worker /\ AmountOf(ev) \in Nat
      BY <2>1, BridgeAssumption, ConstantsAssumption
    <3> QED BY <1>1, <2>1, <3>1 DEF IInv, Typed
  <2> QED BY <1>1, <2>1 DEF IInv, Typed
<1>6. Typed'
  BY <1>1, <1>2, <1>3, <1>4, <1>5 DEF IInv, Typed, People
<1>7. Genuine' /\ Spent'
  BY <1>1, <1>2 DEF IInv, Genuine, Spent, CallOf
<1>8. MarkedIsAccounted'
  BY <1>1, <1>2, GrownMarks DEF IInv
<1> QED BY <1>6, <1>7, <1>8 DEF IInv

LEMMA UnlockInv ==
    ASSUME IInv, NEW i \in DOMAIN requests, Unlock(i)
    PROVE  IInv'
<1> DEFINE r == requests[i]
<1>1. /\ UNCHANGED <<evm, emitted, daemon, node, executed, requests>>
      /\ released' = released \cup {i} /\ escrow[r.worker] >= r.amount
      /\ escrow' = [escrow EXCEPT ![r.worker] = @ - r.amount]
  BY DEF Unlock
<1>2. r \in Request
  BY DEF IInv, Typed
<1>3. escrow' \in [Worker -> Nat]
  BY <1>1, <1>2 DEF IInv, Typed, Request
<1>4. Published' = Published
  BY <1>1, PendingIs DEF Published, node
<1>5. Typed'
  BY <1>1, <1>3 DEF IInv, Typed, evm, daemon, node, People
<1>6. Genuine' /\ Spent'
  BY <1>1, <1>4 DEF IInv, Genuine, Spent, evm, CallOf
<1>7. MarkedIsAccounted'
  BY <1>1, <1>4, GrownMarks DEF IInv, daemon
<1> QED BY <1>5, <1>6, <1>7 DEF IInv

\* The oldest event leaves the queue or stays.
LEMMA HeadEvent ==
    ASSUME IInv, queue # <<>>
    PROVE  Head(queue) \in emitted /\ Head(queue) \in ZionEvent /\ Tail(queue) \in Seq(emitted)
  BY DEF IInv, Typed

LEMMA SendInv ==
    ASSUME IInv, NEW nonce \in FreshNonce, Send(nonce)
    PROVE  IInv'
<1> DEFINE ev     == Head(queue)
           result == Outcome(nonce)
           call   == result.call
<1>1. /\ queue # <<>> /\ result.outcome = "call" /\ sendTx(call) /\ (Succeeds \/ Fails)
      /\ UNCHANGED <<evm, zion, drops, failed, executed, requests>>
  BY DEF Send
<1>2. ev \in emitted /\ ev \in ZionEvent /\ Tail(queue) \in Seq(emitted)
  BY <1>1, HeadEvent
<1>3. result = Handle(ev, today + SignatureTTL, nonce, FirstAttester)
  BY DEF Outcome
<1>4. today \in GenesisDay..MaxDay
  BY DEF IInv, Typed
<1> HIDE DEF ev, result
<1>5. result = Calling(call)
  <2>1. Handles(ev, result)
    BY <1>2, <1>3, HandlerFacts
  <2>2. result # Refused /\ result # Nothing
    BY <1>1, Outcomes
  <2>3. PICK other : result = Calling(other)
    BY <2>1, <2>2 DEF Handles
  <2> QED BY <2>3, Outcomes
<1>6. call \in Calls
  BY <1>2, <1>3, <1>4 DEF Calls
<1>7. CallOf(ev, call)
  BY <1>3, <1>4, <1>5 DEF CallOf
<1> HIDE DEF call
<1>8. pool' \in Seq(Slot) /\ Published' = Published \cup {call}
  <2>1. pool' \in Seq(Slot) /\ Waiting(pool') = Waiting(pool) \cup {call}
    BY <1>1, <1>6, SendWaits DEF IInv, Typed
  <2> QED BY <1>1, <2>1, PendingIs DEF Published
<1>9. UNCHANGED <<today, citizens, consumed, emitted, escrow, released>>
  BY <1>1 DEF evm, zion
<1>10. queue' \in {queue, Tail(queue)}
  BY <1>1 DEF Succeeds, Fails, Finish
<1>11. Typed'
  BY <1>1, <1>2, <1>8, <1>9, <1>10 DEF IInv, Typed, People
<1>12. Genuine'
  BY <1>2, <1>7, <1>8, <1>9 DEF IInv, Genuine, CallOf
<1>13. Spent'
  BY <1>1, <1>9 DEF IInv, Spent
<1>14. MarkedIsAccounted'
  <2>1. marked' \subseteq marked \cup {ev}
    BY <1>1 DEF Succeeds, Fails, ev
  <2> QED BY <1>7, <1>8, <2>1 DEF IInv, MarkedIsAccounted
<1> QED BY <1>11, <1>12, <1>13, <1>14 DEF IInv

LEMMA SendNothingInv ==
    ASSUME IInv, SendNothing
    PROVE  IInv'
<1> DEFINE ev == Head(queue)
<1>1. PICK nonce \in FreshNonce :
         CASE Outcome(nonce).outcome = "call"    -> Fails
           [] Outcome(nonce).outcome = "error"   -> Refuse
           [] Outcome(nonce).outcome = "nothing" -> Succeeds
  BY DEF SendNothing
<1> DEFINE result == Outcome(nonce)
<1>2. queue # <<>> /\ UNCHANGED <<evm, zion, node, executed, requests>>
  BY DEF SendNothing
<1>3. ev \in ZionEvent /\ Tail(queue) \in Seq(emitted)
  BY <1>2, HeadEvent
<1>4. result = Handle(ev, today + SignatureTTL, nonce, FirstAttester)
  BY DEF Outcome
<1> HIDE DEF result
<1>5. Handles(ev, result)
  <2> HIDE DEF ev
  <2> QED BY <1>3, <1>4, HandlerFacts
<1>6. \/ result.outcome = "call" /\ Fails
      \/ result.outcome = "error" /\ Refuse
      \/ /\ result.outcome = "nothing" /\ Succeeds
         /\ Handle(ev, GenesisDay, Id, FirstAttester) = Nothing
  <2>1. \/ result.outcome = "call"
        \/ result.outcome = "error"
        \/ /\ result.outcome = "nothing"
           /\ Handle(ev, GenesisDay, Id, FirstAttester) = Nothing
    <3> HIDE DEF ev
    <3> QED BY <1>5, Outcomes DEF Handles
  <2> QED BY <1>1, <2>1, Zenon DEF result
<1>7. queue' \in {queue, Tail(queue)}
  BY <1>6 DEF Fails, Refuse, Succeeds, Finish
<1>8. Published' = Published /\ UNCHANGED <<today, citizens, consumed, emitted, escrow, released, pool>>
  BY <1>2, PendingIs DEF Published, node, evm, zion
<1>9. Typed'
  BY <1>2, <1>3, <1>7, <1>8 DEF IInv, Typed, People
<1>10. Genuine' /\ Spent'
  BY <1>2, <1>8 DEF IInv, Genuine, Spent, CallOf
<1>11. MarkedIsAccounted'
  <2>1. marked' = marked \/ (/\ marked' = marked \cup {ev}
                             /\ Handle(ev, GenesisDay, Id, FirstAttester) = Nothing)
    BY <1>6 DEF Fails, Refuse, Succeeds
  <2> HIDE DEF ev
  <2> QED BY <1>8, <2>1 DEF IInv, MarkedIsAccounted
<1> QED BY <1>9, <1>10, <1>11 DEF IInv

\* A call that is executed, by the daemon's transaction or by anybody's.
LEMMA ExecuteInv ==
    ASSUME IInv, NEW call \in Published, Execute(call), pool' \in Seq(Slot), Published' = Published,
           UNCHANGED <<zion, daemon, requests>>
    PROVE  IInv'
<1>1. /\ today' = today /\ consumed \subseteq consumed' /\ executed' = executed \cup {call}
      /\ People(citizens)'
      /\ call.fn = "bridgeMintCapital" => call.id \in consumed'
  BY MintTyped, ExecuteFacts DEF IInv, Typed
<1>2. Typed'
  BY <1>1 DEF IInv, Typed, zion, daemon
<1>3. Genuine'
  BY DEF IInv, Genuine, zion, CallOf
<1>4. Spent'
  BY <1>1 DEF IInv, Spent
<1>5. MarkedIsAccounted'
  BY GrownMarks DEF IInv, daemon
<1> QED BY <1>2, <1>3, <1>4, <1>5 DEF IInv

\* The oldest transaction of the pool.
LEMMA HeadCall ==
    ASSUME IInv, pool # <<>>, Head(pool) # Gap
    PROVE  /\ Head(pool)[1] \in Published
           /\ Tail(pool) \in Seq(Slot)
           /\ Pending = Waiting(Tail(pool)) \cup {Head(pool)[1]}
<1>1. pool \in Seq(Slot)
  BY DEF IInv, Typed
<1> QED BY <1>1, TailWaits, PendingIs DEF Published

LEMMA MineInv ==
    ASSUME IInv, Mine
    PROVE  IInv'
<1> DEFINE call == Head(pool)[1]
<1>1. /\ pool # <<>> /\ Head(pool) # Gap /\ Execute(call) /\ pool' = Tail(pool)
      /\ UNCHANGED <<zion, daemon, drops, failed, requests>>
  BY DEF Mine
<1>2. /\ call \in Published /\ Tail(pool) \in Seq(Slot)
      /\ Pending = Waiting(Tail(pool)) \cup {call}
  BY <1>1, HeadCall
<1> HIDE DEF call
<1>3. executed' = executed \cup {call}
  BY <1>1 DEF Execute
<1>4. Published' = Published
  BY <1>1, <1>2, <1>3, PendingIs DEF Published
<1> QED BY <1>1, <1>2, <1>4, ExecuteInv

LEMMA SubmitInv ==
    ASSUME IInv, NEW call \in Published, Submit(call)
    PROVE  IInv'
<1>1. Execute(call) /\ UNCHANGED <<zion, daemon, node, requests>>
  BY DEF Submit
<1>2. executed' = executed \cup {call}
  BY <1>1 DEF Execute
<1>3. Published' = Published
  BY <1>1, <1>2, PendingIs DEF Published, node
<1>4. pool' \in Seq(Slot)
  BY <1>1 DEF IInv, Typed, node
<1> QED BY <1>1, <1>3, <1>4, ExecuteInv

\* A transaction that leaves the pool without effect.
LEMMA FailedInv ==
    ASSUME IInv, pool' \in Seq(Slot), Published' = Published,
           UNCHANGED <<evm, zion, daemon, executed, requests>>
    PROVE  IInv'
<1>1. Typed'
  BY DEF IInv, Typed, evm, zion, daemon, People
<1>2. Genuine' /\ Spent'
  BY DEF IInv, Genuine, Spent, CallOf, evm, zion
<1>3. MarkedIsAccounted'
  BY GrownMarks DEF IInv, daemon
<1> QED BY <1>1, <1>2, <1>3 DEF IInv

LEMMA RevertInv ==
    ASSUME IInv, Revert
    PROVE  IInv'
<1> DEFINE call == Head(pool)[1]
<1>1. /\ pool # <<>> /\ Head(pool) # Gap /\ pool' = Tail(pool) /\ failed' = failed \cup {call}
      /\ UNCHANGED <<evm, zion, daemon, drops, executed, requests>>
  BY DEF Revert
<1>2. Tail(pool) \in Seq(Slot) /\ Pending = Waiting(Tail(pool)) \cup {call}
  BY <1>1, HeadCall
<1> HIDE DEF call
<1>3. Published' = Published
  BY <1>1, <1>2, PendingIs DEF Published
<1> QED BY <1>1, <1>2, <1>3, FailedInv

LEMMA DropInv ==
    ASSUME IInv, NEW n \in DOMAIN pool, Drop(n)
    PROVE  IInv'
<1> DEFINE call == pool[n][1]
<1>1. /\ pool[n] # Gap /\ failed' = failed \cup {call} /\ pool' = [pool EXCEPT ![n] = Gap]
      /\ UNCHANGED <<evm, zion, daemon, executed, requests>>
  BY DEF Drop
<1>2. pool' \in Seq(Slot) /\ Waiting(pool) = Waiting(pool') \cup {call}
  <2>1. pool \in Seq(Slot)
    BY DEF IInv, Typed
  <2> QED BY <1>1, <2>1, DropWaits
<1> HIDE DEF call
<1>3. Published' = Published
  BY <1>1, <1>2, PendingIs DEF Published
<1> QED BY <1>1, <1>2, <1>3, FailedInv

\* A step of the contract that no call of the daemon makes.
LEMMA PersonInv ==
    ASSUME IInv, People(citizens)', today' \in GenesisDay..MaxDay,
           consumed' = consumed, requests' \in Seq(Request), DOMAIN requests \subseteq DOMAIN requests',
           UNCHANGED <<zion, daemon, node, executed>>
    PROVE  IInv'
<1>1. Typed'
  BY DEF IInv, Typed, zion, daemon, node
<1>2. Published' = Published
  BY PendingIs DEF Published, node
<1>3. Genuine' /\ Spent'
  BY <1>2 DEF IInv, Genuine, Spent, CallOf, zion
<1>4. MarkedIsAccounted'
  BY <1>2, GrownMarks DEF IInv, daemon
<1> QED BY <1>1, <1>3, <1>4 DEF IInv

LEMMA JoinInv ==
    ASSUME IInv, NEW w \in Worker, Join(w)
    PROVE  IInv'
<1>1. EVM!Join(w) /\ UNCHANGED <<zion, daemon, node, executed, requests>>
  BY DEF Join
<1>2. People(citizens)'
  BY <1>1, JoinKeeps DEF IInv, Typed, LocksKept
<1>3. consumed' = consumed /\ today' = today
  BY <1>1 DEF EVM!Join
<1> QED BY <1>1, <1>2, <1>3, PersonInv DEF IInv, Typed

LEMMA RagequitInv ==
    ASSUME IInv, NEW w \in Worker, Ragequit(w)
    PROVE  IInv'
<1> DEFINE r == [worker |-> w, amount |-> citizens[w].lockedKWR]
<1>1. /\ EVM!Ragequit(w) /\ UNCHANGED <<zion, daemon, node, executed>>
      /\ requests' = Append(requests, r)
  BY DEF Ragequit
<1>2. People(citizens)'
  BY <1>1, RagequitClears DEF IInv, Typed
<1>3. consumed' = consumed /\ today' = today
  BY <1>1 DEF EVM!Ragequit
<1>4. r \in Request
  BY DEF IInv, Typed, People, IsPerson, Request
<1> HIDE DEF r
<1>5. requests' \in Seq(Request) /\ DOMAIN requests \subseteq DOMAIN requests'
  BY <1>1, <1>4 DEF IInv, Typed
<1> QED BY <1>1, <1>2, <1>3, <1>5, PersonInv DEF IInv, Typed

\* Keys and the clock touch no citizen.
LEMMA ClockInv ==
    ASSUME IInv, (\E key \in Key : RotateAttester(key)) \/ NextDay
    PROVE  IInv' /\ UNCHANGED <<citizens, zion, requests, executed>>
<1>1. UNCHANGED <<zion, daemon, node, executed, requests>>
  BY DEF RotateAttester, NextDay
<1>2. consumed' = consumed /\ citizens' = citizens /\ today' \in GenesisDay..MaxDay
  <2>1. today \in GenesisDay..MaxDay
    BY DEF IInv, Typed
  <2>2. ASSUME NEW key \in Key, RotateAttester(key)
        PROVE  consumed' = consumed /\ citizens' = citizens /\ today' = today
    BY <2>2 DEF RotateAttester, EVM!RotateAttester
  <2>3. CASE NextDay
    <3>1. today < MaxDay /\ today' = today + 1 /\ consumed' = consumed /\ citizens' = citizens
      BY <2>3 DEF NextDay, EVM!NextDay, EVM!contract
    <3> QED BY <2>1, <3>1, BridgeAssumption
  <2> QED BY <2>1, <2>2, <2>3
<1>3. People(citizens)'
  BY <1>2 DEF IInv, Typed, People
<1> QED BY <1>1, <1>2, <1>3, PersonInv DEF IInv, Typed

LEMMA StutterInv ==
    ASSUME IInv, UNCHANGED vars
    PROVE  IInv'
<1>1. UNCHANGED <<evm, zion, daemon, node, executed, requests>>
  BY DEF vars
<1>2. Published' = Published
  BY <1>1, PendingIs DEF Published, node
<1> QED BY <1>1, <1>2, FailedInv DEF IInv, Typed, node

\* Every step of the chains, of the daemon and of whoever submits keeps the invariant.
LEMMA StepInv == IInv /\ [Next]_vars => IInv'
  BY EmitInv, UnlockInv, SendInv, SendNothingInv, MineInv, RevertInv, DropInv, SubmitInv,
     JoinInv, RagequitInv, ClockInv, StutterInv DEF Next

LEMMA InvCorrect == Spec => []IInv
  BY InitInv, StepInv, PTL DEF Spec

\* Under every attribute the handlers let through, of any width or sign, the
\* contract recovers the daemon's key from what the daemon signed (signer.go,
\* SeumStandard.sol).
THEOREM SignaturesVerify == Spec => []SignedAsVerified
<1>1. IInv => SignedAsVerified
  <2> SUFFICES ASSUME IInv, NEW call \in Published PROVE ecrecover(call) = FirstAttester
    BY DEF SignedAsVerified
  <2>1. PICK ev \in emitted : CallOf(ev, call)
    BY GenuineCall
  <2>2. ev \in ZionEvent
    BY DEF IInv, Typed
  <2> QED BY <2>1, <2>2, CallFacts
<1> QED BY <1>1, InvCorrect, PTL

\* A marked event has a transaction that is pending, succeeded, or was dropped or
\* reverted, unless there was nothing to send; none was lost to another one that
\* took its nonce (pipeline, client.go).
THEOREM MarksAreAccounted == Spec => []MarkedIsAccounted
<1>1. IInv => MarkedIsAccounted
  BY DEF IInv
<1> QED BY <1>1, InvCorrect, PTL

-----------------------------------------------------------------------------
(* Where the kWR are. *)

LockValue == [lock \in Locks |-> AmountOf(lock)]

\* The locks of w among the emitted events S that the mints M have not reached.
InFlight(w, S, M) ==
    {lock \in S \cap Locks : WorkerOf(lock) = w /\ (HasId(lock) => LockId(lock) \notin M)}

RequestValue(all) == [i \in DOMAIN all |-> all[i].amount]

\* The requests of w among all that are not released.
Unreleased(w, all, done) == {i \in DOMAIN all \ done : all[i].worker = w}

\* The two folds of module Bridge, over any set.
LockSum(S) == SumOver(S, AmountOf)
RequestSum(all, S) ==
    LET Amount(i) == all[i].amount
    IN  SumOver(S, Amount)

LEMMA LockSumIs ==
    ASSUME NEW S, S \subseteq Locks, IsFiniteSet(S)
    PROVE  LockSum(S) = Total(LockValue, S)
<1> DEFINE Fold(it) == it = [s \in SUBSET S |->
                                IF s = {} THEN 0
                                ELSE AmountOf(Chosen(s)) + it[s \ {Chosen(s)}]]
<1>1. LockSum(S) = (CHOOSE it : Fold(it))[S]
  BY Zenon DEF LockSum, SumOver, MapThenSumSet, MapThenFoldSet, Chosen
<1>2. ASSUME NEW s \in SUBSET S, s # {} PROVE LockValue[Chosen(s)] = AmountOf(Chosen(s))
  BY <1>2, Sizes DEF LockValue
<1>3. ASSUME NEW it PROVE Fold(it) <=> IsSum(it, LockValue, S)
  BY <1>2 DEF IsSum, Body
<1> HIDE DEF Fold
<1>4. (CHOOSE it : Fold(it)) = (CHOOSE it : IsSum(it, LockValue, S))
  BY <1>3
<1> QED BY <1>1, <1>4 DEF Total

LEMMA RequestSumIs ==
    ASSUME NEW all, NEW S, S \subseteq DOMAIN all, IsFiniteSet(S)
    PROVE  RequestSum(all, S) = Total(RequestValue(all), S)
<1> DEFINE Fold(it) == it = [s \in SUBSET S |->
                                IF s = {} THEN 0
                                ELSE all[Chosen(s)].amount + it[s \ {Chosen(s)}]]
<1>1. RequestSum(all, S) = (CHOOSE it : Fold(it))[S]
  BY Zenon DEF RequestSum, SumOver, MapThenSumSet, MapThenFoldSet, Chosen
<1>2. ASSUME NEW s \in SUBSET S, s # {} PROVE RequestValue(all)[Chosen(s)] = all[Chosen(s)].amount
  BY <1>2, Sizes DEF RequestValue
<1>3. ASSUME NEW it PROVE Fold(it) <=> IsSum(it, RequestValue(all), S)
  BY <1>2 DEF IsSum, Body
<1> HIDE DEF Fold
<1>4. (CHOOSE it : Fold(it)) = (CHOOSE it : IsSum(it, RequestValue(all), S))
  BY <1>3
<1> QED BY <1>1, <1>4 DEF Total

LEMMA FlightIsSum ==
    \A w : /\ Flight(w) = LockSum(InFlight(w, emitted, Minted))
           /\ Flight(w)' = LockSum(InFlight(w, emitted', Minted'))
  BY Zenon DEF Flight, LockSum, InFlight

LEMMA OwedIsSum ==
    \A w : /\ Owed(w) = RequestSum(requests, Unreleased(w, requests, released))
           /\ Owed(w)' = RequestSum(requests', Unreleased(w, requests', released'))
<1> TAKE w
<1>1. Owed(w) = RequestSum(requests, Unreleased(w, requests, released))
  BY Zenon DEF Owed, RequestSum, Unreleased, SumOver, MapThenSumSet, MapThenFoldSet
<1>2. Owed(w)' = RequestSum(requests', Unreleased(w, requests', released'))
  BY Zenon DEF Owed, RequestSum, Unreleased, SumOver, MapThenSumSet, MapThenFoldSet
<1> QED BY <1>1, <1>2

\* The locks in flight are finitely many, and add up to a natural.
LEMMA InFlightFacts ==
    ASSUME NEW S, S \subseteq ZionEvent, IsFiniteSet(S), NEW M, NEW w,
           NEW F, F = InFlight(w, S, M)
    PROVE  /\ F \subseteq Locks /\ IsFiniteSet(F) /\ Valued(LockValue, F)
           /\ LockSum(F) = Total(LockValue, F) /\ LockSum(F) \in Nat
<1>1. F \subseteq Locks /\ F \subseteq S
  BY DEF InFlight
<1>2. IsFiniteSet(F)
  BY <1>1, FS_Subset
<1>3. Valued(LockValue, F)
  BY <1>1, BridgeAssumption, ConstantsAssumption DEF Valued, LockValue
<1> QED BY <1>1, <1>2, <1>3, LockSumIs, TotalType

\* So are the requests.
LEMMA UnreleasedFacts ==
    ASSUME NEW all \in Seq(Request), NEW done, NEW w, NEW R, R = Unreleased(w, all, done)
    PROVE  /\ R \subseteq DOMAIN all /\ IsFiniteSet(R) /\ Valued(RequestValue(all), R)
           /\ RequestSum(all, R) = Total(RequestValue(all), R) /\ RequestSum(all, R) \in Nat
<1>1. R \subseteq DOMAIN all /\ DOMAIN all = 1..Len(all) /\ Len(all) \in Nat
  BY DEF Unreleased
<1>2. IsFiniteSet(R)
  <2>1. IsFiniteSet(1..Len(all))
    BY <1>1, FS_Interval
  <2> QED BY <1>1, <2>1, FS_Subset
<1>3. Valued(RequestValue(all), R)
  <2>1. \A i \in DOMAIN all : all[i] \in Request
    OBVIOUS
  <2>2. \A i \in DOMAIN all : all[i].amount \in Nat
    BY <2>1 DEF Request
  <2> QED BY <1>1, <2>2 DEF Valued, RequestValue
<1> QED BY <1>1, <1>2, <1>3, RequestSumIs, TotalType

\* A mint that succeeded was of a lock that Zion emitted.
LEMMA MintedWasEmitted ==
    ASSUME IInv, NEW id \in Minted
    PROVE  /\ id \in consumed
           /\ \E lock \in emitted \cap Locks : HasId(lock) /\ LockId(lock) = id
<1>1. PICK call \in executed : call.fn = "bridgeMintCapital" /\ call.id = id
  BY DEF Minted
<1>2. call \in Published
  BY DEF Published
<1>3. PICK ev \in emitted : Pays(ev, call)
  BY <1>1, <1>2, GenuineCall
<1> QED BY <1>1, <1>3 DEF Pays, IInv, Spent

\* A new lock counts among those that no mint of M has reached, and no other one changes.
LEMMA EmittedLock ==
    ASSUME IInv, NEW ev \in ZionEvent \ emitted, NEW w \in Worker, NEW M,
           ev \in Locks /\ HasId(ev) => LockId(ev) \notin M
    PROVE  /\ LockSum(InFlight(w, emitted, M)) \in Nat
           /\ LockSum(InFlight(w, emitted \cup {ev}, M)) =
                 IF ev \in Locks /\ WorkerOf(ev) = w
                 THEN LockSum(InFlight(w, emitted, M)) + AmountOf(ev)
                 ELSE LockSum(InFlight(w, emitted, M))
<1> DEFINE F == InFlight(w, emitted, M)
           G == InFlight(w, emitted \cup {ev}, M)
<1>1. /\ IsFiniteSet(F) /\ Valued(LockValue, F) /\ LockSum(F) = Total(LockValue, F)
      /\ LockSum(F) \in Nat
  BY InFlightFacts DEF IInv, Typed
<1>2. LockSum(G) = Total(LockValue, G)
  <2>1. emitted \cup {ev} \subseteq ZionEvent /\ IsFiniteSet(emitted \cup {ev})
    BY FS_AddElement DEF IInv, Typed
  <2> QED BY <2>1, InFlightFacts
<1>3. CASE ev \in Locks /\ WorkerOf(ev) = w
  <2>1. G = F \cup {ev} /\ ev \notin F
    BY <1>3 DEF InFlight
  <2>2. LockValue[ev] = AmountOf(ev) /\ AmountOf(ev) \in Nat
    BY <1>3, BridgeAssumption, ConstantsAssumption DEF LockValue
  <2> HIDE DEF F, G
  <2>3. Total(LockValue, F \cup {ev}) = Total(LockValue, F) + LockValue[ev]
    BY <1>1, <2>1, <2>2, TotalMore
  <2> QED BY <1>1, <1>2, <1>3, <2>1, <2>2, <2>3 DEF F, G
<1>4. CASE ~ (ev \in Locks /\ WorkerOf(ev) = w)
  <2>1. G = F
    BY <1>4 DEF InFlight
  <2> HIDE DEF F, G
  <2> QED BY <1>1, <1>4, <2>1 DEF F, G
<1> QED BY <1>3, <1>4

\* A new lock is in flight, and no other one changes.
LEMMA EmittedFlight ==
    ASSUME IInv, NEW ev \in ZionEvent \ emitted, emitted' = emitted \cup {ev}, executed' = executed
    PROVE  \A w \in Worker :
              Flight(w)' = IF ev \in Locks /\ WorkerOf(ev) = w
                           THEN Flight(w) + AmountOf(ev) ELSE Flight(w)
<1>1. Minted' = Minted
  BY DEF Minted
<1>2. ev \in Locks /\ HasId(ev) => LockId(ev) \notin Minted
  BY MintedWasEmitted, BridgeAssumption
<1> QED BY <1>1, <1>2, EmittedLock, FlightIsSum

\* A mint takes one lock out of flight, the one it was signed for.
LEMMA MintedFlight ==
    ASSUME IInv, NEW call \in Published, call.fn = "bridgeMintCapital", call.id \notin consumed,
           executed' = executed \cup {call}, emitted' = emitted
    PROVE  /\ call.kWRAmount \in 1..Flight(call.worker)
           /\ \A w \in Worker : /\ Flight(w) \in Nat
                                /\ Flight(w)' = IF w = call.worker THEN Flight(w) - call.kWRAmount
                                                ELSE Flight(w)
<1>1. PICK ev \in emitted : Pays(ev, call)
  BY GenuineCall
<1>2. /\ ev \in Locks /\ HasId(ev) /\ WorkerOf(ev) = call.worker /\ LockId(ev) = call.id
      /\ AmountOf(ev) = call.kWRAmount /\ call.worker \in Worker
      /\ call.kWRAmount \in Nat /\ call.kWRAmount > 0
  BY <1>1, BridgeAssumption, ConstantsAssumption DEF Pays
<1>3. Minted' = Minted \cup {call.id} /\ call.id \notin Minted
  <2>1. call.id \notin Minted
    BY MintedWasEmitted
  <2> QED BY <2>1 DEF Minted
<1>4. ASSUME NEW w \in Worker
      PROVE  /\ Flight(w) \in Nat
             /\ IF w = call.worker THEN Flight(w)' \in Nat /\ Flight(w) = Flight(w)' + call.kWRAmount
                ELSE Flight(w)' = Flight(w)
  <2> DEFINE F == InFlight(w, emitted, Minted)
             G == InFlight(w, emitted, Minted')
  <2>1. Flight(w) = LockSum(F) /\ Flight(w)' = LockSum(G)
    BY FlightIsSum
  <2>2. /\ IsFiniteSet(F) /\ Valued(LockValue, F) /\ LockSum(F) = Total(LockValue, F)
        /\ LockSum(F) \in Nat
    BY InFlightFacts DEF IInv, Typed
  <2>3. LockSum(G) = Total(LockValue, G) /\ LockSum(G) \in Nat
    BY InFlightFacts DEF IInv, Typed
  <2>4. CASE w = call.worker
    <3>1. ev \in F
      BY <1>2, <1>3, <2>4 DEF InFlight
    <3>2. G = F \ {ev}
      <4>1. \A lock \in emitted \cap Locks : HasId(lock) /\ LockId(lock) = call.id => lock = ev
        BY <1>2, BridgeAssumption
      <4> QED BY <1>2, <1>3, <4>1 DEF InFlight
    <3>3. LockValue[ev] = call.kWRAmount
      BY <1>2 DEF LockValue
    <3> HIDE DEF F, G
    <3>4. Total(LockValue, F) = LockValue[ev] + Total(LockValue, F \ {ev})
      BY <2>2, <3>1, TotalLess
    <3>5. Total(LockValue, F) = call.kWRAmount + Total(LockValue, G)
      BY <3>2, <3>3, <3>4
    <3> QED BY <1>2, <2>1, <2>2, <2>3, <2>4, <3>5
  <2>5. CASE w # call.worker
    <3>1. G = F
      <4>1. \A lock \in emitted \cap Locks : WorkerOf(lock) = w /\ HasId(lock) => LockId(lock) # call.id
        BY <1>2, <2>5, BridgeAssumption
      <4> QED BY <1>3, <4>1 DEF InFlight
    <3> HIDE DEF F, G
    <3> QED BY <2>1, <2>2, <2>5, <3>1
  <2> QED BY <2>4, <2>5
<1> QED BY <1>2, <1>4

\* A call of another kind leaves the locks in flight.
LEMMA FlightStays ==
    ASSUME emitted' = emitted, Minted' = Minted
    PROVE  \A w : Flight(w)' = Flight(w)
  BY FlightIsSum

LEMMA OwedStays ==
    ASSUME requests' = requests, released' = released
    PROVE  \A w : Owed(w)' = Owed(w)
  BY OwedIsSum

\* A new request counts among those that are not in done, and no other one changes.
LEMMA AppendedRequest ==
    ASSUME IInv, NEW w \in Worker, NEW n \in Nat, NEW v \in Worker,
           requests' = Append(requests, [worker |-> w, amount |-> n]),
           NEW done \in SUBSET DOMAIN requests
    PROVE  /\ RequestSum(requests, Unreleased(v, requests, done)) \in Nat
           /\ RequestSum(requests', Unreleased(v, requests', done)) =
                 IF v = w THEN RequestSum(requests, Unreleased(v, requests, done)) + n
                 ELSE RequestSum(requests, Unreleased(v, requests, done))
<1> DEFINE r == [worker |-> w, amount |-> n]
           k == Len(requests) + 1
           R == Unreleased(v, requests, done)
           Q == Unreleased(v, requests', done)
           f == RequestValue(requests)
           g == RequestValue(requests')
<1>1. requests \in Seq(Request) /\ r \in Request /\ done \subseteq DOMAIN requests
  BY DEF IInv, Typed, Request
<1>2. /\ requests' \in Seq(Request) /\ DOMAIN requests' = DOMAIN requests \cup {k}
      /\ k \notin DOMAIN requests /\ requests'[k] = r
      /\ \A i \in DOMAIN requests : requests'[i] = requests[i]
  BY <1>1
<1>3. /\ IsFiniteSet(R) /\ Valued(f, R) /\ RequestSum(requests, R) = Total(f, R)
      /\ RequestSum(requests, R) \in Nat /\ R \subseteq DOMAIN requests
  BY <1>1, UnreleasedFacts
<1>4. RequestSum(requests', Q) = Total(g, Q)
  <2>1. requests' \in Seq(Request)
    BY <1>2
  <2> HIDE DEF k, r
  <2> QED BY <2>1, UnreleasedFacts
<1> HIDE DEF k
<1>5. \A i \in R : f[i] = g[i]
  BY <1>2, <1>3 DEF RequestValue
<1>6. Q = IF v = w THEN R \cup {k} ELSE R
  BY <1>1, <1>2 DEF Unreleased
<1>7. k \notin R /\ g[k] = n
  BY <1>2, <1>3 DEF RequestValue
<1> HIDE DEF R, Q, f, g
<1>8. Total(f, R) = Total(g, R) /\ Valued(g, R)
  BY <1>3, <1>5, TotalWithin DEF Valued
<1>9. Total(g, R \cup {k}) = Total(g, R) + n
  BY <1>3, <1>7, <1>8, TotalMore
<1> QED BY <1>3, <1>4, <1>6, <1>8, <1>9 DEF R, Q

\* Whoever leaves is owed the claim, and nobody else is.
LEMMA RequestedOwed ==
    ASSUME IInv, NEW w \in Worker, NEW n \in Nat,
           requests' = Append(requests, [worker |-> w, amount |-> n]), released' = released
    PROVE  \A v \in Worker : /\ Owed(v) \in Nat
                             /\ Owed(v)' = IF v = w THEN Owed(v) + n ELSE Owed(v)
<1> TAKE v \in Worker
<1>1. released \in SUBSET DOMAIN requests
  BY DEF IInv, Typed
<1> QED BY <1>1, AppendedRequest, OwedIsSum

\* A release settles one request.
LEMMA ReleasedOwed ==
    ASSUME IInv, NEW i \in DOMAIN requests, i \notin released,
           requests' = requests, released' = released \cup {i}
    PROVE  \A v \in Worker :
              /\ Owed(v) \in Nat /\ Owed(v)' \in Nat
              /\ Owed(v) = IF v = requests[i].worker THEN Owed(v)' + requests[i].amount ELSE Owed(v)'
<1> SUFFICES ASSUME NEW v \in Worker
             PROVE  /\ Owed(v) \in Nat /\ Owed(v)' \in Nat
                    /\ Owed(v) = IF v = requests[i].worker THEN Owed(v)' + requests[i].amount
                                 ELSE Owed(v)'
  OBVIOUS
<1> DEFINE R == Unreleased(v, requests, released)
           Q == Unreleased(v, requests, released')
           f == RequestValue(requests)
<1>1. requests \in Seq(Request) /\ requests[i].amount \in Nat
  <2>1. requests \in Seq(Request)
    BY DEF IInv, Typed
  <2>2. requests[i] \in Request
    BY <2>1
  <2> QED BY <2>1, <2>2 DEF Request
<1>2. Owed(v) = RequestSum(requests, R) /\ Owed(v)' = RequestSum(requests, Q)
  BY OwedIsSum
<1>3. /\ IsFiniteSet(R) /\ Valued(f, R) /\ RequestSum(requests, R) = Total(f, R)
      /\ RequestSum(requests, R) \in Nat
  BY <1>1, UnreleasedFacts
<1>4. RequestSum(requests, Q) = Total(f, Q) /\ RequestSum(requests, Q) \in Nat
  BY <1>1, UnreleasedFacts
<1>5. Q = IF v = requests[i].worker THEN R \ {i} ELSE R
  BY DEF Unreleased
<1>6. v = requests[i].worker => i \in R
  BY DEF Unreleased
<1>7. f[i] = requests[i].amount
  BY DEF RequestValue
<1> HIDE DEF R, Q, f
<1>8. i \in R => Total(f, R) = f[i] + Total(f, R \ {i})
  BY <1>3, TotalLess
<1> QED BY <1>1, <1>2, <1>3, <1>4, <1>5, <1>6, <1>7, <1>8

-----------------------------------------------------------------------------
(* The refinement of the ledger of custody. *)

Flights == [w \in Worker |-> Flight(w)]
Claims == [w \in Worker |-> citizens[w].lockedKWR]
Debts == [w \in Worker |-> Owed(w)]

\* The ledger in which any amount may move.
Books == INSTANCE CustodyProofs WITH
    Person <- Worker, Amount <- Nat, flight <- Flights, claim <- Claims, owed <- Debts

\* No stage changes.
LEMMA BooksStay ==
    ASSUME escrow' = escrow,
           \A v \in Worker : /\ Flight(v)' = Flight(v) /\ Owed(v)' = Owed(v)
                             /\ citizens'[v].lockedKWR = citizens[v].lockedKWR
    PROVE  UNCHANGED Books!custody
<1>1. Flights' = Flights /\ Claims' = Claims /\ Debts' = Debts
  BY DEF Flights, Claims, Debts
<1> QED BY <1>1 DEF Books!custody

LEMMA EmitBooks ==
    ASSUME IInv, NEW ev \in ZionEvent, Emit(ev)
    PROVE  [Books!Next]_(Books!custody)
<1>1. /\ UNCHANGED <<evm, released, failures, marked, node, executed, requests>>
      /\ ev \notin emitted /\ emitted' = emitted \cup {ev}
      /\ escrow' = IF ev \in Locks
                   THEN [escrow EXCEPT ![WorkerOf(ev)] = @ + AmountOf(ev)] ELSE escrow
  BY DEF Emit
<1>2. \A w \in Worker : Flight(w)' = IF ev \in Locks /\ WorkerOf(ev) = w
                                     THEN Flight(w) + AmountOf(ev) ELSE Flight(w)
  BY <1>1, EmittedFlight
<1>3. citizens' = citizens /\ \A w : Owed(w)' = Owed(w)
  BY <1>1, OwedStays DEF evm
<1>4. CASE ev \in Locks
  <2> DEFINE w == WorkerOf(ev)
             n == AmountOf(ev)
  <2>1. w \in Worker /\ n \in Nat /\ n > 0
    BY <1>4, BridgeAssumption, ConstantsAssumption
  <2>2. escrow' = [escrow EXCEPT ![w] = @ + n]
    BY <1>1, <1>4
  <2>3. Flights' = [Flights EXCEPT ![w] = @ + n]
    BY <1>2, <1>4, <2>1 DEF Flights
  <2>4. Claims' = Claims /\ Debts' = Debts
    BY <1>3 DEF Claims, Debts
  <2> HIDE DEF w, n
  <2>5. Books!Lock(w, n)
    BY <2>1, <2>2, <2>3, <2>4 DEF Books!Lock
  <2> QED BY <2>1, <2>5 DEF Books!Next
<1>5. CASE ev \notin Locks
  BY <1>1, <1>2, <1>3, <1>5, BooksStay
<1> QED BY <1>4, <1>5

LEMMA ExecuteBooks ==
    ASSUME IInv, NEW call \in Published, Execute(call), UNCHANGED <<zion, requests>>
    PROVE  [Books!Next]_(Books!custody)
<1>1. escrow' = escrow /\ emitted' = emitted /\ \A w : Owed(w)' = Owed(w)
  BY OwedStays DEF zion
<1>2. /\ executed' = executed \cup {call}
      /\ \/ call.fn # "bridgeMintCapital" /\ LocksKept
         \/ /\ call.fn = "bridgeMintCapital" /\ call.id \notin consumed
            /\ citizens'[call.worker].lockedKWR = citizens[call.worker].lockedKWR + call.kWRAmount
            /\ \A w \in Worker \ {call.worker} : citizens'[w].lockedKWR = citizens[w].lockedKWR
  BY MintTyped, ExecuteFacts DEF IInv, Typed
<1>3. CASE call.fn # "bridgeMintCapital"
  <2>1. \A w : Flight(w)' = Flight(w)
    <3>1. Minted' = Minted
      BY <1>2, <1>3 DEF Minted
    <3> QED BY <1>1, <3>1, FlightStays
  <2> QED BY <1>1, <1>2, <1>3, <2>1, BooksStay DEF LocksKept
<1>4. CASE call.fn = "bridgeMintCapital"
  <2> DEFINE w == call.worker
             n == call.kWRAmount
  <2>1. w \in Worker /\ n \in Nat
    BY <1>4, MintTyped
  <2>2. /\ n \in 1..Flight(w)
        /\ \A v \in Worker : Flight(v)' = IF v = w THEN Flight(v) - n ELSE Flight(v)
    BY <1>1, <1>2, <1>4, MintedFlight
  <2>3. /\ citizens'[w].lockedKWR = citizens[w].lockedKWR + n
        /\ \A v \in Worker \ {w} : citizens'[v].lockedKWR = citizens[v].lockedKWR
    BY <1>2, <1>4
  <2> HIDE DEF w, n
  <2>4. Flights' = [Flights EXCEPT ![w] = @ - n] /\ n \in 1..Flights[w]
    BY <2>1, <2>2 DEF Flights
  <2>5. Claims' = [Claims EXCEPT ![w] = @ + n]
    BY <2>1, <2>3 DEF Claims
  <2>6. Debts' = Debts
    BY <1>1 DEF Debts
  <2>7. Books!Mint(w, n)
    BY <1>1, <2>4, <2>5, <2>6 DEF Books!Mint
  <2> QED BY <2>1, <2>7 DEF Books!Next
<1> QED BY <1>3, <1>4

LEMMA RagequitBooks ==
    ASSUME IInv, NEW w \in Worker, Ragequit(w)
    PROVE  [Books!Next]_(Books!custody)
<1> DEFINE n == citizens[w].lockedKWR
<1>1. /\ EVM!Ragequit(w) /\ UNCHANGED <<zion, executed>>
      /\ requests' = Append(requests, [worker |-> w, amount |-> n])
  BY DEF Ragequit
<1>2. citizens'[w].lockedKWR = 0 /\ \A v \in Worker \ {w} : citizens'[v].lockedKWR = citizens[v].lockedKWR
  BY <1>1, RagequitClears DEF IInv, Typed
<1>3. n \in Nat
  BY DEF IInv, Typed, People, IsPerson
<1>4. \A v \in Worker : Owed(v)' = IF v = w THEN Owed(v) + n ELSE Owed(v)
  <2> HIDE DEF n
  <2> QED BY <1>1, <1>3, RequestedOwed DEF zion
<1>5. escrow' = escrow /\ \A v : Flight(v)' = Flight(v)
  <2>1. Minted' = Minted
    BY <1>1 DEF Minted
  <2> QED BY <1>1, <2>1, FlightStays DEF zion
<1>6. Flights' = Flights
  BY <1>5 DEF Flights
<1>7. Claims' = [Claims EXCEPT ![w] = 0]
  BY <1>2 DEF Claims
<1>8. Debts' = [Debts EXCEPT ![w] = @ + Claims[w]]
  BY <1>4 DEF Debts, Claims
<1>9. Books!Leave(w)
  BY <1>5, <1>6, <1>7, <1>8 DEF Books!Leave
<1> QED BY <1>9 DEF Books!Next

LEMMA UnlockBooks ==
    ASSUME IInv, NEW i \in DOMAIN requests, Unlock(i)
    PROVE  [Books!Next]_(Books!custody)
<1> DEFINE w == requests[i].worker
           n == requests[i].amount
<1>1. /\ UNCHANGED <<evm, emitted, executed, requests>> /\ i \notin released
      /\ released' = released \cup {i} /\ escrow' = [escrow EXCEPT ![w] = @ - n]
  BY DEF Unlock
<1>2. w \in Worker /\ n \in Nat
  <2>1. requests[i] \in Request
    BY DEF IInv, Typed
  <2> QED BY <2>1 DEF Request
<1>3. \A v \in Worker : /\ Owed(v) \in Nat /\ Owed(v)' \in Nat
                        /\ Owed(v) = IF v = w THEN Owed(v)' + n ELSE Owed(v)'
  BY <1>1, ReleasedOwed
<1>4. citizens' = citizens /\ \A v : Flight(v)' = Flight(v)
  <2>1. Minted' = Minted
    BY <1>1 DEF Minted
  <2> QED BY <1>1, <2>1, FlightStays DEF evm
<1> HIDE DEF w, n
<1>5. CASE n = 0
  <2>1. escrow' = escrow
    BY <1>1, <1>2, <1>5 DEF IInv, Typed
  <2>2. \A v \in Worker : Owed(v)' = Owed(v)
    BY <1>2, <1>3, <1>5
  <2> QED BY <1>4, <2>1, <2>2, BooksStay
<1>6. CASE n # 0
  <2>0. /\ n \in 1..Owed(w)
        /\ \A v \in Worker : Owed(v)' = IF v = w THEN Owed(v) - n ELSE Owed(v)
    BY <1>2, <1>3, <1>6
  <2>1. Debts' = [Debts EXCEPT ![w] = @ - n] /\ n \in 1..Debts[w]
    BY <1>2, <2>0 DEF Debts
  <2>2. Flights' = Flights /\ Claims' = Claims
    BY <1>4 DEF Flights, Claims
  <2>3. Books!Release(w, n)
    BY <1>1, <2>1, <2>2 DEF Books!Release
  <2> QED BY <1>2, <2>3 DEF Books!Next
<1> QED BY <1>5, <1>6

\* The steps that move no kWR.
LEMMA OtherBooks ==
    ASSUME UNCHANGED <<zion, executed, requests>>,
           \A v \in Worker : citizens'[v].lockedKWR = citizens[v].lockedKWR
    PROVE  UNCHANGED Books!custody
<1>1. escrow' = escrow /\ \A v : Owed(v)' = Owed(v)
  BY OwedStays DEF zion
<1>2. \A v : Flight(v)' = Flight(v)
  <2>1. Minted' = Minted
    BY DEF Minted
  <2> QED BY <2>1, FlightStays DEF zion
<1> QED BY <1>1, <1>2, BooksStay

\* Every step moves kWR from one stage to the next, or not at all.
LEMMA StepBooks == IInv /\ [Next]_vars => [Books!Next]_(Books!custody)
<1> SUFFICES ASSUME IInv, [Next]_vars PROVE [Books!Next]_(Books!custody)
  OBVIOUS
<1>1. ASSUME NEW ev \in ZionEvent, Emit(ev) PROVE [Books!Next]_(Books!custody)
  BY <1>1, EmitBooks
<1>2. ASSUME NEW i \in DOMAIN requests, Unlock(i) PROVE [Books!Next]_(Books!custody)
  BY <1>2, UnlockBooks
<1>3. ASSUME UNCHANGED <<evm, zion, executed, requests>> PROVE [Books!Next]_(Books!custody)
  <2>1. citizens' = citizens
    BY <1>3 DEF evm
  <2> QED BY <1>3, <2>1, OtherBooks
<1>4. CASE (\E nonce \in FreshNonce : Send(nonce)) \/ SendNothing \/ Revert
           \/ \E n \in DOMAIN pool : Drop(n)
  BY <1>3, <1>4 DEF Send, SendNothing, Revert, Drop
<1>5. CASE Mine
  <2>1. Head(pool)[1] \in Published
    BY <1>5, HeadCall DEF Mine
  <2> QED BY <1>5, <2>1, ExecuteBooks DEF Mine
<1>6. ASSUME NEW call \in Published, Submit(call) PROVE [Books!Next]_(Books!custody)
  BY <1>6, ExecuteBooks DEF Submit
<1>7. ASSUME NEW w \in Worker, Join(w) PROVE [Books!Next]_(Books!custody)
  <2>1. LocksKept
    BY <1>7, JoinKeeps DEF Join, IInv, Typed
  <2> QED BY <1>7, <2>1, OtherBooks DEF Join, LocksKept
<1>8. ASSUME NEW w \in Worker, Ragequit(w) PROVE [Books!Next]_(Books!custody)
  BY <1>8, RagequitBooks
<1>9. CASE (\E key \in Key : RotateAttester(key)) \/ NextDay
  BY <1>9, ClockInv, OtherBooks
<1>10. CASE UNCHANGED vars
  BY <1>3, <1>10 DEF vars
<1> QED BY <1>1, <1>2, <1>4, <1>5, <1>6, <1>7, <1>8, <1>9, <1>10 DEF Next

\* Nothing is locked, claimed or owed at first.
LEMMA InitBooks == Init => Books!Init
<1> SUFFICES ASSUME Init PROVE Books!Init
  OBVIOUS
<1>1. /\ emitted = {} /\ released = {} /\ requests = <<>> /\ escrow = [w \in Worker |-> 0]
      /\ citizens = [w \in Worker |-> EVM!NoCitizen]
  BY DEF Init, EVM!Init
<1>2. \A w : Flight(w) = 0
  <2>1. \A w : InFlight(w, emitted, Minted) = {}
    BY <1>1 DEF InFlight
  <2>2. LockSum({}) = 0
    BY LockSumIs, TotalOfNone, FS_EmptySet
  <2> QED BY <2>1, <2>2, FlightIsSum
<1>3. \A w : Owed(w) = 0
  <2>1. \A w : Unreleased(w, requests, released) = {}
    BY <1>1 DEF Unreleased
  <2>2. RequestSum(requests, {}) = 0
    BY RequestSumIs, TotalOfNone, FS_EmptySet
  <2> QED BY <2>1, <2>2, OwedIsSum
<1>4. \A w \in Worker : citizens[w].lockedKWR = 0
  BY <1>1 DEF EVM!NoCitizen
<1>5. Flights = [w \in Worker |-> 0] /\ Claims = [w \in Worker |-> 0] /\ Debts = [w \in Worker |-> 0]
  BY <1>2, <1>3, <1>4 DEF Flights, Claims, Debts
<1> QED BY <1>1, <1>5 DEF Books!Init

\* Both chains, the daemon and whoever submits its signatures implement the ledger
\* of custody: kWR move from lock to claim to debt and out, and by no other way.
THEOREM BridgeImplementsCustody ==
    ASSUME Nat \subseteq Amounts
    PROVE  Spec => CustodySpec
<1>1. Init => Custody!Init
  BY InitBooks DEF Books!Init, Custody!Init, Flights, Claims, Debts
<1>2. IInv /\ [Next]_vars => [Custody!Next]_(Custody!custody)
  <2> SUFFICES ASSUME IInv, [Next]_vars PROVE Custody!Next \/ UNCHANGED Custody!custody
    OBVIOUS
  <2>1. Books!Next \/ UNCHANGED Books!custody
    BY StepBooks
  <2>2. UNCHANGED Books!custody => UNCHANGED Custody!custody
    BY DEF Books!custody, Custody!custody, Flights, Claims, Debts
  <2>3. ASSUME NEW w \in Worker, Books!Leave(w) PROVE Custody!Next
    <3>1. Custody!Leave(w)
      BY <2>3 DEF Books!Leave, Custody!Leave, Flights, Claims, Debts
    <3> QED BY <3>1 DEF Custody!Next
  <2>4. ASSUME NEW w \in Worker, NEW n \in Nat,
               Books!Lock(w, n) \/ Books!Mint(w, n) \/ Books!Release(w, n)
        PROVE Custody!Next
    <3>1. Custody!Lock(w, n) \/ Custody!Mint(w, n) \/ Custody!Release(w, n)
      BY <2>4 DEF Books!Lock, Books!Mint, Books!Release, Custody!Lock, Custody!Mint,
                  Custody!Release, Flights, Claims, Debts
    <3> QED BY <3>1 DEF Custody!Next
  <2> QED BY <2>1, <2>2, <2>3, <2>4 DEF Books!Next
<1> QED BY <1>1, <1>2, InvCorrect, PTL DEF Spec, CustodySpec, Custody!Spec

\* Every kWR in the escrow of Zion is in flight, locked to a citizen or requested by
\* one who left, and nothing is claimed that Zion does not hold (x/seum,
\* bridgeMintCapital, ragequit).
THEOREM EscrowIsExplained == Spec => []EscrowExplained
<1>1. Init => Books!Ledger
  BY InitBooks, Books!InitLedger
<1>2. Books!Ledger /\ IInv /\ [Next]_vars => Books!Ledger'
  BY StepBooks, Books!StepLedger
<1>3. Books!Ledger => EscrowExplained
  BY DEF Books!Ledger, Books!Conserved, EscrowExplained, Flights, Claims, Debts
<1> QED BY <1>1, <1>2, <1>3, InvCorrect, PTL DEF Spec

-----------------------------------------------------------------------------
(* What the contract sees of the bridge. *)

\* Every payload that could be signed, under any key.
PoPPayloads == [worker : Worker, id : Id, expiry : Nat, signer : Key]
MintPayloads == [worker : Worker, kWRAmount : Uint, id : Id, expiry : Nat, signer : Key]
HonorPayloads ==
    [worker : Worker, axis : Axis, honorDelta : Uint, id : Id, expiry : Nat, signer : Key]
DayPayloads ==
    [worker : Worker, day : Nat, active : BOOLEAN, volunteer : BOOLEAN, id : Id, expiry : Nat,
     signer : Key]

Chain == INSTANCE SeumStandardProofs WITH
    PoPAttestations <- PoPPayloads, MintAttestations <- MintPayloads,
    HonorAttestations <- HonorPayloads, DayAttestations <- DayPayloads

\* The fields of a call are those of a payload.
Payload(call) ==
    /\ {"worker", "id", "expiry"} \subseteq DOMAIN call
    /\ call.worker \in Worker /\ call.id \in Id /\ call.expiry \in Nat
    /\ call.fn = "bridgeMintCapital" => "kWRAmount" \in DOMAIN call /\ call.kWRAmount \in Uint
    /\ call.fn = "attestHonor" => /\ {"axis", "honorDelta"} \subseteq DOMAIN call
                                  /\ call.axis \in Axis /\ call.honorDelta \in Uint
    /\ call.fn = "attestDay" => /\ {"day", "active", "volunteer"} \subseteq DOMAIN call
                                /\ call.day \in Nat /\ call.active \in BOOLEAN
                                /\ call.volunteer \in BOOLEAN

\* A word of the ABI is an unsigned integer, also of a negative number.
LEMMA WordType ==
    ASSUME NEW n \in Int
    PROVE  Word(n) \in Uint
  BY ConstantsAssumption DEF Word, Uint

LEMMA PoPPayload ==
    ASSUME NEW ev \in ZionEvent, ev.type = "EventEvmMappingRegistered",
           NEW expiry \in Nat, NEW nonce \in Id, NEW call,
           Handle(ev, expiry, nonce, FirstAttester) = Calling(call)
    PROVE  Payload(call)
<1> DEFINE worker == Attr(ev, "evm_addr")
           sig == SignDigest(PackAttestPoPDigest(worker, expiry, nonce), FirstAttester)
           made == BroadcastAttestPoP(worker, expiry, nonce, sig)
<1>1. Calling(call) = IF requireAddrAttr(ev, "evm_addr") THEN Calling(made) ELSE Refused
  BY DEF Handle, AttestPoPHandler
<1> HIDE DEF made
<1>2. requireAddrAttr(ev, "evm_addr") /\ call = made
  BY <1>1, Outcomes
<1>3. worker \in Worker
  BY <1>2, AttributeAssumption DEF requireAddrAttr, Parses
<1> QED BY <1>2, <1>3 DEF Payload, made, BroadcastAttestPoP

LEMMA MintPayload ==
    ASSUME NEW ev \in ZionEvent, ev.type = "EventCapitalLocked",
           NEW expiry \in Nat, NEW nonce \in Id, NEW call,
           Handle(ev, expiry, nonce, FirstAttester) = Calling(call)
    PROVE  Payload(call)
<1> DEFINE worker == Attr(ev, "evm_addr")
           amount == Attr(ev, "kwr_amount")
           lockID == Attr(ev, "lock_id")
           good == /\ requireAddrAttr(ev, "evm_addr")
                   /\ requireUintAttr(ev, "kwr_amount") /\ Attr(ev, "kwr_amount") > 0
                   /\ requireBytes32Attr(ev, "lock_id")
           sig == SignDigest(PackBridgeMintCapitalDigest(worker, amount, lockID, expiry),
                             FirstAttester)
           made == BroadcastBridgeMintCapital(worker, amount, lockID, expiry, sig)
<1>1. Calling(call) = IF good THEN Calling(made) ELSE Refused
  BY DEF Handle, BridgeMintHandler
<1> HIDE DEF made, good
<1>2. good /\ call = made
  BY <1>1, Outcomes
<1>3. worker \in Worker /\ lockID \in Id
  BY <1>2, AttributeAssumption DEF good, requireAddrAttr, requireBytes32Attr, Parses
<1>4. ev \in Locks
  BY DEF Locks
<1>5. amount \in Int
  BY <1>4, BridgeAssumption, ConstantsAssumption DEF AmountOf
<1> QED BY <1>2, <1>3, <1>5, WordType DEF Payload, made, BroadcastBridgeMintCapital

LEMMA HonorPayload ==
    ASSUME NEW ev \in ZionEvent, ev.type = "EventHonorAttested",
           NEW expiry \in Nat, NEW nonce \in Id, NEW call,
           Handle(ev, expiry, nonce, FirstAttester) = Calling(call)
    PROVE  Payload(call)
<1> DEFINE worker == Attr(ev, "evm_addr")
           axis   == AxisOf(Attr(ev, "axis"))
           delta  == Attr(ev, "honor_delta")
           jobID  == Attr(ev, "job_id")
           good == /\ requireAddrAttr(ev, "evm_addr")
                   /\ requireUint64Attr(ev, "axis") /\ Attr(ev, "axis") \in {1, 2}
                   /\ requireUintAttr(ev, "honor_delta")
                   /\ requireBytes32Attr(ev, "job_id")
           sig == SignDigest(PackAttestHonorDigest(worker, axis, delta, jobID, expiry),
                             FirstAttester)
           made == BroadcastAttestHonor(worker, axis, delta, jobID, expiry, sig)
<1>1. Calling(call) = IF good THEN Calling(made) ELSE Refused
  BY DEF Handle, AttestHonorHandler
<1> HIDE DEF made, good
<1>2. good /\ call = made
  BY <1>1, Outcomes
<1>3. worker \in Worker /\ delta \in Int /\ jobID \in Id
  BY <1>2, AttributeAssumption
     DEF good, requireAddrAttr, requireUintAttr, requireBytes32Attr, Parses
<1>4. axis \in Axis
  BY DEF AxisOf, Axis
<1> HIDE DEF axis
<1> QED BY <1>2, <1>3, <1>4, WordType DEF Payload, made, BroadcastAttestHonor

LEMMA DayPayload ==
    ASSUME NEW ev \in ZionEvent, ev.type = "EventDayAttested",
           NEW expiry \in Nat, NEW nonce \in Id, NEW call,
           Handle(ev, expiry, nonce, FirstAttester) = Calling(call)
    PROVE  Payload(call)
<1> DEFINE worker    == Attr(ev, "evm_addr")
           day       == Attr(ev, "day")
           active    == Attr(ev, "active_gate")
           volunteer == Attr(ev, "volunteer_gate")
           id        == Attr(ev, "nonce")
           usable == /\ requireAddrAttr(ev, "evm_addr") /\ requireUint64Attr(ev, "day")
                     /\ requireBoolAttr(ev, "active_gate") /\ requireBoolAttr(ev, "volunteer_gate")
           sig == SignDigest(PackAttestDayDigest(worker, day, active, volunteer, expiry, id),
                             FirstAttester)
           made == BroadcastAttestDay(worker, day, active, volunteer, expiry, id, sig)
           known == requireBytes32Attr(ev, "nonce")
<1>1. Calling(call) = IF ~ usable THEN Refused
                      ELSE IF ~ active /\ ~ volunteer THEN Nothing
                      ELSE IF ~ known THEN Refused
                      ELSE Calling(made)
  BY DEF Handle, AttestDayHandler
<1> HIDE DEF made, usable, known
<1>2. usable /\ known /\ call = made
  BY <1>1, Outcomes
<1>3. worker \in Worker /\ id \in Id /\ active \in BOOLEAN /\ volunteer \in BOOLEAN
  BY <1>2, AttributeAssumption
     DEF usable, known, requireAddrAttr, requireBoolAttr, requireBytes32Attr, Parses
<1>4. day \in Nat
  BY <1>2, WidthAssumption DEF usable, requireUint64Attr
<1> QED BY <1>2, <1>3, <1>4 DEF Payload, made, BroadcastAttestDay

\* What the daemon sends is typed as the contract declares it.
LEMMA PublishedPayload ==
    ASSUME IInv, NEW call \in Published
    PROVE  Payload(call) /\ ecrecover(call) \in Key
<1>1. PICK ev \in emitted : CallOf(ev, call)
  BY GenuineCall
<1>2. ev \in ZionEvent
  BY <1>1 DEF IInv, Typed
<1>3. PICK nonce \in FreshNonce, day \in GenesisDay..MaxDay :
          Handle(ev, day + SignatureTTL, nonce, FirstAttester) = Calling(call)
  BY <1>1 DEF CallOf
<1>4. day + SignatureTTL \in Nat /\ nonce \in Id
  BY BridgeAssumption, AttributeAssumption
<1>5. Payload(call)
  <2>1. ev.type \in EventType
    BY <1>2, BridgeAssumption
  <2> QED BY <1>2, <1>3, <1>4, <2>1, PoPPayload, MintPayload, HonorPayload, DayPayload DEF EventType
<1>6. ecrecover(call) = FirstAttester
  BY <1>1, <1>2, CallFacts
<1> QED BY <1>5, <1>6, BridgeAssumption

-----------------------------------------------------------------------------
(* The contract of the bridge runs as module SeumStandard specifies. *)

\* The arithmetic of the two instances is the same.
LEMMA ChainDecays ==
    ASSUME NEW c, NEW a, NEW active, NEW day
    PROVE  EVM!Decayed(c, a, active, day) = Chain!Decayed(c, a, active, day)
<1>1. \A m, n : EVM!Lesser(m, n) = Chain!Lesser(m, n)
  BY DEF EVM!Lesser, Chain!Lesser
<1>2. EVM!DaysToSettle(c, a, day) = Chain!DaysToSettle(c, a, day)
  BY Zenon, <1>1 DEF EVM!DaysToSettle, Chain!DaysToSettle
<1>3. \A n : EVM!DecayRun(c, a, active, n) = Chain!DecayRun(c, a, active, n)
  BY Zenon DEF EVM!DecayRun, Chain!DecayRun, EVM!DecayDay, Chain!DecayDay,
               EVM!GrownRate, Chain!GrownRate, EVM!Lesser, Chain!Lesser,
               EVM!IsSabbath, Chain!IsSabbath
<1> QED BY Zenon, <1>2, <1>3 DEF EVM!Decayed, Chain!Decayed

LEMMA ChainCountsWeeks ==
    ASSUME NEW c, NEW volunteer, NEW day
    PROVE  EVM!WeeksProcessed(c, volunteer, day) = Chain!WeeksProcessed(c, volunteer, day)
<1> DEFINE pending == EVM!LastCompleteWeek(day) - c.lastProcessedWeek
           n       == IF pending > 0 THEN pending ELSE 0
<1>1. EVM!WeeksRun(c, volunteer, n) = Chain!WeeksRun(c, volunteer, n)
  <2> HIDE DEF n
  <2> QED BY Zenon DEF EVM!WeeksRun, Chain!WeeksRun, EVM!VolunteerWeek, Chain!VolunteerWeek,
                       EVM!Qualified, Chain!Qualified, EVM!GrownMult, Chain!GrownMult,
                       EVM!CapitalBonus, Chain!CapitalBonus
<1>2. EVM!LastCompleteWeek(day) = Chain!LastCompleteWeek(day)
  BY Zenon DEF EVM!LastCompleteWeek, Chain!LastCompleteWeek
<1> QED BY Zenon, <1>1, <1>2 DEF EVM!WeeksProcessed, Chain!WeeksProcessed

LEMMA ChainSettles ==
    ASSUME NEW w, NEW a
    PROVE  EVM!Settled(w, a) = Chain!Settled(w, a)
  BY Zenon, ChainDecays, ChainCountsWeeks DEF EVM!Settled, Chain!Settled

LEMMA ChainEmits ==
    ASSUME NEW w, NEW counted, EVM!EmitWeeks(w, counted)
    PROVE  Chain!EmitWeeks(w, counted)
  BY Zenon DEF EVM!EmitWeeks, Chain!EmitWeeks, EVM!Week, Chain!Week

\* The checks look at no more than three fields of a payload.
LEMMA ChainAccepts ==
    ASSUME NEW att, NEW pay, EVM!Accepted(att),
           pay.expiry = att.expiry, pay.id = att.id, pay.signer = att.signer
    PROVE  Chain!Accepted(pay)
  BY DEF EVM!Accepted, Chain!Accepted

LEMMA ChainPoP ==
    ASSUME NEW att, EVM!AttestPoP(att), NEW pay \in PoPPayloads,
           \A f \in {"worker", "id", "expiry", "signer"} : pay[f] = att[f]
    PROVE  Chain!Next
<1>1. pay.worker = att.worker /\ pay.id = att.id /\ pay.expiry = att.expiry /\ pay.signer = att.signer
  OBVIOUS
<1>2. Chain!Accepted(pay)
  BY <1>1, ChainAccepts DEF EVM!AttestPoP
<1>3. Chain!AttestPoP(pay)
  BY <1>1, <1>2 DEF EVM!AttestPoP, Chain!AttestPoP, EVM!events, Chain!events
<1> QED BY <1>3 DEF Chain!Next

LEMMA ChainMints ==
    ASSUME NEW att, EVM!BridgeMintCapital(att), NEW pay \in MintPayloads,
           \A f \in {"worker", "kWRAmount", "id", "expiry", "signer"} : pay[f] = att[f]
    PROVE  Chain!Next
<1>1. /\ pay.worker = att.worker /\ pay.id = att.id /\ pay.kWRAmount = att.kWRAmount
      /\ pay.expiry = att.expiry /\ pay.signer = att.signer
  OBVIOUS
<1>2. Chain!Accepted(pay)
  BY <1>1, ChainAccepts DEF EVM!BridgeMintCapital
<1>3. EVM!Settled(att.worker, "CAPITAL") = Chain!Settled(att.worker, "CAPITAL")
  BY ChainSettles
<1>4. Chain!EmitWeeks(att.worker, EVM!Settled(att.worker, "CAPITAL").counted)
  BY ChainEmits DEF EVM!BridgeMintCapital
<1>5. Chain!BridgeMintCapital(pay)
  BY Zenon, <1>1, <1>2, <1>3, <1>4 DEF EVM!BridgeMintCapital, Chain!BridgeMintCapital, EVM!Fits, Chain!Fits
<1> QED BY <1>5 DEF Chain!Next

LEMMA ChainHonors ==
    ASSUME NEW att, EVM!AttestHonor(att), NEW pay \in HonorPayloads,
           \A f \in {"worker", "axis", "honorDelta", "id", "expiry", "signer"} : pay[f] = att[f]
    PROVE  Chain!Next
<1>1. /\ pay.worker = att.worker /\ pay.id = att.id /\ pay.axis = att.axis
      /\ pay.honorDelta = att.honorDelta /\ pay.expiry = att.expiry /\ pay.signer = att.signer
  OBVIOUS
<1>2. Chain!Accepted(pay)
  BY <1>1, ChainAccepts DEF EVM!AttestHonor
<1>3. EVM!Settled(att.worker, att.axis) = Chain!Settled(att.worker, att.axis)
  BY ChainSettles
<1>4. Chain!EmitWeeks(att.worker, EVM!Settled(att.worker, att.axis).counted)
  BY ChainEmits DEF EVM!AttestHonor
<1>5. Chain!AttestHonor(pay)
  BY Zenon, <1>1, <1>2, <1>3, <1>4 DEF EVM!AttestHonor, Chain!AttestHonor, EVM!Fits, Chain!Fits
<1> QED BY <1>5 DEF Chain!Next

LEMMA ChainMarksDay ==
    ASSUME NEW att, EVM!AttestDay(att), NEW pay \in DayPayloads,
           \A f \in {"worker", "day", "active", "volunteer", "id", "expiry", "signer"} :
              pay[f] = att[f]
    PROVE  Chain!Next
<1>1. /\ pay.worker = att.worker /\ pay.id = att.id /\ pay.day = att.day
      /\ pay.active = att.active /\ pay.volunteer = att.volunteer
      /\ pay.expiry = att.expiry /\ pay.signer = att.signer
  OBVIOUS
<1>2. Chain!Accepted(pay)
  BY <1>1, ChainAccepts DEF EVM!AttestDay
<1>3. Chain!AttestDay(pay)
  BY Zenon, <1>1, <1>2 DEF EVM!AttestDay, Chain!AttestDay, EVM!events, Chain!events
<1> QED BY <1>3 DEF Chain!Next

\* A call the bridge executes is one the contract specifies.
LEMMA ChainExecutes ==
    ASSUME IInv, NEW call \in Published, Execute(call)
    PROVE  Chain!Next
<1> DEFINE att == Attestation(call)
<1>1. Payload(call) /\ ecrecover(call) \in Key
  BY PublishedPayload
<1>2. \A f \in DOMAIN call : f # "signer" => att[f] = call[f]
  BY DEF Attestation
<1>3. att.signer = ecrecover(call)
  BY DEF Attestation
<1>4. /\ att.worker = call.worker /\ att.id = call.id /\ att.expiry = call.expiry
  BY <1>1, <1>2 DEF Payload
<1> HIDE DEF att
<1>5. CASE call.fn = "attestPoP" /\ EVM!AttestPoP(att)
  <2> DEFINE pay == [worker |-> att.worker, id |-> att.id, expiry |-> att.expiry,
                     signer |-> att.signer]
  <2>1. pay \in PoPPayloads
    BY <1>1, <1>3, <1>4 DEF Payload, PoPPayloads
  <2> QED BY <1>5, <2>1, ChainPoP
<1>6. CASE call.fn = "bridgeMintCapital" /\ EVM!BridgeMintCapital(att)
  <2> DEFINE pay == [worker |-> att.worker, kWRAmount |-> att.kWRAmount, id |-> att.id,
                     expiry |-> att.expiry, signer |-> att.signer]
  <2>1. att.kWRAmount \in Uint
    BY <1>1, <1>2, <1>6 DEF Payload
  <2>2. pay \in MintPayloads
    BY <1>1, <1>3, <1>4, <2>1 DEF Payload, MintPayloads
  <2> QED BY <1>6, <2>2, ChainMints
<1>7. CASE call.fn = "attestHonor" /\ EVM!AttestHonor(att)
  <2> DEFINE pay == [worker |-> att.worker, axis |-> att.axis, honorDelta |-> att.honorDelta,
                     id |-> att.id, expiry |-> att.expiry, signer |-> att.signer]
  <2>1. att.axis \in Axis /\ att.honorDelta \in Uint
    BY <1>1, <1>2, <1>7 DEF Payload
  <2>2. pay \in HonorPayloads
    BY <1>1, <1>3, <1>4, <2>1 DEF Payload, HonorPayloads
  <2> QED BY <1>7, <2>2, ChainHonors
<1>8. CASE call.fn = "attestDay" /\ EVM!AttestDay(att)
  <2> DEFINE pay == [worker |-> att.worker, day |-> att.day, active |-> att.active,
                     volunteer |-> att.volunteer, id |-> att.id, expiry |-> att.expiry,
                     signer |-> att.signer]
  <2>1. att.day \in Nat /\ att.active \in BOOLEAN /\ att.volunteer \in BOOLEAN
    BY <1>1, <1>2, <1>8 DEF Payload
  <2>2. pay \in DayPayloads
    BY <1>1, <1>3, <1>4, <2>1 DEF Payload, DayPayloads
  <2> QED BY <1>8, <2>2, ChainMarksDay
<1> QED BY <1>5, <1>6, <1>7, <1>8 DEF Execute, att

\* Steps off the chain.
LEMMA ChainStays ==
    ASSUME UNCHANGED evm
    PROVE  UNCHANGED Chain!vars
  BY DEF evm, Chain!vars, Chain!contract, Chain!events

LEMMA ChainSteps == IInv /\ [Next]_vars => [Chain!Next]_(Chain!vars)
<1> SUFFICES ASSUME IInv, [Next]_vars PROVE Chain!Next \/ UNCHANGED Chain!vars
  OBVIOUS
<1>1. CASE \/ (\E ev \in ZionEvent : Emit(ev)) \/ (\E i \in DOMAIN requests : Unlock(i))
           \/ (\E nonce \in FreshNonce : Send(nonce)) \/ SendNothing
           \/ Revert \/ (\E n \in DOMAIN pool : Drop(n)) \/ UNCHANGED vars
  <2>1. UNCHANGED evm
    BY <1>1 DEF Emit, Unlock, Send, SendNothing, Revert, Drop, vars
  <2> QED BY <2>1, ChainStays
<1>2. CASE Mine
  <2>1. Head(pool)[1] \in Published
    BY <1>2, HeadCall DEF Mine
  <2> QED BY <1>2, <2>1, ChainExecutes DEF Mine
<1>3. ASSUME NEW call \in Published, Submit(call) PROVE Chain!Next
  BY <1>3, ChainExecutes DEF Submit
<1>4. ASSUME NEW w \in Worker, Join(w) PROVE Chain!Next
  <2>1. \A c, day : EVM!Joined(c, day) = Chain!Joined(c, day)
    BY Zenon DEF EVM!Joined, Chain!Joined, EVM!Axis, Chain!Axis
  <2>2. Chain!Join(w)
    BY <1>4, <2>1 DEF Join, EVM!Join, Chain!Join, EVM!events, Chain!events
  <2> QED BY <2>2 DEF Chain!Next
<1>5. ASSUME NEW w \in Worker, Ragequit(w) PROVE Chain!Next
  <2>1. \A c : EVM!Deleted(c) = Chain!Deleted(c)
    BY Zenon DEF EVM!Deleted, Chain!Deleted, EVM!NoCitizen, Chain!NoCitizen, EVM!Axis, Chain!Axis
  <2>2. Chain!Ragequit(w)
    BY <1>5, <2>1 DEF Ragequit, EVM!Ragequit, Chain!Ragequit
  <2> QED BY <2>2 DEF Chain!Next
<1>6. ASSUME NEW key \in Key, RotateAttester(key) PROVE Chain!Next
  <2>1. Chain!RotateAttester(Governance, key)
    BY <1>6 DEF RotateAttester, EVM!RotateAttester, Chain!RotateAttester, EVM!events, Chain!events
  <2> QED BY <2>1 DEF Chain!Next, Chain!Sender
<1>7. CASE NextDay
  <2>1. Chain!NextDay
    BY <1>7 DEF NextDay, EVM!NextDay, Chain!NextDay, EVM!events, Chain!events,
                EVM!contract, Chain!contract
  <2> QED BY <2>1 DEF Chain!Next
<1> QED BY <1>1, <1>2, <1>3, <1>4, <1>5, <1>6, <1>7 DEF Next

LEMMA ChainStarts == Init => Chain!Init
  BY Zenon DEF Init, EVM!Init, Chain!Init, EVM!NoCitizen, Chain!NoCitizen, EVM!Week, Chain!Week,
         EVM!Axis, Chain!Axis

\* Whatever Zion emits, the daemon sends or drops and anybody submits, the contract
\* of the bridge behaves as module SeumStandard specifies: the payloads assumed there
\* are those that the handlers make (internal/handlers, evmclient).
THEOREM BridgeRunsContract == Spec => Chain!Spec
  BY ChainStarts, ChainSteps, InvCorrect, PTL DEF Spec, Chain!Spec

\* Hence all that is proved of the contract alone holds at the end of the bridge:
\* locks match claims, no week and no identifier counts twice, clocks do not rewind,
\* lives are separate and honor is earned, under retries, lost replies, dropped
\* transactions, foreign submissions and a changed key.
THEOREM ContractHoldsInTheBridge ==
    Spec => /\ [](/\ Chain!TypeOK /\ Chain!ClaimsMatchLocks /\ Chain!MembershipGates
                  /\ Chain!WeeksCountedOnce /\ Chain!WeeksFollowClocks
                  /\ Chain!LivesAreSeparate /\ Chain!RateFollowsTenure
                  /\ Chain!RewardsOfThisLife)
            /\ Chain!ClocksNeverRewind /\ Chain!HonorIsEarned /\ Chain!CivicSpec
<1>1. Chain!ConstantsAssumption
  BY ConstantsAssumption DEF Chain!ConstantsAssumption, Chain!PosNat, PosNat
<1>2. Chain!AttestationAssumption
  BY BridgeAssumption
     DEF Chain!AttestationAssumption, PoPPayloads, MintPayloads, HonorPayloads, DayPayloads,
         Uint, Chain!Uint, Axis, Chain!Axis
<1>3. Chain!Spec => []Chain!TypeOK
  BY <1>1, <1>2, Chain!TypeCorrect
<1>4. Chain!Spec => []Chain!ClaimsMatchLocks
  BY <1>1, <1>2, Chain!ClaimsAlwaysMatch
<1>5. Chain!Spec => []Chain!MembershipGates
  BY <1>1, <1>2, Chain!GatesAlwaysHold
<1>6. Chain!Spec => []Chain!WeeksCountedOnce
  BY <1>1, <1>2, Chain!WeeksNeverCountedTwice
<1>7. Chain!Spec => []Chain!WeeksFollowClocks
  BY <1>1, <1>2, Chain!WeekClockFollows
<1>8. Chain!Spec => []Chain!LivesAreSeparate
  BY <1>1, <1>2, Chain!LivesStaySeparate
<1>9. Chain!Spec => []Chain!RateFollowsTenure
  BY <1>1, <1>2, Chain!RateAlwaysFollowsTenure
<1>10. Chain!Spec => []Chain!RewardsOfThisLife
  BY <1>1, <1>2, Chain!RewardsAlwaysOfThisLife
<1>11. Chain!Spec => Chain!ClocksNeverRewind
  BY <1>1, <1>2, Chain!ClocksOnlyAdvance
<1>12. Chain!Spec => Chain!HonorIsEarned
  BY <1>1, <1>2, Chain!HonorOnlyEarned
<1>13. Chain!Spec => Chain!CivicSpec
  BY <1>1, <1>2, Chain!ImplementsLedger
<1> QED BY <1>3, <1>4, <1>5, <1>6, <1>7, <1>8, <1>9, <1>10, <1>11, <1>12, <1>13,
           BridgeRunsContract, PTL

-----------------------------------------------------------------------------
(* What the events of the two chains report. *)

\* All w ever locked on Zion, and all w ever requested by leaving.
Locked(w) == LockSum(InFlight(w, emitted, {}))
Asked(w) == RequestSum(requests, Unreleased(w, requests, {}))

\* The totals of the CapitalBridged and RagequitRequest events, told from Zion.
Reconciled ==
    \A w \in Worker : bridged[w] + Flight(w) = Locked(w) /\ requested[w] = Asked(w)

Reports == bridged \in [Worker -> Nat] /\ requested \in [Worker -> Nat]

LEMMA ReportsStay ==
    ASSUME Reconciled, UNCHANGED <<bridged, requested, emitted, executed, requests>>
    PROVE  Reconciled'
<1>1. Minted' = Minted
  BY DEF Minted
<1>2. \A w : Flight(w)' = Flight(w)
  BY <1>1, FlightStays
<1>3. \A w : Locked(w)' = Locked(w) /\ Asked(w)' = Asked(w)
  BY DEF Locked, Asked
<1> QED BY <1>2, <1>3 DEF Reconciled

LEMMA EmitReports ==
    ASSUME IInv, Reports, Reconciled, NEW ev \in ZionEvent, Emit(ev)
    PROVE  Reconciled'
<1>1. /\ UNCHANGED <<evm, executed, requests>>
      /\ ev \notin emitted /\ emitted' = emitted \cup {ev}
  BY DEF Emit
<1>2. bridged' = bridged /\ requested' = requested
  BY <1>1 DEF evm
<1> SUFFICES ASSUME NEW w \in Worker
             PROVE  bridged'[w] + Flight(w)' = Locked(w)' /\ requested'[w] = Asked(w)'
  BY DEF Reconciled
<1>3. Asked(w)' = Asked(w)
  BY <1>1 DEF Asked
<1>4. Flight(w)' = IF ev \in Locks /\ WorkerOf(ev) = w THEN Flight(w) + AmountOf(ev) ELSE Flight(w)
  BY <1>1, EmittedFlight
<1>5. /\ Locked(w) \in Nat
      /\ Locked(w)' = IF ev \in Locks /\ WorkerOf(ev) = w THEN Locked(w) + AmountOf(ev) ELSE Locked(w)
  BY <1>1, EmittedLock DEF Locked
<1>6. Flight(w) \in Nat
  BY FlightIsSum, InFlightFacts DEF IInv, Typed
<1>7. ev \in Locks => AmountOf(ev) \in Nat
  BY BridgeAssumption, ConstantsAssumption
<1> QED BY <1>2, <1>3, <1>4, <1>5, <1>6, <1>7 DEF Reconciled, Reports

LEMMA ExecuteReports ==
    ASSUME IInv, Reports, Reconciled, NEW call \in Published, Execute(call),
           UNCHANGED <<zion, requests>>
    PROVE  Reconciled'
<1> DEFINE att == Attestation(call)
<1>1. /\ executed' = executed \cup {call} /\ emitted' = emitted
      /\ requests' = requests
  BY DEF Execute, zion
<1>2. /\ requested' = requested
      /\ \/ call.fn # "bridgeMintCapital" /\ bridged' = bridged
         \/ /\ call.fn = "bridgeMintCapital" /\ att.id \notin consumed
            /\ bridged' = [bridged EXCEPT ![att.worker] = @ + att.kWRAmount]
  BY DEF Execute, EVM!AttestPoP, EVM!BridgeMintCapital, EVM!AttestHonor, EVM!AttestDay,
         EVM!events, EVM!Accepted
<1>3. CASE call.fn # "bridgeMintCapital"
  <2>1. Minted' = Minted
    BY <1>1, <1>3 DEF Minted
  <2>2. \A w : Flight(w)' = Flight(w)
    BY <1>1, <2>1, FlightStays
  <2>3. \A w : Locked(w)' = Locked(w) /\ Asked(w)' = Asked(w)
    BY <1>1 DEF Locked, Asked
  <2> QED BY <1>2, <1>3, <2>2, <2>3 DEF Reconciled
<1>4. CASE call.fn = "bridgeMintCapital"
  <2>1. /\ {"worker", "id", "kWRAmount"} \subseteq DOMAIN call
        /\ call.worker \in Worker /\ call.kWRAmount \in Nat
    BY <1>4, MintTyped
  <2>2. att.worker = call.worker /\ att.id = call.id /\ att.kWRAmount = call.kWRAmount
    BY <2>1 DEF Attestation
  <2> HIDE DEF att
  <2>3. /\ call.kWRAmount \in 1..Flight(call.worker)
        /\ \A w \in Worker : /\ Flight(w) \in Nat
                             /\ Flight(w)' = IF w = call.worker THEN Flight(w) - call.kWRAmount
                                             ELSE Flight(w)
    BY <1>1, <1>2, <1>4, <2>2, MintedFlight
  <2>4. \A w : Locked(w)' = Locked(w) /\ Asked(w)' = Asked(w)
    BY <1>1 DEF Locked, Asked
  <2>5. \A w \in Worker : bridged'[w] = IF w = call.worker THEN bridged[w] + call.kWRAmount
                                        ELSE bridged[w]
    BY <1>2, <1>4, <2>1, <2>2 DEF Reports
  <2> QED BY <1>2, <2>1, <2>3, <2>4, <2>5 DEF Reconciled, Reports
<1> QED BY <1>3, <1>4

LEMMA RagequitReports ==
    ASSUME IInv, Reports, Reconciled, NEW w \in Worker, Ragequit(w)
    PROVE  Reconciled'
<1> DEFINE n == citizens[w].lockedKWR
<1>1. /\ UNCHANGED <<bridged, emitted, executed>>
      /\ requested' = [requested EXCEPT ![w] = @ + n]
      /\ requests' = Append(requests, [worker |-> w, amount |-> n])
  BY DEF Ragequit, EVM!Ragequit, zion
<1>2. n \in Nat
  BY DEF IInv, Typed, People, IsPerson
<1> HIDE DEF n
<1>3. \A v \in Worker : Asked(v)' = IF v = w THEN Asked(v) + n ELSE Asked(v)
  BY <1>1, <1>2, AppendedRequest DEF Asked
<1>4. Minted' = Minted
  BY <1>1 DEF Minted
<1>5. \A v : Flight(v)' = Flight(v) /\ Locked(v)' = Locked(v)
  BY <1>1, <1>4, FlightStays DEF Locked
<1> QED BY <1>1, <1>3, <1>5 DEF Reconciled, Reports

LEMMA StepReports == IInv /\ Reports /\ Reconciled /\ [Next]_vars => Reconciled'
<1> SUFFICES ASSUME IInv, Reports, Reconciled, [Next]_vars PROVE Reconciled'
  OBVIOUS
<1>1. ASSUME NEW ev \in ZionEvent, Emit(ev) PROVE Reconciled'
  BY <1>1, EmitReports
<1>2. CASE Mine
  <2>1. Head(pool)[1] \in Published
    BY <1>2, HeadCall DEF Mine
  <2> QED BY <1>2, <2>1, ExecuteReports DEF Mine
<1>3. ASSUME NEW call \in Published, Submit(call) PROVE Reconciled'
  BY <1>3, ExecuteReports DEF Submit
<1>4. ASSUME NEW w \in Worker, Ragequit(w) PROVE Reconciled'
  BY <1>4, RagequitReports
<1>5. CASE \/ (\E i \in DOMAIN requests : Unlock(i)) \/ (\E nonce \in FreshNonce : Send(nonce))
           \/ SendNothing \/ Revert \/ (\E n \in DOMAIN pool : Drop(n)) \/ UNCHANGED vars
  <2>1. UNCHANGED <<bridged, requested, emitted, executed, requests>>
    BY <1>5 DEF Unlock, Send, SendNothing, Revert, Drop, vars, evm, zion
  <2> QED BY <2>1, ReportsStay
<1>6. CASE (\E w \in Worker : Join(w)) \/ (\E key \in Key : RotateAttester(key)) \/ NextDay
  <2>1. UNCHANGED <<bridged, requested, emitted, executed, requests>>
    BY <1>6 DEF Join, RotateAttester, NextDay, EVM!Join, EVM!RotateAttester, EVM!NextDay,
                EVM!events, zion
  <2> QED BY <2>1, ReportsStay
<1> QED BY <1>1, <1>2, <1>3, <1>4, <1>5, <1>6 DEF Next

LEMMA InitReports == Init => Reconciled
<1> SUFFICES ASSUME Init PROVE Reconciled
  OBVIOUS
<1>1. /\ emitted = {} /\ released = {} /\ requests = <<>>
      /\ bridged = [w \in Worker |-> 0] /\ requested = [w \in Worker |-> 0]
  BY DEF Init, EVM!Init
<1>2. \A w, M : InFlight(w, emitted, M) = {}
  BY <1>1 DEF InFlight
<1>3. LockSum({}) = 0
  BY LockSumIs, TotalOfNone, FS_EmptySet
<1>4. \A w : Flight(w) = 0 /\ Locked(w) = 0
  BY <1>2, <1>3, FlightIsSum DEF Locked
<1>5. \A w : Asked(w) = 0
  <2>1. \A w : Unreleased(w, requests, {}) = {}
    BY <1>1 DEF Unreleased
  <2>2. RequestSum(requests, {}) = 0
    BY RequestSumIs, TotalOfNone, FS_EmptySet
  <2> QED BY <2>1, <2>2 DEF Asked
<1> QED BY <1>1, <1>4, <1>5 DEF Reconciled

\* What the contract reports as bridged is what Zion locked, less what is in flight,
\* and what it reports as requested is what the logs ask Zion to release, however
\* often events and calls are repeated, dropped or reverted (CapitalBridged,
\* RagequitRequest, x/seum).
THEOREM ReportsReconcile == Spec => []Reconciled
<1>1. Spec => []Reports
  <2>1. Chain!TypeOK => Reports
    BY DEF Chain!TypeOK, Reports
  <2> QED BY <2>1, ContractHoldsInTheBridge, PTL
<1>2. IInv /\ Reports /\ Reconciled /\ [Next]_vars => Reconciled'
  BY StepReports
<1> QED BY <1>1, <1>2, InitReports, InvCorrect, PTL DEF Spec
=============================================================================
