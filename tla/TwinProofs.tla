----------------------------- MODULE TwinProofs -----------------------------
(***************************************************************************)
(* The CosmWasm twin, first alone and then beside the EVM contract, for    *)
(* any number of workers, denominations and keys, any messages or payloads *)
(* and any values of the standard's constants.                             *)
(*                                                                         *)
(* Alone: the inductive invariant IInv adds to the type invariant that     *)
(* CITIZENS holds nothing of those who left: without it a worker could     *)
(* rejoin with a lock.                                                     *)
(*                                                                         *)
(* Beside the EVM contract: TwinInv is inductive; after every deed the two *)
(* records of a worker are Twins, equal but for a larger capital honor of  *)
(* the twin.  Inside a deed they are not: the twin credits before it       *)
(* counts the volunteer weeks and the EVM contract afterwards, so that in  *)
(* between the credit is Due.                                              *)
(***************************************************************************)
EXTENDS TwinContracts, SeumMathProofs

USE DEF PosNat

-----------------------------------------------------------------------------
(* The twin alone: a credited citizen. *)

\* What Credited does to a citizen c that becomes e: n more honor on axis a, lock
\* more kWR, after the decay and before the weeks.
CreditedFacts(c, a, lock, e) ==
    /\ e \in Citizen
    /\ e.isCitizen = c.isCitizen
    /\ e.lockedKWR = c.lockedKWR + lock
    /\ \A b \in Axis \ {a, "CAPITAL"} : e.baseHonor[b] <= c.baseHonor[b]
    /\ a # "CAPITAL" => \/ e.baseHonor["CAPITAL"] <= c.baseHonor["CAPITAL"]
                        \/ e.volunteerWeeks > c.volunteerWeeks

\* e is d with n more honor on axis a and lock more kWR.
IsPaid(d, a, n, lock, e) == e = [d EXCEPT !.baseHonor[a] = @ + n, !.lockedKWR = @ + lock]

\* A citizen who is paid is a citizen: the amounts fit, by the checked additions.
LEMMA PaidType ==
    ASSUME NEW d \in Citizen, NEW a \in Axis, NEW n \in Nat, NEW lock \in Nat,
           NEW e, IsPaid(d, a, n, lock, e),
           e.baseHonor[a] <= MAX_UINT, e.lockedKWR <= MAX_UINT
    PROVE  /\ e \in Citizen
           /\ e.isCitizen = d.isCitizen
           /\ e.lockedKWR = d.lockedKWR + lock
           /\ e.volunteerWeeks = d.volunteerWeeks
           /\ \A b \in Axis \ {a} : e.baseHonor[b] = d.baseHonor[b]
<1>1. /\ d.baseHonor \in [Axis -> Uint] /\ d.baseHonor[a] \in Nat
      /\ d.lockedKWR \in Nat
  BY ConstantsAssumption DEF Citizen, Uint
<1>2. /\ e.baseHonor = [d.baseHonor EXCEPT ![a] = @ + n]
      /\ e.lockedKWR = d.lockedKWR + lock
  BY DEF Citizen, IsPaid
<1>3. d.baseHonor[a] + n \in Uint /\ d.lockedKWR + lock \in Uint
  BY <1>1, <1>2, ConstantsAssumption DEF Uint
<1>4. [d.baseHonor EXCEPT ![a] = @ + n] \in [Axis -> Uint]
  BY <1>1, <1>3
<1>5. e \in Citizen
  BY <1>2, <1>3, <1>4 DEF Citizen, IsPaid
<1>6. e.isCitizen = d.isCitizen /\ e.volunteerWeeks = d.volunteerWeeks
  BY DEF Citizen, IsPaid
<1>7. \A b \in Axis \ {a} : e.baseHonor[b] = d.baseHonor[b]
  BY <1>1, <1>2
<1> QED BY <1>2, <1>5, <1>6, <1>7

\* Decay, credit and weeks together, when nothing overflows, have the facts above.
LEMMA CreditedType ==
    ASSUME NEW w \in Worker, NEW a \in Axis, NEW n \in Nat, NEW lock \in Nat,
           citizens[w] \in Citizen, today \in Nat, Credited(w, a, n, lock).ok
    PROVE  CreditedFacts(citizens[w], a, lock, Credited(w, a, n, lock).citizen)
<1> DEFINE c     == citizens[w]
           decay == Decayed(c, a, activeDays[w], today)
           m     == decay.citizen
           paid  == [m EXCEPT !.baseHonor[a] = @ + n, !.lockedKWR = @ + lock]
           weeks == WeeksProcessed(paid, volunteerDays[w], paid.lastDecayDay[a])
           e     == weeks.citizen
<1>1. /\ weeks.ok /\ paid.baseHonor[a] <= MAX_UINT /\ paid.lockedKWR <= MAX_UINT
      /\ Credited(w, a, n, lock).citizen = e
  BY DEF Credited, Result
<1>2. DecayedFacts(c, a, today, m)
  BY DecayedType
<1> HIDE DEF decay
<1>3. m \in Citizen
  BY <1>2 DEF DecayedFacts
<1> HIDE DEF m
<1>4. IsPaid(m, a, n, lock, paid)
  BY Zenon DEF IsPaid
<1> HIDE DEF paid
<1>5. /\ paid \in Citizen
      /\ paid.isCitizen = m.isCitizen
      /\ paid.lockedKWR = m.lockedKWR + lock
      /\ paid.volunteerWeeks = m.volunteerWeeks
      /\ \A b \in Axis \ {a} : paid.baseHonor[b] = m.baseHonor[b]
  BY <1>1, <1>3, <1>4, PaidType
<1>6. paid.lastDecayDay[a] \in Nat
  BY <1>5, ConstantsAssumption DEF Citizen
<1>7. ProcessedFacts(paid, volunteerDays[w], paid.lastDecayDay[a], weeks.counted, e)
  BY <1>1, <1>5, <1>6, WeeksProcessedType
<1> HIDE DEF weeks
<1>8. Cardinality(weeks.counted) \in Nat
      /\ (weeks.counted # {} => Cardinality(weeks.counted) > 0)
  <2>1. IsFiniteSet(weeks.counted)
    BY <1>7 DEF ProcessedFacts
  <2>2. Cardinality(weeks.counted) \in Nat
    BY <2>1, FS_CardinalityType
  <2>3. weeks.counted # {} => Cardinality(weeks.counted) # 0
    BY <2>1, FS_EmptySet
  <2> QED BY <2>2, <2>3
<1> HIDE DEF e
<1>9. /\ e \in Citizen
      /\ e.isCitizen = c.isCitizen
      /\ e.lockedKWR = c.lockedKWR + lock
      /\ e.volunteerWeeks = c.volunteerWeeks + Cardinality(weeks.counted)
  BY <1>2, <1>5, <1>7 DEF DecayedFacts, ProcessedFacts, SameMembership
<1>10. \A b \in Axis \ {a, "CAPITAL"} : e.baseHonor[b] = c.baseHonor[b]
  BY <1>2, <1>5, <1>7 DEF DecayedFacts, ProcessedFacts
<1>11. \A b \in Axis : c.baseHonor[b] \in Nat
  BY ConstantsAssumption DEF Citizen, Uint
<1>12. ASSUME a # "CAPITAL"
       PROVE  \/ e.baseHonor["CAPITAL"] <= c.baseHonor["CAPITAL"]
              \/ e.volunteerWeeks > c.volunteerWeeks
  <2>1. CASE weeks.counted = {}
    <3>1. e.baseHonor["CAPITAL"] = paid.baseHonor["CAPITAL"]
      BY <1>7, <2>1 DEF ProcessedFacts
    <3>2. paid.baseHonor["CAPITAL"] = m.baseHonor["CAPITAL"]
      BY <1>5, <1>12 DEF Axis
    <3>3. m.baseHonor["CAPITAL"] = c.baseHonor["CAPITAL"]
      BY <1>2, <1>12 DEF DecayedFacts, Axis
    <3>4. c.baseHonor["CAPITAL"] \in Nat
      BY <1>11 DEF Axis
    <3> QED BY <3>1, <3>2, <3>3, <3>4
  <2>2. CASE weeks.counted # {}
    <3>1. c.volunteerWeeks \in Nat
      BY ConstantsAssumption DEF Citizen
    <3> QED BY <1>8, <1>9, <2>2, <3>1
  <2> QED BY <2>1, <2>2
<1>13. CreditedFacts(c, a, lock, e)
  BY <1>9, <1>10, <1>11, <1>12 DEF CreditedFacts
<1> QED BY <1>1, <1>13

-----------------------------------------------------------------------------
(* The inductive invariant. *)

\* CITIZENS.remove leaves nothing: who is no citizen has no honor and no lock.
AbsentIsEmpty == \A w \in Worker : ~ citizens[w].isCitizen => citizens[w] = NoCitizen

IInv == TypeOK /\ AbsentIsEmpty

\* An address without an entry reads as a well typed record of no citizen.
LEMMA NoCitizenType == NoCitizen \in Citizen /\ ~ NoCitizen.isCitizen /\ NoCitizen.lockedKWR = 0
  BY ConstantsAssumption DEF NoCitizen, Citizen, Uint

\* A joining citizen starts with the initial honor and no lock.
LEMMA JoinedType ==
    ASSUME NEW day \in Nat
    PROVE  /\ Joined(NoCitizen, day) \in Citizen
           /\ Joined(NoCitizen, day).isCitizen
           /\ Joined(NoCitizen, day).lockedKWR = 0
<1>1. day \div DAYS_PER_WEEK \in Nat
  BY ConstantsAssumption
<1>2. INITIAL_CAPITAL_HONOR \in Uint /\ BASIS_POINTS \in Uint
      /\ DEFAULT_SABBATH_OFFSET \in 0..(DAYS_PER_WEEK - 1) /\ BASE_DECAY_BP \in 0..BASIS_POINTS
  BY ConstantsAssumption DEF Uint
<1>3. NoCitizen \in Citizen /\ NoCitizen.lockedKWR = 0
  BY NoCitizenType
<1> HIDE DEF NoCitizen
<1> QED BY <1>1, <1>2, <1>3 DEF Joined, Citizen

\* A citizen who moves the sabbath is the same citizen with the same lock.
LEMMA SabbathType ==
    ASSUME NEW c \in Citizen, NEW offset \in 0..(DAYS_PER_WEEK - 1),
           NEW d, d = [c EXCEPT !.sabbathOffset = offset]
    PROVE  /\ d \in Citizen
           /\ d.isCitizen = c.isCitizen /\ d.lockedKWR = c.lockedKWR
           /\ d.baseHonor = c.baseHonor /\ d.volunteerWeeks = c.volunteerWeeks
<1>1. d.sabbathOffset = offset
  BY DEF Citizen
<1> QED BY <1>1 DEF Citizen

\* Messages are well typed.
LEMMA CallTypes ==
    /\ GenesisDay \in Nat /\ MaxDay \in Nat /\ GenesisDay <= MaxDay
    /\ FirstAttester \in Key /\ KWR \in Denom
    /\ \A call \in Contributions : /\ call.worker \in Worker
                                   /\ \A d \in Denom : call.funds[d] \in Nat
    /\ \A call \in HonorCalls : /\ call.worker \in Worker /\ call.id \in Id
                                /\ call.axis \in Axis /\ call.honorDelta \in Nat
    /\ \A call \in DayCalls : /\ call.worker \in Worker /\ call.id \in Id /\ call.day \in Nat
    /\ \A coins \in Gifts : \A d \in Denom : coins[d] \in Nat
<1>1. Uint \subseteq Nat
  BY ConstantsAssumption DEF Uint
<1>2. \A call \in Contributions : call.worker \in Worker /\ call.funds \in [Denom -> Uint]
  BY CallsAssumption
<1>3. \A coins \in Gifts : coins \in [Denom -> Uint]
  BY CallsAssumption
<1>4. \A call \in HonorCalls : /\ call.worker \in Worker /\ call.id \in Id
                               /\ call.axis \in Axis /\ call.honorDelta \in Uint
  BY CallsAssumption
<1> QED BY <1>1, <1>2, <1>3, <1>4, CallsAssumption

\* What a contribution leaves: its worker credited with the kWR that came along.
LEMMA Contributed ==
    ASSUME TypeOK, NEW call \in Contributions, ContributeCapital(call)
    PROVE  LET w == call.worker  n == call.funds[KWR]
           IN  /\ w \in Worker /\ n \in Nat /\ n > 0
               /\ citizens[w] \in Citizen /\ citizens[w].isCitizen
               /\ \E e : /\ CreditedFacts(citizens[w], "CAPITAL", n, e)
                         /\ citizens' = [citizens EXCEPT ![w] = e]
<1> DEFINE w == call.worker
           n == call.funds[KWR]
           s == Credited(w, "CAPITAL", n, n)
<1>1. w \in Worker /\ n \in Nat /\ "CAPITAL" \in Axis
  BY CallTypes DEF Axis
<1>2. citizens[w] \in Citizen /\ today \in Nat
  BY <1>1, CallTypes DEF TypeOK
<1>3. /\ n > 0 /\ citizens[w].isCitizen /\ s.ok
      /\ citizens' = [citizens EXCEPT ![w] = s.citizen]
  BY DEF ContributeCapital
<1> HIDE DEF n
<1>4. CreditedFacts(citizens[w], "CAPITAL", n, s.citizen)
  BY <1>1, <1>2, <1>3, CreditedType
<1> QED BY <1>1, <1>2, <1>3, <1>4 DEF n

\* What an attestation of honor leaves: its worker credited on its axis, no lock.
LEMMA Honored ==
    ASSUME TypeOK, NEW sender, NEW call \in HonorCalls, AttestHonor(sender, call)
    PROVE  LET w == call.worker
           IN  /\ w \in Worker /\ call.axis # "CAPITAL" /\ call.id \in Id
               /\ citizens[w] \in Citizen /\ citizens[w].isCitizen
               /\ \E e : /\ CreditedFacts(citizens[w], call.axis, 0, e)
                         /\ citizens' = [citizens EXCEPT ![w] = e]
<1> DEFINE w == call.worker
           s == Credited(w, call.axis, call.honorDelta, 0)
<1>1. /\ w \in Worker /\ call.axis \in Axis /\ call.honorDelta \in Nat /\ call.id \in Id
      /\ 0 \in Nat
  BY CallTypes
<1>2. citizens[w] \in Citizen /\ today \in Nat
  BY <1>1, CallTypes DEF TypeOK
<1>3. /\ call.axis # "CAPITAL" /\ citizens[w].isCitizen /\ s.ok
      /\ citizens' = [citizens EXCEPT ![w] = s.citizen]
  BY DEF AttestHonor
<1>4. CreditedFacts(citizens[w], call.axis, 0, s.citizen)
  BY <1>1, <1>2, <1>3, CreditedType
<1> QED BY <1>1, <1>2, <1>3, <1>4

\* The contract is instantiated with no citizen.
LEMMA InvInit == Init => IInv
<1> SUFFICES ASSUME Init PROVE IInv
  OBVIOUS
<1>1. citizens \in [Worker -> Citizen]
  BY NoCitizenType DEF Init
<1>2. AbsentIsEmpty
  BY DEF Init, AbsentIsEmpty
<1>3. held \in [Denom -> Int] /\ gifted \in [Denom -> Nat]
  BY DEF Init
<1> QED BY <1>1, <1>2, <1>3, CallTypes DEF Init, TypeOK, IInv

\* The invariant after a step that gives one worker another entry of CITIZENS:
\* a citizen, or no entry at all.
LEMMA EntryReplaced ==
    ASSUME IInv, NEW w \in Worker, NEW e \in Citizen, e.isCitizen \/ e = NoCitizen,
           citizens' = [citizens EXCEPT ![w] = e]
    PROVE  citizens' \in [Worker -> Citizen] /\ AbsentIsEmpty'
  BY DEF IInv, TypeOK, AbsentIsEmpty

\* Every message, from a state of the invariant, leaves one; one step per message.
LEMMA InvStep == IInv /\ [Next]_vars => IInv'
<1> SUFFICES ASSUME IInv, [Next]_vars PROVE IInv'
  OBVIOUS
<1>0. TypeOK /\ AbsentIsEmpty
  BY DEF IInv
<1>1. CASE NextDay
  <2>1. TypeOK'
    BY <1>0, <1>1, CallTypes DEF NextDay, contract, bank, TypeOK
  <2> QED BY <1>0, <1>1, <2>1 DEF NextDay, contract, AbsentIsEmpty, IInv
<1>2. ASSUME NEW coins \in Gifts, Gift(coins) PROVE IInv'
  <2>1. held' \in [Denom -> Int] /\ gifted' \in [Denom -> Nat]
    BY <1>0, <1>2, CallTypes DEF Gift, TypeOK
  <2>2. TypeOK'
    BY <1>0, <1>2, <2>1 DEF Gift, contract, TypeOK
  <2> QED BY <1>0, <1>2, <2>2 DEF Gift, contract, AbsentIsEmpty, IInv
<1>3. ASSUME NEW sender, NEW w \in Worker, AttestPoP(sender, w) PROVE IInv'
  BY <1>0, <1>3 DEF AttestPoP, bank, TypeOK, AbsentIsEmpty, IInv
<1>4. ASSUME NEW w \in Worker, Join(w) PROVE IInv'
  <2>1. today \in Nat
    BY <1>0, CallTypes DEF TypeOK
  <2>2. Joined(NoCitizen, today) \in Citizen /\ Joined(NoCitizen, today).isCitizen
    BY <2>1, JoinedType
  <2>3. citizens' \in [Worker -> Citizen] /\ AbsentIsEmpty'
    BY <1>4, <2>2, EntryReplaced DEF Join
  <2> QED BY <1>0, <1>4, <2>3 DEF Join, bank, TypeOK, IInv
<1>5. ASSUME NEW w \in Worker, NEW offset \in 0..DAYS_PER_WEEK, SetSabbathDay(w, offset)
      PROVE IInv'
  <2>1. offset \in 0..(DAYS_PER_WEEK - 1) /\ citizens[w] \in Citizen
    BY <1>0, <1>5, ConstantsAssumption DEF SetSabbathDay, TypeOK
  <2> DEFINE e == [citizens[w] EXCEPT !.sabbathOffset = offset]
  <2>2. e \in Citizen /\ e.isCitizen
    BY <1>5, <2>1, SabbathType DEF SetSabbathDay
  <2>3. citizens' = [citizens EXCEPT ![w] = e]
    BY <1>5 DEF SetSabbathDay
  <2> HIDE DEF e
  <2>4. citizens' \in [Worker -> Citizen] /\ AbsentIsEmpty'
    BY <2>2, <2>3, EntryReplaced
  <2> QED BY <1>0, <1>5, <2>4 DEF SetSabbathDay, bank, TypeOK, IInv
<1>6. ASSUME NEW w \in Worker, Ragequit(w) PROVE IInv'
  <2>1. citizens' \in [Worker -> Citizen] /\ AbsentIsEmpty'
    BY <1>6, NoCitizenType, EntryReplaced DEF Ragequit
  <2>2. citizens[w].lockedKWR \in Nat
    BY <1>0, ConstantsAssumption DEF TypeOK, Citizen, Uint
  <2>3. paidOut' \in [Worker -> Nat] /\ held' \in [Denom -> Int]
    BY <1>0, <1>6, <2>2, CallTypes DEF Ragequit, TypeOK
  <2>4. hasBadge' \in [Worker -> SUBSET Badge]
    BY <1>0, <1>6 DEF Ragequit, TypeOK
  <2> QED BY <1>0, <1>6, <2>1, <2>3, <2>4 DEF Ragequit, TypeOK, IInv
<1>7. ASSUME NEW call \in Contributions, ContributeCapital(call) PROVE IInv'
  <2>1. PICK e : /\ CreditedFacts(citizens[call.worker], "CAPITAL", call.funds[KWR], e)
                 /\ citizens' = [citizens EXCEPT ![call.worker] = e]
    BY <1>0, <1>7, Contributed
  <2>2. /\ call.worker \in Worker /\ call.funds[KWR] \in Nat
        /\ citizens[call.worker].isCitizen
    BY <1>0, <1>7, Contributed
  <2>3. e \in Citizen /\ e.isCitizen
    BY <2>1, <2>2 DEF CreditedFacts
  <2>4. citizens' \in [Worker -> Citizen] /\ AbsentIsEmpty'
    BY <2>1, <2>2, <2>3, EntryReplaced
  <2>5. held' \in [Denom -> Int]
    BY <1>0, <1>7, CallTypes DEF ContributeCapital, TypeOK
  <2>6. contributed' \in [Worker -> Nat]
    BY <1>0, <1>7, <2>2 DEF ContributeCapital, TypeOK
  <2> QED BY <1>0, <1>7, <2>4, <2>5, <2>6 DEF ContributeCapital, TypeOK, IInv
<1>8. ASSUME NEW sender, NEW call \in HonorCalls, AttestHonor(sender, call) PROVE IInv'
  <2>1. PICK e : /\ CreditedFacts(citizens[call.worker], call.axis, 0, e)
                 /\ citizens' = [citizens EXCEPT ![call.worker] = e]
    BY <1>0, <1>8, Honored
  <2>2. call.worker \in Worker /\ call.id \in Id /\ citizens[call.worker].isCitizen
    BY <1>0, <1>8, Honored
  <2>3. e \in Citizen /\ e.isCitizen
    BY <2>1, <2>2 DEF CreditedFacts
  <2>4. citizens' \in [Worker -> Citizen] /\ AbsentIsEmpty'
    BY <2>1, <2>2, <2>3, EntryReplaced
  <2> QED BY <1>0, <1>8, <2>2, <2>4 DEF AttestHonor, bank, TypeOK, IInv
<1>9. ASSUME NEW sender, NEW call \in DayCalls, AttestDay(sender, call) PROVE IInv'
  <2>1. call.worker \in Worker /\ call.id \in Id /\ call.day \in Nat
    BY CallTypes
  <2>2. activeDays' \in [Worker -> SUBSET Nat] /\ volunteerDays' \in [Worker -> SUBSET Nat]
    BY <1>0, <1>9, <2>1 DEF AttestDay, TypeOK
  <2> QED BY <1>0, <1>9, <2>1, <2>2 DEF AttestDay, bank, TypeOK, AbsentIsEmpty, IInv
<1>10. ASSUME NEW sender, NEW w \in Worker, NEW badge \in Badge,
              GrantBadge(sender, w, badge) \/ RevokeBadge(sender, w, badge)
       PROVE IInv'
  <2>1. hasBadge' \in [Worker -> SUBSET Badge]
    BY <1>0, <1>10 DEF GrantBadge, RevokeBadge, TypeOK
  <2> QED BY <1>0, <1>10, <2>1 DEF GrantBadge, RevokeBadge, bank, TypeOK, AbsentIsEmpty, IInv
<1>11. ASSUME NEW sender, NEW key \in Key, RotateAttester(sender, key) PROVE IInv'
  BY <1>0, <1>11 DEF RotateAttester, bank, TypeOK, AbsentIsEmpty, IInv
<1>12. CASE UNCHANGED vars
  BY <1>0, <1>12 DEF vars, contract, bank, TypeOK, AbsentIsEmpty, IInv
<1> QED BY <1>1, <1>2, <1>3, <1>4, <1>5, <1>6, <1>7, <1>8, <1>9, <1>10, <1>11, <1>12 DEF Next

\* Every reachable state of the twin is well typed, and CITIZENS is empty where
\* nobody is a citizen.
LEMMA Inductive == Spec => []IInv
  BY InvInit, InvStep, PTL DEF Spec

\* Every reachable state is well typed: honor, locks, rates and clocks stay in
\* their ranges whatever is sent, because the arithmetic is checked (contract.rs).
THEOREM TwinTyped == Spec => []TypeOK
<1>1. IInv => TypeOK
  BY DEF IInv
<1> QED BY <1>1, Inductive, PTL

-----------------------------------------------------------------------------
(* Honor is credited once. *)

\* The numbers Earned compares.
LEMMA CitizenNumbers ==
    ASSUME TypeOK, NEW w \in Worker
    PROVE  /\ citizens[w].lockedKWR \in Nat /\ contributed[w] \in Nat
           /\ citizens[w].volunteerWeeks \in Nat
           /\ \A a \in Axis : citizens[w].baseHonor[a] \in Nat
  BY ConstantsAssumption DEF TypeOK, Citizen, Uint

\* What Earned says of one worker.
EarnedBy(w) ==
    LET c == citizens[w]  d == citizens'[w] IN
    /\ d.lockedKWR - c.lockedKWR = contributed'[w] - contributed[w]
    /\ \A a \in Axis \ {"CAPITAL"} :
          d.baseHonor[a] > c.baseHonor[a] => consumed' # consumed
    /\ d.baseHonor["CAPITAL"] > c.baseHonor["CAPITAL"]
          => contributed'[w] > contributed[w] \/ d.volunteerWeeks > c.volunteerWeeks

\* A worker whose entry and contributions stay as they are earns nothing.
LEMMA NothingEarned ==
    ASSUME TypeOK, NEW w \in Worker, citizens'[w] = citizens[w],
           contributed'[w] = contributed[w]
    PROVE  EarnedBy(w)
<1> DEFINE c == citizens[w]
<1>1. /\ c.lockedKWR \in Nat /\ contributed[w] \in Nat
      /\ \A a \in Axis : c.baseHonor[a] \in Nat
      /\ "CAPITAL" \in Axis
  BY CitizenNumbers DEF Axis
<1>2. /\ c.lockedKWR - c.lockedKWR = contributed[w] - contributed[w]
      /\ \A a \in Axis : ~ (c.baseHonor[a] > c.baseHonor[a])
  BY <1>1
<1> HIDE DEF c
<1>3. citizens'[w] = c /\ citizens[w] = c
  BY DEF c
<1> QED BY <1>1, <1>2, <1>3 DEF EarnedBy

\* Every message raises honor and locks only for what was paid or attested.
LEMMA EarnedStep == IInv /\ [Next]_vars => Earned
<1> SUFFICES ASSUME IInv, [Next]_vars,
                    NEW w \in Worker, citizens[w].isCitizen, citizens'[w].isCitizen
             PROVE  EarnedBy(w)
  BY DEF Earned, EarnedBy
<1>0. TypeOK /\ AbsentIsEmpty
  BY DEF IInv
<1>1. CASE citizens'[w] = citizens[w] /\ contributed'[w] = contributed[w]
  BY <1>0, <1>1, NothingEarned
<1>2. ASSUME NEW v \in Worker, Join(v) PROVE EarnedBy(w)
  <2>1. citizens'[w] = citizens[w] /\ contributed' = contributed
    BY <1>0, <1>2 DEF Join, bank, TypeOK
  <2> QED BY <1>1, <2>1
<1>3. ASSUME NEW v \in Worker, NEW offset \in 0..DAYS_PER_WEEK, SetSabbathDay(v, offset)
      PROVE EarnedBy(w)
  <2>1. CASE v = w
    <3> DEFINE d == [citizens[w] EXCEPT !.sabbathOffset = offset]
    <3>1. offset \in 0..(DAYS_PER_WEEK - 1) /\ citizens[w] \in Citizen
      BY <1>0, <1>3, ConstantsAssumption DEF SetSabbathDay, TypeOK
    <3>2. /\ d.lockedKWR = citizens[w].lockedKWR
          /\ d.baseHonor = citizens[w].baseHonor
      BY <3>1, SabbathType
    <3>3. citizens'[w] = d /\ contributed' = contributed
      BY <1>0, <1>3, <2>1 DEF SetSabbathDay, bank, TypeOK
    <3> HIDE DEF d
    <3>4. /\ citizens[w].lockedKWR \in Nat /\ contributed[w] \in Nat
          /\ \A a \in Axis : citizens[w].baseHonor[a] \in Nat
          /\ "CAPITAL" \in Axis
      BY <1>0, CitizenNumbers DEF Axis
    <3> QED BY <3>2, <3>3, <3>4 DEF EarnedBy
  <2>2. CASE v # w
    <3>1. citizens'[w] = citizens[w] /\ contributed' = contributed
      BY <1>0, <1>3, <2>2 DEF SetSabbathDay, bank, TypeOK
    <3> QED BY <1>1, <3>1
  <2> QED BY <2>1, <2>2
<1>4. ASSUME NEW v \in Worker, Ragequit(v) PROVE EarnedBy(w)
  <2>1. v # w
    BY <1>0, <1>4, NoCitizenType DEF Ragequit, TypeOK
  <2>2. citizens'[w] = citizens[w] /\ contributed' = contributed
    BY <1>0, <1>4, <2>1 DEF Ragequit, TypeOK
  <2> QED BY <1>1, <2>2
<1>5. ASSUME NEW call \in Contributions, ContributeCapital(call) PROVE EarnedBy(w)
  <2> DEFINE v == call.worker
             n == call.funds[KWR]
  <2>1. PICK e : /\ CreditedFacts(citizens[v], "CAPITAL", n, e)
                 /\ citizens' = [citizens EXCEPT ![v] = e]
    BY <1>0, <1>5, Contributed
  <2>2. v \in Worker /\ n \in Nat /\ n > 0
    BY <1>0, <1>5, Contributed
  <2>3. contributed' = [contributed EXCEPT ![v] = @ + n]
    BY <1>5 DEF ContributeCapital
  <2> HIDE DEF n, v
  <2>4. CASE v = w
    <3>1. citizens'[w] = e /\ contributed'[w] = contributed[w] + n
      BY <1>0, <2>1, <2>3, <2>4 DEF TypeOK
    <3>2. /\ e \in Citizen /\ e.lockedKWR = citizens[w].lockedKWR + n
          /\ \A b \in Axis \ {"CAPITAL"} : e.baseHonor[b] <= citizens[w].baseHonor[b]
      BY <2>1, <2>4 DEF CreditedFacts
    <3>3. \A b \in Axis : e.baseHonor[b] \in Nat
      BY <3>2, ConstantsAssumption DEF Citizen, Uint
    <3>4. /\ citizens[w].lockedKWR \in Nat /\ contributed[w] \in Nat
          /\ \A a \in Axis : citizens[w].baseHonor[a] \in Nat
      BY <1>0, CitizenNumbers
    <3> QED BY <2>2, <3>1, <3>2, <3>3, <3>4 DEF EarnedBy
  <2>5. CASE v # w
    <3>1. citizens'[w] = citizens[w] /\ contributed'[w] = contributed[w]
      BY <1>0, <2>1, <2>2, <2>3, <2>5 DEF TypeOK
    <3> QED BY <1>1, <3>1
  <2> QED BY <2>4, <2>5
<1>6. ASSUME NEW sender, NEW call \in HonorCalls, AttestHonor(sender, call) PROVE EarnedBy(w)
  <2> DEFINE v == call.worker
             a == call.axis
  <2>1. PICK e : /\ CreditedFacts(citizens[v], a, 0, e)
                 /\ citizens' = [citizens EXCEPT ![v] = e]
    BY <1>0, <1>6, Honored
  <2>2. v \in Worker /\ a # "CAPITAL"
    BY <1>0, <1>6, Honored
  <2>3. consumed' # consumed /\ contributed' = contributed
    BY <1>6 DEF AttestHonor, Fresh, bank
  <2> HIDE DEF v, a
  <2>4. CASE v = w
    <3>1. citizens'[w] = e
      BY <1>0, <2>1, <2>4 DEF TypeOK
    <3>2. /\ e \in Citizen /\ e.lockedKWR = citizens[w].lockedKWR + 0
          /\ \/ e.baseHonor["CAPITAL"] <= citizens[w].baseHonor["CAPITAL"]
             \/ e.volunteerWeeks > citizens[w].volunteerWeeks
      BY <2>1, <2>2, <2>4 DEF CreditedFacts
    <3>3. e.baseHonor["CAPITAL"] \in Nat /\ citizens[w].baseHonor["CAPITAL"] \in Nat
      <4>1. "CAPITAL" \in Axis
        BY DEF Axis
      <4>2. e.baseHonor["CAPITAL"] \in Nat
        BY <3>2, <4>1, ConstantsAssumption DEF Citizen, Uint
      <4> QED BY <1>0, <4>1, <4>2, CitizenNumbers
    <3>4. citizens[w].lockedKWR \in Nat /\ contributed[w] \in Nat
      BY <1>0, CitizenNumbers
    <3> QED BY <2>3, <3>1, <3>2, <3>3, <3>4 DEF EarnedBy
  <2>5. CASE v # w
    <3>1. citizens'[w] = citizens[w]
      BY <1>0, <2>1, <2>2, <2>5 DEF TypeOK
    <3> QED BY <1>1, <2>3, <3>1
  <2> QED BY <2>4, <2>5
<1>7. ASSUME citizens' = citizens /\ contributed' = contributed PROVE EarnedBy(w)
  BY <1>1, <1>7
<1>8. CASE NextDay
  BY <1>7, <1>8 DEF NextDay, contract, bank
<1>9. ASSUME NEW coins \in Gifts, Gift(coins) PROVE EarnedBy(w)
  BY <1>7, <1>9 DEF Gift, contract
<1>10. ASSUME NEW sender, NEW v \in Worker, AttestPoP(sender, v) PROVE EarnedBy(w)
  BY <1>7, <1>10 DEF AttestPoP, bank
<1>11. ASSUME NEW sender, NEW call \in DayCalls, AttestDay(sender, call) PROVE EarnedBy(w)
  BY <1>7, <1>11 DEF AttestDay, bank
<1>12. ASSUME NEW sender, NEW v \in Worker, NEW badge \in Badge,
              GrantBadge(sender, v, badge) \/ RevokeBadge(sender, v, badge)
       PROVE EarnedBy(w)
  BY <1>7, <1>12 DEF GrantBadge, RevokeBadge, bank
<1>13. ASSUME NEW sender, NEW key \in Key, RotateAttester(sender, key) PROVE EarnedBy(w)
  BY <1>7, <1>13 DEF RotateAttester, bank
<1>14. CASE UNCHANGED vars
  BY <1>7, <1>14 DEF vars, contract, bank
<1> QED BY <1>2, <1>3, <1>4, <1>5, <1>6, <1>8, <1>9, <1>10, <1>11, <1>12, <1>13, <1>14 DEF Next

\* No honor and no lock out of nothing, for any messages and any identifiers: the
\* map shared by job_ids and nonces is enough to credit an attestation once.
THEOREM TwinCreditsOnce == Spec => HonorIsEarned
  BY Inductive, EarnedStep, PTL DEF Spec, HonorIsEarned

-----------------------------------------------------------------------------
(* The twin implements the civic ledger. *)

Members == {w \in Worker : citizens[w].isCitizen}
Claims == [w \in Worker |-> citizens[w].lockedKWR]

\* A proof of personhood and a contribution spend no token.
LEMMA SpendsNothing ==
    ASSUME consumed' = consumed
    PROVE  {} \in {{}} /\ Civic!Spend({})
  BY DEF Civic!Spend

\* The check and the mark of an identifier spend it once in the ledger.
LEMMA SpentOnce ==
    ASSUME NEW id \in Id, Fresh(id), consumed' = consumed \cup {id}
    PROVE  {id} \in {{i} : i \in Id} /\ Civic!Spend({id})
  BY DEF Fresh, Civic!Spend

\* Every message is a step of the ledger or leaves the ledger unchanged.
LEMMA CivicStep == IInv /\ [Next]_vars => [Civic!Next]_(Civic!ledger)
<1> SUFFICES ASSUME IInv, [Next]_vars PROVE Civic!Next \/ UNCHANGED Civic!ledger
  OBVIOUS
<1>0. TypeOK /\ AbsentIsEmpty
  BY DEF IInv
<1>1. ASSUME UNCHANGED <<attestedPoP, citizens, contributed, paidOut, consumed>>
      PROVE  UNCHANGED Civic!ledger
  BY <1>1 DEF Civic!ledger
<1>2. ASSUME NEW sender, NEW v \in Worker, AttestPoP(sender, v) PROVE Civic!Next
  <2>1. {} \in {{}} /\ Civic!Spend({})
    BY <1>2, SpendsNothing DEF AttestPoP
  <2>2. Civic!Verify(v, {})
    BY <1>2, <2>1 DEF AttestPoP, bank, Civic!Verify
  <2> QED BY <2>1, <2>2 DEF Civic!Next
<1>3. ASSUME NEW v \in Worker, Join(v) PROVE Civic!Next
  <2>1. today \in Nat
    BY <1>0, CallTypes DEF TypeOK
  <2>2. Joined(NoCitizen, today).isCitizen /\ Joined(NoCitizen, today).lockedKWR = 0
    BY <2>1, JoinedType
  <2>3. citizens[v].lockedKWR = 0
    BY <1>0, <1>3, NoCitizenType DEF Join, AbsentIsEmpty
  <2>4. Members' = Members \cup {v} /\ v \notin Members
    BY <1>0, <1>3, <2>2 DEF Join, Members, TypeOK
  <2>5. Claims' = Claims
    BY <1>0, <1>3, <2>2, <2>3 DEF Join, Claims, TypeOK
  <2>6. Civic!Enter(v)
    BY <1>3, <2>4, <2>5 DEF Join, bank, Civic!Enter, Members, Claims
  <2> QED BY <2>6 DEF Civic!Next
<1>4. ASSUME NEW v \in Worker, NEW offset \in 0..DAYS_PER_WEEK, SetSabbathDay(v, offset)
      PROVE UNCHANGED Civic!ledger
  <2> DEFINE d == [citizens[v] EXCEPT !.sabbathOffset = offset]
  <2>1. offset \in 0..(DAYS_PER_WEEK - 1) /\ citizens[v] \in Citizen
    BY <1>0, <1>4, ConstantsAssumption DEF SetSabbathDay, TypeOK
  <2>2. d.isCitizen = citizens[v].isCitizen /\ d.lockedKWR = citizens[v].lockedKWR
    BY <2>1, SabbathType
  <2>3. citizens' = [citizens EXCEPT ![v] = d]
    BY <1>4 DEF SetSabbathDay
  <2> HIDE DEF d
  <2>4. Members' = Members /\ Claims' = Claims
    BY <1>0, <2>2, <2>3 DEF Members, Claims, TypeOK
  <2> QED BY <1>4, <2>4 DEF SetSabbathDay, bank, Civic!ledger, Members, Claims
<1>5. ASSUME NEW v \in Worker, Ragequit(v) PROVE Civic!Next
  <2>1. v \in Members /\ Members' = Members \ {v}
    BY <1>0, <1>5, NoCitizenType DEF Ragequit, Members, TypeOK
  <2>2. Claims' = [Claims EXCEPT ![v] = 0]
    BY <1>0, <1>5, NoCitizenType DEF Ragequit, Claims, TypeOK
  <2>3. paidOut' = [paidOut EXCEPT ![v] = @ + Claims[v]]
    BY <1>5 DEF Ragequit, Claims
  <2>4. Civic!Leave(v)
    BY <1>5, <2>1, <2>2, <2>3 DEF Ragequit, Civic!Leave, Members, Claims
  <2> QED BY <2>4 DEF Civic!Next
<1>6. ASSUME NEW call \in Contributions, ContributeCapital(call) PROVE Civic!Next
  <2> DEFINE w == call.worker
             n == call.funds[KWR]
  <2>1. PICK e : /\ CreditedFacts(citizens[w], "CAPITAL", n, e)
                 /\ citizens' = [citizens EXCEPT ![w] = e]
    BY <1>0, <1>6, Contributed
  <2>2. w \in Worker /\ n > 0 /\ citizens[w].isCitizen
    BY <1>0, <1>6, Contributed
  <2>3. {} \in {{}} /\ Civic!Spend({})
    BY <1>6, SpendsNothing DEF ContributeCapital
  <2>4. n \in {m.funds[KWR] : m \in Contributions}
    OBVIOUS
  <2>5. /\ contributed' = [contributed EXCEPT ![w] = @ + n]
        /\ UNCHANGED <<attestedPoP, paidOut>>
    BY <1>6 DEF ContributeCapital
  <2> HIDE DEF w, n
  <2>6. e.isCitizen /\ e.lockedKWR = citizens[w].lockedKWR + n
    BY <2>1, <2>2 DEF CreditedFacts
  <2>7. w \in Members /\ Members' = Members
    BY <1>0, <2>1, <2>2, <2>6 DEF Members, TypeOK
  <2>8. Claims' = [Claims EXCEPT ![w] = @ + n]
    BY <1>0, <2>1, <2>2, <2>6 DEF Claims, TypeOK
  <2>9. Civic!Deposit(w, n, {})
    BY <2>2, <2>3, <2>5, <2>7, <2>8 DEF Civic!Deposit, Members, Claims
  <2> QED BY <2>2, <2>3, <2>4, <2>9 DEF Civic!Next
<1>7. ASSUME NEW sender, NEW call \in HonorCalls, AttestHonor(sender, call) PROVE Civic!Next
  <2> DEFINE w == call.worker
  <2>1. PICK e : /\ CreditedFacts(citizens[w], call.axis, 0, e)
                 /\ citizens' = [citizens EXCEPT ![w] = e]
    BY <1>0, <1>7, Honored
  <2>2. w \in Worker /\ citizens[w].isCitizen /\ call.id \in Id
    BY <1>0, <1>7, Honored
  <2>3. {call.id} \in {{i} : i \in Id} /\ Civic!Spend({call.id})
    BY <1>7, <2>2, SpentOnce DEF AttestHonor
  <2>4. UNCHANGED <<attestedPoP, contributed, paidOut>>
    BY <1>7 DEF AttestHonor, bank
  <2> HIDE DEF w
  <2>5. e.isCitizen /\ e.lockedKWR = citizens[w].lockedKWR
    <3>1. citizens[w].lockedKWR \in Nat
      BY <1>0, <2>2, CitizenNumbers
    <3> QED BY <2>1, <2>2, <3>1 DEF CreditedFacts
  <2>6. w \in Members /\ Members' = Members /\ Claims' = Claims
    BY <1>0, <2>1, <2>2, <2>5 DEF Members, Claims, TypeOK
  <2>7. Civic!Credit(w, {call.id})
    BY <2>3, <2>4, <2>6 DEF Civic!Credit, Members, Claims
  <2> QED BY <2>2, <2>3, <2>7 DEF Civic!Next
<1>8. ASSUME NEW sender, NEW call \in DayCalls, AttestDay(sender, call) PROVE Civic!Next
  <2>1. call.worker \in Worker /\ call.id \in Id
    BY CallTypes
  <2>2. {call.id} \in {{i} : i \in Id} /\ Civic!Spend({call.id})
    BY <1>8, <2>1, SpentOnce DEF AttestDay
  <2>3. Civic!Credit(call.worker, {call.id})
    BY <1>8, <2>1, <2>2 DEF AttestDay, bank, Civic!Credit
  <2> QED BY <2>1, <2>2, <2>3 DEF Civic!Next
<1>9. CASE NextDay \/ UNCHANGED vars
  BY <1>1, <1>9 DEF NextDay, vars, contract, bank
<1>10. ASSUME NEW coins \in Gifts, Gift(coins) PROVE UNCHANGED Civic!ledger
  BY <1>1, <1>10 DEF Gift, contract
<1>11. ASSUME NEW sender, NEW v \in Worker, NEW badge \in Badge,
              GrantBadge(sender, v, badge) \/ RevokeBadge(sender, v, badge)
       PROVE UNCHANGED Civic!ledger
  BY <1>1, <1>11 DEF GrantBadge, RevokeBadge, bank
<1>12. ASSUME NEW sender, NEW key \in Key, RotateAttester(sender, key)
       PROVE UNCHANGED Civic!ledger
  BY <1>1, <1>12 DEF RotateAttester, bank
<1> QED BY <1>2, <1>3, <1>4, <1>5, <1>6, <1>7, <1>8, <1>9, <1>10, <1>11, <1>12 DEF Next

\* Refinement: every behaviour of the twin is one of the same ledger the EVM
\* contract implements, whatever messages are sent.
THEOREM TwinImplementsLedger == Spec => CivicSpec
<1>1. Init => Civic!Init
  BY DEF Init, Civic!Init, NoCitizen
<1>2. IInv /\ [Next]_vars => [Civic!Next]_(Civic!ledger)
  BY CivicStep
<1> QED BY <1>1, <1>2, Inductive, PTL DEF Spec, CivicSpec, Civic!Spec

-----------------------------------------------------------------------------
(* The contract is backed. *)

\* The kWR locked by the citizens of CITIZENS c, as LocksAreBacked adds it up.
LockedBy(c) == MapThenSumSet(LAMBDA w : c[w].lockedKWR, Worker)
LocksOf(c) == [w \in Worker |-> c[w].lockedKWR]

\* The sum is the fold of the locks, seen as a function.
LEMMA LockedIsSum ==
    ASSUME NEW c \in [Worker -> Citizen]
    PROVE  /\ LocksOf(c) \in [Worker -> Int]
           /\ \E it : IsSum(it, LocksOf(c), Worker) /\ LockedBy(c) = it[Worker]
<1> DEFINE Fold(it) == it = [s \in SUBSET Worker |->
                                IF s = {} THEN 0
                                ELSE c[Chosen(s)].lockedKWR + it[s \ {Chosen(s)}]]
<1>1. LocksOf(c) \in [Worker -> Int]
  BY ConstantsAssumption DEF LocksOf, Citizen, Uint
<1>2. IsFiniteSet(Worker)
  BY CallsAssumption
<1>3. LockedBy(c) = (CHOOSE it : Fold(it))[Worker]
  BY Zenon DEF LockedBy, MapThenSumSet, MapThenFoldSet, Chosen
<1>4. ASSUME NEW s \in SUBSET Worker, s # {} PROVE Chosen(s) \in Worker
  BY <1>2, <1>4, Sizes
<1>5. ASSUME NEW it PROVE Fold(it) <=> IsSum(it, LocksOf(c), Worker)
  BY <1>4 DEF IsSum, Body, LocksOf
<1> HIDE DEF Fold
<1>6. PICK sums : IsSum(sums, LocksOf(c), Worker)
  BY <1>1, <1>2, SumExists
<1>7. Fold(CHOOSE it : Fold(it))
  BY <1>5, <1>6
<1> QED BY <1>1, <1>3, <1>5, <1>7

\* One entry of CITIZENS is replaced: the sum moves by the difference of its locks.
LEMMA LockedUpdate ==
    ASSUME NEW c \in [Worker -> Citizen], NEW w \in Worker, NEW e \in Citizen,
           NEW d, d = [c EXCEPT ![w] = e]
    PROVE  /\ LockedBy(c) \in Int
           /\ LockedBy(d) = LockedBy(c) + (e.lockedKWR - c[w].lockedKWR)
<1>1. d \in [Worker -> Citizen] /\ d[w] = e /\ \A v \in Worker \ {w} : d[v] = c[v]
  OBVIOUS
<1>2. IsFiniteSet(Worker)
  BY CallsAssumption
<1>3. LocksOf(c) \in [Worker -> Int] /\ LocksOf(d) \in [Worker -> Int]
  BY <1>1, LockedIsSum
<1>4. PICK itc : IsSum(itc, LocksOf(c), Worker) /\ LockedBy(c) = itc[Worker]
  BY LockedIsSum
<1>5. PICK itd : IsSum(itd, LocksOf(d), Worker) /\ LockedBy(d) = itd[Worker]
  BY <1>1, LockedIsSum
<1>6. /\ \A v \in Worker \ {w} : LocksOf(d)[v] = LocksOf(c)[v]
      /\ LocksOf(d)[w] = e.lockedKWR
      /\ LocksOf(c)[w] = c[w].lockedKWR
  BY <1>1 DEF LocksOf
<1>7. itd[Worker] = itc[Worker] + (LocksOf(d)[w] - LocksOf(c)[w])
  <2> DEFINE f == LocksOf(c)
             g == LocksOf(d)
  <2>1. DifferAt(w, f, g, Worker)
    BY <1>3, <1>6 DEF DifferAt
  <2>2. IsFiniteSet(Worker) /\ IsSum(itc, f, Worker) /\ IsSum(itd, g, Worker)
    BY <1>2, <1>4, <1>5
  <2> HIDE DEF f, g
  <2>3. itd[Worker] = itc[Worker] + (g[w] - f[w])
    BY <2>1, <2>2, SumUpdate
  <2> QED BY <2>3 DEF f, g
<1>8. itc[Worker] \in Int
  BY <1>2, <1>3, <1>4, SumType
<1> QED BY <1>4, <1>5, <1>6, <1>7, <1>8

\* LocksAreBacked in terms of the sum.
Backed == held[KWR] = gifted[KWR] + LockedBy(citizens)

LEMMA BackedIs == LocksAreBacked <=> Backed
  BY Zenon DEF LocksAreBacked, Backed, LockedBy

\* No citizen, no lock, no coin.
LEMMA BackedInit == Init => Backed
<1> SUFFICES ASSUME Init PROVE Backed
  OBVIOUS
<1>1. citizens \in [Worker -> Citizen] /\ IsFiniteSet(Worker) /\ KWR \in Denom
  BY NoCitizenType, CallsAssumption DEF Init
<1>2. \A w \in Worker : LocksOf(citizens)[w] = 0
  BY NoCitizenType DEF Init, LocksOf
<1>3. LockedBy(citizens) = 0
  BY <1>1, <1>2, LockedIsSum, SumOfZeros
<1> QED BY <1>1, <1>3 DEF Init, Backed

\* Every message moves coins and locks by the same amount.
LEMMA BackedStep == IInv /\ Backed /\ [Next]_vars => Backed'
<1> SUFFICES ASSUME IInv, Backed, [Next]_vars PROVE Backed'
  OBVIOUS
<1>0. TypeOK /\ AbsentIsEmpty
  BY DEF IInv
<1>1. /\ citizens \in [Worker -> Citizen] /\ held \in [Denom -> Int]
      /\ gifted \in [Denom -> Nat] /\ KWR \in Denom
  BY <1>0, CallTypes DEF TypeOK
<1>2. ASSUME NEW w \in Worker, NEW e \in Citizen,
             citizens' = [citizens EXCEPT ![w] = e], gifted' = gifted,
             held'[KWR] = held[KWR] + (e.lockedKWR - citizens[w].lockedKWR)
      PROVE  Backed'
  <2>1. /\ LockedBy(citizens) \in Int
        /\ LockedBy(citizens') = LockedBy(citizens) + (e.lockedKWR - citizens[w].lockedKWR)
    BY <1>1, <1>2, LockedUpdate
  <2>2. held[KWR] = gifted[KWR] + LockedBy(citizens)
    BY DEF Backed
  <2>3. e.lockedKWR \in Int /\ citizens[w].lockedKWR \in Int
        /\ held[KWR] \in Int /\ gifted[KWR] \in Int
    BY <1>1, ConstantsAssumption DEF Citizen, Uint
  <2>4. held'[KWR] = gifted'[KWR] + LockedBy(citizens')
    BY <1>2, <2>1, <2>2, <2>3
  <2> QED BY <2>4 DEF Backed
<1>3. ASSUME NEW w \in Worker, Join(w) PROVE Backed'
  <2>1. today \in Nat
    BY <1>0, CallTypes DEF TypeOK
  <2> DEFINE e == Joined(NoCitizen, today)
  <2>2. e \in Citizen /\ e.lockedKWR = 0
    BY <2>1, JoinedType
  <2>3. citizens[w].lockedKWR = 0
    BY <1>0, <1>3, NoCitizenType DEF Join, AbsentIsEmpty
  <2>4. citizens' = [citizens EXCEPT ![w] = e] /\ gifted' = gifted /\ held' = held
    BY <1>3 DEF Join, bank
  <2> HIDE DEF e
  <2>5. held'[KWR] = held[KWR] + (e.lockedKWR - citizens[w].lockedKWR)
    BY <1>1, <2>2, <2>3, <2>4
  <2> QED BY <1>2, <2>2, <2>4, <2>5
<1>4. ASSUME NEW w \in Worker, NEW offset \in 0..DAYS_PER_WEEK, SetSabbathDay(w, offset)
      PROVE Backed'
  <2> DEFINE e == [citizens[w] EXCEPT !.sabbathOffset = offset]
  <2>1. offset \in 0..(DAYS_PER_WEEK - 1) /\ citizens[w] \in Citizen
    BY <1>1, <1>4, ConstantsAssumption DEF SetSabbathDay
  <2>2. e \in Citizen /\ e.lockedKWR = citizens[w].lockedKWR
    BY <2>1, SabbathType
  <2>3. citizens' = [citizens EXCEPT ![w] = e] /\ gifted' = gifted /\ held' = held
    BY <1>4 DEF SetSabbathDay, bank
  <2> HIDE DEF e
  <2>4. citizens[w].lockedKWR \in Int
    BY <1>0, CitizenNumbers
  <2>5. held'[KWR] = held[KWR] + (e.lockedKWR - citizens[w].lockedKWR)
    BY <1>1, <2>2, <2>3, <2>4
  <2> QED BY <1>2, <2>2, <2>3, <2>5
<1>5. ASSUME NEW w \in Worker, Ragequit(w) PROVE Backed'
  <2>1. /\ citizens' = [citizens EXCEPT ![w] = NoCitizen] /\ gifted' = gifted
        /\ held' = [held EXCEPT ![KWR] = @ - citizens[w].lockedKWR]
    BY <1>5 DEF Ragequit
  <2>2. citizens[w].lockedKWR \in Int
    BY <1>0, CitizenNumbers
  <2>3. NoCitizen \in Citizen /\ NoCitizen.lockedKWR = 0
    BY NoCitizenType
  <2> HIDE DEF NoCitizen
  <2>4. held'[KWR] = held[KWR] + (NoCitizen.lockedKWR - citizens[w].lockedKWR)
    BY <1>1, <2>1, <2>2, <2>3
  <2> QED BY <1>2, <2>1, <2>3, <2>4
<1>6. ASSUME NEW call \in Contributions, ContributeCapital(call) PROVE Backed'
  <2> DEFINE w == call.worker
             n == call.funds[KWR]
  <2>1. PICK e : /\ CreditedFacts(citizens[w], "CAPITAL", n, e)
                 /\ citizens' = [citizens EXCEPT ![w] = e]
    BY <1>0, <1>6, Contributed
  <2>2. w \in Worker /\ n \in Nat
    BY <1>0, <1>6, Contributed
  <2>3. gifted' = gifted /\ held'[KWR] = held[KWR] + n
    BY <1>1, <1>6 DEF ContributeCapital
  <2> HIDE DEF w, n
  <2>4. e \in Citizen /\ e.lockedKWR = citizens[w].lockedKWR + n
    BY <2>1 DEF CreditedFacts
  <2>5. citizens[w].lockedKWR \in Int
    BY <1>0, <2>2, CitizenNumbers
  <2>6. held'[KWR] = held[KWR] + (e.lockedKWR - citizens[w].lockedKWR)
    BY <1>1, <2>2, <2>3, <2>4, <2>5
  <2> QED BY <1>2, <2>1, <2>2, <2>3, <2>4, <2>6
<1>7. ASSUME NEW sender, NEW call \in HonorCalls, AttestHonor(sender, call) PROVE Backed'
  <2> DEFINE w == call.worker
  <2>1. PICK e : /\ CreditedFacts(citizens[w], call.axis, 0, e)
                 /\ citizens' = [citizens EXCEPT ![w] = e]
    BY <1>0, <1>7, Honored
  <2>2. w \in Worker
    BY <1>0, <1>7, Honored
  <2>3. gifted' = gifted /\ held' = held
    BY <1>7 DEF AttestHonor, bank
  <2> HIDE DEF w
  <2>4. e \in Citizen /\ e.lockedKWR = citizens[w].lockedKWR + 0
    BY <2>1 DEF CreditedFacts
  <2>5. citizens[w].lockedKWR \in Int
    BY <1>0, <2>2, CitizenNumbers
  <2>6. held'[KWR] = held[KWR] + (e.lockedKWR - citizens[w].lockedKWR)
    BY <1>1, <2>3, <2>4, <2>5
  <2> QED BY <1>2, <2>1, <2>2, <2>3, <2>4, <2>6
<1>8. ASSUME NEW coins \in Gifts, Gift(coins) PROVE Backed'
  <2>1. /\ citizens' = citizens
        /\ held'[KWR] = held[KWR] + coins[KWR]
        /\ gifted'[KWR] = gifted[KWR] + coins[KWR]
    BY <1>1, <1>8 DEF Gift, contract
  <2>2. /\ coins[KWR] \in Nat /\ held[KWR] \in Int /\ gifted[KWR] \in Int
        /\ held[KWR] = gifted[KWR] + LockedBy(citizens)
    BY <1>1, CallTypes DEF Backed
  <2>3. LockedBy(citizens) \in Int
    <3>1. IsFiniteSet(Worker) /\ LocksOf(citizens) \in [Worker -> Int]
      BY <1>1, LockedIsSum, CallsAssumption
    <3> QED BY <1>1, <3>1, LockedIsSum, SumType
  <2>4. held'[KWR] = gifted'[KWR] + LockedBy(citizens)
    BY <2>1, <2>2, <2>3
  <2> QED BY <2>1, <2>4 DEF Backed
<1>9. ASSUME citizens' = citizens /\ held' = held /\ gifted' = gifted PROVE Backed'
  BY <1>9 DEF Backed
<1>10. CASE NextDay \/ UNCHANGED vars
  BY <1>9, <1>10 DEF NextDay, vars, contract, bank
<1>11. ASSUME NEW sender, NEW v \in Worker, AttestPoP(sender, v) PROVE Backed'
  BY <1>9, <1>11 DEF AttestPoP, bank
<1>12. ASSUME NEW sender, NEW call \in DayCalls, AttestDay(sender, call) PROVE Backed'
  BY <1>9, <1>12 DEF AttestDay, bank
<1>13. ASSUME NEW sender, NEW v \in Worker, NEW badge \in Badge,
              GrantBadge(sender, v, badge) \/ RevokeBadge(sender, v, badge)
       PROVE Backed'
  BY <1>9, <1>13 DEF GrantBadge, RevokeBadge, bank
<1>14. ASSUME NEW sender, NEW key \in Key, RotateAttester(sender, key) PROVE Backed'
  BY <1>9, <1>14 DEF RotateAttester, bank
<1> QED BY <1>3, <1>4, <1>5, <1>6, <1>7, <1>8, <1>10, <1>11, <1>12, <1>13, <1>14 DEF Next

\* The kWR the contract holds, but for gifts, is the sum of its citizens' locks,
\* for any number of citizens: a ragequit never spends another citizen's coins.
THEOREM TwinIsBacked == Spec => []LocksAreBacked
<1>1. Spec => [](IInv /\ Backed)
  BY InvInit, InvStep, BackedInit, BackedStep, PTL DEF Spec
<1> QED BY <1>1, BackedIs, PTL

\* A citizen's lock is part of the sum.
LEMMA LockIsBacked ==
    ASSUME IInv, Backed, NEW w \in Worker
    PROVE  citizens[w].lockedKWR <= held[KWR]
<1> DEFINE f == LocksOf(citizens)
<1>1. /\ IsFiniteSet(Worker) /\ KWR \in Denom
      /\ citizens \in [Worker -> Citizen] /\ gifted[KWR] \in Nat
  BY CallsAssumption DEF IInv, TypeOK
<1>2. PICK it : IsSum(it, f, Worker) /\ LockedBy(citizens) = it[Worker]
  BY <1>1, LockedIsSum
<1>3. Valued(f, Worker) /\ f[w] = citizens[w].lockedKWR
  BY <1>1, ConstantsAssumption DEF LocksOf, Valued, Citizen, Uint
<1> HIDE DEF f
<1>4. it[Worker] = f[w] + it[Worker \ {w}]
  BY <1>1, <1>2, <1>3, SumTakesAny DEF Exchangeable
<1>5. it[Worker \ {w}] \in Nat
  <2>1. Worker \ {w} \in SUBSET Worker
    OBVIOUS
  <2> QED BY <1>1, <1>2, <1>3, <2>1, SumIsNatural
<1>6. f[w] \in Nat
  BY <1>3 DEF Valued
<1> QED BY <1>1, <1>2, <1>3, <1>4, <1>5, <1>6 DEF Backed

\* Each lock can be paid from the coins held.
PayoutsAreCovered == \A w \in Worker : citizens[w].lockedKWR <= held[KWR]

\* The bank never refuses the payout of a ragequit, whoever leaves first (ragequit,
\* contract.rs): that is all the guard LeavingNeverBlocked finds enabled asks for.
THEOREM LeavingIsPaid == Spec => []PayoutsAreCovered
<1>1. Spec => [](IInv /\ Backed)
  BY InvInit, InvStep, BackedInit, BackedStep, PTL DEF Spec
<1>2. IInv /\ Backed => PayoutsAreCovered
  BY LockIsBacked DEF PayoutsAreCovered
<1> QED BY <1>1, <1>2, PTL

-----------------------------------------------------------------------------
(* The twin beside the EVM contract. *)

-----------------------------------------------------------------------------
(* The arithmetic that module SeumStandard instantiates is that of SeumMath. *)

\* Both contracts decay an axis alike (_applyDecay, apply_decay).
LEMMA SameDecay ==
    ASSUME NEW c, NEW a, NEW active, NEW day
    PROVE  EVM!Decayed(c, a, active, day) = Decayed(c, a, active, day)
<1>1. \A m, n : EVM!Lesser(m, n) = Lesser(m, n)
  BY DEF EVM!Lesser, Lesser
<1>2. EVM!DaysToSettle(c, a, day) = DaysToSettle(c, a, day)
  BY Zenon, <1>1 DEF EVM!DaysToSettle, DaysToSettle
<1>3. \A n : EVM!DecayRun(c, a, active, n) = DecayRun(c, a, active, n)
  BY Zenon DEF EVM!DecayRun, DecayRun, EVM!DecayDay, DecayDay, EVM!GrownRate, GrownRate,
               EVM!Lesser, Lesser, EVM!IsSabbath, IsSabbath
<1> QED BY Zenon, <1>2, <1>3 DEF EVM!Decayed, Decayed

\* Both count the volunteer weeks alike (_processWeeks, process_weeks_with_storage).
LEMMA SameWeeks ==
    ASSUME NEW c, NEW volunteer, NEW day
    PROVE  EVM!WeeksProcessed(c, volunteer, day) = WeeksProcessed(c, volunteer, day)
<1>1. \A n : EVM!WeeksRun(c, volunteer, n) = WeeksRun(c, volunteer, n)
  BY Zenon DEF EVM!WeeksRun, WeeksRun, EVM!VolunteerWeek, VolunteerWeek, EVM!Qualified, Qualified,
               EVM!GrownMult, GrownMult, EVM!CapitalBonus, CapitalBonus
<1> DEFINE n == WeeksPending(c, day)
<1>2. EVM!WeeksRun(c, volunteer, n) = WeeksRun(c, volunteer, n)
  BY <1>1
<1>3. EVM!LastCompleteWeek(day) = LastCompleteWeek(day)
  BY Zenon DEF EVM!LastCompleteWeek, LastCompleteWeek
<1> QED BY Zenon, <1>2, <1>3 DEF EVM!WeeksProcessed, WeeksProcessed, WeeksPending

\* A settlement on the EVM chain in terms of this module (_applyDecay).
LEMMA EvmSettled ==
    ASSUME NEW w, NEW a
    PROVE  LET decay == Decayed(eCitizens[w], a, eActiveDays[w], today)
               weeks == WeeksProcessed(decay.citizen, eVolunteerDays[w], decay.citizen.lastDecayDay[a])
           IN  /\ EVM!Settled(w, a).ok = (decay.ok /\ weeks.ok)
               /\ EVM!Settled(w, a).citizen = weeks.citizen
  BY SameDecay, SameWeeks DEF EVM!Settled

-----------------------------------------------------------------------------
(* Two citizens. *)

\* e is behind c by a credit of n on axis a and a lock: the EVM contract credits
\* after the weeks what the twin credited before them.
Due(c, e, a, n, lock) ==
    /\ c \in Citizen /\ e \in Citizen
    /\ e.isCitizen = c.isCitizen /\ e.joinDay = c.joinDay /\ e.sabbathOffset = c.sabbathOffset
    /\ e.lastDecayDay = c.lastDecayDay /\ e.decayRateAtLastDay = c.decayRateAtLastDay
    /\ e.volunteerWeeks = c.volunteerWeeks /\ e.volunteerMultBP = c.volunteerMultBP
    /\ e.lastProcessedWeek = c.lastProcessedWeek
    /\ c.lockedKWR = e.lockedKWR + lock
    /\ \A b \in Axis \ {"CAPITAL"} : c.baseHonor[b] = e.baseHonor[b] + (IF b = a THEN n ELSE 0)
    /\ c.baseHonor["CAPITAL"] >= e.baseHonor["CAPITAL"] + (IF a = "CAPITAL" THEN n ELSE 0)

\* Nothing is due: they differ in the capital honor, if at all.
Twins(c, e) == Due(c, e, "CAPITAL", 0, 0)

\* Twins agree on all but the capital, of which the first has no less.
LEMMA TwinsAre ==
    ASSUME NEW c \in Citizen, NEW e \in Citizen
    PROVE  Twins(c, e) <=> /\ WithoutCapital(c) = WithoutCapital(e)
                           /\ c.baseHonor["CAPITAL"] >= e.baseHonor["CAPITAL"]
<1> DEFINE Same == /\ e.isCitizen = c.isCitizen /\ e.joinDay = c.joinDay
                   /\ e.sabbathOffset = c.sabbathOffset
                   /\ e.lastDecayDay = c.lastDecayDay
                   /\ e.decayRateAtLastDay = c.decayRateAtLastDay
                   /\ e.volunteerWeeks = c.volunteerWeeks
                   /\ e.volunteerMultBP = c.volunteerMultBP
                   /\ e.lastProcessedWeek = c.lastProcessedWeek
                   /\ c.lockedKWR = e.lockedKWR
                   /\ \A b \in Axis \ {"CAPITAL"} : c.baseHonor[b] = e.baseHonor[b]
<1>1. /\ \A b \in Axis : c.baseHonor[b] \in Nat /\ e.baseHonor[b] \in Nat
      /\ c.lockedKWR \in Nat /\ e.lockedKWR \in Nat /\ "CAPITAL" \in Axis
  BY ConstantsAssumption DEF Citizen, Uint, Axis
<1>2. Twins(c, e) <=> Same /\ c.baseHonor["CAPITAL"] >= e.baseHonor["CAPITAL"]
  BY <1>1 DEF Twins, Due
<1>3. WithoutCapital(c) = WithoutCapital(e) => Same
  <2> DEFINE f == WithoutCapital(c)
             g == WithoutCapital(e)
  <2>1. /\ f.isCitizen = c.isCitizen /\ f.joinDay = c.joinDay
        /\ f.sabbathOffset = c.sabbathOffset /\ f.lastDecayDay = c.lastDecayDay
        /\ f.decayRateAtLastDay = c.decayRateAtLastDay /\ f.volunteerWeeks = c.volunteerWeeks
        /\ f.volunteerMultBP = c.volunteerMultBP /\ f.lastProcessedWeek = c.lastProcessedWeek
        /\ f.lockedKWR = c.lockedKWR
        /\ \A b \in Axis \ {"CAPITAL"} : f.baseHonor[b] = c.baseHonor[b]
    BY DEF WithoutCapital, Citizen
  <2>2. /\ g.isCitizen = e.isCitizen /\ g.joinDay = e.joinDay
        /\ g.sabbathOffset = e.sabbathOffset /\ g.lastDecayDay = e.lastDecayDay
        /\ g.decayRateAtLastDay = e.decayRateAtLastDay /\ g.volunteerWeeks = e.volunteerWeeks
        /\ g.volunteerMultBP = e.volunteerMultBP /\ g.lastProcessedWeek = e.lastProcessedWeek
        /\ g.lockedKWR = e.lockedKWR
        /\ \A b \in Axis \ {"CAPITAL"} : g.baseHonor[b] = e.baseHonor[b]
    BY DEF WithoutCapital, Citizen
  <2> HIDE DEF f, g
  <2>3. f = g => Same
    BY <2>1, <2>2
  <2> QED BY <2>3 DEF f, g
<1>4. Same => WithoutCapital(c) = WithoutCapital(e)
  <2> SUFFICES ASSUME Same PROVE WithoutCapital(c) = WithoutCapital(e)
    OBVIOUS
  <2>1. [c.baseHonor EXCEPT !["CAPITAL"] = 0] = [e.baseHonor EXCEPT !["CAPITAL"] = 0]
    <3>1. c.baseHonor \in [Axis -> Uint] /\ e.baseHonor \in [Axis -> Uint]
      BY DEF Citizen
    <3>2. [c.baseHonor EXCEPT !["CAPITAL"] = 0]
            = [b \in Axis |-> IF b = "CAPITAL" THEN 0 ELSE c.baseHonor[b]]
      BY <3>1
    <3>3. [e.baseHonor EXCEPT !["CAPITAL"] = 0]
            = [b \in Axis |-> IF b = "CAPITAL" THEN 0 ELSE e.baseHonor[b]]
      BY <3>1
    <3> QED BY <3>2, <3>3
  <2>2. \A x \in Citizen : x = [isCitizen |-> x.isCitizen, joinDay |-> x.joinDay,
           sabbathOffset |-> x.sabbathOffset, lockedKWR |-> x.lockedKWR,
           baseHonor |-> x.baseHonor, lastDecayDay |-> x.lastDecayDay,
           decayRateAtLastDay |-> x.decayRateAtLastDay, volunteerWeeks |-> x.volunteerWeeks,
           lastProcessedWeek |-> x.lastProcessedWeek, volunteerMultBP |-> x.volunteerMultBP]
    BY DEF Citizen
  <2> DEFINE Emptied(x) == [isCitizen |-> x.isCitizen, joinDay |-> x.joinDay,
           sabbathOffset |-> x.sabbathOffset, lockedKWR |-> x.lockedKWR,
           baseHonor |-> [x.baseHonor EXCEPT !["CAPITAL"] = 0],
           lastDecayDay |-> x.lastDecayDay,
           decayRateAtLastDay |-> x.decayRateAtLastDay, volunteerWeeks |-> x.volunteerWeeks,
           lastProcessedWeek |-> x.lastProcessedWeek, volunteerMultBP |-> x.volunteerMultBP]
  <2>3. WithoutCapital(c) = Emptied(c)
    BY <2>2 DEF WithoutCapital, Citizen
  <2>4. WithoutCapital(e) = Emptied(e)
    BY <2>2 DEF WithoutCapital, Citizen
  <2>5. Emptied(c) = Emptied(e)
    BY <2>1
  <2> QED BY <2>3, <2>4, <2>5
<1> QED BY <1>2, <1>3, <1>4

-----------------------------------------------------------------------------
(* Decay. *)

\* Whose honor is the larger overflows first.
LEMMA LessDecaysToo ==
    ASSUME NEW c \in Citizen, NEW e \in Citizen, NEW a \in Axis, NEW active, NEW n \in Nat,
           Advanced(e, c, a, 0), c.decayRateAtLastDay[a] = e.decayRateAtLastDay[a],
           c.baseHonor[a] >= e.baseHonor[a], DecayRun(c, a, active, n).ok
    PROVE  DecayRun(e, a, active, n).ok
<1> DEFINE C(k) == DecayRun(c, a, active, k)
           E(k) == DecayRun(e, a, active, k)
           Good == {k \in Nat : C(k).ok => E(k).ok}
<1>1. 0 \in Good
  BY DecayRunUnfolds DEF DecayStart
<1>2. ASSUME NEW k \in Nat, k \in Good PROVE k + 1 \in Good
  <2> DEFINE day == c.lastDecayDay[a] + (k + 1)
  <2>1. e.lastDecayDay[a] = c.lastDecayDay[a]
    <3>1. e.lastDecayDay[a] \in Nat
      BY DEF Citizen
    <3> QED BY <3>1 DEF Advanced
  <2>2. C(k + 1) = DecayDay(C(k), c, day, active)
    BY DecayRunUnfolds
  <2>3. E(k + 1) = DecayDay(E(k), e, day, active)
    <3>1. E(k + 1) = DecayDay(E(k), e, e.lastDecayDay[a] + (k + 1), active)
      BY DecayRunUnfolds
    <3> HIDE DEF E
    <3> QED BY <2>1, <3>1
  <2>4. SUFFICES ASSUME C(k + 1).ok PROVE E(k + 1).ok
    OBVIOUS
  <2>5. C(k).ok /\ E(k).ok
    <3> HIDE DEF day, C, E
    <3>1. C(k).ok
      BY <2>2, <2>4 DEF DecayDay
    <3> QED BY <1>2, <3>1
  <2>6. E(k).honor <= C(k).honor /\ E(k).rate = C(k).rate
    <3>1. /\ C(k).honor = ViewRun(c, a, active, k).honor
          /\ C(k).rate = ViewRun(c, a, active, k).rate
          /\ E(k).honor = ViewRun(e, a, active, k).honor
          /\ E(k).rate = ViewRun(e, a, active, k).rate
      BY <2>5, ViewIsDecay
    <3>2. /\ ViewRun(e, a, active, k).honor <= ViewRun(c, a, active, k).honor
          /\ ViewRun(e, a, active, k).rate = ViewRun(c, a, active, k).rate
      BY ViewRunKeepsOrder
    <3> HIDE DEF C, E
    <3> QED BY <3>1, <3>2
  <2>7. /\ C(k).honor \in Nat /\ E(k).honor \in Nat /\ C(k).rate \in 0..BASIS_POINTS
    <3>1. /\ C(k) \in DecayState(c.baseHonor[a], c.decayRateAtLastDay[a])
          /\ E(k) \in DecayState(e.baseHonor[a], e.decayRateAtLastDay[a])
      BY DecayRunType
    <3>2. c.baseHonor[a] \in Nat /\ c.decayRateAtLastDay[a] \in Nat /\ e.baseHonor[a] \in Nat
      BY DecayStartType
    <3> HIDE DEF C, E
    <3> QED BY <3>1, <3>2 DEF DecayState
  <2> HIDE DEF C, E, day
  <2> DEFINE left == BASIS_POINTS - GrownRate(C(k).rate)
  <2>8. left \in Nat
    <3>1. GrownRate(C(k).rate) \in C(k).rate..BASIS_POINTS
      BY <2>7, GrownRateType
    <3> QED BY <2>7, <3>1, ConstantsAssumption
  <2>9. IsSabbath(c, day) <=> IsSabbath(e, day)
    BY SameSabbath
  <2>10. DayFits(C(k), c, day, active)
    BY <2>2, <2>4, <2>5, DecayDayOk
  <2>11. SUFFICES DayFits(E(k), e, day, active)
    BY <2>3, <2>5, DecayDayOk
  <2>12. C(k).honor = 0 => E(k).honor = 0
    BY <2>6, <2>7
  <2>13. C(k).honor * left <= MAX_UINT => E(k).honor * left <= MAX_UINT
    <3> DEFINE g == E(k).honor
               h == C(k).honor
    <3>1. g \in Nat /\ h \in Nat /\ g <= h
      BY <2>6, <2>7
    <3> HIDE DEF left, g, h
    <3>2. g * left <= h * left /\ g * left \in Nat /\ h * left \in Nat
      BY <2>8, <3>1
    <3>3. h * left <= MAX_UINT => g * left <= MAX_UINT
      BY <3>2, ConstantsAssumption
    <3> QED BY <3>3 DEF g, h
  <2> QED BY Zenon, <2>6, <2>9, <2>10, <2>12, <2>13 DEF DayFits
<1> HIDE DEF Good
<1>3. n \in Good
  BY <1>1, <1>2, NatSetInduction
<1> QED BY <1>3 DEF Good

\* Twins decay alike (_applyDecay, apply_decay).
LEMMA TwinsDecay ==
    ASSUME NEW c, NEW e, Twins(c, e), NEW a \in Axis, NEW active, NEW day \in Nat,
           NEW f, f = Decayed(c, a, active, day), NEW g, g = Decayed(e, a, active, day), f.ok
    PROVE  g.ok /\ Twins(f.citizen, g.citizen)
<1> DEFINE n == DaysToSettle(c, a, day)
           x == f.citizen
           y == g.citizen
<1>1. c \in Citizen /\ e \in Citizen
  BY DEF Twins, Due
<1>2. /\ e.isCitizen = c.isCitizen /\ e.joinDay = c.joinDay /\ e.sabbathOffset = c.sabbathOffset
      /\ e.lastDecayDay = c.lastDecayDay /\ e.decayRateAtLastDay = c.decayRateAtLastDay
      /\ e.volunteerWeeks = c.volunteerWeeks /\ e.volunteerMultBP = c.volunteerMultBP
      /\ e.lastProcessedWeek = c.lastProcessedWeek
      /\ c.lockedKWR = e.lockedKWR
      /\ \A b \in Axis \ {"CAPITAL"} : c.baseHonor[b] = e.baseHonor[b]
      /\ \A b \in Axis : c.baseHonor[b] >= e.baseHonor[b]
  <2>1. /\ \A b \in Axis : c.baseHonor[b] \in Nat /\ e.baseHonor[b] \in Nat
        /\ c.lockedKWR \in Nat /\ e.lockedKWR \in Nat
    BY <1>1, ConstantsAssumption DEF Citizen, Uint
  <2> QED BY <2>1 DEF Twins, Due
<1>3. n = DaysToSettle(e, a, day)
  BY <1>2 DEF DaysToSettle
<1>4. DecayedFacts(c, a, day, x) /\ DecayedFacts(e, a, day, y)
  BY <1>1, DecayedType
<1>5. n \in Nat
  BY <1>1, DaysToSettleType
<1> HIDE DEF n
<1>6. /\ Advanced(c, x, a, n) /\ x.baseHonor[a] = DecayRun(c, a, active, n).honor
      /\ x.decayRateAtLastDay[a] = DecayRun(c, a, active, n).rate
      /\ DecayRun(c, a, active, n).ok
  <2>1. n = DaysToSettle(c, a, day)
    BY DEF n
  <2>2. /\ Advanced(c, x, a, n) /\ x.baseHonor[a] = DecayRun(c, a, active, n).honor
        /\ x.decayRateAtLastDay[a] = DecayRun(c, a, active, n).rate
    BY <1>1, <2>1, DecayedIs
  <2>3. Decayed(c, a, active, day).ok = DecayRun(c, a, active, n).ok
    BY <1>1, <2>1, DecayedIs
  <2>4. Decayed(c, a, active, day).ok
    OBVIOUS
  <2> QED BY <2>2, <2>3, <2>4
<1>7. /\ Advanced(e, y, a, n) /\ y.baseHonor[a] = DecayRun(e, a, active, n).honor
      /\ y.decayRateAtLastDay[a] = DecayRun(e, a, active, n).rate
      /\ g.ok = DecayRun(e, a, active, n).ok
  BY <1>1, <1>3, DecayedIs
<1>8. Advanced(e, c, a, 0) /\ Advanced(c, e, a, 0)
  <2>1. e.lastDecayDay[a] \in Nat
    BY <1>1 DEF Citizen
  <2> QED BY <1>2, <2>1 DEF Advanced
<1>9. DecayRun(c, a, active, n).ok /\ DecayRun(e, a, active, n).ok
  BY <1>1, <1>2, <1>5, <1>6, <1>8, LessDecaysToo
<1>10. /\ x.baseHonor[a] = ViewRun(c, a, active, n).honor
       /\ x.decayRateAtLastDay[a] = ViewRun(c, a, active, n).rate
       /\ y.baseHonor[a] = ViewRun(e, a, active, n).honor
       /\ y.decayRateAtLastDay[a] = ViewRun(e, a, active, n).rate
  BY <1>1, <1>5, <1>6, <1>7, <1>9, ViewIsDecay
<1>11. /\ ViewRun(e, a, active, n).honor <= ViewRun(c, a, active, n).honor
       /\ ViewRun(e, a, active, n).rate = ViewRun(c, a, active, n).rate
  BY <1>1, <1>2, <1>5, <1>8, ViewRunKeepsOrder
<1>12. ASSUME a # "CAPITAL"
       PROVE  ViewRun(c, a, active, n).honor <= ViewRun(e, a, active, n).honor
  <2>1. e.baseHonor[a] >= c.baseHonor[a] /\ e.decayRateAtLastDay[a] = c.decayRateAtLastDay[a]
    <3>1. c.baseHonor[a] \in Nat
      BY <1>1, ConstantsAssumption DEF Citizen, Uint
    <3> QED BY <1>2, <1>12, <3>1
  <2> QED BY <1>1, <1>5, <1>8, <2>1, ViewRunKeepsOrder
<1> HIDE DEF x, y
<1>13. x \in Citizen /\ y \in Citizen
  BY <1>4 DEF DecayedFacts
<1>14. /\ \A b \in Axis : /\ x.baseHonor[b] \in Nat /\ y.baseHonor[b] \in Nat
                          /\ x.lastDecayDay[b] \in Nat /\ y.lastDecayDay[b] \in Nat
       /\ x.lockedKWR \in Nat /\ y.lockedKWR \in Nat /\ "CAPITAL" \in Axis
  BY <1>13, ConstantsAssumption DEF Citizen, Uint, Axis
<1>15. y.lastDecayDay = x.lastDecayDay
  <2>1. \A b \in Axis : y.lastDecayDay[b] = x.lastDecayDay[b]
    BY <1>2, <1>4, <1>6, <1>7 DEF DecayedFacts, Advanced
  <2>2. x.lastDecayDay \in [Axis -> Nat] /\ y.lastDecayDay \in [Axis -> Nat]
    BY <1>13 DEF Citizen
  <2> QED BY <2>1, <2>2
<1>16. y.decayRateAtLastDay = x.decayRateAtLastDay
  <2>1. \A b \in Axis : y.decayRateAtLastDay[b] = x.decayRateAtLastDay[b]
    BY <1>2, <1>4, <1>10, <1>11 DEF DecayedFacts
  <2>2. x.decayRateAtLastDay \in [Axis -> 0..BASIS_POINTS]
        /\ y.decayRateAtLastDay \in [Axis -> 0..BASIS_POINTS]
    BY <1>13 DEF Citizen
  <2> QED BY <2>1, <2>2
<1>17. /\ \A b \in Axis \ {"CAPITAL"} : x.baseHonor[b] = y.baseHonor[b]
       /\ x.baseHonor["CAPITAL"] >= y.baseHonor["CAPITAL"]
  <2>1. ASSUME NEW b \in Axis, b # a
        PROVE  x.baseHonor[b] = c.baseHonor[b] /\ y.baseHonor[b] = e.baseHonor[b]
    BY <1>4, <2>1 DEF DecayedFacts
  <2>2. x.baseHonor[a] >= y.baseHonor[a] /\ (a # "CAPITAL" => x.baseHonor[a] = y.baseHonor[a])
    BY <1>10, <1>11, <1>12, <1>14
  <2> QED BY <1>2, <1>14, <2>1, <2>2
<1>18. /\ y.isCitizen = x.isCitizen /\ y.joinDay = x.joinDay /\ y.sabbathOffset = x.sabbathOffset
       /\ y.volunteerWeeks = x.volunteerWeeks /\ y.volunteerMultBP = x.volunteerMultBP
       /\ y.lastProcessedWeek = x.lastProcessedWeek /\ x.lockedKWR = y.lockedKWR
  BY <1>2, <1>4 DEF DecayedFacts, SameMembership
<1>19. Twins(x, y)
  BY <1>13, <1>14, <1>15, <1>16, <1>17, <1>18 DEF Twins, Due
<1> QED BY <1>7, <1>9, <1>19 DEF x, y

-----------------------------------------------------------------------------
(* Weeks. *)

\* A larger capital earns no smaller bonus.
LEMMA BonusKeepsOrder ==
    ASSUME NEW x \in Nat, NEW y \in Nat, x <= y
    PROVE  CapitalBonus(x) <= CapitalBonus(y)
<1>1. /\ x * VOLUNTEER_CAPITAL_PCT <= y * VOLUNTEER_CAPITAL_PCT
      /\ x * VOLUNTEER_CAPITAL_PCT \in Nat /\ y * VOLUNTEER_CAPITAL_PCT \in Nat
  BY ConstantsAssumption
<1> DEFINE p == x * VOLUNTEER_CAPITAL_PCT
           q == y * VOLUNTEER_CAPITAL_PCT
<1>2. CapitalBonus(x) = IF p \div BASIS_POINTS < VOLUNTEER_CAPITAL_MIN
                        THEN VOLUNTEER_CAPITAL_MIN ELSE p \div BASIS_POINTS
  BY Zenon DEF CapitalBonus
<1>3. CapitalBonus(y) = IF q \div BASIS_POINTS < VOLUNTEER_CAPITAL_MIN
                        THEN VOLUNTEER_CAPITAL_MIN ELSE q \div BASIS_POINTS
  BY Zenon DEF CapitalBonus
<1>4. p \in Nat /\ q \in Nat /\ p <= q
  BY <1>1
<1> HIDE DEF p, q
<1>5. p \div BASIS_POINTS <= q \div BASIS_POINTS
      /\ p \div BASIS_POINTS \in Nat /\ q \div BASIS_POINTS \in Nat
  BY <1>4, ConstantsAssumption
<1> QED BY <1>2, <1>3, <1>5, ConstantsAssumption

\* The loop over weeks of one who has g more capital keeps at least that lead; it
\* counts the same weeks, and is the first to overflow.
Leads(s, t, g) ==
    s.ok => /\ t.ok /\ s.capital >= t.capital + g
            /\ t.mult = s.mult /\ t.weeks = s.weeks

\* The lead is kept week by week (_processWeeks).
LEMMA WeeksKeepLead ==
    ASSUME NEW c \in Citizen, NEW e \in Citizen, NEW g \in Nat, NEW volunteer, NEW n \in Nat,
           e.lastProcessedWeek = c.lastProcessedWeek, e.volunteerMultBP = c.volunteerMultBP,
           e.volunteerWeeks = c.volunteerWeeks,
           c.baseHonor["CAPITAL"] >= e.baseHonor["CAPITAL"] + g
    PROVE  Leads(WeeksRun(c, volunteer, n), WeeksRun(e, volunteer, n), g)
<1> DEFINE C(k) == WeeksRun(c, volunteer, k)
           E(k) == WeeksRun(e, volunteer, k)
           Good == {k \in Nat : Leads(C(k), E(k), g)}
<1>1. 0 \in Good
  BY WeeksRunUnfolds DEF WeekStart, Leads
<1>2. ASSUME NEW k \in Nat, k \in Good PROVE k + 1 \in Good
  <2> DEFINE week == c.lastProcessedWeek + (k + 1)
  <2>1. C(k + 1) = VolunteerWeek(C(k), week, volunteer)
        /\ E(k + 1) = VolunteerWeek(E(k), week, volunteer)
    BY WeeksRunUnfolds
  <2>2. C(k) \in WeekState /\ E(k) \in WeekState
    BY WeeksRunFacts DEF WeekFacts
  <2> HIDE DEF C, E, week
  <2>3. Leads(C(k), E(k), g)
    BY <1>2
  <2> DEFINE s == C(k)
             t == E(k)
  <2>4. /\ s.capital \in Nat /\ s.mult \in Nat /\ s.weeks \in Nat
        /\ t.capital \in Nat /\ t.mult \in Nat /\ t.weeks \in Nat
    BY <2>2 DEF WeekState
  <2>5. CASE ~ (s.ok /\ Qualified(week, volunteer))
    <3>1. C(k + 1) = s
      BY <2>1, <2>5 DEF VolunteerWeek
    <3>2. s.ok => E(k + 1) = t
      BY <2>1, <2>5 DEF VolunteerWeek
    <3> QED BY <2>3, <3>1, <3>2 DEF Leads
  <2>6. CASE s.ok /\ Qualified(week, volunteer)
    <3>1. /\ t.ok /\ s.capital >= t.capital + g /\ t.mult = s.mult /\ t.weeks = s.weeks
      BY <2>3, <2>6 DEF Leads
    <3> DEFINE b == CapitalBonus(s.capital)
               d == CapitalBonus(t.capital)
    <3>2. b \in Nat /\ d \in Nat /\ d <= b
      <4>1. t.capital <= s.capital
        BY <2>4, <3>1
      <4> QED BY <2>4, <4>1, BonusKeepsOrder, CapitalBonusType
    <3>3. /\ C(k + 1).capital = s.capital + b /\ C(k + 1).mult = GrownMult(s.mult)
          /\ C(k + 1).weeks = s.weeks + 1
          /\ C(k + 1).ok <=> /\ s.mult * VOLUNTEER_BONUS_NUM <= MAX_UINT
                             /\ s.capital * VOLUNTEER_CAPITAL_PCT <= MAX_UINT
                             /\ s.capital + b <= MAX_UINT
      BY <2>1, <2>6 DEF VolunteerWeek
    <3>4. /\ E(k + 1).capital = t.capital + d /\ E(k + 1).mult = GrownMult(t.mult)
          /\ E(k + 1).weeks = t.weeks + 1
          /\ E(k + 1).ok <=> /\ t.mult * VOLUNTEER_BONUS_NUM <= MAX_UINT
                             /\ t.capital * VOLUNTEER_CAPITAL_PCT <= MAX_UINT
                             /\ t.capital + d <= MAX_UINT
      BY <2>1, <2>6, <3>1 DEF VolunteerWeek
    <3>5. s.capital * VOLUNTEER_CAPITAL_PCT <= MAX_UINT
            => t.capital * VOLUNTEER_CAPITAL_PCT <= MAX_UINT
      <4> DEFINE x == t.capital
                 y == s.capital
      <4>1. x \in Nat /\ y \in Nat /\ x <= y
        BY <2>4, <3>1
      <4> HIDE DEF x, y
      <4>2. /\ x * VOLUNTEER_CAPITAL_PCT <= y * VOLUNTEER_CAPITAL_PCT
            /\ x * VOLUNTEER_CAPITAL_PCT \in Nat /\ y * VOLUNTEER_CAPITAL_PCT \in Nat
        BY <4>1, ConstantsAssumption
      <4>3. y * VOLUNTEER_CAPITAL_PCT <= MAX_UINT => x * VOLUNTEER_CAPITAL_PCT <= MAX_UINT
        BY <4>2, ConstantsAssumption
      <4> QED BY <4>3 DEF x, y
    <3>6. /\ s.capital + b >= (t.capital + d) + g
          /\ s.capital + b <= MAX_UINT => t.capital + d <= MAX_UINT
      <4> HIDE DEF b, d, s, t
      <4> QED BY <2>4, <3>1, <3>2, ConstantsAssumption
    <3> HIDE DEF b, d, s, t
    <3>7. ASSUME C(k + 1).ok PROVE E(k + 1).ok
      BY <3>1, <3>3, <3>4, <3>5, <3>6, <3>7
    <3>8. /\ C(k + 1).capital >= E(k + 1).capital + g
          /\ E(k + 1).mult = C(k + 1).mult /\ E(k + 1).weeks = C(k + 1).weeks
      BY <3>1, <3>3, <3>4, <3>6
    <3> QED BY <3>7, <3>8 DEF Leads
  <2> QED BY <2>5, <2>6
<1> HIDE DEF Good
<1>3. n \in Good
  BY <1>1, <1>2, NatSetInduction
<1> QED BY <1>3 DEF Good

\* Processing the weeks stores where the loop ends (_processWeeks).
LEMMA WeeksProcessedIs ==
    ASSUME NEW c \in Citizen, NEW volunteer, NEW day, NEW p, p = WeeksProcessed(c, volunteer, day)
    PROVE  LET last == WeeksRun(c, volunteer, WeeksPending(c, day))
           IN  /\ p.ok = last.ok
               /\ p.citizen.baseHonor["CAPITAL"] = last.capital
               /\ p.citizen.volunteerMultBP = last.mult
               /\ p.citizen.volunteerWeeks = last.weeks
<1> DEFINE n    == WeeksPending(c, day)
           last == WeeksRun(c, volunteer, n)
           d    == [c EXCEPT !.baseHonor["CAPITAL"] = last.capital,
                             !.volunteerMultBP      = last.mult,
                             !.volunteerWeeks       = last.weeks,
                             !.lastProcessedWeek    = @ + n]
<1>1. p.ok = last.ok /\ p.citizen = d
  BY DEF WeeksProcessed, WeeksPending
<1> HIDE DEF last
<1>2. c.baseHonor \in [Axis -> Uint] /\ "CAPITAL" \in Axis
  BY DEF Citizen, Axis
<1>3. /\ d.baseHonor["CAPITAL"] = last.capital /\ d.volunteerMultBP = last.mult
      /\ d.volunteerWeeks = last.weeks
  BY <1>2 DEF Citizen
<1> HIDE DEF d
<1> QED BY <1>1, <1>3 DEF last

\* What is due before the weeks is due after them.
LEMMA StillDue ==
    ASSUME NEW c, NEW e, NEW a \in Axis, NEW n \in Nat, NEW lock, Due(c, e, a, n, lock),
           NEW volunteer, NEW day \in Nat,
           NEW f, f = WeeksProcessed(c, volunteer, day),
           NEW g, g = WeeksProcessed(e, volunteer, day), f.ok
    PROVE  g.ok /\ Due(f.citizen, g.citizen, a, n, lock)
<1> DEFINE x    == f.citizen
           y    == g.citizen
           p    == WeeksPending(c, day)
           gap  == IF a = "CAPITAL" THEN n ELSE 0
           s    == WeeksRun(c, volunteer, p)
           t    == WeeksRun(e, volunteer, p)
<1>1. /\ c \in Citizen /\ e \in Citizen
      /\ e.isCitizen = c.isCitizen /\ e.joinDay = c.joinDay /\ e.sabbathOffset = c.sabbathOffset
      /\ e.lastDecayDay = c.lastDecayDay /\ e.decayRateAtLastDay = c.decayRateAtLastDay
      /\ e.volunteerWeeks = c.volunteerWeeks /\ e.volunteerMultBP = c.volunteerMultBP
      /\ e.lastProcessedWeek = c.lastProcessedWeek
      /\ c.lockedKWR = e.lockedKWR + lock
      /\ \A b \in Axis \ {"CAPITAL"} : c.baseHonor[b] = e.baseHonor[b] + (IF b = a THEN n ELSE 0)
      /\ c.baseHonor["CAPITAL"] >= e.baseHonor["CAPITAL"] + gap
  BY DEF Due
<1>2. p \in Nat /\ p = WeeksPending(e, day)
  <2>1. LastCompleteWeek(day) \in Int /\ c.lastProcessedWeek \in Nat
    BY <1>1, LastCompleteWeekType DEF Citizen
  <2> QED BY <1>1, <2>1 DEF WeeksPending
<1>3. gap \in Nat
  OBVIOUS
<1>4. Leads(s, t, gap)
  <2> HIDE DEF p, gap
  <2> QED BY <1>1, <1>2, <1>3, WeeksKeepLead
<1>5. /\ s.ok /\ x.baseHonor["CAPITAL"] = s.capital
      /\ x.volunteerMultBP = s.mult /\ x.volunteerWeeks = s.weeks
  <2>1. c \in Citizen
    BY <1>1
  <2>2. /\ x.baseHonor["CAPITAL"] = s.capital
        /\ x.volunteerMultBP = s.mult /\ x.volunteerWeeks = s.weeks
    BY <2>1, WeeksProcessedIs
  <2>3. WeeksProcessed(c, volunteer, day).ok = s.ok
    BY <2>1, WeeksProcessedIs
  <2>4. WeeksProcessed(c, volunteer, day).ok
    OBVIOUS
  <2> QED BY <2>2, <2>3, <2>4
<1>6. /\ g.ok = t.ok /\ y.baseHonor["CAPITAL"] = t.capital
      /\ y.volunteerMultBP = t.mult /\ y.volunteerWeeks = t.weeks
  <2> HIDE DEF p
  <2>1. p = WeeksPending(e, day) /\ e \in Citizen
    BY <1>1, <1>2
  <2> QED BY <2>1, WeeksProcessedIs
<1> HIDE DEF s, t, p, gap, x, y
<1>7. s.ok /\ t.ok
  BY <1>4, <1>5 DEF Leads
<1>8. /\ g.ok
      /\ x.baseHonor["CAPITAL"] >= y.baseHonor["CAPITAL"] + gap
      /\ y.volunteerMultBP = x.volunteerMultBP /\ y.volunteerWeeks = x.volunteerWeeks
  BY <1>4, <1>5, <1>6, <1>7 DEF Leads
<1>9. ProcessedFacts(c, volunteer, day, f.counted, x)
  BY <1>1, WeeksProcessedType DEF x
<1>10. ProcessedFacts(e, volunteer, day, g.counted, y)
  BY <1>1, <1>8, WeeksProcessedType DEF y
<1>11. y.lastProcessedWeek = x.lastProcessedWeek
  BY <1>1, <1>2, <1>9, <1>10 DEF ProcessedFacts, p
<1>12. /\ x \in Citizen /\ y \in Citizen
       /\ y.isCitizen = x.isCitizen /\ y.joinDay = x.joinDay /\ y.sabbathOffset = x.sabbathOffset
       /\ y.lastDecayDay = x.lastDecayDay /\ y.decayRateAtLastDay = x.decayRateAtLastDay
       /\ x.lockedKWR = y.lockedKWR + lock
       /\ \A b \in Axis \ {"CAPITAL"} :
             x.baseHonor[b] = y.baseHonor[b] + (IF b = a THEN n ELSE 0)
  BY <1>1, <1>9, <1>10 DEF ProcessedFacts, SameMembership
<1>13. Due(x, y, a, n, lock)
  BY <1>8, <1>11, <1>12 DEF Due, gap
<1> QED BY <1>8, <1>13 DEF x, y

-----------------------------------------------------------------------------
(* A credit on both chains. *)

\* Crediting the twin first leaves the credit due.
LEMMA FirstCredit ==
    ASSUME NEW c, NEW e, Twins(c, e), NEW a \in Axis, NEW n \in Nat, NEW lock \in Nat,
           NEW d, IsPaid(c, a, n, lock, d), d.baseHonor[a] <= MAX_UINT, d.lockedKWR <= MAX_UINT
    PROVE  Due(d, e, a, n, lock)
<1>1. /\ c \in Citizen /\ e \in Citizen
      /\ e.isCitizen = c.isCitizen /\ e.joinDay = c.joinDay /\ e.sabbathOffset = c.sabbathOffset
      /\ e.lastDecayDay = c.lastDecayDay /\ e.decayRateAtLastDay = c.decayRateAtLastDay
      /\ e.volunteerWeeks = c.volunteerWeeks /\ e.volunteerMultBP = c.volunteerMultBP
      /\ e.lastProcessedWeek = c.lastProcessedWeek
      /\ c.lockedKWR = e.lockedKWR + 0
      /\ \A b \in Axis \ {"CAPITAL"} : c.baseHonor[b] = e.baseHonor[b] + (IF b = "CAPITAL" THEN 0 ELSE 0)
      /\ c.baseHonor["CAPITAL"] >= e.baseHonor["CAPITAL"] + 0
  BY DEF Twins, Due
<1>2. /\ \A b \in Axis : c.baseHonor[b] \in Nat /\ e.baseHonor[b] \in Nat
      /\ c.lockedKWR \in Nat /\ e.lockedKWR \in Nat /\ "CAPITAL" \in Axis
  BY <1>1, ConstantsAssumption DEF Citizen, Uint, Axis
<1>3. /\ d \in Citizen /\ d.lockedKWR = c.lockedKWR + lock
      /\ \A b \in Axis \ {a} : d.baseHonor[b] = c.baseHonor[b]
  BY <1>1, PaidType
<1>4. /\ d.isCitizen = c.isCitizen /\ d.joinDay = c.joinDay /\ d.sabbathOffset = c.sabbathOffset
      /\ d.lastDecayDay = c.lastDecayDay /\ d.decayRateAtLastDay = c.decayRateAtLastDay
      /\ d.volunteerWeeks = c.volunteerWeeks /\ d.volunteerMultBP = c.volunteerMultBP
      /\ d.lastProcessedWeek = c.lastProcessedWeek
      /\ d.baseHonor[a] = c.baseHonor[a] + n
  BY <1>1 DEF IsPaid, Citizen
<1>5. /\ \A b \in Axis \ {"CAPITAL"} : d.baseHonor[b] = e.baseHonor[b] + (IF b = a THEN n ELSE 0)
      /\ d.baseHonor["CAPITAL"] >= e.baseHonor["CAPITAL"] + (IF a = "CAPITAL" THEN n ELSE 0)
  BY <1>1, <1>2, <1>3, <1>4
<1> QED BY <1>1, <1>2, <1>3, <1>4, <1>5 DEF Due

\* Crediting the EVM contract at last leaves nothing due.
LEMMA LastCredit ==
    ASSUME NEW c, NEW e, NEW a \in Axis, NEW n \in Nat, NEW lock \in Nat, Due(c, e, a, n, lock),
           NEW d, IsPaid(e, a, n, lock, d)
    PROVE  Twins(c, d)
<1>1. /\ c \in Citizen /\ e \in Citizen
      /\ e.isCitizen = c.isCitizen /\ e.joinDay = c.joinDay /\ e.sabbathOffset = c.sabbathOffset
      /\ e.lastDecayDay = c.lastDecayDay /\ e.decayRateAtLastDay = c.decayRateAtLastDay
      /\ e.volunteerWeeks = c.volunteerWeeks /\ e.volunteerMultBP = c.volunteerMultBP
      /\ e.lastProcessedWeek = c.lastProcessedWeek
      /\ c.lockedKWR = e.lockedKWR + lock
      /\ \A b \in Axis \ {"CAPITAL"} : c.baseHonor[b] = e.baseHonor[b] + (IF b = a THEN n ELSE 0)
      /\ c.baseHonor["CAPITAL"] >= e.baseHonor["CAPITAL"] + (IF a = "CAPITAL" THEN n ELSE 0)
  BY DEF Due
<1>2. /\ \A b \in Axis : c.baseHonor[b] \in Uint /\ e.baseHonor[b] \in Uint
      /\ c.lockedKWR \in Uint /\ e.lockedKWR \in Uint /\ "CAPITAL" \in Axis /\ Uint \subseteq Nat
  BY <1>1, ConstantsAssumption DEF Citizen, Uint, Axis
<1>3. d.baseHonor[a] = e.baseHonor[a] + n /\ d.lockedKWR = e.lockedKWR + lock
  BY <1>1 DEF IsPaid, Citizen
<1>4. e.baseHonor[a] + n <= c.baseHonor[a] /\ e.lockedKWR + lock <= c.lockedKWR
  <2>1. \A b \in Axis : c.baseHonor[b] \in Nat /\ e.baseHonor[b] \in Nat
    BY <1>2
  <2>2. ASSUME a = "CAPITAL" PROVE e.baseHonor[a] + n <= c.baseHonor[a]
    BY <1>1, <2>1, <2>2
  <2>3. ASSUME a # "CAPITAL" PROVE e.baseHonor[a] + n <= c.baseHonor[a]
    BY <1>1, <2>1, <2>3
  <2>4. c.lockedKWR \in Nat /\ e.lockedKWR \in Nat
    BY <1>2
  <2>5. e.lockedKWR + lock <= c.lockedKWR
    BY <1>1, <2>4
  <2> QED BY <2>2, <2>3, <2>5
<1>5. d.baseHonor[a] <= MAX_UINT /\ d.lockedKWR <= MAX_UINT
  <2>1. c.baseHonor[a] \in Uint /\ c.lockedKWR \in Uint /\ e.baseHonor[a] \in Nat
        /\ e.lockedKWR \in Nat
    BY <1>2
  <2> QED BY <1>3, <1>4, <2>1, ConstantsAssumption DEF Uint
<1>6. /\ d \in Citizen /\ \A b \in Axis \ {a} : d.baseHonor[b] = e.baseHonor[b]
  BY <1>1, <1>5, PaidType
<1>7. /\ d.isCitizen = e.isCitizen /\ d.joinDay = e.joinDay /\ d.sabbathOffset = e.sabbathOffset
      /\ d.lastDecayDay = e.lastDecayDay /\ d.decayRateAtLastDay = e.decayRateAtLastDay
      /\ d.volunteerWeeks = e.volunteerWeeks /\ d.volunteerMultBP = e.volunteerMultBP
      /\ d.lastProcessedWeek = e.lastProcessedWeek
  BY <1>1 DEF IsPaid, Citizen
<1>8. \A b \in Axis : c.baseHonor[b] \in Nat /\ e.baseHonor[b] \in Nat /\ d.baseHonor[b] \in Nat
  BY <1>2, <1>6, ConstantsAssumption DEF Citizen, Uint
<1>9. /\ \A b \in Axis \ {"CAPITAL"} : c.baseHonor[b] = d.baseHonor[b] + 0
      /\ c.baseHonor["CAPITAL"] >= d.baseHonor["CAPITAL"] + 0
  BY <1>1, <1>2, <1>3, <1>6, <1>8
<1>10. c.lockedKWR = d.lockedKWR + 0
  <2>1. d.lockedKWR \in Nat
    BY <1>6, ConstantsAssumption DEF Citizen, Uint
  <2> QED BY <1>1, <1>3, <2>1
<1> QED BY <1>1, <1>6, <1>7, <1>9, <1>10 DEF Twins, Due

\* What the twin can settle and credit the EVM contract can settle, and what it
\* then lacks is the credit (_applyDecay before, execute_* with the credit).
LEMMA CreditedTogether ==
    ASSUME NEW w \in Worker, NEW a \in Axis, NEW n \in Nat, NEW lock \in Nat, today \in Nat,
           Twins(citizens[w], eCitizens[w]),
           eActiveDays = activeDays, eVolunteerDays = volunteerDays,
           Credited(w, a, n, lock).ok
    PROVE  /\ EVM!Settled(w, a).ok
           /\ Due(Credited(w, a, n, lock).citizen, EVM!Settled(w, a).citizen, a, n, lock)
<1> DEFINE c     == citizens[w]
           e     == eCitizens[w]
           f     == Decayed(c, a, activeDays[w], today)
           g     == Decayed(e, a, activeDays[w], today)
           paid  == [f.citizen EXCEPT !.baseHonor[a] = @ + n, !.lockedKWR = @ + lock]
           weeks == WeeksProcessed(paid, volunteerDays[w], paid.lastDecayDay[a])
           other == WeeksProcessed(g.citizen, volunteerDays[w], g.citizen.lastDecayDay[a])
<1>1. /\ f.ok /\ weeks.ok /\ paid.baseHonor[a] <= MAX_UINT /\ paid.lockedKWR <= MAX_UINT
      /\ Credited(w, a, n, lock).citizen = weeks.citizen
  BY DEF Credited, Result
<1>2. /\ EVM!Settled(w, a).ok = (g.ok /\ other.ok)
      /\ EVM!Settled(w, a).citizen = other.citizen
  BY EvmSettled
<1>3. g.ok /\ Twins(f.citizen, g.citizen)
  <2>1. f.ok
    BY <1>1
  <2>2. f = Decayed(c, a, activeDays[w], today) /\ g = Decayed(e, a, activeDays[w], today)
    OBVIOUS
  <2> HIDE DEF f, g
  <2> QED BY <2>1, <2>2, TwinsDecay
<1> HIDE DEF f, g
<1>4. IsPaid(f.citizen, a, n, lock, paid)
  BY Zenon DEF IsPaid
<1> HIDE DEF paid
<1>5. Due(paid, g.citizen, a, n, lock)
  BY <1>1, <1>3, <1>4, FirstCredit
<1>6. paid.lastDecayDay[a] \in Nat /\ g.citizen.lastDecayDay[a] = paid.lastDecayDay[a]
  BY <1>5 DEF Due, Citizen
<1>7. other.ok /\ Due(weeks.citizen, other.citizen, a, n, lock)
  <2>1. /\ weeks = WeeksProcessed(paid, volunteerDays[w], paid.lastDecayDay[a])
        /\ other = WeeksProcessed(g.citizen, volunteerDays[w], paid.lastDecayDay[a])
        /\ weeks.ok
    BY <1>1, <1>6
  <2> HIDE DEF weeks, other
  <2> QED BY <1>5, <1>6, <2>1, StillDue
<1> QED BY <1>1, <1>2, <1>3, <1>7

-----------------------------------------------------------------------------
(* The inductive invariant. *)

\* Twins, and both there or both deleted.
PairOf(c, e) == Twins(c, e) /\ (c.isCitizen \/ (c = NoCitizen /\ e = NoCitizen))

\* The same jobs and days are used up.
SameJobs(used, eUsed) ==
    \A call \in HonorAttestations \cup DayAttestations : call.id \in used <=> call.id \in eUsed

\* Whatever both chains keep of a worker is the same, capital honor excepted.
TwinInv ==
    /\ today \in Nat
    /\ eAttester = attester
    /\ citizens \in [Worker -> Citizen] /\ eCitizens \in [Worker -> Citizen]
    /\ \A w \in Worker : PairOf(citizens[w], eCitizens[w])
    /\ eAttestedPoP = attestedPoP
    /\ eActiveDays = activeDays /\ eVolunteerDays = volunteerDays
    /\ eRequested = paidOut
    /\ SameJobs(consumed, eConsumed)

\* Two equal citizens are twins.
LEMMA EqualAreTwins ==
    ASSUME NEW c \in Citizen
    PROVE  Twins(c, c)
  BY TwinsAre, ConstantsAssumption DEF Citizen, Uint, Axis

\* What module SeumStandard deletes and joins is what this one does.
LEMMA SameLives ==
    /\ EVM!NoCitizen = NoCitizen
    /\ \A c, day : EVM!Joined(c, day) = Joined(c, day)
  BY Zenon DEF EVM!NoCitizen, NoCitizen, EVM!Axis, Axis, EVM!Joined, Joined

\* Nobody is a citizen at first.
LEMMA TwinInvInit == TwinInit => TwinInv
<1> SUFFICES ASSUME TwinInit PROVE TwinInv
  OBVIOUS
<1>1. /\ citizens = [w \in Worker |-> NoCitizen] /\ eCitizens = [w \in Worker |-> NoCitizen]
      /\ NoCitizen \in Citizen /\ Twins(NoCitizen, NoCitizen)
  BY NoCitizenType, EqualAreTwins, SameLives DEF TwinInit, Init, EVM!Init
<1>2. \A w \in Worker : PairOf(citizens[w], eCitizens[w])
  BY <1>1 DEF PairOf
<1>3. /\ today \in Nat /\ eAttester = attester
      /\ eAttestedPoP = attestedPoP
      /\ eActiveDays = activeDays /\ eVolunteerDays = volunteerDays
      /\ eRequested = paidOut /\ consumed = {} /\ eConsumed = {}
  BY CallTypes DEF TwinInit, Init, EVM!Init
<1> QED BY <1>1, <1>2, <1>3 DEF TwinInv, SameJobs

\* The pair of one worker is replaced.
LEMMA PairReplaced ==
    ASSUME TwinInv, NEW w \in Worker, NEW c, NEW e, PairOf(c, e),
           citizens' = [citizens EXCEPT ![w] = c], eCitizens' = [eCitizens EXCEPT ![w] = e]
    PROVE  /\ citizens' \in [Worker -> Citizen] /\ eCitizens' \in [Worker -> Citizen]
           /\ \A v \in Worker : PairOf(citizens'[v], eCitizens'[v])
<1>1. c \in Citizen /\ e \in Citizen
  BY DEF PairOf, Twins, Due
<1>2. /\ citizens \in [Worker -> Citizen] /\ eCitizens \in [Worker -> Citizen]
      /\ \A v \in Worker : PairOf(citizens[v], eCitizens[v])
  BY DEF TwinInv
<1>3. citizens' \in [Worker -> Citizen] /\ eCitizens' \in [Worker -> Citizen]
  BY <1>1, <1>2
<1>4. ASSUME NEW v \in Worker PROVE PairOf(citizens'[v], eCitizens'[v])
  <2>1. CASE v = w
    <3>1. citizens'[v] = c /\ eCitizens'[v] = e
      BY <1>2, <2>1
    <3> QED BY <3>1
  <2>2. CASE v # w
    <3>1. citizens'[v] = citizens[v] /\ eCitizens'[v] = eCitizens[v]
      BY <1>2, <2>2
    <3> QED BY <1>2, <3>1
  <2> QED BY <2>1, <2>2
<1> QED BY <1>3, <1>4

\* The types of what the payloads hold, and of what the twin is sent for them.
LEMMA PayloadTypes ==
    /\ \A att \in PoPAttestations : att.worker \in Worker
    /\ \A att \in MintAttestations : att.worker \in Worker /\ att.kWRAmount \in Nat
    /\ \A att \in HonorAttestations :
          att.worker \in Worker /\ att.axis \in Axis /\ att.honorDelta \in Nat
    /\ \A att \in DayAttestations : att.worker \in Worker
<1>1. Uint \subseteq Nat
  BY ConstantsAssumption DEF Uint
<1> QED BY <1>1, PayloadAssumption

\* A credit on both chains leaves a pair.
LEMMA PairCredited ==
    ASSUME TwinInv, NEW w \in Worker, NEW a \in Axis, NEW n \in Nat, NEW lock \in Nat,
           citizens[w].isCitizen, Credited(w, a, n, lock).ok,
           NEW d, IsPaid(EVM!Settled(w, a).citizen, a, n, lock, d),
           citizens' = [citizens EXCEPT ![w] = Credited(w, a, n, lock).citizen],
           eCitizens' = [eCitizens EXCEPT ![w] = d]
    PROVE  /\ citizens' \in [Worker -> Citizen] /\ eCitizens' \in [Worker -> Citizen]
           /\ \A v \in Worker : PairOf(citizens'[v], eCitizens'[v])
<1> DEFINE f == Credited(w, a, n, lock).citizen
           g == EVM!Settled(w, a).citizen
<1>1. /\ today \in Nat /\ citizens[w] \in Citizen /\ Twins(citizens[w], eCitizens[w])
      /\ eActiveDays = activeDays /\ eVolunteerDays = volunteerDays
  BY DEF TwinInv, PairOf
<1>2. Due(f, g, a, n, lock)
  BY <1>1, CreditedTogether
<1>3. CreditedFacts(citizens[w], a, lock, f)
  BY <1>1, CreditedType
<1> HIDE DEF f, g
<1>4. Twins(f, d)
  <2>1. IsPaid(g, a, n, lock, d)
    BY DEF g
  <2> QED BY <1>2, <2>1, LastCredit
<1>5. f.isCitizen
  BY <1>3 DEF CreditedFacts
<1>6. PairOf(f, d)
  BY <1>4, <1>5 DEF PairOf
<1>7. citizens' = [citizens EXCEPT ![w] = f] /\ eCitizens' = [eCitizens EXCEPT ![w] = d]
  BY DEF f
<1> QED BY <1>6, <1>7, PairReplaced

\* A job or day used up on both chains, or an identifier of the EVM chain alone.
LEMMA JobsUsed ==
    ASSUME NEW used, NEW eUsed, SameJobs(used, eUsed), NEW id
    PROVE  /\ SameJobs(used \cup {id}, eUsed \cup {id})
           /\ (\A call \in HonorAttestations \cup DayAttestations : id # call.id)
                => SameJobs(used, eUsed \cup {id})
  BY DEF SameJobs

\* Every deed on both chains leaves the twins; one step per deed.
LEMMA TwinInvStep == TwinInv /\ [TwinNext]_tvars => TwinInv'
<1> SUFFICES ASSUME TwinInv, [TwinNext]_tvars PROVE TwinInv'
  OBVIOUS
<1>0. /\ today \in Nat /\ eAttester = attester
      /\ citizens \in [Worker -> Citizen] /\ eCitizens \in [Worker -> Citizen]
      /\ \A w \in Worker : PairOf(citizens[w], eCitizens[w])
      /\ eAttestedPoP = attestedPoP
      /\ eActiveDays = activeDays /\ eVolunteerDays = volunteerDays
      /\ eRequested = paidOut
      /\ SameJobs(consumed, eConsumed)
  BY DEF TwinInv
<1>1. CASE EVM!NextDay /\ NextDay
  <2>1. /\ today' = today + 1
        /\ UNCHANGED <<attester, citizens, attestedPoP, activeDays, volunteerDays, consumed,
                       paidOut>>
    BY <1>1 DEF NextDay, contract, bank
  <2>2. UNCHANGED <<eAttester, eCitizens, eAttestedPoP, eActiveDays, eVolunteerDays, eConsumed,
                    eRequested>>
    BY <1>1 DEF EVM!NextDay, EVM!contract, EVM!events
  <2>3. today' \in Nat
    BY <1>0, <2>1
  <2> QED BY <1>0, <2>1, <2>2, <2>3 DEF TwinInv
<1>2. ASSUME NEW att \in PoPAttestations, EVM!AttestPoP(att), AttestPoP(attester, att.worker)
      PROVE  TwinInv'
  <2>1. /\ attestedPoP' = attestedPoP \cup {att.worker}
        /\ UNCHANGED <<today, attester, citizens, activeDays, volunteerDays, consumed, paidOut>>
    BY <1>2 DEF AttestPoP, bank
  <2>2. /\ eAttestedPoP' = eAttestedPoP \cup {att.worker} /\ eConsumed' = eConsumed \cup {att.id}
        /\ UNCHANGED <<eAttester, eCitizens, eActiveDays, eVolunteerDays, eRequested>>
    BY <1>2 DEF EVM!AttestPoP, EVM!events
  <2>3. SameJobs(consumed, eConsumed \cup {att.id})
    <3>1. \A call \in HonorAttestations \cup DayAttestations : att.id # call.id
      BY IdAssumption
    <3> QED BY <1>0, <3>1, JobsUsed
  <2> QED BY <1>0, <2>1, <2>2, <2>3 DEF TwinInv
<1>3. ASSUME NEW w \in Worker, EVM!Join(w), Join(w) PROVE TwinInv'
  <2>1. /\ ~ citizens[w].isCitizen
        /\ citizens' = [citizens EXCEPT ![w] = Joined(NoCitizen, today)]
        /\ UNCHANGED <<today, attester, attestedPoP, activeDays, volunteerDays, consumed, paidOut>>
    BY <1>3 DEF Join, bank
  <2>2. /\ eCitizens' = [eCitizens EXCEPT ![w] = Joined(eCitizens[w], today)]
        /\ UNCHANGED <<eAttester, eAttestedPoP, eActiveDays, eVolunteerDays, eConsumed,
                       eRequested>>
    BY <1>3, SameLives DEF EVM!Join, EVM!events
  <2>3. eCitizens[w] = NoCitizen
    BY <1>0, <2>1 DEF PairOf
  <2>4. PairOf(Joined(NoCitizen, today), Joined(NoCitizen, today))
    BY <1>0, JoinedType, EqualAreTwins DEF PairOf
  <2>5. /\ citizens' \in [Worker -> Citizen] /\ eCitizens' \in [Worker -> Citizen]
        /\ \A v \in Worker : PairOf(citizens'[v], eCitizens'[v])
    BY <2>1, <2>2, <2>3, <2>4, PairReplaced
  <2> QED BY <1>0, <2>1, <2>2, <2>5 DEF TwinInv
<1>4. ASSUME NEW w \in Worker, NEW offset \in 0..DAYS_PER_WEEK,
             EVM!SetSabbathDay(w, offset), SetSabbathDay(w, offset)
      PROVE  TwinInv'
  <2> DEFINE c == [citizens[w] EXCEPT !.sabbathOffset = offset]
             e == [eCitizens[w] EXCEPT !.sabbathOffset = offset]
  <2>1. /\ offset < DAYS_PER_WEEK /\ citizens[w].isCitizen
        /\ citizens' = [citizens EXCEPT ![w] = c]
        /\ UNCHANGED <<today, attester, attestedPoP, activeDays, volunteerDays, consumed, paidOut>>
    BY <1>4 DEF SetSabbathDay, bank
  <2>2. /\ eCitizens' = [eCitizens EXCEPT ![w] = e]
        /\ UNCHANGED <<eAttester, eAttestedPoP, eActiveDays, eVolunteerDays, eConsumed,
                       eRequested>>
    BY <1>4 DEF EVM!SetSabbathDay, EVM!events
  <2>3. offset \in 0..(DAYS_PER_WEEK - 1)
    BY <2>1, ConstantsAssumption
  <2>4. /\ citizens[w] \in Citizen /\ eCitizens[w] \in Citizen /\ Twins(citizens[w], eCitizens[w])
    BY <1>0 DEF PairOf
  <2>5. Twins(c, e) /\ c.isCitizen
    <3>1. c \in Citizen /\ e \in Citizen /\ c.isCitizen = citizens[w].isCitizen
      BY <2>3, <2>4, SabbathType
    <3>2. c.sabbathOffset = offset /\ e.sabbathOffset = offset
      BY <2>4 DEF Citizen
    <3>3. /\ c.joinDay = citizens[w].joinDay /\ c.lockedKWR = citizens[w].lockedKWR
          /\ c.baseHonor = citizens[w].baseHonor /\ c.lastDecayDay = citizens[w].lastDecayDay
          /\ c.decayRateAtLastDay = citizens[w].decayRateAtLastDay
          /\ c.volunteerWeeks = citizens[w].volunteerWeeks
          /\ c.lastProcessedWeek = citizens[w].lastProcessedWeek
          /\ c.volunteerMultBP = citizens[w].volunteerMultBP
      BY <2>4 DEF Citizen
    <3>4. /\ e.joinDay = eCitizens[w].joinDay /\ e.lockedKWR = eCitizens[w].lockedKWR
          /\ e.baseHonor = eCitizens[w].baseHonor /\ e.lastDecayDay = eCitizens[w].lastDecayDay
          /\ e.decayRateAtLastDay = eCitizens[w].decayRateAtLastDay
          /\ e.volunteerWeeks = eCitizens[w].volunteerWeeks
          /\ e.lastProcessedWeek = eCitizens[w].lastProcessedWeek
          /\ e.volunteerMultBP = eCitizens[w].volunteerMultBP
          /\ e.isCitizen = eCitizens[w].isCitizen
      BY <2>4 DEF Citizen
    <3> HIDE DEF c, e
    <3> QED BY <2>1, <2>4, <3>1, <3>2, <3>3, <3>4 DEF Twins, Due
  <2> HIDE DEF c, e
  <2>6. /\ citizens' \in [Worker -> Citizen] /\ eCitizens' \in [Worker -> Citizen]
        /\ \A v \in Worker : PairOf(citizens'[v], eCitizens'[v])
    BY <2>1, <2>2, <2>5, PairReplaced DEF PairOf
  <2> QED BY <1>0, <2>1, <2>2, <2>6 DEF TwinInv
<1>5. ASSUME NEW w \in Worker, EVM!Ragequit(w), Ragequit(w) PROVE TwinInv'
  <2>1. /\ citizens' = [citizens EXCEPT ![w] = NoCitizen]
        /\ paidOut' = [paidOut EXCEPT ![w] = @ + citizens[w].lockedKWR]
        /\ UNCHANGED <<today, attester, attestedPoP, activeDays, volunteerDays, consumed>>
    BY <1>5 DEF Ragequit
  <2>2. /\ eCitizens' = [eCitizens EXCEPT ![w] = NoCitizen]
        /\ eRequested' = [eRequested EXCEPT ![w] = @ + eCitizens[w].lockedKWR]
        /\ UNCHANGED <<eAttester, eAttestedPoP, eActiveDays, eVolunteerDays, eConsumed>>
    BY <1>5, SameLives DEF EVM!Ragequit, EVM!Deleted
  <2>3. eCitizens[w].lockedKWR = citizens[w].lockedKWR
    <3>1. eCitizens[w].lockedKWR \in Nat
      BY <1>0, ConstantsAssumption DEF Citizen, Uint
    <3> QED BY <1>0, <3>1 DEF PairOf, Twins, Due
  <2>4. PairOf(NoCitizen, NoCitizen)
    BY NoCitizenType, EqualAreTwins DEF PairOf
  <2>5. /\ citizens' \in [Worker -> Citizen] /\ eCitizens' \in [Worker -> Citizen]
        /\ \A v \in Worker : PairOf(citizens'[v], eCitizens'[v])
    BY <2>1, <2>2, <2>4, PairReplaced
  <2>6. eRequested' = paidOut'
    BY <1>0, <2>1, <2>2, <2>3
  <2> QED BY <1>0, <2>1, <2>2, <2>5, <2>6 DEF TwinInv
<1>6. ASSUME NEW att \in MintAttestations,
             EVM!BridgeMintCapital(att), ContributeCapital(Contribution(att))
      PROVE  TwinInv'
  <2> DEFINE w == att.worker
             n == att.kWRAmount
             s == EVM!Settled(w, "CAPITAL").citizen
             d == [s EXCEPT !.baseHonor["CAPITAL"] = @ + n, !.lockedKWR = @ + n]
  <2>1. w \in Worker /\ n \in Nat /\ "CAPITAL" \in Axis
    BY PayloadTypes DEF Axis
  <2>2. Contribution(att).worker = w /\ Contribution(att).funds[KWR] = n
    BY CallTypes DEF Contribution
  <2>3. /\ citizens[w].isCitizen /\ Credited(w, "CAPITAL", n, n).ok
        /\ citizens' = [citizens EXCEPT ![w] = Credited(w, "CAPITAL", n, n).citizen]
        /\ UNCHANGED <<today, attester, attestedPoP, activeDays, volunteerDays, consumed, paidOut>>
    BY <1>6, <2>2 DEF ContributeCapital
  <2>4. /\ eCitizens' = [eCitizens EXCEPT ![w] = d] /\ eConsumed' = eConsumed \cup {att.id}
        /\ UNCHANGED <<eAttester, eAttestedPoP, eActiveDays, eVolunteerDays, eRequested>>
    BY <1>6 DEF EVM!BridgeMintCapital
  <2>5. IsPaid(s, "CAPITAL", n, n, d)
    BY Zenon DEF IsPaid
  <2> HIDE DEF w, n, d
  <2>6. /\ citizens' \in [Worker -> Citizen] /\ eCitizens' \in [Worker -> Citizen]
        /\ \A v \in Worker : PairOf(citizens'[v], eCitizens'[v])
    BY <2>1, <2>3, <2>4, <2>5, PairCredited
  <2>7. SameJobs(consumed, eConsumed \cup {att.id})
    <3>1. \A call \in HonorAttestations \cup DayAttestations : att.id # call.id
      BY IdAssumption
    <3> QED BY <1>0, <3>1, JobsUsed
  <2> QED BY <1>0, <2>3, <2>4, <2>6, <2>7 DEF TwinInv
<1>7. ASSUME NEW att \in HonorAttestations,
             EVM!AttestHonor(att), AttestHonor(attester, HonorCall(att))
      PROVE  TwinInv'
  <2> DEFINE w == att.worker
             a == att.axis
             n == att.honorDelta
             s == EVM!Settled(w, a).citizen
             d == [s EXCEPT !.baseHonor[a] = @ + n]
  <2>1. w \in Worker /\ n \in Nat /\ a \in Axis
    BY PayloadTypes
  <2>2. /\ HonorCall(att).worker = w /\ HonorCall(att).axis = a
        /\ HonorCall(att).honorDelta = n /\ HonorCall(att).id = att.id
    BY DEF HonorCall
  <2>3. /\ citizens[w].isCitizen /\ Credited(w, a, n, 0).ok
        /\ citizens' = [citizens EXCEPT ![w] = Credited(w, a, n, 0).citizen]
        /\ consumed' = consumed \cup {att.id}
        /\ UNCHANGED <<today, attester, attestedPoP, activeDays, volunteerDays, paidOut>>
    BY <1>7, <2>2 DEF AttestHonor, bank
  <2>4. /\ eCitizens' = [eCitizens EXCEPT ![w] = d] /\ eConsumed' = eConsumed \cup {att.id}
        /\ UNCHANGED <<eAttester, eAttestedPoP, eActiveDays, eVolunteerDays, eRequested>>
    BY <1>7 DEF EVM!AttestHonor
  <2>5. s \in Citizen
    <3>1. Twins(citizens[w], eCitizens[w])
      BY <1>0, <2>1 DEF PairOf
    <3> HIDE DEF w, a, n
    <3>2. Due(Credited(w, a, n, 0).citizen, s, a, n, 0)
      BY <1>0, <2>1, <2>3, <3>1, CreditedTogether
    <3> QED BY <3>2 DEF Due
  <2> HIDE DEF w, a, n, s
  <2>6. IsPaid(s, a, n, 0, d)
    <3>1. s.lockedKWR \in Nat
      BY <2>5, ConstantsAssumption DEF Citizen, Uint
    <3>2. s.lockedKWR + 0 = s.lockedKWR
      BY <3>1
    <3>3. [d EXCEPT !.lockedKWR = s.lockedKWR] = d /\ d.lockedKWR = s.lockedKWR
      BY <2>5 DEF Citizen
    <3>4. [s EXCEPT !.baseHonor[a] = @ + n, !.lockedKWR = @ + 0]
            = [d EXCEPT !.lockedKWR = s.lockedKWR + 0]
      BY <2>5 DEF Citizen
    <3> QED BY <3>2, <3>3, <3>4 DEF IsPaid
  <2>7. /\ citizens' \in [Worker -> Citizen] /\ eCitizens' \in [Worker -> Citizen]
        /\ \A v \in Worker : PairOf(citizens'[v], eCitizens'[v])
    <3>1. IsPaid(EVM!Settled(w, a).citizen, a, n, 0, d)
      BY <2>6 DEF s
    <3> HIDE DEF d
    <3> QED BY <2>1, <2>3, <2>4, <3>1, PairCredited
  <2>8. SameJobs(consumed \cup {att.id}, eConsumed \cup {att.id})
    BY <1>0, JobsUsed
  <2> QED BY <1>0, <2>3, <2>4, <2>7, <2>8 DEF TwinInv
<1>8. ASSUME NEW att \in DayAttestations,
             EVM!AttestDay(att), AttestDay(attester, DayCall(att))
      PROVE  TwinInv'
  <2> DEFINE Marked(days, gate) ==
               IF gate THEN [days EXCEPT ![att.worker] = @ \cup {att.day}] ELSE days
  <2>1. /\ DayCall(att).worker = att.worker /\ DayCall(att).day = att.day
        /\ DayCall(att).active = att.active /\ DayCall(att).volunteer = att.volunteer
        /\ DayCall(att).id = att.id
    BY DEF DayCall
  <2>2. /\ activeDays' = Marked(activeDays, att.active)
        /\ volunteerDays' = Marked(volunteerDays, att.volunteer)
        /\ consumed' = consumed \cup {att.id}
        /\ UNCHANGED <<today, attester, citizens, attestedPoP, paidOut>>
    BY <1>8, <2>1 DEF AttestDay, bank
  <2>3. /\ eActiveDays' = Marked(eActiveDays, att.active)
        /\ eVolunteerDays' = Marked(eVolunteerDays, att.volunteer)
        /\ eConsumed' = eConsumed \cup {att.id}
        /\ UNCHANGED <<eAttester, eCitizens, eAttestedPoP, eRequested>>
    BY <1>8 DEF EVM!AttestDay, EVM!events
  <2>4. eActiveDays' = activeDays' /\ eVolunteerDays' = volunteerDays'
    BY <1>0, <2>2, <2>3
  <2>5. SameJobs(consumed \cup {att.id}, eConsumed \cup {att.id})
    BY <1>0, JobsUsed
  <2> QED BY <1>0, <2>2, <2>3, <2>4, <2>5 DEF TwinInv
<1>9. CASE UNCHANGED tvars
  BY <1>0, <1>9 DEF TwinInv, tvars, vars, contract, bank, evm
<1> QED BY <1>1, <1>2, <1>3, <1>4, <1>5, <1>6, <1>7, <1>8, <1>9 DEF TwinNext

-----------------------------------------------------------------------------
(* How far the twin's capital may lead. *)

\* A power is a product of one factor more than the power before.
LEMMA PowerUnfolds ==
    ASSUME NEW base \in Nat
    PROVE  /\ Power(base, 0) = 1
           /\ \A n \in Nat : Power(base, n + 1) = base * Power(base, n)
<1> DEFINE step == [k \in PosNat |-> [p \in Nat |-> base * p]]
           IsRun(f, n) == f = [k \in 0..n |-> IF k = 0 THEN 1 ELSE base * f[k-1]]
<1>1. step \in [PosNat -> [Nat -> Nat]] /\ 1 \in Nat
  OBVIOUS
<1> HIDE DEF step
<1>2. PICK g : IsLoop(g, Nat, 1, step)
  BY <1>1, LoopRuns
<1>3. /\ g \in [Nat -> Nat] /\ g[0] = 1
      /\ \A n \in Nat : g[n+1] = base * g[n]
  <2>1. \A n \in Nat : n + 1 \in PosNat
    OBVIOUS
  <2>2. \A n \in PosNat, p \in Nat : step[n][p] = base * p
    BY DEF step
  <2>3. /\ g \in [Nat -> Nat] /\ g[0] = 1
        /\ \A n \in Nat : g[n+1] = step[n+1][g[n]]
    BY <1>2 DEF IsLoop
  <2>4. ASSUME NEW n \in Nat PROVE g[n+1] = base * g[n]
    <3>1. g[n] \in Nat /\ n + 1 \in PosNat
      BY <2>1, <2>3
    <3> QED BY <2>2, <2>3, <3>1
  <2> QED BY <2>3, <2>4
<1>4. ASSUME NEW n \in Nat PROVE Power(base, n) = g[n]
  <2>1. IsRun([k \in 0..n |-> g[k]], n)
    <3>1. \A k \in 0..n : k # 0 => k - 1 \in Nat /\ k = (k - 1) + 1 /\ k - 1 \in 0..n
      OBVIOUS
    <3>2. \A k \in 0..n : k # 0 => g[k] = base * g[k-1]
      BY <1>3, <3>1
    <3> QED BY <1>3, <3>1, <3>2
  <2> DEFINE run == CHOOSE f : IsRun(f, n)
  <2>2. IsRun(run, n)
    BY <2>1
  <2>3. Power(base, n) = run[n]
    BY DEF Power
  <2> HIDE DEF run
  <2>4. /\ run[0] = 1
        /\ \A k \in 1..n : run[k] = base * run[k-1]
    <3>1. 0 \in 0..n /\ \A k \in 1..n : k \in 0..n /\ k # 0
      OBVIOUS
    <3>2. \A k \in 0..n : run[k] = IF k = 0 THEN 1 ELSE base * run[k-1]
      BY <2>2
    <3> QED BY <3>1, <3>2
  <2>5. \A k \in 1..n : k - 1 \in Nat /\ k = (k - 1) + 1
    OBVIOUS
  <2>6. Follows(run, n, g)
    BY <1>3, <2>4, <2>5 DEF Follows
  <2> QED BY <2>3, <2>6, FollowsTo
<1> QED BY <1>3, <1>4

\* A larger base has larger powers.
LEMMA PowersGrow ==
    ASSUME NEW b \in Nat, NEW d \in Nat, b <= d, NEW n \in Nat
    PROVE  Power(b, n) \in Nat /\ Power(d, n) \in Nat /\ Power(b, n) <= Power(d, n)
<1> DEFINE Good == {k \in Nat : /\ Power(b, k) \in Nat /\ Power(d, k) \in Nat
                                /\ Power(b, k) <= Power(d, k)}
<1>1. 0 \in Good
  <2>1. Power(b, 0) = 1 /\ Power(d, 0) = 1
    BY PowerUnfolds
  <2> QED BY <2>1
<1>2. ASSUME NEW k \in Nat, k \in Good PROVE k + 1 \in Good
  <2> DEFINE p == Power(b, k)
             q == Power(d, k)
  <2>1. p \in Nat /\ q \in Nat /\ p <= q
    BY <1>2
  <2>2. Power(b, k + 1) = b * p /\ Power(d, k + 1) = d * q
    BY PowerUnfolds
  <2> HIDE DEF p, q
  <2>3. b * p <= b * q /\ b * q <= d * q /\ b * p \in Nat /\ b * q \in Nat /\ d * q \in Nat
    BY <2>1
  <2> QED BY <2>2, <2>3
<1> HIDE DEF Good
<1>3. n \in Good
  BY <1>1, <1>2, NatSetInduction
<1> QED BY <1>3 DEF Good

\* The constants the bound is made of, and what makes rounding harmless.
LEMMA LeadConstants ==
    /\ Rounding \in Nat /\ BASIS_POINTS \in PosNat /\ BASE_DECAY_BP \in 1..BASIS_POINTS
    /\ VOLUNTEER_CAPITAL_PCT \in Nat /\ VOLUNTEER_CAPITAL_MIN \in Nat
    /\ Rounding * BASE_DECAY_BP >= BASIS_POINTS - 1
<1> DEFINE b == BASIS_POINTS - 1
           k == BASE_DECAY_BP
<1>1. b \in Nat /\ k \in PosNat
  BY ConstantsAssumption, DecayAssumption
<1>2. Rounding = b \div k + 1
  BY DEF Rounding
<1> HIDE DEF b, k
<1>3. b \div k \in Nat /\ b < (b \div k + 1) * k
  BY <1>1
<1>4. Rounding \in Nat /\ Rounding * k >= b
  BY <1>1, <1>2, <1>3
<1> QED BY <1>4, ConstantsAssumption, DecayAssumption DEF b, k

\* The bound, for any two capitals and any factors.
Within(x, y, p, q) == x * p <= (y + Rounding) * q

\* A credit to both keeps the bound.
LEMMA CreditWithin ==
    ASSUME NEW x \in Nat, NEW y \in Nat, NEW p \in Nat, NEW q \in Nat, p <= q,
           Within(x, y, p, q), NEW n \in Nat
    PROVE  Within(x + n, y + n, p, q)
<1> DEFINE z == y + Rounding
<1>1. z \in Nat /\ x * p <= z * q /\ y + n + Rounding = z + n
  BY LeadConstants DEF Within
<1> HIDE DEF z
<1>2. n * p <= n * q /\ x * p \in Nat /\ z * q \in Nat /\ n * p \in Nat /\ n * q \in Nat
  BY <1>1
<1>3. (x + n) * p = x * p + n * p /\ (z + n) * q = z * q + n * q
  BY <1>1
<1>4. (x + n) * p <= (z + n) * q
  BY <1>1, <1>2, <1>3
<1> QED BY <1>1, <1>4 DEF Within

\* A decayed day of both keeps the bound: the rounding is paid by the decay of the slack.
LEMMA DecayWithin ==
    ASSUME NEW x \in Nat, NEW y \in Nat, NEW p \in Nat, NEW q \in Nat, Within(x, y, p, q),
           NEW left \in 0..(BASIS_POINTS - BASE_DECAY_BP)
    PROVE  Within((x * left) \div BASIS_POINTS, (y * left) \div BASIS_POINTS, p, q)
<1> DEFINE b == BASIS_POINTS
           r == Rounding
           f == (x * left) \div b
           g == (y * left) \div b
           z == y + r
<1>1. /\ b \in Nat /\ b > 0 /\ r \in Nat /\ left \in Nat /\ BASE_DECAY_BP \in Nat
      /\ left + BASE_DECAY_BP <= b /\ r * BASE_DECAY_BP >= b - 1
      /\ x * p <= z * q
  BY LeadConstants DEF Within
<1>2. x * left \in Nat /\ y * left \in Nat
  BY <1>1
<1>3. f \in Nat /\ g \in Nat /\ b * f <= x * left /\ y * left <= b * g + (b - 1)
  <2> DEFINE u == x * left
             v == y * left
  <2>1. u \in Nat /\ v \in Nat
    BY <1>2
  <2> HIDE DEF u, v, b
  <2>2. u \div b \in Nat /\ v \div b \in Nat /\ b * (u \div b) <= u /\ v <= b * (v \div b) + (b - 1)
    BY <1>1, <2>1
  <2> QED BY <2>2 DEF u, v
<1> HIDE DEF b, r, f, g
<1>4. left * z <= b * (g + r)
  <2>1. r * left + r * BASE_DECAY_BP <= r * b
    <3>1. r * (left + BASE_DECAY_BP) <= r * b
      BY <1>1
    <3> QED BY <1>1, <3>1
  <2>2. left * z = y * left + r * left
    BY <1>1
  <2>3. b * (g + r) = b * g + r * b
    BY <1>1, <1>3
  <2>4. r * left \in Nat /\ r * b \in Nat /\ r * BASE_DECAY_BP \in Nat /\ b * g \in Nat
    BY <1>1, <1>3
  <2> QED BY <1>1, <1>2, <1>3, <2>1, <2>2, <2>3, <2>4
<1>5. z \in Nat /\ z * q \in Nat /\ x * p \in Nat /\ g + r \in Nat /\ b * (g + r) \in Nat
      /\ left * z \in Nat /\ b * f \in Nat
  BY <1>1, <1>3
<1> HIDE DEF z
<1>6. (b * f) * p <= (x * left) * p
  BY <1>2, <1>3, <1>5
<1>7. (x * left) * p = left * (x * p)
  BY <1>1
<1>8. left * (x * p) <= left * (z * q)
  BY <1>1, <1>5
<1>9. left * (z * q) = (left * z) * q
  BY <1>1, <1>5
<1>10. (left * z) * q <= (b * (g + r)) * q
  BY <1>4, <1>5
<1>11. b * (f * p) <= b * ((g + r) * q)
  <2>1. b * (f * p) = (b * f) * p /\ b * ((g + r) * q) = (b * (g + r)) * q
    BY <1>1, <1>3, <1>5
  <2>2. /\ (b * f) * p \in Nat /\ (x * left) * p \in Nat /\ left * (z * q) \in Nat
        /\ (b * (g + r)) * q \in Nat
    BY <1>1, <1>2, <1>5
  <2> QED BY <1>6, <1>7, <1>8, <1>9, <1>10, <2>1, <2>2
<1>12. f * p <= (g + r) * q
  <2> DEFINE m == f * p
             n == (g + r) * q
  <2>1. m \in Nat /\ n \in Nat /\ b * m <= b * n
    BY <1>3, <1>5, <1>11
  <2> HIDE DEF m, n
  <2>2. m <= n
    BY <1>1, <2>1
  <2> QED BY <2>2 DEF m, n
<1> QED BY <1>12 DEF Within, f, g, r, b

\* A week's bonus, at least the minimum for the other, keeps the bound of one week more.
LEMMA BonusWithin ==
    ASSUME NEW x \in Nat, NEW y \in Nat, NEW p \in Nat, NEW q \in Nat, p <= q,
           Within(x, y, p, q), NEW d \in Nat, d >= VOLUNTEER_CAPITAL_MIN
    PROVE  Within(x + CapitalBonus(x), y + d, BASIS_POINTS * p,
                  (BASIS_POINTS + VOLUNTEER_CAPITAL_PCT) * q)
<1> DEFINE b == BASIS_POINTS
           t == BASIS_POINTS + VOLUNTEER_CAPITAL_PCT
           m == VOLUNTEER_CAPITAL_MIN
           z == y + Rounding
           share == (x * VOLUNTEER_CAPITAL_PCT) \div b
<1>1. /\ b \in PosNat /\ t \in Nat /\ b <= t /\ t = b + VOLUNTEER_CAPITAL_PCT
      /\ m \in Nat /\ Rounding \in Nat /\ VOLUNTEER_CAPITAL_PCT \in Nat
  BY LeadConstants
<1>2. CapitalBonus(x) = IF share < m THEN m ELSE share
  BY Zenon DEF CapitalBonus
<1>3. share \in Nat /\ b * share <= x * VOLUNTEER_CAPITAL_PCT
  <2> DEFINE u == x * VOLUNTEER_CAPITAL_PCT
  <2>1. u \in Nat
    BY <1>1
  <2> HIDE DEF u, b
  <2>2. u \div b \in Nat /\ b * (u \div b) <= u
    BY <1>1, <2>1
  <2> QED BY <2>2 DEF u
<1>4. z \in Nat /\ x * p <= z * q /\ x * p \in Nat /\ z * q \in Nat /\ t * q \in Nat /\ b * p \in Nat
  BY <1>1 DEF Within
<1>5. (z + d) * (t * q) >= (z + m) * (t * q) /\ (z + m) * (t * q) >= z * (t * q)
      /\ z * (t * q) \in Nat /\ (z + m) * (t * q) \in Nat /\ (z + d) * (t * q) \in Nat
  <2> DEFINE n == t * q
  <2>1. n \in Nat
    BY <1>4
  <2> HIDE DEF n, t, z, m, b
  <2>2. m <= d
    BY <1>1 DEF m
  <2>3. (z + d) * n >= (z + m) * n /\ (z + m) * n >= z * n
        /\ z * n \in Nat /\ (z + m) * n \in Nat /\ (z + d) * n \in Nat
    BY <1>1, <1>4, <2>1, <2>2
  <2> QED BY <2>3 DEF n
<1>6. CASE ~ (share < m)
  <2>1. CapitalBonus(x) = share
    BY <1>2, <1>6
  <2> HIDE DEF b, t, m, z, share
  <2>2. b * (x + share) <= t * x
    <3>1. b * (x + share) = b * x + b * share /\ t * x = b * x + x * VOLUNTEER_CAPITAL_PCT
      BY <1>1, <1>3
    <3>2. b * x \in Nat /\ b * share \in Nat /\ x * VOLUNTEER_CAPITAL_PCT \in Nat
      BY <1>1, <1>3
    <3> QED BY <1>3, <3>1, <3>2
  <2>3. b * (x + share) \in Nat /\ t * x \in Nat
    BY <1>1, <1>3
  <2>4. (b * (x + share)) * p <= (t * x) * p
    BY <2>2, <2>3
  <2>5. (b * (x + share)) * p = (x + share) * (b * p) /\ (t * x) * p = t * (x * p)
    BY <1>1, <1>3
  <2>6. t * (x * p) <= t * (z * q) /\ t * (z * q) = z * (t * q)
    BY <1>1, <1>4
  <2>7. (x + share) * (b * p) \in Nat /\ t * (x * p) \in Nat
    BY <1>1, <1>3, <1>4
  <2>8. (x + share) * (b * p) <= (z + d) * (t * q)
    BY <1>5, <2>4, <2>5, <2>6, <2>7
  <2>9. z + d = y + d + Rounding
    BY <1>1 DEF z
  <2> QED BY <2>1, <2>8, <2>9 DEF Within, b, t
<1>7. CASE share < m
  <2>1. CapitalBonus(x) = m
    BY <1>2, <1>7
  <2>2. Within(x + m, y + m, p, q)
    BY <1>1, CreditWithin
  <2>3. (x + m) * p <= (z + m) * q
    <3>1. y + m + Rounding = z + m
      BY <1>1
    <3> QED BY <2>2, <3>1 DEF Within
  <2> HIDE DEF b, t, m, z, share
  <2> DEFINE u == (x + m) * p
             v == (z + m) * q
  <2>4. u \in Nat /\ v \in Nat /\ u <= v
    BY <1>1, <1>4, <2>3
  <2>5. (x + m) * (b * p) = b * u /\ (z + m) * (t * q) = t * v
    BY <1>1, <1>4
  <2> HIDE DEF u, v
  <2>6. b * u <= b * v /\ b * v <= t * v /\ b * u \in Nat /\ b * v \in Nat /\ t * v \in Nat
    BY <1>1, <2>4
  <2>7. (x + m) * (b * p) <= (z + d) * (t * q)
    BY <1>5, <2>5, <2>6
  <2>8. z + d = y + d + Rounding
    BY <1>1 DEF z
  <2> QED BY <2>1, <2>7, <2>8 DEF Within, b, t
<1> QED BY <1>6, <1>7

\* The lead that so many weeks allow, by the powers of that many factors.
LEMMA LeadIs ==
    ASSUME NEW x \in Nat, NEW y \in Nat, NEW weeks \in Nat
    PROVE  LET p == Power(BASIS_POINTS, weeks)
               q == Power(BASIS_POINTS + VOLUNTEER_CAPITAL_PCT, weeks)
           IN  /\ LeadIsBonus(x, y, weeks) <=> (weeks = 0 => x = y) /\ Within(x, y, p, q)
               /\ p \in Nat /\ q \in Nat /\ p <= q
<1>1. /\ BASIS_POINTS \in Nat /\ BASIS_POINTS + VOLUNTEER_CAPITAL_PCT \in Nat
      /\ BASIS_POINTS <= BASIS_POINTS + VOLUNTEER_CAPITAL_PCT
  BY LeadConstants
<1> QED BY <1>1, PowersGrow DEF LeadIsBonus, Within

\* Equal capitals lead by nothing.
LEMMA NoLead ==
    ASSUME NEW x \in Nat, NEW weeks \in Nat
    PROVE  LeadIsBonus(x, x, weeks)
<1> DEFINE p == Power(BASIS_POINTS, weeks)
           q == Power(BASIS_POINTS + VOLUNTEER_CAPITAL_PCT, weeks)
           z == x + Rounding
<1>1. p \in Nat /\ q \in Nat /\ p <= q /\ z \in Nat /\ x <= z
  BY LeadIs, LeadConstants
<1> HIDE DEF p, q, z
<1>2. x * p <= x * q /\ x * q <= z * q /\ x * p \in Nat /\ x * q \in Nat /\ z * q \in Nat
  BY <1>1
<1>3. Within(x, x, p, q)
  BY <1>2 DEF Within, z
<1> QED BY <1>3, LeadIs DEF p, q

\* A credit to both leaves the lead within the bound.
LEMMA LeadCredited ==
    ASSUME NEW x \in Nat, NEW y \in Nat, NEW weeks \in Nat, LeadIsBonus(x, y, weeks), NEW n \in Nat
    PROVE  LeadIsBonus(x + n, y + n, weeks)
<1> DEFINE p == Power(BASIS_POINTS, weeks)
           q == Power(BASIS_POINTS + VOLUNTEER_CAPITAL_PCT, weeks)
<1>1. p \in Nat /\ q \in Nat /\ p <= q /\ Within(x, y, p, q) /\ (weeks = 0 => x = y)
  BY LeadIs
<1>2. x + n \in Nat /\ y + n \in Nat
  OBVIOUS
<1> HIDE DEF p, q
<1>3. Within(x + n, y + n, p, q)
  BY <1>1, CreditWithin
<1>4. weeks = 0 => x + n = y + n
  BY <1>1
<1> QED BY <1>2, <1>3, <1>4, LeadIs DEF p, q

\* So does a day of decay.
LEMMA LeadDecayed ==
    ASSUME NEW x \in Nat, NEW y \in Nat, NEW weeks \in Nat, LeadIsBonus(x, y, weeks),
           NEW left \in 0..(BASIS_POINTS - BASE_DECAY_BP)
    PROVE  LeadIsBonus((x * left) \div BASIS_POINTS, (y * left) \div BASIS_POINTS, weeks)
<1> DEFINE p == Power(BASIS_POINTS, weeks)
           q == Power(BASIS_POINTS + VOLUNTEER_CAPITAL_PCT, weeks)
           f == (x * left) \div BASIS_POINTS
           g == (y * left) \div BASIS_POINTS
<1>1. p \in Nat /\ q \in Nat /\ Within(x, y, p, q) /\ (weeks = 0 => x = y)
  BY LeadIs
<1>2. f \in Nat /\ g \in Nat
  <2>1. left \in Nat
    BY LeadConstants
  <2> QED BY <2>1, QuotientNat, ConstantsAssumption
<1>3. weeks = 0 => f = g
  BY <1>1
<1>4. Within(f, g, p, q)
  <2> HIDE DEF p, q
  <2> QED BY <1>1, DecayWithin
<1> HIDE DEF f, g
<1>5. LeadIsBonus(f, g, weeks)
  BY <1>2, <1>3, <1>4, LeadIs
<1> QED BY <1>5 DEF f, g

\* A week that is counted allows its bonus.
LEMMA LeadRewarded ==
    ASSUME NEW x \in Nat, NEW y \in Nat, NEW weeks \in Nat, LeadIsBonus(x, y, weeks),
           NEW d \in Nat, d >= VOLUNTEER_CAPITAL_MIN
    PROVE  LeadIsBonus(x + CapitalBonus(x), y + d, weeks + 1)
<1> DEFINE b == BASIS_POINTS
           t == BASIS_POINTS + VOLUNTEER_CAPITAL_PCT
           p == Power(b, weeks)
           q == Power(t, weeks)
<1>1. p \in Nat /\ q \in Nat /\ p <= q /\ Within(x, y, p, q)
  BY LeadIs
<1>2. /\ weeks + 1 \in Nat /\ weeks + 1 # 0
      /\ x + CapitalBonus(x) \in Nat /\ y + d \in Nat
  BY CapitalBonusType
<1>3. b \in Nat /\ t \in Nat
  BY LeadConstants
<1>4. Power(b, weeks + 1) = b * p /\ Power(t, weeks + 1) = t * q
  BY <1>3, PowerUnfolds
<1>5. Within(x + CapitalBonus(x), y + d, b * p, t * q)
  <2> HIDE DEF p, q
  <2> QED BY <1>1, BonusWithin
<1>6. Within(x + CapitalBonus(x), y + d, Power(b, weeks + 1), Power(t, weeks + 1))
  BY <1>4, <1>5
<1> HIDE DEF p, q
<1> QED BY <1>2, <1>6, LeadIs

\* The capital of a citizen who joined has decayed at the base rate at least.
Decaying(c) == c.decayRateAtLastDay["CAPITAL"] >= BASE_DECAY_BP

\* The decay of both, day by day, keeps the lead within the bound.
LEMMA DecayKeepsLead ==
    ASSUME NEW c \in Citizen, NEW e \in Citizen, NEW a \in Axis, NEW active, NEW n \in Nat,
           Advanced(e, c, a, 0), c.decayRateAtLastDay[a] = e.decayRateAtLastDay[a],
           e.decayRateAtLastDay[a] >= BASE_DECAY_BP,
           NEW weeks \in Nat, LeadIsBonus(c.baseHonor[a], e.baseHonor[a], weeks)
    PROVE  LeadIsBonus(ViewRun(c, a, active, n).honor, ViewRun(e, a, active, n).honor, weeks)
<1> DEFINE V(k) == ViewRun(e, a, active, k)
           W(k) == ViewRun(c, a, active, k)
           Good == {k \in Nat : /\ V(k).rate = W(k).rate
                                /\ LeadIsBonus(W(k).honor, V(k).honor, weeks)}
<1>1. 0 \in Good
  BY ViewRunUnfolds DEF ViewStart
<1>2. ASSUME NEW k \in Nat, k \in Good PROVE k + 1 \in Good
  <2> DEFINE day == e.lastDecayDay[a] + (k + 1)
  <2>1. c.lastDecayDay[a] = e.lastDecayDay[a]
    <3>1. e.lastDecayDay[a] \in Nat
      BY DEF Citizen
    <3> QED BY <3>1 DEF Advanced
  <2>2. V(k + 1) = ViewDay(V(k), e, day, active) /\ W(k + 1) = ViewDay(W(k), c, day, active)
    <3>1. V(k + 1) = ViewDay(V(k), e, e.lastDecayDay[a] + (k + 1), active)
      BY ViewRunUnfolds
    <3>2. W(k + 1) = ViewDay(W(k), c, c.lastDecayDay[a] + (k + 1), active)
      BY ViewRunUnfolds
    <3> HIDE DEF V, W
    <3> QED BY <2>1, <3>1, <3>2
  <2>3. /\ V(k) \in ViewState(e.baseHonor[a], e.decayRateAtLastDay[a])
        /\ W(k) \in ViewState(c.baseHonor[a], c.decayRateAtLastDay[a])
    BY ViewRunUnfolds
  <2>4. /\ c.baseHonor[a] \in Nat /\ c.decayRateAtLastDay[a] \in Nat
        /\ e.baseHonor[a] \in Nat /\ e.decayRateAtLastDay[a] \in Nat
    BY ViewStartType
  <2> HIDE DEF V, W, day
  <2>5. /\ V(k).honor \in Nat /\ W(k).honor \in Nat
        /\ V(k).rate \in e.decayRateAtLastDay[a]..BASIS_POINTS /\ V(k).rate = W(k).rate
        /\ LeadIsBonus(W(k).honor, V(k).honor, weeks)
    BY <1>2, <2>3, <2>4 DEF ViewState
  <2> DEFINE left    == BASIS_POINTS - GrownRate(V(k).rate)
             Kept(h) == (h * left) \div BASIS_POINTS
             spared  == IsSabbath(e, day) \/ day \in active
  <2>6. left \in 0..(BASIS_POINTS - BASE_DECAY_BP)
    <3>1. V(k).rate \in 0..BASIS_POINTS /\ V(k).rate >= BASE_DECAY_BP
      BY <2>4, <2>5, LeadConstants
    <3>2. GrownRate(V(k).rate) \in V(k).rate..BASIS_POINTS
      BY <3>1, GrownRateType
    <3> QED BY <3>1, <3>2, LeadConstants
  <2>7. V(k + 1).rate = W(k + 1).rate
    BY <2>2, <2>5 DEF ViewDay
  <2>8. /\ V(k + 1).honor = IF spared THEN V(k).honor ELSE Kept(V(k).honor)
        /\ W(k + 1).honor = IF spared THEN W(k).honor ELSE Kept(W(k).honor)
    <3>1. IsSabbath(c, day) <=> IsSabbath(e, day)
      BY SameSabbath
    <3> QED BY <2>2, <2>5, <3>1 DEF ViewDay
  <2>9. LeadIsBonus(Kept(W(k).honor), Kept(V(k).honor), weeks)
    <3> DEFINE g == V(k).honor
               h == W(k).honor
    <3>1. g \in Nat /\ h \in Nat /\ LeadIsBonus(h, g, weeks)
      BY <2>5
    <3> HIDE DEF left, g, h
    <3>2. LeadIsBonus((h * left) \div BASIS_POINTS, (g * left) \div BASIS_POINTS, weeks)
      BY <2>6, <3>1, LeadDecayed
    <3> QED BY <3>2 DEF g, h
  <2> HIDE DEF Kept, spared, left
  <2> QED BY <2>5, <2>7, <2>8, <2>9
<1> HIDE DEF Good
<1>3. n \in Good
  BY <1>1, <1>2, NatSetInduction
<1> QED BY <1>3 DEF Good

\* The weeks of both, one after the other, keep it too; gap is the credit still due.
LEMMA WeeksKeepBound ==
    ASSUME NEW c \in Citizen, NEW e \in Citizen, NEW g \in Nat, NEW volunteer, NEW n \in Nat,
           e.lastProcessedWeek = c.lastProcessedWeek, e.volunteerMultBP = c.volunteerMultBP,
           e.volunteerWeeks = c.volunteerWeeks,
           c.baseHonor["CAPITAL"] >= e.baseHonor["CAPITAL"] + g,
           LeadIsBonus(c.baseHonor["CAPITAL"], e.baseHonor["CAPITAL"] + g, c.volunteerWeeks),
           WeeksRun(c, volunteer, n).ok
    PROVE  LeadIsBonus(WeeksRun(c, volunteer, n).capital, WeeksRun(e, volunteer, n).capital + g,
                       WeeksRun(c, volunteer, n).weeks)
<1> DEFINE C(k) == WeeksRun(c, volunteer, k)
           E(k) == WeeksRun(e, volunteer, k)
           Good == {k \in Nat : C(k).ok => LeadIsBonus(C(k).capital, E(k).capital + g, C(k).weeks)}
<1>1. 0 \in Good
  BY WeeksRunUnfolds DEF WeekStart
<1>2. ASSUME NEW k \in Nat, k \in Good PROVE k + 1 \in Good
  <2> DEFINE week == c.lastProcessedWeek + (k + 1)
             s == C(k)
             t == E(k)
  <2>1. C(k + 1) = VolunteerWeek(s, week, volunteer) /\ E(k + 1) = VolunteerWeek(t, week, volunteer)
    BY WeeksRunUnfolds
  <2>2. s \in WeekState /\ t \in WeekState
    BY WeeksRunFacts DEF WeekFacts
  <2>3. Leads(s, t, g)
    BY WeeksKeepLead
  <2>4. s.ok => LeadIsBonus(s.capital, t.capital + g, s.weeks)
    BY <1>2
  <2> HIDE DEF C, E, week, s, t
  <2>5. SUFFICES ASSUME C(k + 1).ok
                 PROVE  LeadIsBonus(C(k + 1).capital, E(k + 1).capital + g, C(k + 1).weeks)
    OBVIOUS
  <2>6. s.ok /\ t.ok /\ LeadIsBonus(s.capital, t.capital + g, s.weeks)
    <3>1. s.ok
      BY <2>1, <2>5 DEF VolunteerWeek
    <3> QED BY <2>3, <2>4, <3>1 DEF Leads
  <2>7. s.capital \in Nat /\ t.capital \in Nat /\ s.weeks \in Nat
    BY <2>2 DEF WeekState
  <2>8. CASE ~ Qualified(week, volunteer)
    BY <2>1, <2>6, <2>8 DEF VolunteerWeek
  <2>9. CASE Qualified(week, volunteer)
    <3> DEFINE d == CapitalBonus(t.capital)
    <3>1. /\ C(k + 1).capital = s.capital + CapitalBonus(s.capital)
          /\ C(k + 1).weeks = s.weeks + 1
          /\ E(k + 1).capital = t.capital + d
      BY <2>1, <2>6, <2>9 DEF VolunteerWeek
    <3>2. d \in Nat /\ d >= VOLUNTEER_CAPITAL_MIN
      BY <2>7, CapitalBonusType
    <3> HIDE DEF d
    <3>3. t.capital + g \in Nat /\ (t.capital + d) + g = (t.capital + g) + d
      BY <2>7, <3>2
    <3>4. LeadIsBonus(s.capital + CapitalBonus(s.capital), (t.capital + g) + d, s.weeks + 1)
      BY <2>6, <2>7, <3>2, <3>3, LeadRewarded
    <3> QED BY <3>1, <3>3, <3>4
  <2> QED BY <2>8, <2>9
<1> HIDE DEF Good
<1>3. n \in Good
  BY <1>1, <1>2, NatSetInduction
<1> QED BY <1>3 DEF Good

\* The lead of a pair is what its bonuses allow; gap is a credit still due to e.
Bounded(c, e, gap) ==
    LeadIsBonus(c.baseHonor["CAPITAL"], e.baseHonor["CAPITAL"] + gap, c.volunteerWeeks)

\* The credit that is due to the capital.
CapitalDue(a, n) == IF a = "CAPITAL" THEN n ELSE 0

\* Decaying an axis of both keeps the bound and the rate (_applyDecay, apply_decay).
LEMMA TwinsStayBounded ==
    ASSUME NEW c, NEW e, Twins(c, e), NEW a \in Axis, NEW active, NEW day \in Nat,
           NEW f, f = Decayed(c, a, active, day), NEW g, g = Decayed(e, a, active, day), f.ok,
           Bounded(c, e, 0), Decaying(c)
    PROVE  Bounded(f.citizen, g.citizen, 0) /\ Decaying(f.citizen)
<1> DEFINE n == DaysToSettle(c, a, day)
           x == f.citizen
           y == g.citizen
<1>1. /\ c \in Citizen /\ e \in Citizen /\ "CAPITAL" \in Axis
      /\ e.joinDay = c.joinDay /\ e.sabbathOffset = c.sabbathOffset
      /\ e.lastDecayDay = c.lastDecayDay /\ e.decayRateAtLastDay = c.decayRateAtLastDay
  BY DEF Twins, Due, Axis
<1>2. g.ok /\ Twins(x, y)
  BY TwinsDecay
<1>3. DecayedFacts(c, a, day, x) /\ DecayedFacts(e, a, day, y)
  BY <1>1, DecayedType
<1>4. n \in Nat /\ n = DaysToSettle(e, a, day)
  <2>1. DaysToSettle(c, a, day) = DaysToSettle(e, a, day)
    BY <1>1 DEF DaysToSettle
  <2> QED BY <1>1, <2>1, DaysToSettleType
<1>5. /\ x.baseHonor[a] = ViewRun(c, a, active, n).honor
      /\ y.baseHonor[a] = ViewRun(e, a, active, n).honor
  <2>1. ViewStart(x, a) = ViewRun(c, a, active, n)
    BY <1>1, DecayedIsView
  <2> HIDE DEF n
  <2>2. Decayed(e, a, active, day).ok /\ y = Decayed(e, a, active, day).citizen
    BY <1>2
  <2> HIDE DEF y
  <2>3. ViewStart(y, a) = ViewRun(e, a, active, n)
    BY <1>1, <1>4, <2>2, DecayedIsView
  <2> QED BY <2>1, <2>3 DEF ViewStart
<1> HIDE DEF n, x, y
<1>6. x \in Citizen /\ y \in Citizen /\ x.volunteerWeeks = c.volunteerWeeks
  BY <1>3 DEF DecayedFacts
<1>7. /\ \A b \in Axis : /\ c.baseHonor[b] \in Nat /\ e.baseHonor[b] \in Nat
                         /\ x.baseHonor[b] \in Nat /\ y.baseHonor[b] \in Nat
                         /\ c.decayRateAtLastDay[b] \in Nat /\ x.decayRateAtLastDay[b] \in Nat
      /\ c.volunteerWeeks \in Nat
  BY <1>1, <1>6, ConstantsAssumption DEF Citizen, Uint
<1>8. Decaying(x)
  <2>1. x.decayRateAtLastDay["CAPITAL"] >= c.decayRateAtLastDay["CAPITAL"]
    <3>1. CASE a = "CAPITAL"
      BY <1>3, <3>1 DEF DecayedFacts
    <3>2. CASE a # "CAPITAL"
      BY <1>1, <1>3, <1>7, <3>2 DEF DecayedFacts
    <3> QED BY <3>1, <3>2
  <2> QED BY <1>1, <1>7, <2>1, LeadConstants DEF Decaying
<1>9. LeadIsBonus(c.baseHonor["CAPITAL"], e.baseHonor["CAPITAL"], c.volunteerWeeks)
  BY <1>1, <1>7 DEF Bounded
<1>10. LeadIsBonus(x.baseHonor["CAPITAL"], y.baseHonor["CAPITAL"], x.volunteerWeeks)
  <2>1. CASE a = "CAPITAL"
    <3>1. Advanced(e, c, a, 0)
      <4>1. e.lastDecayDay[a] \in Nat
        BY <1>1 DEF Citizen
      <4> QED BY <1>1, <4>1 DEF Advanced
    <3>2. c.decayRateAtLastDay[a] = e.decayRateAtLastDay[a]
          /\ e.decayRateAtLastDay[a] >= BASE_DECAY_BP
      BY <1>1, <2>1 DEF Decaying
    <3>3. LeadIsBonus(c.baseHonor[a], e.baseHonor[a], c.volunteerWeeks)
      BY <1>9, <2>1
    <3>4. LeadIsBonus(ViewRun(c, a, active, n).honor, ViewRun(e, a, active, n).honor,
                      c.volunteerWeeks)
      BY <1>1, <1>4, <1>7, <3>1, <3>2, <3>3, DecayKeepsLead
    <3> QED BY <1>5, <1>6, <2>1, <3>4
  <2>2. CASE a # "CAPITAL"
    <3>1. /\ x.baseHonor["CAPITAL"] = c.baseHonor["CAPITAL"]
          /\ y.baseHonor["CAPITAL"] = e.baseHonor["CAPITAL"]
      BY <1>1, <1>3, <2>2 DEF DecayedFacts
    <3> QED BY <1>6, <1>9, <3>1
  <2> QED BY <2>1, <2>2
<1>11. Bounded(x, y, 0)
  BY <1>1, <1>7, <1>10 DEF Bounded
<1> QED BY <1>8, <1>11 DEF x, y

\* So does crediting the twin first, which makes the credit due.
LEMMA FirstCreditBounded ==
    ASSUME NEW c \in Citizen, NEW e \in Citizen, Bounded(c, e, 0), Decaying(c),
           NEW a \in Axis, NEW n \in Nat, NEW lock \in Nat,
           NEW d, IsPaid(c, a, n, lock, d), d.baseHonor[a] <= MAX_UINT, d.lockedKWR <= MAX_UINT
    PROVE  Bounded(d, e, CapitalDue(a, n)) /\ Decaying(d)
<1>1. /\ d \in Citizen /\ d.volunteerWeeks = c.volunteerWeeks
      /\ \A b \in Axis \ {a} : d.baseHonor[b] = c.baseHonor[b]
  BY PaidType
<1>2. d.baseHonor[a] = c.baseHonor[a] + n /\ d.decayRateAtLastDay = c.decayRateAtLastDay
  BY DEF IsPaid, Citizen
<1>3. /\ c.baseHonor["CAPITAL"] \in Nat /\ e.baseHonor["CAPITAL"] \in Nat
      /\ c.volunteerWeeks \in Nat /\ "CAPITAL" \in Axis
  BY ConstantsAssumption DEF Citizen, Uint, Axis
<1>4. LeadIsBonus(c.baseHonor["CAPITAL"], e.baseHonor["CAPITAL"], c.volunteerWeeks)
  BY <1>3 DEF Bounded
<1>5. Bounded(d, e, CapitalDue(a, n))
  <2>1. CASE a = "CAPITAL"
    <3>1. LeadIsBonus(c.baseHonor["CAPITAL"] + n, e.baseHonor["CAPITAL"] + n, c.volunteerWeeks)
      BY <1>3, <1>4, LeadCredited
    <3> QED BY <1>1, <1>2, <2>1, <3>1 DEF Bounded, CapitalDue
  <2>2. CASE a # "CAPITAL"
    <3>1. d.baseHonor["CAPITAL"] = c.baseHonor["CAPITAL"] /\ e.baseHonor["CAPITAL"] + 0 = e.baseHonor["CAPITAL"]
      BY <1>1, <1>3, <2>2
    <3> QED BY <1>1, <1>4, <2>2, <3>1 DEF Bounded, CapitalDue
  <2> QED BY <2>1, <2>2
<1> QED BY <1>2, <1>5 DEF Decaying

\* And so does processing the weeks of both, the credit being due.
LEMMA WeeksStayBounded ==
    ASSUME NEW c, NEW e, NEW a \in Axis, NEW n \in Nat, NEW lock, Due(c, e, a, n, lock),
           Bounded(c, e, CapitalDue(a, n)), Decaying(c),
           NEW volunteer, NEW day \in Nat,
           NEW f, f = WeeksProcessed(c, volunteer, day),
           NEW g, g = WeeksProcessed(e, volunteer, day), f.ok
    PROVE  Bounded(f.citizen, g.citizen, CapitalDue(a, n)) /\ Decaying(f.citizen)
<1> DEFINE x   == f.citizen
           y   == g.citizen
           p   == WeeksPending(c, day)
           gap == CapitalDue(a, n)
           s   == WeeksRun(c, volunteer, p)
           t   == WeeksRun(e, volunteer, p)
<1>1. /\ c \in Citizen /\ e \in Citizen
      /\ e.volunteerWeeks = c.volunteerWeeks /\ e.volunteerMultBP = c.volunteerMultBP
      /\ e.lastProcessedWeek = c.lastProcessedWeek
      /\ c.baseHonor["CAPITAL"] >= e.baseHonor["CAPITAL"] + gap
  BY DEF Due, CapitalDue
<1>2. p \in Nat /\ p = WeeksPending(e, day) /\ gap \in Nat
  <2>1. LastCompleteWeek(day) \in Int /\ c.lastProcessedWeek \in Nat
    BY <1>1, LastCompleteWeekType DEF Citizen
  <2> QED BY <1>1, <2>1 DEF WeeksPending, CapitalDue
<1>3. LeadIsBonus(c.baseHonor["CAPITAL"], e.baseHonor["CAPITAL"] + gap, c.volunteerWeeks)
  BY DEF Bounded
<1>4. s.ok /\ x.baseHonor["CAPITAL"] = s.capital /\ x.volunteerWeeks = s.weeks
  <2>1. c \in Citizen
    BY <1>1
  <2>2. x.baseHonor["CAPITAL"] = s.capital /\ x.volunteerWeeks = s.weeks
    BY <2>1, WeeksProcessedIs
  <2>3. WeeksProcessed(c, volunteer, day).ok = s.ok
    BY <2>1, WeeksProcessedIs
  <2>4. WeeksProcessed(c, volunteer, day).ok
    OBVIOUS
  <2> QED BY <2>2, <2>3, <2>4
<1>5. y.baseHonor["CAPITAL"] = t.capital
  <2> HIDE DEF p
  <2>1. p = WeeksPending(e, day) /\ e \in Citizen
    BY <1>1, <1>2
  <2> QED BY <2>1, WeeksProcessedIs
<1>6. LeadIsBonus(s.capital, t.capital + gap, s.weeks)
  <2> HIDE DEF p, gap
  <2> QED BY <1>1, <1>2, <1>3, <1>4, WeeksKeepBound
<1>7. Bounded(x, y, gap)
  <2> HIDE DEF s, t, p, gap, x, y
  <2> QED BY <1>4, <1>5, <1>6 DEF Bounded
<1>8. Decaying(x)
  <2>1. ProcessedFacts(c, volunteer, day, f.counted, x)
    BY <1>1, WeeksProcessedType
  <2> QED BY <2>1 DEF ProcessedFacts, Decaying
<1> QED BY <1>7, <1>8

\* Hence what both credit keeps the bound, the credit being due to the EVM contract.
LEMMA CreditedBounded ==
    ASSUME NEW w \in Worker, NEW a \in Axis, NEW n \in Nat, NEW lock \in Nat, today \in Nat,
           Twins(citizens[w], eCitizens[w]),
           eActiveDays = activeDays, eVolunteerDays = volunteerDays,
           Credited(w, a, n, lock).ok,
           Bounded(citizens[w], eCitizens[w], 0), Decaying(citizens[w])
    PROVE  /\ Bounded(Credited(w, a, n, lock).citizen, EVM!Settled(w, a).citizen, CapitalDue(a, n))
           /\ Decaying(Credited(w, a, n, lock).citizen)
<1> DEFINE c     == citizens[w]
           e     == eCitizens[w]
           f     == Decayed(c, a, activeDays[w], today)
           g     == Decayed(e, a, activeDays[w], today)
           paid  == [f.citizen EXCEPT !.baseHonor[a] = @ + n, !.lockedKWR = @ + lock]
           weeks == WeeksProcessed(paid, volunteerDays[w], paid.lastDecayDay[a])
           other == WeeksProcessed(g.citizen, volunteerDays[w], g.citizen.lastDecayDay[a])
<1>1. /\ f.ok /\ weeks.ok /\ paid.baseHonor[a] <= MAX_UINT /\ paid.lockedKWR <= MAX_UINT
      /\ Credited(w, a, n, lock).citizen = weeks.citizen
  BY DEF Credited, Result
<1>2. EVM!Settled(w, a).citizen = other.citizen
  BY EvmSettled
<1>3. /\ Twins(f.citizen, g.citizen)
      /\ Bounded(f.citizen, g.citizen, 0) /\ Decaying(f.citizen)
  <2>1. f.ok
    BY <1>1
  <2>2. f = Decayed(c, a, activeDays[w], today) /\ g = Decayed(e, a, activeDays[w], today)
    OBVIOUS
  <2>3. Bounded(c, e, 0) /\ Decaying(c) /\ Twins(c, e)
    OBVIOUS
  <2> HIDE DEF f, g, c, e
  <2> QED BY <2>1, <2>2, <2>3, TwinsDecay, TwinsStayBounded
<1> HIDE DEF f, g
<1>4. IsPaid(f.citizen, a, n, lock, paid)
  BY Zenon DEF IsPaid
<1> HIDE DEF paid
<1>5. Due(paid, g.citizen, a, n, lock)
  BY <1>1, <1>3, <1>4, FirstCredit
<1>6. f.citizen \in Citizen /\ g.citizen \in Citizen
  BY <1>3 DEF Twins, Due
<1>7. Bounded(paid, g.citizen, CapitalDue(a, n)) /\ Decaying(paid)
  BY <1>1, <1>3, <1>4, <1>6, FirstCreditBounded
<1>8. paid.lastDecayDay[a] \in Nat /\ g.citizen.lastDecayDay[a] = paid.lastDecayDay[a]
  BY <1>5 DEF Due, Citizen
<1>9. Bounded(weeks.citizen, other.citizen, CapitalDue(a, n)) /\ Decaying(weeks.citizen)
  <2>1. /\ weeks = WeeksProcessed(paid, volunteerDays[w], paid.lastDecayDay[a])
        /\ other = WeeksProcessed(g.citizen, volunteerDays[w], paid.lastDecayDay[a])
        /\ weeks.ok
    BY <1>1, <1>8
  <2> HIDE DEF weeks, other
  <2> QED BY <1>5, <1>7, <1>8, <2>1, WeeksStayBounded
<1> QED BY <1>1, <1>2, <1>9

-----------------------------------------------------------------------------
(* The bound is kept by every deed. *)

\* A citizen's capital has decayed, and leads by no more than its bonuses.
LeadOf(c, e) == Bounded(c, e, 0) /\ (c.isCitizen => Decaying(c))

LeadInv == \A w \in Worker : LeadOf(citizens[w], eCitizens[w])

\* Equals lead by nothing.
LEMMA NoLeadOf ==
    ASSUME NEW c \in Citizen, c.isCitizen => Decaying(c)
    PROVE  LeadOf(c, c)
<1>1. c.baseHonor["CAPITAL"] \in Nat /\ c.volunteerWeeks \in Nat
  BY ConstantsAssumption DEF Citizen, Uint, Axis
<1>2. c.baseHonor["CAPITAL"] + 0 = c.baseHonor["CAPITAL"]
  BY <1>1
<1> QED BY <1>1, <1>2, NoLead DEF LeadOf, Bounded

\* Nobody has capital at first.
LEMMA LeadInvInit == TwinInit => LeadInv
<1> SUFFICES ASSUME TwinInit PROVE LeadInv
  OBVIOUS
<1>1. citizens = [w \in Worker |-> NoCitizen] /\ eCitizens = [w \in Worker |-> NoCitizen]
  BY SameLives DEF TwinInit, Init, EVM!Init
<1>2. LeadOf(NoCitizen, NoCitizen)
  BY NoCitizenType, NoLeadOf
<1> QED BY <1>1, <1>2 DEF LeadInv

\* One pair is replaced.
LEMMA LeadReplaced ==
    ASSUME TwinInv, LeadInv, NEW w \in Worker, NEW c, NEW e, LeadOf(c, e),
           citizens' = [citizens EXCEPT ![w] = c], eCitizens' = [eCitizens EXCEPT ![w] = e]
    PROVE  LeadInv'
<1>1. /\ citizens \in [Worker -> Citizen] /\ eCitizens \in [Worker -> Citizen]
      /\ \A v \in Worker : LeadOf(citizens[v], eCitizens[v])
  BY DEF TwinInv, LeadInv
<1>2. ASSUME NEW v \in Worker PROVE LeadOf(citizens'[v], eCitizens'[v])
  <2>1. CASE v = w
    <3>1. citizens'[v] = c /\ eCitizens'[v] = e
      BY <1>1, <2>1
    <3> QED BY <3>1
  <2>2. CASE v # w
    <3>1. citizens'[v] = citizens[v] /\ eCitizens'[v] = eCitizens[v]
      BY <1>1, <2>2
    <3> QED BY <1>1, <3>1
  <2> QED BY <2>1, <2>2
<1> QED BY <1>2 DEF LeadInv

\* A deed that touches no citizen.
LEMMA LeadStays ==
    ASSUME LeadInv, UNCHANGED <<citizens, eCitizens>>
    PROVE  LeadInv'
  BY DEF LeadInv

\* A credit on both chains.
LEMMA LeadAfterCredit ==
    ASSUME TwinInv, LeadInv, NEW w \in Worker, NEW a \in Axis, NEW n \in Nat, NEW lock \in Nat,
           citizens[w].isCitizen, Credited(w, a, n, lock).ok,
           NEW d, d.baseHonor["CAPITAL"]
                    = EVM!Settled(w, a).citizen.baseHonor["CAPITAL"] + CapitalDue(a, n),
           citizens' = [citizens EXCEPT ![w] = Credited(w, a, n, lock).citizen],
           eCitizens' = [eCitizens EXCEPT ![w] = d]
    PROVE  LeadInv'
<1> DEFINE f == Credited(w, a, n, lock).citizen
           g == EVM!Settled(w, a).citizen
<1>1. /\ today \in Nat /\ Twins(citizens[w], eCitizens[w])
      /\ eActiveDays = activeDays /\ eVolunteerDays = volunteerDays
      /\ Bounded(citizens[w], eCitizens[w], 0) /\ Decaying(citizens[w])
  BY DEF TwinInv, PairOf, LeadInv, LeadOf
<1>2. Bounded(f, g, CapitalDue(a, n)) /\ Decaying(f)
  BY <1>1, CreditedBounded
<1>3. g \in Citizen
  <2>1. Due(f, g, a, n, lock)
    BY <1>1, CreditedTogether
  <2> HIDE DEF f, g
  <2> QED BY <2>1 DEF Due
<1>4. g.baseHonor["CAPITAL"] + CapitalDue(a, n) \in Nat
  <2> HIDE DEF g
  <2>1. g.baseHonor["CAPITAL"] \in Nat
    BY <1>3, ConstantsAssumption DEF Citizen, Uint, Axis
  <2> QED BY <2>1 DEF CapitalDue
<1>5. d.baseHonor["CAPITAL"] + 0 = g.baseHonor["CAPITAL"] + CapitalDue(a, n)
  BY <1>4
<1>6. LeadOf(f, d)
  <2> HIDE DEF f, g
  <2> QED BY <1>2, <1>5 DEF LeadOf, Bounded
<1> QED BY <1>6, LeadReplaced

\* Every deed keeps the bound; one step per deed.
LEMMA LeadInvStep == TwinInv /\ LeadInv /\ [TwinNext]_tvars => LeadInv'
<1> SUFFICES ASSUME TwinInv, LeadInv, [TwinNext]_tvars PROVE LeadInv'
  OBVIOUS
<1>0. /\ today \in Nat
      /\ citizens \in [Worker -> Citizen] /\ eCitizens \in [Worker -> Citizen]
      /\ \A w \in Worker : PairOf(citizens[w], eCitizens[w]) /\ LeadOf(citizens[w], eCitizens[w])
      /\ eActiveDays = activeDays /\ eVolunteerDays = volunteerDays
  BY DEF TwinInv, LeadInv
<1>1. CASE EVM!NextDay /\ NextDay
  <2>1. UNCHANGED citizens /\ UNCHANGED eCitizens
    BY <1>1 DEF NextDay, contract, EVM!NextDay, EVM!contract
  <2> QED BY <2>1, LeadStays
<1>2. ASSUME NEW att \in PoPAttestations, EVM!AttestPoP(att), AttestPoP(attester, att.worker)
      PROVE  LeadInv'
  <2>1. UNCHANGED citizens /\ UNCHANGED eCitizens
    BY <1>2 DEF AttestPoP, EVM!AttestPoP
  <2> QED BY <2>1, LeadStays
<1>3. ASSUME NEW w \in Worker, EVM!Join(w), Join(w) PROVE LeadInv'
  <2>1. /\ ~ citizens[w].isCitizen
        /\ citizens' = [citizens EXCEPT ![w] = Joined(NoCitizen, today)]
    BY <1>3 DEF Join
  <2>2. eCitizens' = [eCitizens EXCEPT ![w] = Joined(eCitizens[w], today)]
    BY <1>3, SameLives DEF EVM!Join
  <2>3. eCitizens[w] = NoCitizen
    BY <1>0, <2>1 DEF PairOf
  <2> DEFINE c == Joined(NoCitizen, today)
  <2>4. c \in Citizen
    BY <1>0, JoinedType
  <2>5. Decaying(c)
    <3>1. c.decayRateAtLastDay["CAPITAL"] = BASE_DECAY_BP
      BY NoCitizenType DEF Joined, NoCitizen, Axis
    <3> HIDE DEF c
    <3> QED BY <3>1, LeadConstants DEF Decaying
  <2>6. LeadOf(c, c)
    <3> HIDE DEF c
    <3> QED BY <2>4, <2>5, NoLeadOf
  <2> QED BY <2>1, <2>2, <2>3, <2>6, LeadReplaced
<1>4. ASSUME NEW w \in Worker, NEW offset \in 0..DAYS_PER_WEEK,
             EVM!SetSabbathDay(w, offset), SetSabbathDay(w, offset)
      PROVE  LeadInv'
  <2> DEFINE c == [citizens[w] EXCEPT !.sabbathOffset = offset]
             e == [eCitizens[w] EXCEPT !.sabbathOffset = offset]
  <2>1. citizens' = [citizens EXCEPT ![w] = c] /\ eCitizens' = [eCitizens EXCEPT ![w] = e]
    BY <1>4 DEF SetSabbathDay, EVM!SetSabbathDay
  <2>2. /\ c.isCitizen = citizens[w].isCitizen /\ c.baseHonor = citizens[w].baseHonor
        /\ c.decayRateAtLastDay = citizens[w].decayRateAtLastDay
        /\ c.volunteerWeeks = citizens[w].volunteerWeeks
        /\ e.baseHonor = eCitizens[w].baseHonor
    BY <1>0 DEF Citizen
  <2> HIDE DEF c, e
  <2>3. LeadOf(c, e)
    BY <1>0, <2>2 DEF LeadOf, Bounded, Decaying
  <2> QED BY <2>1, <2>3, LeadReplaced
<1>5. ASSUME NEW w \in Worker, EVM!Ragequit(w), Ragequit(w) PROVE LeadInv'
  <2>1. /\ citizens' = [citizens EXCEPT ![w] = NoCitizen]
        /\ eCitizens' = [eCitizens EXCEPT ![w] = NoCitizen]
    BY <1>5, SameLives DEF Ragequit, EVM!Ragequit, EVM!Deleted
  <2>2. LeadOf(NoCitizen, NoCitizen)
    BY NoCitizenType, NoLeadOf
  <2> QED BY <2>1, <2>2, LeadReplaced
<1>6. ASSUME NEW att \in MintAttestations,
             EVM!BridgeMintCapital(att), ContributeCapital(Contribution(att))
      PROVE  LeadInv'
  <2> DEFINE w == att.worker
             n == att.kWRAmount
             s == EVM!Settled(w, "CAPITAL").citizen
             d == [s EXCEPT !.baseHonor["CAPITAL"] = @ + n, !.lockedKWR = @ + n]
  <2>1. w \in Worker /\ n \in Nat /\ "CAPITAL" \in Axis
    BY PayloadTypes DEF Axis
  <2>2. Contribution(att).worker = w /\ Contribution(att).funds[KWR] = n
    BY CallTypes DEF Contribution
  <2>3. /\ citizens[w].isCitizen /\ Credited(w, "CAPITAL", n, n).ok
        /\ citizens' = [citizens EXCEPT ![w] = Credited(w, "CAPITAL", n, n).citizen]
    BY <1>6, <2>2 DEF ContributeCapital
  <2>4. eCitizens' = [eCitizens EXCEPT ![w] = d]
    BY <1>6 DEF EVM!BridgeMintCapital
  <2>5. s \in Citizen
    <3>1. Twins(citizens[w], eCitizens[w])
      BY <1>0, <2>1 DEF PairOf
    <3> HIDE DEF w, n
    <3>2. Due(Credited(w, "CAPITAL", n, n).citizen, s, "CAPITAL", n, n)
      BY <1>0, <2>1, <2>3, <3>1, CreditedTogether
    <3> QED BY <3>2 DEF Due
  <2>6. d.baseHonor["CAPITAL"]
          = EVM!Settled(w, "CAPITAL").citizen.baseHonor["CAPITAL"] + CapitalDue("CAPITAL", n)
    <3>1. d.baseHonor["CAPITAL"] = s.baseHonor["CAPITAL"] + n
      <4> HIDE DEF s, n
      <4> QED BY <2>1, <2>5 DEF Citizen
    <3> HIDE DEF d, n, w
    <3> QED BY <3>1 DEF CapitalDue
  <2> HIDE DEF w, n, d
  <2> QED BY <2>1, <2>3, <2>4, <2>6, LeadAfterCredit
<1>7. ASSUME NEW att \in HonorAttestations,
             EVM!AttestHonor(att), AttestHonor(attester, HonorCall(att))
      PROVE  LeadInv'
  <2> DEFINE w == att.worker
             a == att.axis
             n == att.honorDelta
             s == EVM!Settled(w, a).citizen
             d == [s EXCEPT !.baseHonor[a] = @ + n]
  <2>1. w \in Worker /\ n \in Nat /\ a \in Axis
    BY PayloadTypes
  <2>2. /\ HonorCall(att).worker = w /\ HonorCall(att).axis = a
        /\ HonorCall(att).honorDelta = n
    BY DEF HonorCall
  <2>3. /\ citizens[w].isCitizen /\ Credited(w, a, n, 0).ok
        /\ citizens' = [citizens EXCEPT ![w] = Credited(w, a, n, 0).citizen]
    BY <1>7, <2>2 DEF AttestHonor
  <2>4. eCitizens' = [eCitizens EXCEPT ![w] = d]
    BY <1>7 DEF EVM!AttestHonor
  <2>5. s \in Citizen
    <3>1. Twins(citizens[w], eCitizens[w])
      BY <1>0, <2>1 DEF PairOf
    <3> HIDE DEF w, a, n
    <3>2. Due(Credited(w, a, n, 0).citizen, s, a, n, 0)
      BY <1>0, <2>1, <2>3, <3>1, CreditedTogether
    <3> QED BY <3>2 DEF Due
  <2>6. d.baseHonor["CAPITAL"]
          = EVM!Settled(w, a).citizen.baseHonor["CAPITAL"] + CapitalDue(a, n)
    <3>1. /\ d.baseHonor = [s.baseHonor EXCEPT ![a] = @ + n]
          /\ s.baseHonor \in [Axis -> Uint] /\ "CAPITAL" \in Axis
      <4> HIDE DEF s, n, a
      <4> QED BY <2>1, <2>5 DEF Citizen, Axis
    <3>2. s.baseHonor["CAPITAL"] \in Nat
      BY <3>1, ConstantsAssumption DEF Uint
    <3> HIDE DEF d, n, w, a, s
    <3>3. d.baseHonor["CAPITAL"] = s.baseHonor["CAPITAL"] + CapitalDue(a, n)
      BY <2>1, <3>1, <3>2 DEF CapitalDue
    <3> QED BY <3>3 DEF s
  <2> HIDE DEF w, a, n, d
  <2> QED BY <2>1, <2>3, <2>4, <2>6, LeadAfterCredit
<1>8. ASSUME NEW att \in DayAttestations,
             EVM!AttestDay(att), AttestDay(attester, DayCall(att))
      PROVE  LeadInv'
  <2>1. UNCHANGED citizens /\ UNCHANGED eCitizens
    BY <1>8 DEF AttestDay, EVM!AttestDay
  <2> QED BY <2>1, LeadStays
<1>9. CASE UNCHANGED tvars
  <2>1. UNCHANGED citizens /\ UNCHANGED eCitizens
    BY <1>9 DEF tvars, vars, contract, evm
  <2> QED BY <2>1, LeadStays
<1> QED BY <1>1, <1>2, <1>3, <1>4, <1>5, <1>6, <1>7, <1>8, <1>9 DEF TwinNext

-----------------------------------------------------------------------------
(* The theorems. *)

\* The invariant holds in every reachable state.
LEMMA TwinInductive == TwinSpec => []TwinInv
  BY TwinInvInit, TwinInvStep, PTL DEF TwinSpec

\* The two implementations, written separately, agree on all but the capital honor;
\* the twin's capital is never the smaller one, the same until a week is counted, and
\* ahead by no more than the bonuses of the weeks explain (SeumStandard.sol, contract.rs).
THEOREM TwinsAlwaysAgree == TwinSpec => []TwinsAgree
<1>1. TwinInv /\ LeadInv => TwinsAgree
  <2> SUFFICES ASSUME TwinInv, LeadInv, NEW w \in Worker
               PROVE  LET c == citizens[w]  e == eCitizens[w] IN
                      /\ WithoutCapital(c) = WithoutCapital(e)
                      /\ c.baseHonor["CAPITAL"] >= e.baseHonor["CAPITAL"]
                      /\ LeadIsBonus(c.baseHonor["CAPITAL"], e.baseHonor["CAPITAL"],
                                     c.volunteerWeeks)
                      /\ paidOut[w] = eRequested[w]
    BY DEF TwinsAgree
  <2>1. /\ citizens[w] \in Citizen /\ eCitizens[w] \in Citizen
        /\ Twins(citizens[w], eCitizens[w]) /\ eRequested = paidOut
        /\ Bounded(citizens[w], eCitizens[w], 0)
    BY DEF TwinInv, PairOf, LeadInv, LeadOf
  <2>2. eCitizens[w].baseHonor["CAPITAL"] + 0 = eCitizens[w].baseHonor["CAPITAL"]
    <3>1. eCitizens[w].baseHonor["CAPITAL"] \in Nat
      BY <2>1, ConstantsAssumption DEF Citizen, Uint, Axis
    <3> QED BY <3>1
  <2> QED BY <2>1, <2>2, TwinsAre DEF Bounded
<1>2. TwinSpec => []LeadInv
  BY TwinInductive, LeadInvInit, LeadInvStep, PTL DEF TwinSpec
<1> QED BY <1>1, <1>2, TwinInductive, PTL

\* Equal citizens settle alike: what the EVM contract settles the twin does too.
LEMMA EqualSettleAlike ==
    ASSUME TwinInv, NEW w \in Worker, NEW a \in Axis,
           citizens[w].baseHonor["CAPITAL"] <= eCitizens[w].baseHonor["CAPITAL"],
           EVM!Settled(w, a).ok
    PROVE  Credited(w, a, 0, 0).ok
<1> DEFINE c     == citizens[w]
           e     == eCitizens[w]
           f     == Decayed(c, a, activeDays[w], today)
           g     == Decayed(e, a, activeDays[w], today)
           paid  == [f.citizen EXCEPT !.baseHonor[a] = @ + 0, !.lockedKWR = @ + 0]
           weeks == WeeksProcessed(f.citizen, volunteerDays[w], f.citizen.lastDecayDay[a])
           other == WeeksProcessed(g.citizen, volunteerDays[w], g.citizen.lastDecayDay[a])
<1>1. /\ today \in Nat /\ c \in Citizen /\ e \in Citizen /\ Twins(c, e)
      /\ eActiveDays = activeDays /\ eVolunteerDays = volunteerDays
  BY DEF TwinInv, PairOf
<1>2. g.ok /\ other.ok
  <2>1. EVM!Settled(w, a).ok = (g.ok /\ other.ok)
    BY <1>1, EvmSettled
  <2> HIDE DEF g, other
  <2> QED BY <2>1
<1>3. Twins(e, c)
  <2>1. c.baseHonor["CAPITAL"] \in Nat /\ e.baseHonor["CAPITAL"] \in Nat
    BY <1>1, ConstantsAssumption DEF Citizen, Uint, Axis
  <2>2. WithoutCapital(c) = WithoutCapital(e)
    BY <1>1, TwinsAre
  <2>3. e.baseHonor["CAPITAL"] >= c.baseHonor["CAPITAL"]
    BY <2>1
  <2> HIDE DEF c, e
  <2> QED BY <1>1, <2>2, <2>3, TwinsAre
<1>4. f.ok /\ Twins(g.citizen, f.citizen)
  <2>1. g = Decayed(e, a, activeDays[w], today) /\ f = Decayed(c, a, activeDays[w], today)
    OBVIOUS
  <2> HIDE DEF f, g, c, e
  <2> QED BY <1>1, <1>2, <1>3, <2>1, TwinsDecay
<1> HIDE DEF f, g
<1>5. /\ f.citizen \in Citizen /\ f.citizen.lastDecayDay[a] = g.citizen.lastDecayDay[a]
      /\ f.citizen.lastDecayDay[a] \in Nat
  BY <1>4 DEF Twins, Due, Citizen
<1>6. weeks.ok
  <2>1. Due(g.citizen, f.citizen, "CAPITAL", 0, 0) /\ "CAPITAL" \in Axis
    BY <1>4 DEF Twins, Axis
  <2>2. /\ other = WeeksProcessed(g.citizen, volunteerDays[w], f.citizen.lastDecayDay[a])
        /\ weeks = WeeksProcessed(f.citizen, volunteerDays[w], f.citizen.lastDecayDay[a])
        /\ other.ok
    BY <1>2, <1>5
  <2> HIDE DEF weeks, other
  <2> QED BY <1>5, <2>1, <2>2, StillDue
<1>7. paid = f.citizen
  <2> DEFINE x == f.citizen
  <2>1. x.baseHonor[a] + 0 = x.baseHonor[a] /\ x.lockedKWR + 0 = x.lockedKWR
    BY <1>5, ConstantsAssumption DEF Citizen, Uint
  <2>2. [x EXCEPT !.baseHonor[a] = x.baseHonor[a], !.lockedKWR = x.lockedKWR] = x
    BY <1>5 DEF Citizen
  <2> QED BY <2>1, <2>2
<1>8. f.citizen.baseHonor[a] <= MAX_UINT /\ f.citizen.lockedKWR <= MAX_UINT
  BY <1>5 DEF Citizen, Uint
<1>9. Credited(w, a, 0, 0).ok =
        (/\ f.ok /\ WeeksProcessed(paid, volunteerDays[w], paid.lastDecayDay[a]).ok
         /\ paid.baseHonor[a] <= MAX_UINT /\ paid.lockedKWR <= MAX_UINT)
  BY DEF Credited, Result, f
<1> HIDE DEF paid
<1>10. WeeksProcessed(paid, volunteerDays[w], paid.lastDecayDay[a]).ok
  BY <1>6, <1>7
<1> QED BY <1>4, <1>7, <1>8, <1>9, <1>10

\* What one chain accepts the other accepts: a settlement that overflows on one
\* alone overflows on the twin, whose capital is then the larger one.
THEOREM TwinsAlwaysAccept == TwinSpec => []TwinsAcceptAlike
<1>1. ASSUME TwinInv PROVE TwinsAcceptAlike
  <2>1. /\ attestedPoP = eAttestedPoP
        /\ activeDays = eActiveDays /\ volunteerDays = eVolunteerDays
    BY <1>1 DEF TwinInv
  <2>2. ASSUME NEW att \in HonorAttestations \cup DayAttestations
        PROVE  EVM!Accepted(att) <=>
                 Fresh(att.id) /\ today <= att.expiry /\ att.signer = attester
    BY <1>1 DEF TwinInv, SameJobs, EVM!Accepted, Fresh
  <2>3. ASSUME NEW w \in Worker, NEW a \in Axis, Credited(w, a, 0, 0).ok
        PROVE  EVM!Settled(w, a).ok
    <3>1. /\ today \in Nat /\ Twins(citizens[w], eCitizens[w])
          /\ eActiveDays = activeDays /\ eVolunteerDays = volunteerDays
      BY <1>1 DEF TwinInv, PairOf
    <3> QED BY <2>3, <3>1, CreditedTogether
  <2>4. ASSUME NEW w \in Worker, NEW a \in Axis, EVM!Settled(w, a).ok,
               ~ Credited(w, a, 0, 0).ok
        PROVE  citizens[w].baseHonor["CAPITAL"] > eCitizens[w].baseHonor["CAPITAL"]
    <3>1. citizens[w].baseHonor["CAPITAL"] \in Nat /\ eCitizens[w].baseHonor["CAPITAL"] \in Nat
      <4>1. citizens[w] \in Citizen /\ eCitizens[w] \in Citizen
        BY <1>1 DEF TwinInv
      <4> QED BY <4>1, ConstantsAssumption DEF Citizen, Uint, Axis
    <3>2. ~ (citizens[w].baseHonor["CAPITAL"] <= eCitizens[w].baseHonor["CAPITAL"])
      BY <1>1, <2>4, EqualSettleAlike
    <3> QED BY <3>1, <3>2
  <2>5. ASSUME NEW w \in Worker, NEW a \in Axis
        PROVE  LET onTwin == Credited(w, a, 0, 0).ok
                   onEVM  == EVM!Settled(w, a).ok
               IN  /\ onTwin => onEVM
                   /\ onEVM => \/ onTwin
                               \/ citizens[w].baseHonor["CAPITAL"] > eCitizens[w].baseHonor["CAPITAL"]
    BY <2>3, <2>4
  <2> QED BY <2>1, <2>2, <2>5 DEF TwinsAcceptAlike
<1> QED BY <1>1, TwinInductive, PTL
=============================================================================
