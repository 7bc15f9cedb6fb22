------------------------- MODULE SeumStandardProofs -------------------------
(***************************************************************************)
(* Safety of the contract for any number of workers, badges and keys, any  *)
(* set of signed payloads and any values of the standard's constants.      *)
(* Three invariants per worker are inductive, each on top of the one       *)
(* before: the type, WeekInv (the week clock follows the day clocks, and   *)
(* stands at or past every counted week) and LifeInv (rates and rewards    *)
(* are functions of the days settled and the weeks counted in this life).  *)
(* What relates the views to a settlement follows from the first two.      *)
(***************************************************************************)
EXTENDS SeumStandard, SeumMathProofs

USE DEF PosNat

-----------------------------------------------------------------------------
(* The multiplier as a function of weeks. *)

\* The multiplier after a number of weeks, unfolded week by week.
LEMMA MultAfterUnfolds ==
    /\ MultAfter(0) = BASIS_POINTS
    /\ \A n \in Nat : MultAfter(n + 1) = GrownMult(MultAfter(n))
<1> DEFINE step == [k \in PosNat |-> [m \in Nat |-> GrownMult(m)]]
           IsRun(f, n) == f = [k \in 0..n |-> IF k = 0 THEN BASIS_POINTS ELSE GrownMult(f[k-1])]
<1>1. step \in [PosNat -> [Nat -> Nat]] /\ BASIS_POINTS \in Nat
  BY GrownMultType, ConstantsAssumption
<1> HIDE DEF step
<1>2. PICK g : IsLoop(g, Nat, BASIS_POINTS, step)
  BY <1>1, LoopRuns
<1>3. /\ g \in [Nat -> Nat] /\ g[0] = BASIS_POINTS
      /\ \A n \in Nat : g[n+1] = GrownMult(g[n])
  <2>1. \A n \in Nat : n + 1 \in PosNat
    OBVIOUS
  <2>2. \A n \in PosNat, m \in Nat : step[n][m] = GrownMult(m)
    BY DEF step
  <2> QED BY <1>2, <2>1, <2>2 DEF IsLoop
<1>4. ASSUME NEW n \in Nat PROVE MultAfter(n) = g[n]
  <2>1. IsRun([k \in 0..n |-> g[k]], n)
    <3>1. \A k \in 0..n : k # 0 => k - 1 \in Nat /\ k = (k - 1) + 1 /\ k - 1 \in 0..n
      OBVIOUS
    <3>2. \A k \in 0..n : k # 0 => g[k] = GrownMult(g[k-1])
      BY <1>3, <3>1
    <3> QED BY <1>3, <3>1, <3>2
  <2> DEFINE run == CHOOSE f : IsRun(f, n)
  <2>2. IsRun(run, n)
    BY <2>1
  <2>3. MultAfter(n) = run[n]
    BY DEF MultAfter
  <2> HIDE DEF run
  <2>4. /\ run[0] = BASIS_POINTS
        /\ \A k \in 1..n : run[k] = GrownMult(run[k-1])
    <3>1. 0 \in 0..n /\ \A k \in 1..n : k \in 0..n /\ k # 0
      OBVIOUS
    <3>2. \A k \in 0..n : run[k] = IF k = 0 THEN BASIS_POINTS ELSE GrownMult(run[k-1])
      BY <2>2
    <3> QED BY <3>1, <3>2
  <2>5. \A k \in 1..n : k - 1 \in Nat /\ k = (k - 1) + 1
    OBVIOUS
  <2>6. Follows(run, n, g)
    BY <1>3, <2>4, <2>5 DEF Follows
  <2> QED BY <2>3, <2>6, FollowsTo
<1> QED BY <1>3, <1>4

\* A multiplier of m weeks is one of the counted weeks more after the loop.
LEMMA WeeksRunRewards ==
    ASSUME NEW c \in Citizen, NEW volunteer, NEW m \in Nat, NEW n \in Nat,
           c.volunteerMultBP = MultAfter(m)
    PROVE  WeeksRun(c, volunteer, n).mult
             = MultAfter(m + Cardinality(WeeksRun(c, volunteer, n).counted))
<1> DEFINE R(k) == WeeksRun(c, volunteer, k)
           Good == {k \in Nat : R(k).mult = MultAfter(m + Cardinality(R(k).counted))}
<1>1. 0 \in Good
  <2>1. m + 0 = m /\ Cardinality({}) = 0
    BY FS_EmptySet
  <2>2. R(0).mult = c.volunteerMultBP /\ R(0).counted = {}
    BY WeeksRunUnfolds DEF WeekStart
  <2> HIDE DEF R
  <2> QED BY <2>1, <2>2
<1>2. ASSUME NEW k \in Nat, k \in Good PROVE k + 1 \in Good
  <2> DEFINE week == c.lastProcessedWeek + (k + 1)
  <2>1. R(k + 1) = VolunteerWeek(R(k), week, volunteer)
    BY WeeksRunUnfolds
  <2>2. WeekFacts(c, volunteer, k, R(k))
    BY WeeksRunFacts
  <2>3. week \notin R(k).counted /\ IsFiniteSet(R(k).counted)
    <3>1. c.lastProcessedWeek \in Nat
      BY DEF Citizen
    <3>2. ~ (week <= c.lastProcessedWeek + k)
      BY <3>1
    <3> QED BY <2>2, <3>2 DEF WeekFacts
  <2> HIDE DEF week, R
  <2>4. CASE ~ (R(k).ok /\ Qualified(week, volunteer))
    <3>1. R(k + 1) = R(k)
      BY <2>1, <2>4 DEF VolunteerWeek
    <3> QED BY <1>2, <3>1
  <2>5. CASE R(k).ok /\ Qualified(week, volunteer)
    <3>1. /\ R(k + 1).mult = GrownMult(R(k).mult)
          /\ R(k + 1).counted = R(k).counted \cup {week}
      BY <2>1, <2>5 DEF VolunteerWeek
    <3>2. Cardinality(R(k + 1).counted) = Cardinality(R(k).counted) + 1
          /\ Cardinality(R(k).counted) \in Nat
      BY <2>3, <3>1, FS_AddElement, FS_CardinalityType
    <3>3. m + Cardinality(R(k).counted) \in Nat
          /\ m + Cardinality(R(k + 1).counted) = (m + Cardinality(R(k).counted)) + 1
      BY <3>2
    <3>4. R(k).mult = MultAfter(m + Cardinality(R(k).counted))
      BY <1>2
    <3> QED BY <3>1, <3>3, <3>4, MultAfterUnfolds
  <2> QED BY <2>4, <2>5
<1> HIDE DEF Good
<1>3. n \in Good
  BY <1>1, <1>2, NatSetInduction
<1> QED BY <1>3 DEF Good

\* Processing weeks leaves the multiplier that the counted weeks earn (_processWeeks).
LEMMA WeeksProcessedRewards ==
    ASSUME NEW c \in Citizen, NEW volunteer, NEW through \in Nat, NEW m \in Nat,
           c.volunteerMultBP = MultAfter(m),
           NEW p, p = WeeksProcessed(c, volunteer, through)
    PROVE  p.citizen.volunteerMultBP = MultAfter(m + Cardinality(p.counted))
<1> DEFINE n    == WeeksPending(c, through)
           last == WeeksRun(c, volunteer, n)
           d    == [c EXCEPT !.baseHonor["CAPITAL"] = last.capital,
                             !.volunteerMultBP      = last.mult,
                             !.volunteerWeeks       = last.weeks,
                             !.lastProcessedWeek    = @ + n]
<1>1. p.counted = last.counted /\ p.citizen = d
  BY DEF WeeksProcessed, WeeksPending
<1>2. n \in Nat
  <2>1. LastCompleteWeek(through) \in Int /\ c.lastProcessedWeek \in Nat
    BY LastCompleteWeekType DEF Citizen
  <2> QED BY <2>1 DEF WeeksPending
<1> HIDE DEF n
<1>3. last.mult = MultAfter(m + Cardinality(last.counted))
  BY <1>2, WeeksRunRewards
<1> HIDE DEF last
<1>4. d.volunteerMultBP = last.mult
  BY DEF Citizen
<1> QED BY <1>1, <1>3, <1>4

-----------------------------------------------------------------------------
(* A settled citizen. *)

\* The rate of every axis grows with the days settled on it, and with them only.
RatesAge(c, d) ==
    \A b \in Axis, m \in Nat :
        c.decayRateAtLastDay[b] = RateAfter(m)
          => d.decayRateAtLastDay[b] = RateAfter(m + (d.lastDecayDay[b] - c.lastDecayDay[b]))

\* The multiplier grows with the weeks counted, and with them only.
Rewarded(c, counted, d) ==
    \A m \in Nat : c.volunteerMultBP = MultAfter(m)
                     => d.volunteerMultBP = MultAfter(m + Cardinality(counted))

\* What _applyDecay does to a citizen c, with its call of _processWeeks; d is the
\* citizen afterwards.
SettledFacts(c, a, day, volunteer, counted, d) ==
    /\ d \in Citizen
    /\ SameMembership(c, d)
    /\ \A b \in Axis : /\ d.lastDecayDay[b] >= c.lastDecayDay[b]
                       /\ d.lastDecayDay[b] = c.lastDecayDay[b] \/ d.lastDecayDay[b] <= day
                       /\ d.decayRateAtLastDay[b] >= c.decayRateAtLastDay[b]
                       /\ b # a => d.lastDecayDay[b] = c.lastDecayDay[b]
    /\ \A b \in Axis \ {"CAPITAL"} : d.baseHonor[b] <= c.baseHonor[b]
    /\ d.baseHonor["CAPITAL"] <= c.baseHonor["CAPITAL"] \/ d.volunteerWeeks > c.volunteerWeeks
    /\ d.volunteerMultBP >= c.volunteerMultBP
    /\ d.volunteerWeeks = c.volunteerWeeks + Cardinality(counted)
    /\ IsFiniteSet(counted)
    /\ d.lastProcessedWeek >= c.lastProcessedWeek
    /\ d.lastProcessedWeek >= LastCompleteWeek(d.lastDecayDay[a])
    /\ \/ d.lastProcessedWeek = c.lastProcessedWeek
       \/ d.lastProcessedWeek = LastCompleteWeek(d.lastDecayDay[a])
    /\ \A week \in counted : /\ week \in Nat
                             /\ week > c.lastProcessedWeek
                             /\ week <= d.lastProcessedWeek
                             /\ week <= LastCompleteWeek(d.lastDecayDay[a])
                             /\ Qualified(week, volunteer)
    /\ RatesAge(c, d) /\ Rewarded(c, counted, d)

\* Decay and weeks together, when nothing overflows, have the facts above.
LEMMA SettledType ==
    ASSUME NEW w \in Worker, NEW a \in Axis, citizens[w] \in Citizen, today \in Nat,
           Settled(w, a).ok
    PROVE  SettledFacts(citizens[w], a, today, volunteerDays[w], Settled(w, a).counted,
                        Settled(w, a).citizen)
<1> DEFINE c     == citizens[w]
           decay == Decayed(c, a, activeDays[w], today)
           m     == decay.citizen
           weeks == WeeksProcessed(m, volunteerDays[w], m.lastDecayDay[a])
           d     == weeks.citizen
<1>1. /\ Settled(w, a).ok = (decay.ok /\ weeks.ok)
      /\ Settled(w, a).citizen = d
      /\ Settled(w, a).counted = weeks.counted
  BY DEF Settled
<1>2. DecayedFacts(c, a, today, m)
  BY DecayedType
<1>13. ASSUME NEW k \in Nat, c.decayRateAtLastDay[a] = RateAfter(k)
       PROVE  m.decayRateAtLastDay[a] = RateAfter(k + (m.lastDecayDay[a] - c.lastDecayDay[a]))
  <2> DEFINE n == DaysToSettle(c, a, today)
  <2>1. n \in Nat
    BY DaysToSettleType
  <2>2. decay.ok
    BY <1>1
  <2>3. /\ Advanced(c, m, a, n)
        /\ m.decayRateAtLastDay[a] = DecayRun(c, a, activeDays[w], n).rate
        /\ DecayRun(c, a, activeDays[w], n).ok
    <3> HIDE DEF n
    <3>1. n = DaysToSettle(c, a, today) /\ m = Decayed(c, a, activeDays[w], today).citizen
      BY DEF n
    <3>2. /\ Advanced(c, m, a, n)
          /\ m.decayRateAtLastDay[a] = DecayRun(c, a, activeDays[w], n).rate
          /\ Decayed(c, a, activeDays[w], today).ok = DecayRun(c, a, activeDays[w], n).ok
      BY <3>1, DecayedIs
    <3> QED BY <2>2, <3>2
  <2>4. DecayRun(c, a, activeDays[w], n).rate = RateAfter(k + n)
    BY <1>13, <2>1, <2>3, DecayRunAges
  <2> HIDE DEF n, decay
  <2>5. c.lastDecayDay[a] \in Nat
    BY DEF Citizen
  <2>6. m.lastDecayDay[a] - c.lastDecayDay[a] = n
    BY <2>1, <2>3, <2>5 DEF Advanced
  <2> QED BY <2>3, <2>4, <2>6
<1> HIDE DEF decay
<1>3. m \in Citizen /\ m.lastDecayDay[a] \in Nat
  BY <1>2 DEF DecayedFacts, Citizen
<1> HIDE DEF m
<1>4. ProcessedFacts(m, volunteerDays[w], m.lastDecayDay[a], weeks.counted, d)
  BY <1>1, <1>3, WeeksProcessedType
<1>14. Rewarded(c, weeks.counted, d)
  <2>1. m.volunteerMultBP = c.volunteerMultBP
    BY <1>2 DEF DecayedFacts
  <2> QED BY <1>3, <2>1, WeeksProcessedRewards DEF Rewarded
<1> HIDE DEF weeks
<1>5. /\ c.baseHonor["CAPITAL"] \in Nat /\ m.baseHonor["CAPITAL"] \in Nat
      /\ d.baseHonor["CAPITAL"] \in Nat
      /\ c.volunteerWeeks \in Nat
      /\ "CAPITAL" \in Axis
  BY <1>2, <1>4, ConstantsAssumption DEF DecayedFacts, ProcessedFacts, Citizen, Uint, Axis
<1>6. Cardinality(weeks.counted) \in Nat
      /\ (weeks.counted # {} => Cardinality(weeks.counted) > 0)
  <2>1. IsFiniteSet(weeks.counted)
    BY <1>4 DEF ProcessedFacts
  <2>2. Cardinality(weeks.counted) \in Nat
    BY <2>1, FS_CardinalityType
  <2>3. weeks.counted # {} => Cardinality(weeks.counted) # 0
    BY <2>1, FS_EmptySet
  <2> QED BY <2>2, <2>3
<1> HIDE DEF d
<1>7. /\ d \in Citizen
      /\ SameMembership(c, d)
      /\ d.lastDecayDay = m.lastDecayDay
      /\ d.decayRateAtLastDay = m.decayRateAtLastDay
      /\ d.volunteerMultBP >= c.volunteerMultBP
      /\ d.volunteerWeeks = c.volunteerWeeks + Cardinality(weeks.counted)
      /\ m.lastProcessedWeek = c.lastProcessedWeek
      /\ m.volunteerWeeks = c.volunteerWeeks
  BY <1>2, <1>4 DEF DecayedFacts, ProcessedFacts, SameMembership
<1>8. \A b \in Axis : /\ d.lastDecayDay[b] >= c.lastDecayDay[b]
                      /\ d.lastDecayDay[b] = c.lastDecayDay[b] \/ d.lastDecayDay[b] <= today
                      /\ d.decayRateAtLastDay[b] >= c.decayRateAtLastDay[b]
                      /\ b # a => d.lastDecayDay[b] = c.lastDecayDay[b]
  <2>1. \A b \in Axis : c.lastDecayDay[b] \in Nat /\ c.decayRateAtLastDay[b] \in Nat
    BY ConstantsAssumption DEF Citizen
  <2> QED BY <1>2, <1>7, <2>1 DEF DecayedFacts
<1>9. \A b \in Axis : m.baseHonor[b] <= c.baseHonor[b]
  <2>1. \A b \in Axis : c.baseHonor[b] \in Nat
    BY ConstantsAssumption DEF Citizen, Uint
  <2> QED BY <1>2, <2>1 DEF DecayedFacts
<1>10. \A b \in Axis \ {"CAPITAL"} : d.baseHonor[b] <= c.baseHonor[b]
  BY <1>4, <1>9 DEF ProcessedFacts
<1>11. d.baseHonor["CAPITAL"] <= c.baseHonor["CAPITAL"] \/ d.volunteerWeeks > c.volunteerWeeks
  <2>1. CASE weeks.counted = {}
    <3>1. d.baseHonor["CAPITAL"] = m.baseHonor["CAPITAL"]
      BY <1>4, <2>1 DEF ProcessedFacts
    <3> QED BY <1>5, <1>9, <3>1
  <2>2. CASE weeks.counted # {}
    BY <1>5, <1>6, <1>7, <2>2
  <2> QED BY <2>1, <2>2
<1>15. RatesAge(c, d)
  <2> SUFFICES ASSUME NEW b \in Axis, NEW k \in Nat, c.decayRateAtLastDay[b] = RateAfter(k)
               PROVE  d.decayRateAtLastDay[b]
                        = RateAfter(k + (d.lastDecayDay[b] - c.lastDecayDay[b]))
    BY DEF RatesAge
  <2>1. d.decayRateAtLastDay[b] = m.decayRateAtLastDay[b]
        /\ d.lastDecayDay[b] = m.lastDecayDay[b]
    BY <1>7
  <2>2. CASE b = a
    BY <1>13, <2>1, <2>2
  <2>3. CASE b # a
    <3>1. m.decayRateAtLastDay[b] = c.decayRateAtLastDay[b]
          /\ m.lastDecayDay[b] = c.lastDecayDay[b]
      BY <1>2, <2>3 DEF DecayedFacts
    <3>2. c.lastDecayDay[b] \in Nat
      BY DEF Citizen
    <3>3. k + (d.lastDecayDay[b] - c.lastDecayDay[b]) = k
      BY <2>1, <3>1, <3>2
    <3> QED BY <2>1, <3>1, <3>3
  <2> QED BY <2>2, <2>3
<1>12. SettledFacts(c, a, today, volunteerDays[w], weeks.counted, d)
  BY <1>4, <1>7, <1>8, <1>10, <1>11, <1>14, <1>15 DEF SettledFacts, ProcessedFacts
<1> QED BY <1>1, <1>12

-----------------------------------------------------------------------------
(* Type correctness. *)

\* The events of a settlement go to the log of one worker, once per counted week.
LEMMA EmitWeeksType ==
    ASSUME weekEvents \in [Worker -> [Week -> Nat]], NEW w \in Worker, NEW counted,
           EmitWeeks(w, counted)
    PROVE  /\ weekEvents' \in [Worker -> [Week -> Nat]]
           /\ \A v \in Worker \ {w} : weekEvents'[v] = weekEvents[v]
           /\ \A k \in Week : weekEvents'[w][k]
                 = IF k \in counted THEN weekEvents[w][k] + 1 ELSE weekEvents[w][k]
  BY DEF EmitWeeks

\* A credited citizen is a citizen: the amount fits, by the checked addition.
LEMMA CreditedType ==
    ASSUME NEW d \in Citizen, NEW a \in Axis, NEW n \in Nat, NEW locked \in Uint,
           d.baseHonor[a] + n <= MAX_UINT
    PROVE  [d EXCEPT !.baseHonor[a] = @ + n, !.lockedKWR = locked] \in Citizen
<1>1. d.baseHonor[a] \in Nat /\ d.baseHonor \in [Axis -> Uint]
  BY ConstantsAssumption DEF Citizen, Uint
<1>2. d.baseHonor[a] + n \in Uint
  BY <1>1, ConstantsAssumption DEF Uint
<1> QED BY <1>1, <1>2 DEF Citizen

\* The deleted struct is a well typed record of no citizen.
LEMMA NoCitizenType == NoCitizen \in Citizen /\ ~ NoCitizen.isCitizen
  BY ConstantsAssumption DEF NoCitizen, Citizen, Uint

\* A joining citizen starts all clocks today and keeps no claim but the one stored.
LEMMA JoinedType ==
    ASSUME NEW c \in Citizen, NEW day \in Nat
    PROVE  /\ Joined(c, day) \in Citizen
           /\ Joined(c, day).isCitizen
           /\ Joined(c, day).joinDay = day
           /\ Joined(c, day).lockedKWR = c.lockedKWR
           /\ Joined(c, day).lastProcessedWeek = day \div DAYS_PER_WEEK
           /\ \A a \in Axis : Joined(c, day).lastDecayDay[a] = day
<1>1. day \div DAYS_PER_WEEK \in Nat
  BY ConstantsAssumption
<1>2. INITIAL_CAPITAL_HONOR \in Uint /\ BASIS_POINTS \in Uint
      /\ DEFAULT_SABBATH_OFFSET \in 0..(DAYS_PER_WEEK - 1) /\ BASE_DECAY_BP \in 0..BASIS_POINTS
  BY ConstantsAssumption DEF Uint
<1> QED BY <1>1, <1>2 DEF Joined, Citizen

\* Credits are well typed: what a mint and an honor attestation add.
LEMMA AttestationTypes ==
    /\ GenesisDay \in Nat /\ MaxDay \in Nat /\ GenesisDay <= MaxDay /\ FirstAttester \in Key
    /\ \A att \in PoPAttestations : att.worker \in Worker /\ att.id \in Id
    /\ \A att \in MintAttestations : /\ att.worker \in Worker /\ att.id \in Id
                                     /\ att.kWRAmount \in Nat
    /\ \A att \in HonorAttestations : /\ att.worker \in Worker /\ att.id \in Id
                                      /\ att.axis \in Axis /\ att.honorDelta \in Nat
    /\ \A att \in DayAttestations : /\ att.worker \in Worker /\ att.id \in Id
                                    /\ att.day \in Nat
  BY AttestationAssumption, ConstantsAssumption DEF Uint

\* The citizen a mint leaves, and the one an honor attestation leaves.
Minted(w, amount) ==
    [Settled(w, "CAPITAL").citizen EXCEPT !.baseHonor["CAPITAL"] = @ + amount,
                                          !.lockedKWR            = @ + amount]
Honored(w, a, delta) == [Settled(w, a).citizen EXCEPT !.baseHonor[a] = @ + delta]

\* A successful mint settles the capital axis and stores a well typed citizen.
LEMMA MintedType ==
    ASSUME TypeOK, NEW att \in MintAttestations, BridgeMintCapital(att)
    PROVE  LET w == att.worker  s == Settled(w, "CAPITAL")  c == citizens[w]
           IN  /\ w \in Worker /\ c \in Citizen /\ c.isCitizen /\ att.kWRAmount \in Nat
               /\ SettledFacts(c, "CAPITAL", today, volunteerDays[w], s.counted, s.citizen)
               /\ Minted(w, att.kWRAmount) \in Citizen
               /\ citizens' = [citizens EXCEPT ![w] = Minted(w, att.kWRAmount)]
<1> DEFINE w == att.worker
           s == Settled(w, "CAPITAL")
<1>1. w \in Worker /\ att.kWRAmount \in Nat
  BY AttestationTypes
<1>2. citizens[w] \in Citizen /\ today \in Nat
  BY <1>1, AttestationTypes DEF TypeOK
<1>3. /\ s.ok /\ citizens[w].isCitizen
      /\ Fits(Minted(w, att.kWRAmount).baseHonor["CAPITAL"])
      /\ Fits(Minted(w, att.kWRAmount).lockedKWR)
      /\ citizens' = [citizens EXCEPT ![w] = Minted(w, att.kWRAmount)]
  BY DEF BridgeMintCapital, Minted
<1>4. SettledFacts(citizens[w], "CAPITAL", today, volunteerDays[w], s.counted, s.citizen)
  BY <1>1, <1>2, <1>3, SettledType DEF Axis
<1>5. s.citizen \in Citizen
  BY <1>4 DEF SettledFacts
<1> HIDE DEF s
<1>6. Minted(w, att.kWRAmount) = [s.citizen EXCEPT !.baseHonor["CAPITAL"] = @ + att.kWRAmount,
                                                   !.lockedKWR = @ + att.kWRAmount]
  BY DEF Minted, s
<1>7. /\ s.citizen.baseHonor["CAPITAL"] \in Nat /\ s.citizen.lockedKWR \in Nat
      /\ s.citizen.baseHonor["CAPITAL"] + att.kWRAmount <= MAX_UINT
      /\ s.citizen.lockedKWR + att.kWRAmount <= MAX_UINT
  BY <1>3, <1>5, <1>6, ConstantsAssumption DEF Fits, Citizen, Axis, Uint
<1>8. s.citizen.lockedKWR + att.kWRAmount \in Uint /\ "CAPITAL" \in Axis
  BY <1>1, <1>7, ConstantsAssumption DEF Uint, Axis
<1>9. Minted(w, att.kWRAmount) \in Citizen
  <2> DEFINE d == s.citizen
             n == att.kWRAmount
             locked == d.lockedKWR + n
  <2>1. Minted(w, n) = [d EXCEPT !.baseHonor["CAPITAL"] = @ + n, !.lockedKWR = locked]
    BY <1>6
  <2>2. d \in Citizen /\ n \in Nat /\ locked \in Uint /\ "CAPITAL" \in Axis
        /\ d.baseHonor["CAPITAL"] + n <= MAX_UINT
    BY <1>1, <1>5, <1>7, <1>8
  <2> HIDE DEF d, n, locked
  <2>3. [d EXCEPT !.baseHonor["CAPITAL"] = @ + n, !.lockedKWR = locked] \in Citizen
    BY <2>2, CreditedType
  <2> QED BY <2>1, <2>3 DEF n
<1> QED BY <1>1, <1>2, <1>3, <1>4, <1>9 DEF s

\* A successful attestation of honor settles its axis and stores a well typed citizen.
LEMMA HonoredType ==
    ASSUME TypeOK, NEW att \in HonorAttestations, AttestHonor(att)
    PROVE  LET w == att.worker  s == Settled(w, att.axis)  c == citizens[w]
           IN  /\ w \in Worker /\ c \in Citizen /\ c.isCitizen
               /\ att.axis \in Axis /\ att.honorDelta \in Nat
               /\ SettledFacts(c, att.axis, today, volunteerDays[w], s.counted, s.citizen)
               /\ Honored(w, att.axis, att.honorDelta) \in Citizen
               /\ citizens' = [citizens EXCEPT ![w] = Honored(w, att.axis, att.honorDelta)]
<1> DEFINE w == att.worker
           a == att.axis
           s == Settled(w, a)
<1>1. w \in Worker /\ a \in Axis /\ att.honorDelta \in Nat
  BY AttestationTypes
<1>2. citizens[w] \in Citizen /\ today \in Nat
  BY <1>1, AttestationTypes DEF TypeOK
<1>3. /\ s.ok /\ citizens[w].isCitizen
      /\ Fits(Honored(w, a, att.honorDelta).baseHonor[a])
      /\ citizens' = [citizens EXCEPT ![w] = Honored(w, a, att.honorDelta)]
  BY DEF AttestHonor, Honored
<1>4. SettledFacts(citizens[w], a, today, volunteerDays[w], s.counted, s.citizen)
  BY <1>1, <1>2, <1>3, SettledType
<1>5. s.citizen \in Citizen
  BY <1>4 DEF SettledFacts
<1> HIDE DEF s, a
<1>6. Honored(w, a, att.honorDelta) = [s.citizen EXCEPT !.baseHonor[a] = @ + att.honorDelta]
  BY DEF Honored, s
<1>7. /\ s.citizen.baseHonor \in [Axis -> Uint] /\ s.citizen.lockedKWR \in Uint
      /\ s.citizen.baseHonor[a] + att.honorDelta <= MAX_UINT
  BY <1>1, <1>3, <1>5, <1>6 DEF Fits, Citizen
<1>8. Honored(w, a, att.honorDelta) \in Citizen
  <2>1. s.citizen.baseHonor[a] + att.honorDelta \in Uint
    BY <1>1, <1>7, ConstantsAssumption DEF Uint
  <2> QED BY <1>1, <1>5, <1>6, <1>7, <2>1 DEF Citizen
<1> QED BY <1>1, <1>2, <1>3, <1>4, <1>8 DEF s, a

\* A citizen who moves the sabbath is still a citizen.
LEMMA SabbathType ==
    ASSUME NEW c \in Citizen, NEW offset \in 0..(DAYS_PER_WEEK - 1)
    PROVE  [c EXCEPT !.sabbathOffset = offset] \in Citizen
<1> DEFINE d == [c EXCEPT !.sabbathOffset = offset]
<1>1. d.sabbathOffset = offset
  BY DEF Citizen
<1> QED BY <1>1 DEF Citizen

\* The contract is deployed well typed.
LEMMA TypeInit == Init => TypeOK
<1> SUFFICES ASSUME Init PROVE TypeOK
  OBVIOUS
<1>1. citizens \in [Worker -> Citizen]
  BY NoCitizenType DEF Init
<1>2. weekEvents \in [Worker -> [Week -> Nat]]
  BY DEF Init
<1> QED BY <1>1, <1>2, AttestationTypes DEF Init, TypeOK

\* Every function, from a well typed state, leaves one; one step per function.
LEMMA TypeStep == TypeOK /\ [Next]_vars => TypeOK'
<1> SUFFICES ASSUME TypeOK, [Next]_vars PROVE TypeOK'
  OBVIOUS
<1> USE DEF TypeOK
<1>1. CASE NextDay
  BY <1>1, AttestationTypes DEF NextDay, contract, events
<1>2. ASSUME NEW att \in PoPAttestations, AttestPoP(att) PROVE TypeOK'
  BY <1>2, AttestationTypes DEF AttestPoP, events
<1>3. ASSUME NEW w \in Worker, Join(w) PROVE TypeOK'
  <2>1. citizens[w] \in Citizen /\ today \in Nat
    BY AttestationTypes
  <2>2. Joined(citizens[w], today) \in Citizen
    BY <2>1, JoinedType
  <2>3. citizens' \in [Worker -> Citizen]
    BY <1>3, <2>2 DEF Join
  <2> QED BY <1>3, <2>3 DEF Join, events
<1>4. ASSUME NEW w \in Worker, NEW offset \in 0..DAYS_PER_WEEK, SetSabbathDay(w, offset)
      PROVE TypeOK'
  <2>1. offset \in 0..(DAYS_PER_WEEK - 1)
    BY <1>4, ConstantsAssumption DEF SetSabbathDay
  <2>2. [citizens[w] EXCEPT !.sabbathOffset = offset] \in Citizen
    BY <2>1, SabbathType
  <2>3. citizens' \in [Worker -> Citizen]
    BY <1>4, <2>2 DEF SetSabbathDay
  <2> QED BY <1>4, <2>3 DEF SetSabbathDay, events
<1>5. ASSUME NEW w \in Worker, Ragequit(w) PROVE TypeOK'
  <2>1. citizens' \in [Worker -> Citizen]
    BY <1>5, NoCitizenType DEF Ragequit, Deleted
  <2>2. citizens[w].lockedKWR \in Nat
    BY ConstantsAssumption DEF Citizen, Uint
  <2>3. requested' \in [Worker -> Nat]
    BY <1>5, <2>2 DEF Ragequit
  <2>4. hasBadge' \in [Worker -> SUBSET Badge]
    BY <1>5 DEF Ragequit
  <2> QED BY <1>5, <2>1, <2>3, <2>4 DEF Ragequit
<1>6. ASSUME NEW att \in MintAttestations, BridgeMintCapital(att) PROVE TypeOK'
  <2>1. citizens' \in [Worker -> Citizen]
    BY <1>6, MintedType
  <2>2. att.worker \in Worker /\ att.kWRAmount \in Nat /\ att.id \in Id
    BY AttestationTypes
  <2>3. bridged' \in [Worker -> Nat]
    BY <1>6, <2>2 DEF BridgeMintCapital
  <2>4. weekEvents' \in [Worker -> [Week -> Nat]]
    BY <1>6, <2>2, EmitWeeksType DEF BridgeMintCapital
  <2> QED BY <1>6, <2>1, <2>2, <2>3, <2>4 DEF BridgeMintCapital
<1>7. ASSUME NEW att \in HonorAttestations, AttestHonor(att) PROVE TypeOK'
  <2>1. citizens' \in [Worker -> Citizen]
    BY <1>7, HonoredType
  <2>2. att.worker \in Worker /\ att.id \in Id
    BY AttestationTypes
  <2>3. weekEvents' \in [Worker -> [Week -> Nat]]
    BY <1>7, <2>2, EmitWeeksType DEF AttestHonor
  <2> QED BY <1>7, <2>1, <2>2, <2>3 DEF AttestHonor
<1>8. ASSUME NEW att \in DayAttestations, AttestDay(att) PROVE TypeOK'
  <2>1. att.worker \in Worker /\ att.id \in Id /\ att.day \in Nat
    BY AttestationTypes
  <2>2. activeDays' \in [Worker -> SUBSET Nat] /\ volunteerDays' \in [Worker -> SUBSET Nat]
    BY <1>8, <2>1 DEF AttestDay
  <2> QED BY <1>8, <2>1, <2>2 DEF AttestDay, events
<1>9. ASSUME NEW sender \in Sender, NEW w \in Worker, NEW badge \in Badge,
             GrantBadge(sender, w, badge) PROVE TypeOK'
  <2>1. hasBadge' \in [Worker -> SUBSET Badge]
    BY <1>9 DEF GrantBadge
  <2> QED BY <1>9, <2>1 DEF GrantBadge, events
<1>10. ASSUME NEW sender \in Sender, NEW w \in Worker, NEW badge \in Badge,
              RevokeBadge(sender, w, badge) PROVE TypeOK'
  <2>1. hasBadge' \in [Worker -> SUBSET Badge]
    BY <1>10 DEF RevokeBadge
  <2> QED BY <1>10, <2>1 DEF RevokeBadge, events
<1>11. ASSUME NEW sender \in Sender, NEW key \in Key, RotateAttester(sender, key) PROVE TypeOK'
  BY <1>11 DEF RotateAttester, events
<1>12. CASE UNCHANGED vars
  BY <1>12 DEF vars, contract, events
<1> QED BY <1>1, <1>2, <1>3, <1>4, <1>5, <1>6, <1>7, <1>8, <1>9, <1>10, <1>11, <1>12 DEF Next

\* Every reachable state is well typed: honor, rates and clocks stay in their
\* ranges whatever is attested, because overflow reverts (SeumStandard.sol).
THEOREM TypeCorrect == Spec => []TypeOK
  BY TypeInit, TypeStep, PTL DEF Spec

-----------------------------------------------------------------------------
(* What a step does to one worker: nothing, or one of four things.  Each     *)
(* invariant below is proved by these cases.                                 *)

Idle(w) == /\ citizens'[w] = citizens[w] /\ bridged'[w] = bridged[w]
           /\ requested'[w] = requested[w] /\ weekEvents'[w] = weekEvents[w]
           /\ hasBadge'[w] \subseteq hasBadge[w] \/ citizens[w].isCitizen

Joins(w) == /\ w \in attestedPoP /\ ~ citizens[w].isCitizen
            /\ citizens'[w] = Joined(citizens[w], today) /\ today' = today
            /\ bridged'[w] = bridged[w] /\ requested'[w] = requested[w]
            /\ weekEvents'[w] = weekEvents[w]

MovesSabbath(w) == /\ citizens[w].isCitizen
                   /\ \E offset : citizens'[w] = [citizens[w] EXCEPT !.sabbathOffset = offset]
                   /\ bridged'[w] = bridged[w] /\ requested'[w] = requested[w]
                   /\ weekEvents'[w] = weekEvents[w] /\ today' = today

Leaves(w) == /\ citizens[w].isCitizen /\ citizens'[w] = NoCitizen
             /\ bridged'[w] = bridged[w]
             /\ requested'[w] = requested[w] + citizens[w].lockedKWR
             /\ weekEvents'[w] = weekEvents[w] /\ today' = today
             /\ hasBadge'[w] = {}

\* e is the settled citizen d with n more honor on axis a, and lock more kWR.
CreditedFrom(d, a, n, lock, e) ==
    /\ e.isCitizen = d.isCitizen /\ e.joinDay = d.joinDay
    /\ e.lockedKWR = d.lockedKWR + lock
    /\ e.lastDecayDay = d.lastDecayDay
    /\ e.decayRateAtLastDay = d.decayRateAtLastDay
    /\ e.volunteerMultBP = d.volunteerMultBP
    /\ e.volunteerWeeks = d.volunteerWeeks
    /\ e.lastProcessedWeek = d.lastProcessedWeek
    /\ e.baseHonor[a] = d.baseHonor[a] + n
    /\ \A b \in Axis \ {a} : e.baseHonor[b] = d.baseHonor[b]

CreditedWith(w, a, n, lock, counted, d) ==
    /\ citizens[w].isCitizen
    /\ SettledFacts(citizens[w], a, today, volunteerDays[w], counted, d)
    /\ CreditedFrom(d, a, n, lock, citizens'[w])
    /\ bridged'[w] = bridged[w] + lock
    /\ requested'[w] = requested[w]
    /\ \A k \in Week : weekEvents'[w][k]
          = IF k \in counted THEN weekEvents[w][k] + 1 ELSE weekEvents[w][k]
    /\ consumed' # consumed
    /\ today' = today

IsCredited(w) ==
    \E a, n, lock, counted, d :
        /\ a \in Axis /\ n \in Nat /\ lock \in Nat
        /\ lock = IF a = "CAPITAL" THEN n ELSE 0
        /\ CreditedWith(w, a, n, lock, counted, d)

StepOf(w) == Idle(w) \/ Joins(w) \/ MovesSabbath(w) \/ Leaves(w) \/ IsCredited(w)

\* Whatever the step, time and proofs go forward only.
Forward == /\ today <= today'
           /\ attestedPoP \subseteq attestedPoP'
           /\ \A w \in Worker : volunteerDays[w] \subseteq volunteerDays'[w]

\* A mint credits its worker, with as much kWR as honor.
LEMMA MintCredits ==
    ASSUME TypeOK, NEW att \in MintAttestations, BridgeMintCapital(att)
    PROVE  IsCredited(att.worker)
<1> DEFINE w == att.worker
           n == att.kWRAmount
           d == Settled(w, "CAPITAL").citizen
           counted == Settled(w, "CAPITAL").counted
<1>1. /\ w \in Worker /\ citizens[w] \in Citizen /\ citizens[w].isCitizen /\ n \in Nat
      /\ SettledFacts(citizens[w], "CAPITAL", today, volunteerDays[w], counted, d)
      /\ citizens' = [citizens EXCEPT ![w] = Minted(w, n)]
  BY MintedType
<1>2. d \in Citizen
  BY <1>1 DEF SettledFacts
<1>3. citizens'[w] = Minted(w, n)
  BY <1>1 DEF TypeOK
<1>4. Minted(w, n) = [d EXCEPT !.baseHonor["CAPITAL"] = @ + n, !.lockedKWR = @ + n]
  BY DEF Minted
<1> HIDE DEF d
<1>5. CreditedFrom(d, "CAPITAL", n, n, citizens'[w])
  BY <1>2, <1>3, <1>4 DEF CreditedFrom, SameMembership, Citizen, Axis
<1>6. bridged'[w] = bridged[w] + n /\ requested'[w] = requested[w] /\ today' = today
  BY <1>1 DEF BridgeMintCapital, TypeOK
<1>7. \A k \in Week : weekEvents'[w][k]
          = IF k \in counted THEN weekEvents[w][k] + 1 ELSE weekEvents[w][k]
  <2>1. EmitWeeks(w, counted)
    BY DEF BridgeMintCapital
  <2>2. weekEvents \in [Worker -> [Week -> Nat]]
    BY DEF TypeOK
  <2> HIDE DEF w, counted
  <2> QED BY <1>1, <2>1, <2>2, EmitWeeksType
<1>8. consumed' # consumed
  BY DEF BridgeMintCapital, Accepted
<1> HIDE DEF w, n, counted
<1>9. CreditedWith(w, "CAPITAL", n, n, counted, d)
  BY <1>1, <1>5, <1>6, <1>7, <1>8 DEF CreditedWith
<1>10. "CAPITAL" \in Axis
  BY DEF Axis
<1> QED BY <1>1, <1>9, <1>10 DEF IsCredited, w

\* An attestation of honor credits its worker, with no kWR.
LEMMA HonorCredits ==
    ASSUME TypeOK, NEW att \in HonorAttestations, AttestHonor(att)
    PROVE  IsCredited(att.worker)
<1> DEFINE w == att.worker
           a == att.axis
           n == att.honorDelta
           d == Settled(w, a).citizen
           counted == Settled(w, a).counted
<1>1. /\ w \in Worker /\ citizens[w] \in Citizen /\ citizens[w].isCitizen
      /\ a \in Axis /\ n \in Nat
      /\ SettledFacts(citizens[w], a, today, volunteerDays[w], counted, d)
      /\ citizens' = [citizens EXCEPT ![w] = Honored(w, a, n)]
  BY HonoredType
<1>2. d \in Citizen
  BY <1>1 DEF SettledFacts
<1>3. citizens'[w] = Honored(w, a, n)
  BY <1>1 DEF TypeOK
<1>4. Honored(w, a, n) = [d EXCEPT !.baseHonor[a] = @ + n]
  BY DEF Honored
<1> HIDE DEF d
<1>5. CreditedFrom(d, a, n, 0, citizens'[w])
  <2>1. d.lockedKWR = d.lockedKWR + 0
    BY <1>2, ConstantsAssumption DEF Citizen, Uint
  <2> QED BY <1>1, <1>2, <1>3, <1>4, <2>1 DEF CreditedFrom, SameMembership, Citizen
<1>6. bridged'[w] = bridged[w] + 0 /\ requested'[w] = requested[w] /\ today' = today
  <2>1. bridged[w] \in Nat
    BY <1>1 DEF TypeOK
  <2>2. bridged' = bridged /\ requested' = requested /\ today' = today
    BY DEF AttestHonor
  <2> QED BY <2>1, <2>2
<1>7. \A k \in Week : weekEvents'[w][k]
          = IF k \in counted THEN weekEvents[w][k] + 1 ELSE weekEvents[w][k]
  <2>1. EmitWeeks(w, counted)
    BY DEF AttestHonor
  <2>2. weekEvents \in [Worker -> [Week -> Nat]]
    BY DEF TypeOK
  <2> HIDE DEF w, counted
  <2> QED BY <1>1, <2>1, <2>2, EmitWeeksType
<1>8. consumed' # consumed /\ a # "CAPITAL"
  BY DEF AttestHonor, Accepted
<1> HIDE DEF w, n, counted, a
<1>9. CreditedWith(w, a, n, 0, counted, d)
  BY <1>1, <1>5, <1>6, <1>7, <1>8 DEF CreditedWith
<1> QED BY <1>1, <1>8, <1>9 DEF IsCredited, w

\* Every step is one of the five for each worker.
LEMMA StepCases ==
    ASSUME TypeOK, [Next]_vars
    PROVE  Forward /\ \A w \in Worker : StepOf(w)
<1> USE DEF TypeOK
<1> today \in Nat /\ today <= today
  BY AttestationTypes
<1>1. CASE NextDay \/ UNCHANGED vars
  <2>1. UNCHANGED <<citizens, bridged, requested, weekEvents, hasBadge, attestedPoP, volunteerDays>>
    BY <1>1 DEF NextDay, vars, contract, events
  <2>2. today' = today + 1 \/ today' = today
    BY <1>1 DEF NextDay, vars
  <2> QED BY <2>1, <2>2 DEF Forward, StepOf, Idle
<1>2. ASSUME NEW att \in PoPAttestations, AttestPoP(att)
      PROVE Forward /\ \A w \in Worker : StepOf(w)
  BY <1>2 DEF AttestPoP, events, Forward, StepOf, Idle
<1>3. ASSUME NEW v \in Worker, Join(v) PROVE Forward /\ \A w \in Worker : StepOf(w)
  <2>1. Joins(v)
    BY <1>3 DEF Join, Joins, events
  <2>2. \A w \in Worker \ {v} : Idle(w)
    BY <1>3 DEF Join, Idle, events
  <2>3. Forward
    BY <1>3 DEF Join, Forward
  <2> QED BY <2>1, <2>2, <2>3 DEF StepOf
<1>4. ASSUME NEW v \in Worker, NEW offset \in 0..DAYS_PER_WEEK, SetSabbathDay(v, offset)
      PROVE Forward /\ \A w \in Worker : StepOf(w)
  <2>1. MovesSabbath(v)
    <3>1. citizens'[v] = [citizens[v] EXCEPT !.sabbathOffset = offset]
      BY <1>4 DEF SetSabbathDay
    <3> QED BY <1>4, <3>1 DEF SetSabbathDay, MovesSabbath, events
  <2>2. \A w \in Worker \ {v} : Idle(w)
    BY <1>4 DEF SetSabbathDay, Idle, events
  <2>3. Forward
    BY <1>4 DEF SetSabbathDay, Forward
  <2> QED BY <2>1, <2>2, <2>3 DEF StepOf
<1>5. ASSUME NEW v \in Worker, Ragequit(v) PROVE Forward /\ \A w \in Worker : StepOf(w)
  <2>1. Leaves(v)
    BY <1>5 DEF Ragequit, Leaves, Deleted
  <2>2. \A w \in Worker \ {v} : Idle(w)
    BY <1>5 DEF Ragequit, Idle
  <2>3. Forward
    BY <1>5 DEF Ragequit, Forward
  <2> QED BY <2>1, <2>2, <2>3 DEF StepOf
<1>6. ASSUME NEW att \in MintAttestations, BridgeMintCapital(att)
      PROVE Forward /\ \A w \in Worker : StepOf(w)
  <2>1. att.worker \in Worker
    BY AttestationTypes
  <2>2. IsCredited(att.worker)
    BY <1>6, MintCredits
  <2>3. \A w \in Worker \ {att.worker} : Idle(w)
    <3>1. \E counted : EmitWeeks(att.worker, counted)
      BY <1>6 DEF BridgeMintCapital
    <3>2. \A w \in Worker \ {att.worker} : weekEvents'[w] = weekEvents[w]
      BY <2>1, <3>1, EmitWeeksType
    <3> QED BY <1>6, <3>2 DEF BridgeMintCapital, Idle
  <2>4. Forward
    BY <1>6 DEF BridgeMintCapital, Forward
  <2> QED BY <2>1, <2>2, <2>3, <2>4 DEF StepOf
<1>7. ASSUME NEW att \in HonorAttestations, AttestHonor(att)
      PROVE Forward /\ \A w \in Worker : StepOf(w)
  <2>1. att.worker \in Worker
    BY AttestationTypes
  <2>2. IsCredited(att.worker)
    BY <1>7, HonorCredits
  <2>3. \A w \in Worker \ {att.worker} : Idle(w)
    <3>1. \E counted : EmitWeeks(att.worker, counted)
      BY <1>7 DEF AttestHonor
    <3>2. \A w \in Worker \ {att.worker} : weekEvents'[w] = weekEvents[w]
      BY <2>1, <3>1, EmitWeeksType
    <3> QED BY <1>7, <3>2 DEF AttestHonor, Idle
  <2>4. Forward
    BY <1>7 DEF AttestHonor, Forward
  <2> QED BY <2>1, <2>2, <2>3, <2>4 DEF StepOf
<1>8. ASSUME NEW att \in DayAttestations, AttestDay(att)
      PROVE Forward /\ \A w \in Worker : StepOf(w)
  <2>1. att.worker \in Worker
    BY AttestationTypes
  <2>2. UNCHANGED <<today, citizens, hasBadge, attestedPoP, events>>
    BY <1>8 DEF AttestDay
  <2>3. \A w \in Worker : volunteerDays[w] \subseteq volunteerDays'[w]
    BY <1>8, <2>1 DEF AttestDay
  <2> QED BY <2>2, <2>3 DEF Forward, StepOf, Idle, events
<1>9. ASSUME NEW sender \in Sender, NEW v \in Worker, NEW badge \in Badge,
             GrantBadge(sender, v, badge) \/ RevokeBadge(sender, v, badge)
      PROVE Forward /\ \A w \in Worker : StepOf(w)
  BY <1>9 DEF GrantBadge, RevokeBadge, events, Forward, StepOf, Idle
<1>10. ASSUME NEW sender \in Sender, NEW key \in Key, RotateAttester(sender, key)
       PROVE Forward /\ \A w \in Worker : StepOf(w)
  BY <1>10 DEF RotateAttester, events, Forward, StepOf, Idle
<1> QED BY <1>1, <1>2, <1>3, <1>4, <1>5, <1>6, <1>7, <1>8, <1>9, <1>10 DEF Next

-----------------------------------------------------------------------------
(* Money. *)

\* Nothing is bridged, locked or released at deployment.
LEMMA ClaimsInit == Init => ClaimsMatchLocks
  BY DEF Init, ClaimsMatchLocks, NoCitizen

\* Every step keeps bridged kWR equal to locked plus released kWR.
LEMMA ClaimsStep ==
    ASSUME TypeOK, ClaimsMatchLocks, [Next]_vars
    PROVE  ClaimsMatchLocks'
<1> SUFFICES ASSUME NEW w \in Worker
             PROVE bridged'[w] = citizens'[w].lockedKWR + requested'[w]
  BY DEF ClaimsMatchLocks
<1>1. /\ StepOf(w)
      /\ bridged[w] = citizens[w].lockedKWR + requested[w]
      /\ citizens[w] \in Citizen /\ citizens[w].lockedKWR \in Nat
      /\ bridged[w] \in Nat /\ requested[w] \in Nat /\ today \in Nat
  BY StepCases, ConstantsAssumption, AttestationTypes DEF TypeOK, ClaimsMatchLocks, Citizen, Uint
<1>2. CASE Idle(w)
  BY <1>1, <1>2 DEF Idle
<1>3. CASE Joins(w)
  <2>1. Joined(citizens[w], today).lockedKWR = citizens[w].lockedKWR
    BY <1>1, JoinedType
  <2> QED BY <1>1, <1>3, <2>1 DEF Joins
<1>4. CASE MovesSabbath(w)
  <2>1. citizens'[w].lockedKWR = citizens[w].lockedKWR
    BY <1>1, <1>4 DEF MovesSabbath, Citizen
  <2> QED BY <1>1, <1>4, <2>1 DEF MovesSabbath
<1>5. CASE Leaves(w)
  BY <1>1, <1>5 DEF Leaves, NoCitizen
<1>6. CASE IsCredited(w)
  <2>1. PICK a, n, lock, counted, d :
         /\ a \in Axis /\ n \in Nat /\ lock \in Nat
         /\ CreditedWith(w, a, n, lock, counted, d)
    BY <1>6 DEF IsCredited
  <2>2. d.lockedKWR = citizens[w].lockedKWR /\ citizens'[w].lockedKWR = d.lockedKWR + lock
    BY <2>1 DEF CreditedWith, SettledFacts, CreditedFrom, SameMembership
  <2> QED BY <1>1, <2>1, <2>2 DEF CreditedWith
<1> QED BY <1>1, <1>2, <1>3, <1>4, <1>5, <1>6 DEF StepOf

\* kWR is conserved for every worker across any number of lives: what was bridged
\* is locked or was released (bridgeMintCapital, ragequit).
THEOREM ClaimsAlwaysMatch == Spec => []ClaimsMatchLocks
<1>1. TypeOK /\ ClaimsMatchLocks /\ [Next]_vars => ClaimsMatchLocks'
  BY ClaimsStep
<1> QED BY <1>1, ClaimsInit, TypeCorrect, PTL DEF Spec

-----------------------------------------------------------------------------
(* Membership. *)

\* Every step keeps citizens verified and badges with citizens.
LEMMA GatesStep ==
    ASSUME TypeOK, MembershipGates, [Next]_vars
    PROVE  MembershipGates'
<1> SUFFICES ASSUME NEW w \in Worker
             PROVE /\ citizens'[w].isCitizen => w \in attestedPoP'
                   /\ hasBadge'[w] # {} => citizens'[w].isCitizen
  BY DEF MembershipGates
<1>1. /\ StepOf(w) /\ attestedPoP \subseteq attestedPoP' /\ citizens[w] \in Citizen
      /\ citizens[w].isCitizen => w \in attestedPoP
      /\ hasBadge[w] # {} => citizens[w].isCitizen
  BY StepCases DEF TypeOK, MembershipGates, Forward
<1>2. citizens'[w].isCitizen => w \in attestedPoP'
  <2>1. CASE Idle(w)
    BY <1>1, <2>1 DEF Idle
  <2>2. CASE Joins(w)
    BY <1>1, <2>2 DEF Joins
  <2>3. CASE MovesSabbath(w) \/ IsCredited(w)
    BY <1>1, <2>3 DEF MovesSabbath, IsCredited, CreditedWith
  <2>4. CASE Leaves(w)
    BY <2>4, NoCitizenType DEF Leaves
  <2> QED BY <1>1, <2>1, <2>2, <2>3, <2>4 DEF StepOf
<1>3. hasBadge'[w] # {} => citizens'[w].isCitizen
  <2>1. CASE Idle(w)
    BY <1>1, <2>1 DEF Idle
  <2>2. CASE Joins(w)
    <3>1. today \in Nat
      BY AttestationTypes DEF TypeOK
    <3>2. Joined(citizens[w], today).isCitizen
      BY <1>1, <3>1, JoinedType
    <3> QED BY <2>2, <3>2 DEF Joins
  <2>3. CASE MovesSabbath(w)
    BY <1>1, <2>3 DEF MovesSabbath, Citizen
  <2>4. CASE Leaves(w)
    BY <2>4 DEF Leaves
  <2>5. CASE IsCredited(w)
    <3>1. PICK a, n, lock, counted, d :
           /\ a \in Axis /\ n \in Nat /\ lock \in Nat
           /\ CreditedWith(w, a, n, lock, counted, d)
      BY <2>5 DEF IsCredited
    <3>2. citizens'[w].isCitizen = citizens[w].isCitizen
      BY <3>1 DEF CreditedWith, SettledFacts, CreditedFrom, SameMembership
    <3> QED BY <3>1, <3>2 DEF CreditedWith
  <2> QED BY <1>1, <2>1, <2>2, <2>3, <2>4, <2>5 DEF StepOf
<1> QED BY <1>2, <1>3

\* There are no citizens and no badges at deployment.
LEMMA GatesInit == Init => MembershipGates
  BY NoCitizenType DEF Init, MembershipGates

\* Only verified people are citizens and only citizens wear badges, in every
\* order of joining, leaving, granting and revoking (join, ragequit, grantBadge).
THEOREM GatesAlwaysHold == Spec => []MembershipGates
<1>1. TypeOK /\ MembershipGates /\ [Next]_vars => MembershipGates'
  BY GatesStep
<1> QED BY <1>1, GatesInit, TypeCorrect, PTL DEF Spec

-----------------------------------------------------------------------------
(* Weeks.  The three invariants on weeks are inductive together: a week is   *)
(* counted once because the week clock stands at or past every counted week, *)
(* and the clock stands there because it follows the day clocks.             *)

WeekClock(c, day) ==
    LET marks == {LastCompleteWeek(c.lastDecayDay[a]) : a \in Axis}
                   \cup {c.joinDay \div DAYS_PER_WEEK}
    IN  /\ c.lastProcessedWeek \in marks
        /\ \A m \in marks : m <= c.lastProcessedWeek
        /\ \A a \in Axis : c.lastDecayDay[a] \in c.joinDay..day

Separate(c, counts, day) ==
    LET mark == IF c.isCitizen THEN c.lastProcessedWeek ELSE day \div DAYS_PER_WEEK
    IN  /\ c.isCitizen \/ c = NoCitizen
        /\ mark <= day \div DAYS_PER_WEEK
        /\ \A k \in Week : counts[k] > 0 => k <= mark

CountedOnce(counts, volunteer, day) ==
    \A k \in Week : /\ counts[k] <= 1
                    /\ counts[k] = 1 => /\ Qualified(k, volunteer)
                                        /\ k <= LastCompleteWeek(day)

WeekInv(w) == /\ citizens[w].isCitizen => WeekClock(citizens[w], today)
              /\ Separate(citizens[w], weekEvents[w], today)
              /\ CountedOnce(weekEvents[w], volunteerDays[w], today)

\* WeekInv for every worker is the three checked invariants.
LEMMA WeekInvIs ==
    WeeksFollowClocks /\ LivesAreSeparate /\ WeeksCountedOnce <=> \A w \in Worker : WeekInv(w)
<1>1. WeeksFollowClocks <=> \A w \in Worker : citizens[w].isCitizen => WeekClock(citizens[w], today)
  BY DEF WeeksFollowClocks, WeekClock
<1>2. LivesAreSeparate <=> \A w \in Worker : Separate(citizens[w], weekEvents[w], today)
  BY DEF LivesAreSeparate, Separate
<1>3. WeeksCountedOnce
        <=> \A w \in Worker : CountedOnce(weekEvents[w], volunteerDays[w], today)
  BY DEF WeeksCountedOnce, CountedOnce
<1> QED BY <1>1, <1>2, <1>3 DEF WeekInv

\* Later days and more attested days leave the facts on counted weeks true.
LEMMA CountedOnceLater ==
    ASSUME NEW counts \in [Week -> Nat], NEW volunteer, NEW more, volunteer \subseteq more,
           NEW day \in Nat, NEW later \in Nat, day <= later, CountedOnce(counts, volunteer, day)
    PROVE  CountedOnce(counts, more, later)
<1>1. \A k : Qualified(k, volunteer) => Qualified(k, more)
  BY DEF Qualified
<1>2. ASSUME NEW k \in Week, k <= LastCompleteWeek(day) PROVE k <= LastCompleteWeek(later)
  <2>1. k \in Nat
    BY AttestationTypes DEF Week
  <2> QED BY <1>2, <2>1, LastCompleteWeekType
<1> QED BY <1>1, <1>2 DEF CountedOnce

\* The weeks of a day, as the early return of _processWeeks and join see them.
LEMMA WeekOfDay ==
    ASSUME NEW day \in Nat, NEW later \in Nat, day <= later
    PROVE  /\ day \div DAYS_PER_WEEK \in Nat
           /\ day \div DAYS_PER_WEEK <= later \div DAYS_PER_WEEK
           /\ LastCompleteWeek(day) \in Int
           /\ LastCompleteWeek(day) <= LastCompleteWeek(later)
           /\ LastCompleteWeek(day) <= later \div DAYS_PER_WEEK
<1>1. /\ day \div DAYS_PER_WEEK \in Nat
      /\ later \div DAYS_PER_WEEK \in Nat
      /\ day \div DAYS_PER_WEEK <= later \div DAYS_PER_WEEK
  BY ConstantsAssumption
<1>2. LastCompleteWeek(day) \in Int /\ LastCompleteWeek(day) <= day \div DAYS_PER_WEEK
      /\ LastCompleteWeek(day) <= LastCompleteWeek(later)
  BY LastCompleteWeekType
<1> QED BY <1>1, <1>2

\* Settling one axis keeps the week clock on the furthest of the day clocks.
LEMMA WeekClockSettled ==
    ASSUME NEW c \in Citizen, NEW d, NEW a \in Axis, NEW day \in Nat, NEW volunteer, NEW counted,
           SettledFacts(c, a, day, volunteer, counted, d), WeekClock(c, day)
    PROVE  WeekClock(d, day)
<1> DEFINE Was(b) == LastCompleteWeek(c.lastDecayDay[b])
           Is(b)  == LastCompleteWeek(d.lastDecayDay[b])
           joined == c.joinDay \div DAYS_PER_WEEK
<1>1. /\ d \in Citizen /\ d.joinDay = c.joinDay
      /\ c.joinDay \in Nat /\ c.lastProcessedWeek \in Nat /\ d.lastProcessedWeek \in Nat
  BY DEF SettledFacts, SameMembership, Citizen
<1>2. ASSUME NEW b \in Axis
      PROVE  /\ c.lastDecayDay[b] \in Nat /\ d.lastDecayDay[b] \in Nat
             /\ c.lastDecayDay[b] <= d.lastDecayDay[b]
             /\ d.lastDecayDay[b] = c.lastDecayDay[b] \/ d.lastDecayDay[b] <= day
             /\ c.lastDecayDay[b] \in c.joinDay..day
             /\ b # a => d.lastDecayDay[b] = c.lastDecayDay[b]
  <2>1. c.lastDecayDay[b] \in Nat /\ d.lastDecayDay[b] \in Nat
    BY <1>1 DEF Citizen
  <2> QED BY <2>1 DEF SettledFacts, WeekClock
<1>3. ASSUME NEW b \in Axis
      PROVE  /\ Was(b) \in Int /\ Is(b) \in Int /\ Was(b) <= Is(b)
             /\ Was(b) <= c.lastProcessedWeek
             /\ b # a => Is(b) = Was(b)
  <2>1. Was(b) \in Int /\ Is(b) \in Int /\ Was(b) <= Is(b)
    BY <1>2, LastCompleteWeekType
  <2>2. Was(b) <= c.lastProcessedWeek
    BY DEF WeekClock
  <2> QED BY <1>2, <2>1, <2>2
<1>4. /\ joined <= c.lastProcessedWeek
      /\ c.lastProcessedWeek = joined \/ \E b \in Axis : c.lastProcessedWeek = Was(b)
      /\ joined \in Nat
  BY <1>1, ConstantsAssumption DEF WeekClock
<1>5. /\ d.lastProcessedWeek >= c.lastProcessedWeek
      /\ d.lastProcessedWeek >= Is(a)
      /\ d.lastProcessedWeek = c.lastProcessedWeek \/ d.lastProcessedWeek = Is(a)
  BY DEF SettledFacts
<1> HIDE DEF Was, Is, joined
<1>6. ASSUME NEW b \in Axis PROVE Is(b) <= d.lastProcessedWeek
  <2>1. CASE b = a
    BY <1>1, <1>3, <1>5, <2>1
  <2>2. CASE b # a
    <3>1. Is(b) = Was(b) /\ Was(b) \in Int /\ Was(b) <= c.lastProcessedWeek
      BY <1>3, <2>2
    <3> QED BY <1>1, <1>5, <3>1
  <2> QED BY <2>1, <2>2
<1>7. joined <= d.lastProcessedWeek
  BY <1>1, <1>4, <1>5
<1>8. d.lastProcessedWeek = joined \/ \E b \in Axis : d.lastProcessedWeek = Is(b)
  <2>1. CASE d.lastProcessedWeek = Is(a)
    BY <2>1
  <2>2. CASE d.lastProcessedWeek = c.lastProcessedWeek /\ c.lastProcessedWeek = joined
    BY <2>2
  <2>3. ASSUME NEW b \in Axis, d.lastProcessedWeek = c.lastProcessedWeek,
               c.lastProcessedWeek = Was(b)
        PROVE  d.lastProcessedWeek = Is(b)
    <3>1. Was(b) <= Is(b) /\ Is(b) <= d.lastProcessedWeek /\ Is(b) \in Int /\ Was(b) \in Int
      BY <1>3, <1>6
    <3> QED BY <1>1, <2>3, <3>1
  <2> QED BY <1>4, <1>5, <2>1, <2>2, <2>3
<1>9. \A b \in Axis : d.lastDecayDay[b] \in d.joinDay..day
  BY <1>1, <1>2
<1> QED BY <1>1, <1>6, <1>7, <1>8, <1>9 DEF WeekClock, Is, joined

\* The week clock of a citizen is never past the week of today.
LEMMA WeekClockBound ==
    ASSUME NEW c \in Citizen, NEW day \in Nat, WeekClock(c, day)
    PROVE  c.lastProcessedWeek <= day \div DAYS_PER_WEEK
<1>1. c.joinDay \in Nat /\ c.lastProcessedWeek \in Nat /\ \E a : a \in Axis
  BY DEF Citizen, Axis
<1>2. \A a \in Axis : c.lastDecayDay[a] \in Nat /\ c.joinDay <= day /\ c.lastDecayDay[a] <= day
  BY <1>1 DEF WeekClock
<1>3. \A a \in Axis : LastCompleteWeek(c.lastDecayDay[a]) <= day \div DAYS_PER_WEEK
  BY <1>2, WeekOfDay
<1>4. c.joinDay \div DAYS_PER_WEEK <= day \div DAYS_PER_WEEK
  BY <1>1, <1>2, WeekOfDay
<1> QED BY <1>3, <1>4 DEF WeekClock

\* The log after the events of a settlement.
Emitted(counts, counted, after) ==
    \A k \in Week : after[k] = IF k \in counted THEN counts[k] + 1 ELSE counts[k]

\* The weeks a settlement counts are new to the log, complete, and behind the clock.
LEMMA SeparateSettled ==
    ASSUME NEW c \in Citizen, NEW d, NEW a \in Axis, NEW day \in Nat, NEW volunteer, NEW counted,
           SettledFacts(c, a, day, volunteer, counted, d), WeekClock(c, day), c.isCitizen,
           NEW counts \in [Week -> Nat], NEW after \in [Week -> Nat],
           Emitted(counts, counted, after),
           Separate(c, counts, day), CountedOnce(counts, volunteer, day)
    PROVE  Separate(d, after, day) /\ CountedOnce(after, volunteer, day)
<1>1. d \in Citizen /\ d.isCitizen /\ c.lastProcessedWeek \in Nat /\ d.lastProcessedWeek \in Nat
      /\ d.lastProcessedWeek >= c.lastProcessedWeek
  BY DEF SettledFacts, SameMembership, Citizen
<1>2. WeekClock(d, day)
  BY WeekClockSettled
<1>3. d.lastProcessedWeek <= day \div DAYS_PER_WEEK
  BY <1>1, <1>2, WeekClockBound
<1>4. ASSUME NEW k \in Week
      PROVE  /\ after[k] > 0 => k <= d.lastProcessedWeek
             /\ after[k] <= 1
             /\ after[k] = 1 => Qualified(k, volunteer) /\ k <= LastCompleteWeek(day)
  <2>1. k \in Nat /\ counts[k] \in Nat /\ (counts[k] > 0 => k <= c.lastProcessedWeek)
    BY AttestationTypes DEF Week, Separate
  <2>2. CASE k \in counted
    <3>1. /\ k > c.lastProcessedWeek /\ k <= d.lastProcessedWeek /\ Qualified(k, volunteer)
          /\ k <= LastCompleteWeek(d.lastDecayDay[a])
      BY <2>2 DEF SettledFacts
    <3>2. counts[k] = 0 /\ after[k] = 1
      BY <1>1, <2>1, <2>2, <3>1 DEF Emitted
    <3>3. d.lastDecayDay[a] \in Nat /\ d.lastDecayDay[a] <= day
      BY <1>1, <1>2 DEF WeekClock, Citizen
    <3>4. /\ LastCompleteWeek(d.lastDecayDay[a]) \in Int /\ LastCompleteWeek(day) \in Int
          /\ LastCompleteWeek(d.lastDecayDay[a]) <= LastCompleteWeek(day)
      BY <3>3, WeekOfDay
    <3> QED BY <2>1, <3>1, <3>2, <3>4
  <2>3. CASE k \notin counted
    <3>1. after[k] = counts[k]
      BY <2>3 DEF Emitted
    <3> QED BY <1>1, <2>1, <3>1 DEF CountedOnce
  <2> QED BY <2>2, <2>3
<1> QED BY <1>1, <1>3, <1>4 DEF Separate, CountedOnce

\* Every step keeps the invariant on weeks; one case per kind of step.
LEMMA WeekStep ==
    ASSUME TypeOK, TypeOK', [Next]_vars, NEW w \in Worker, WeekInv(w)
    PROVE  WeekInv(w)'
<1> DEFINE c == citizens[w]
           e == citizens'[w]
<1>1. /\ StepOf(w) /\ c \in Citizen /\ e \in Citizen
      /\ today \in Nat /\ today' \in Nat /\ today <= today'
      /\ volunteerDays[w] \subseteq volunteerDays'[w]
      /\ weekEvents[w] \in [Week -> Nat] /\ weekEvents'[w] \in [Week -> Nat]
  BY StepCases, AttestationTypes DEF TypeOK, Forward
<1>2. SUFFICES /\ e.isCitizen => WeekClock(e, today')
               /\ Separate(e, weekEvents'[w], today')
               /\ CountedOnce(weekEvents'[w], volunteerDays'[w], today')
  BY DEF WeekInv
<1>3. /\ c.isCitizen => WeekClock(c, today)
      /\ Separate(c, weekEvents[w], today)
      /\ CountedOnce(weekEvents[w], volunteerDays[w], today)
  BY DEF WeekInv
<1>4. today \div DAYS_PER_WEEK \in Nat /\ today' \div DAYS_PER_WEEK \in Nat
      /\ today \div DAYS_PER_WEEK <= today' \div DAYS_PER_WEEK
  BY <1>1, WeekOfDay
<1>5. c.lastProcessedWeek \in Nat
  BY <1>1 DEF Citizen
<1>6. CASE weekEvents'[w] = weekEvents[w] /\ ~ IsCredited(w)
  <2>1. CountedOnce(weekEvents'[w], volunteerDays'[w], today')
    BY <1>1, <1>3, <1>6, CountedOnceLater
  <2>2. CASE Idle(w)
    <3>1. e = c
      BY <2>2 DEF Idle
    <3>2. c.isCitizen => WeekClock(c, today')
      <4>1. \A a \in Axis : c.lastDecayDay[a] \in Nat /\ c.joinDay \in Nat
        BY <1>1 DEF Citizen
      <4> QED BY <1>1, <1>3, <4>1 DEF WeekClock
    <3>3. Separate(c, weekEvents[w], today')
      <4>1. \A k \in Week : k \in Nat
        BY AttestationTypes DEF Week
      <4> HIDE DEF c
      <4> QED BY <1>1, <1>3, <1>4, <1>5, <4>1 DEF Separate
    <3> QED BY <1>6, <2>1, <3>1, <3>2, <3>3
  <2>3. CASE Joins(w)
    <3>1. /\ e.isCitizen /\ e.joinDay = today /\ today' = today
          /\ e.lastProcessedWeek = today \div DAYS_PER_WEEK
          /\ \A a \in Axis : e.lastDecayDay[a] = today
          /\ ~ c.isCitizen
      BY <1>1, <2>3, JoinedType DEF Joins
    <3>2. LastCompleteWeek(today) <= today \div DAYS_PER_WEEK
      BY <1>1, WeekOfDay
    <3>3. WeekClock(e, today')
      BY <1>1, <1>4, <3>1, <3>2 DEF WeekClock
    <3>4. Separate(e, weekEvents[w], today')
      <4> HIDE DEF c, e
      <4> QED BY <1>3, <1>4, <3>1 DEF Separate
    <3> QED BY <1>6, <2>1, <3>3, <3>4
  <2>4. CASE MovesSabbath(w)
    <3>1. PICK offset : e = [c EXCEPT !.sabbathOffset = offset]
      BY <2>4 DEF MovesSabbath
    <3>2. /\ c.isCitizen /\ e.isCitizen /\ e.joinDay = c.joinDay
          /\ e.lastProcessedWeek = c.lastProcessedWeek
          /\ e.lastDecayDay = c.lastDecayDay /\ today' = today
      BY <1>1, <2>4, <3>1 DEF MovesSabbath, Citizen
    <3> HIDE DEF c, e
    <3>3. WeekClock(e, today')
      BY <1>3, <3>2 DEF WeekClock
    <3>4. Separate(e, weekEvents[w], today')
      BY <1>3, <3>2 DEF Separate
    <3> QED BY <1>6, <2>1, <3>3, <3>4
  <2>5. CASE Leaves(w)
    <3>1. e = NoCitizen /\ ~ NoCitizen.isCitizen /\ c.isCitizen /\ today' = today
      BY <2>5, NoCitizenType DEF Leaves
    <3>2. c.lastProcessedWeek <= today \div DAYS_PER_WEEK
      BY <1>1, <1>3, <3>1, WeekClockBound
    <3>3. Separate(e, weekEvents[w], today')
      <4>1. \A k \in Week : k \in Nat
        BY AttestationTypes DEF Week
      <4> HIDE DEF c, e
      <4> QED BY <1>3, <1>4, <1>5, <3>1, <3>2, <4>1 DEF Separate
    <3> QED BY <1>6, <2>1, <3>1, <3>3
  <2> QED BY <1>1, <1>6, <2>2, <2>3, <2>4, <2>5 DEF StepOf
<1>7. CASE IsCredited(w)
  <2>1. PICK a, n, lock, counted, d :
         /\ a \in Axis /\ n \in Nat /\ lock \in Nat
         /\ CreditedWith(w, a, n, lock, counted, d)
    BY <1>7 DEF IsCredited
  <2>2. /\ a \in Axis /\ n \in Nat /\ lock \in Nat
        /\ c.isCitizen /\ today' = today
        /\ SettledFacts(c, a, today, volunteerDays[w], counted, d)
        /\ Emitted(weekEvents[w], counted, weekEvents'[w])
        /\ e.isCitizen = d.isCitizen /\ e.joinDay = d.joinDay
        /\ e.lastDecayDay = d.lastDecayDay /\ e.lastProcessedWeek = d.lastProcessedWeek
    BY <2>1 DEF CreditedWith, CreditedFrom, Emitted
  <2>3. d.isCitizen
    BY <2>2 DEF SettledFacts, SameMembership
  <2> HIDE DEF c, e
  <2>4. WeekClock(d, today)
    BY <1>1, <1>3, <2>2, WeekClockSettled
  <2>5. Separate(d, weekEvents'[w], today) /\ CountedOnce(weekEvents'[w], volunteerDays[w], today)
    BY <1>1, <1>3, <2>2, SeparateSettled
  <2>6. WeekClock(e, today')
    BY <2>2, <2>4 DEF WeekClock
  <2>7. Separate(e, weekEvents'[w], today')
    BY <2>2, <2>3, <2>5 DEF Separate
  <2>8. CountedOnce(weekEvents'[w], volunteerDays'[w], today')
    BY <1>1, <2>2, <2>5, CountedOnceLater
  <2> QED BY <2>6, <2>7, <2>8
<1>8. CASE ~ IsCredited(w)
  <2>1. weekEvents'[w] = weekEvents[w]
    BY <1>1, <1>8 DEF StepOf, Idle, Joins, MovesSabbath, Leaves
  <2> QED BY <1>6, <1>8, <2>1
<1> QED BY <1>7, <1>8

\* No weeks are counted and nobody is a citizen at deployment.
LEMMA WeekInit == Init => \A w \in Worker : WeekInv(w)
<1> SUFFICES ASSUME Init, NEW w \in Worker PROVE WeekInv(w)
  OBVIOUS
<1>1. /\ citizens[w] = NoCitizen /\ ~ NoCitizen.isCitizen
      /\ weekEvents[w] = [k \in Week |-> 0]
      /\ today \div DAYS_PER_WEEK \in Nat
  BY NoCitizenType, AttestationTypes, WeekOfDay DEF Init
<1> QED BY <1>1 DEF WeekInv, Separate, CountedOnce

\* The invariant on weeks, for every worker, in every reachable state.
THEOREM WeeksInductive == Spec => [](\A w \in Worker : WeekInv(w))
<1>1. TypeOK /\ TypeOK' /\ [Next]_vars /\ (\A w \in Worker : WeekInv(w))
        => (\A w \in Worker : WeekInv(w))'
  BY WeekStep
<1> QED BY <1>1, WeekInit, TypeCorrect, PTL DEF Spec

\* No volunteer week is rewarded twice, in one life or in several, and none
\* before it is complete (_processWeeks, join, ragequit).
THEOREM WeeksNeverCountedTwice == Spec => []WeeksCountedOnce
<1>1. (\A w \in Worker : WeekInv(w)) => WeeksCountedOnce
  BY WeekInvIs
<1> QED BY <1>1, WeeksInductive, PTL

\* The week clock is the last complete week of the furthest settled axis, or the
\* week of joining (_applyDecay's call of _processWeeks).
THEOREM WeekClockFollows == Spec => []WeeksFollowClocks
<1>1. (\A w \in Worker : WeekInv(w)) => WeeksFollowClocks
  BY WeekInvIs
<1> QED BY <1>1, WeeksInductive, PTL

\* A deleted citizen leaves nothing to the next life but the log, and the next
\* life's week clock starts past every week in it (ragequit, join).
THEOREM LivesStaySeparate == Spec => []LivesAreSeparate
<1>1. (\A w \in Worker : WeekInv(w)) => LivesAreSeparate
  BY WeekInvIs
<1> QED BY <1>1, WeeksInductive, PTL

-----------------------------------------------------------------------------
(* Rates and rewards.  The rate of an axis and the multiplier are functions  *)
(* of the days settled and the weeks counted in the current life: inductive  *)
(* with the invariant on weeks, which puts the counted weeks of earlier      *)
(* lives behind the day of joining.                                          *)

RatesFit(c) ==
    \A a \in Axis : c.decayRateAtLastDay[a] = RateAfter(c.lastDecayDay[a] - c.joinDay)

\* The weeks of the log that belong to the life of c.
Mine(c, counts) == {k \in Week : k > c.joinDay \div DAYS_PER_WEEK /\ counts[k] = 1}

RewardsFit(c, counts) ==
    /\ c.volunteerWeeks = Cardinality(Mine(c, counts))
    /\ c.volunteerMultBP = MultAfter(c.volunteerWeeks)

LifeInv(w) == citizens[w].isCitizen => /\ RatesFit(citizens[w])
                                       /\ RewardsFit(citizens[w], weekEvents[w])

\* LifeInv for every worker is the two checked invariants.
LEMMA LifeInvIs ==
    RateFollowsTenure /\ RewardsOfThisLife <=> \A w \in Worker : LifeInv(w)
<1>1. RateFollowsTenure
        <=> \A w \in Worker : citizens[w].isCitizen => RatesFit(citizens[w])
  BY DEF RateFollowsTenure, RatesFit
<1>2. RewardsOfThisLife
        <=> \A w \in Worker : citizens[w].isCitizen => RewardsFit(citizens[w], weekEvents[w])
  BY DEF RewardsOfThisLife, RewardsFit, Mine
<1> QED BY <1>1, <1>2 DEF LifeInv

\* Settling keeps the rates those of the days since joining.
LEMMA RatesFitSettled ==
    ASSUME NEW c \in Citizen, NEW d, NEW a \in Axis, NEW day \in Nat, NEW volunteer, NEW counted,
           SettledFacts(c, a, day, volunteer, counted, d), WeekClock(c, day), RatesFit(c)
    PROVE  RatesFit(d)
<1> SUFFICES ASSUME NEW b \in Axis
             PROVE d.decayRateAtLastDay[b] = RateAfter(d.lastDecayDay[b] - d.joinDay)
  BY DEF RatesFit
<1>1. /\ d \in Citizen /\ d.joinDay = c.joinDay /\ c.joinDay \in Nat
      /\ c.lastDecayDay[b] \in Nat /\ d.lastDecayDay[b] \in Nat
      /\ RatesAge(c, d)
  BY DEF SettledFacts, SameMembership, Citizen
<1>2. c.lastDecayDay[b] >= c.joinDay
  BY <1>1 DEF WeekClock
<1> DEFINE m == c.lastDecayDay[b] - c.joinDay
<1>3. m \in Nat /\ c.decayRateAtLastDay[b] = RateAfter(m)
  BY <1>1, <1>2 DEF RatesFit
<1>4. m + (d.lastDecayDay[b] - c.lastDecayDay[b]) = d.lastDecayDay[b] - d.joinDay
  BY <1>1
<1> HIDE DEF m
<1>5. d.decayRateAtLastDay[b] = RateAfter(m + (d.lastDecayDay[b] - c.lastDecayDay[b]))
  BY <1>1, <1>3 DEF RatesAge
<1> QED BY <1>4, <1>5

\* The weeks a settlement counts are added to those of this life, each once.
LEMMA RewardsFitSettled ==
    ASSUME NEW c \in Citizen, NEW d, NEW a \in Axis, NEW day \in GenesisDay..MaxDay,
           NEW volunteer, NEW counted,
           SettledFacts(c, a, day, volunteer, counted, d), WeekClock(c, day), c.isCitizen,
           NEW counts \in [Week -> Nat], NEW after \in [Week -> Nat],
           Emitted(counts, counted, after), Separate(c, counts, day),
           RewardsFit(c, counts)
    PROVE  RewardsFit(d, after)
<1>1. /\ d \in Citizen /\ d.joinDay = c.joinDay /\ IsFiniteSet(counted)
      /\ d.volunteerWeeks = c.volunteerWeeks + Cardinality(counted)
      /\ Rewarded(c, counted, d)
  BY DEF SettledFacts, SameMembership
<1>2. c.lastProcessedWeek \in Nat /\ d.lastProcessedWeek \in Nat /\ c.joinDay \in Nat
      /\ c.volunteerWeeks \in Nat
  BY <1>1 DEF Citizen
<1>3. day \in Nat /\ day <= MaxDay /\ MaxDay \in Nat
  BY AttestationTypes
<1>4. c.joinDay \div DAYS_PER_WEEK \in Nat /\ c.joinDay \div DAYS_PER_WEEK <= c.lastProcessedWeek
  BY <1>2, WeekOfDay DEF WeekClock
<1>5. d.lastProcessedWeek <= day \div DAYS_PER_WEEK
  BY <1>1, <1>3, WeekClockSettled, WeekClockBound
<1>6. day \div DAYS_PER_WEEK \in Nat /\ day \div DAYS_PER_WEEK <= day
  BY <1>3, ConstantsAssumption
<1>7. ASSUME NEW k \in counted
      PROVE  /\ k \in Week /\ k > c.joinDay \div DAYS_PER_WEEK
             /\ counts[k] = 0 /\ after[k] = 1
  <2>1. k \in Nat /\ k > c.lastProcessedWeek /\ k <= d.lastProcessedWeek
    BY DEF SettledFacts
  <2>2. k \in Week /\ k > c.joinDay \div DAYS_PER_WEEK
    BY <1>2, <1>3, <1>4, <1>5, <1>6, <2>1 DEF Week
  <2>3. counts[k] = 0
    <3>1. counts[k] \in Nat /\ (counts[k] > 0 => k <= c.lastProcessedWeek)
      BY <2>2 DEF Separate
    <3> QED BY <1>2, <2>1, <3>1
  <2> QED BY <2>2, <2>3 DEF Emitted
<1>8. Mine(d, after) = Mine(c, counts) \cup counted
  <2>1. ASSUME NEW k \in Week, k \notin counted PROVE after[k] = counts[k]
    BY <2>1 DEF Emitted
  <2> QED BY <1>1, <1>7, <2>1 DEF Mine
<1>9. Mine(c, counts) \cap counted = {}
  BY <1>7 DEF Mine
<1>10. IsFiniteSet(Mine(c, counts))
  <2>1. IsFiniteSet(Week)
    BY <1>3, FS_Interval DEF Week
  <2> QED BY <2>1, FS_Subset DEF Mine
<1>11. Cardinality(Mine(d, after)) = Cardinality(Mine(c, counts)) + Cardinality(counted)
  <2> DEFINE mine == Mine(c, counts)
  <2>1. IsFiniteSet(mine) /\ IsFiniteSet(counted) /\ mine \cap counted = {}
    BY <1>1, <1>9, <1>10
  <2> HIDE DEF mine
  <2>2. /\ Cardinality(mine \cup counted)
             = Cardinality(mine) + Cardinality(counted) - Cardinality(mine \cap counted)
        /\ Cardinality(mine) \in Nat /\ Cardinality(counted) \in Nat
    BY <2>1, FS_Union, FS_CardinalityType
  <2>3. Cardinality(mine \cap counted) = 0
    BY <2>1, FS_EmptySet
  <2>4. Cardinality(mine \cup counted) = Cardinality(mine) + Cardinality(counted)
    BY <2>2, <2>3
  <2> QED BY <1>8, <2>4 DEF mine
<1>12. /\ c.volunteerWeeks = Cardinality(Mine(c, counts))
       /\ c.volunteerMultBP = MultAfter(c.volunteerWeeks)
  BY DEF RewardsFit
<1>13. d.volunteerMultBP = MultAfter(d.volunteerWeeks)
  BY <1>1, <1>2, <1>12 DEF Rewarded
<1> QED BY <1>1, <1>11, <1>12, <1>13 DEF RewardsFit

\* Every step keeps rates and rewards; one case per kind of step.
LEMMA LifeStep ==
    ASSUME TypeOK, TypeOK', [Next]_vars, NEW w \in Worker, WeekInv(w), LifeInv(w)
    PROVE  LifeInv(w)'
<1> DEFINE c == citizens[w]
           e == citizens'[w]
<1>1. /\ StepOf(w) /\ c \in Citizen /\ e \in Citizen
      /\ today \in GenesisDay..MaxDay /\ today \in Nat
      /\ weekEvents[w] \in [Week -> Nat] /\ weekEvents'[w] \in [Week -> Nat]
  BY StepCases, AttestationTypes DEF TypeOK
<1>2. SUFFICES ASSUME e.isCitizen PROVE RatesFit(e) /\ RewardsFit(e, weekEvents'[w])
  BY DEF LifeInv
<1>3. /\ c.isCitizen => WeekClock(c, today) /\ RatesFit(c) /\ RewardsFit(c, weekEvents[w])
      /\ Separate(c, weekEvents[w], today)
  BY DEF WeekInv, LifeInv
<1>4. CASE Idle(w)
  BY <1>2, <1>3, <1>4 DEF Idle
<1>5. CASE Joins(w)
  <2>1. /\ e = Joined(NoCitizen, today) /\ weekEvents'[w] = weekEvents[w]
        /\ ~ c.isCitizen
    BY <1>3, <1>5 DEF Joins, Separate
  <2>2. /\ e.joinDay = today /\ \A a \in Axis : e.lastDecayDay[a] = today
    BY <1>1, <2>1, JoinedType, NoCitizenType
  <2>3. /\ \A a \in Axis : e.decayRateAtLastDay[a] = BASE_DECAY_BP
        /\ e.volunteerWeeks = 0 /\ e.volunteerMultBP = BASIS_POINTS
    BY <2>1 DEF Joined, NoCitizen
  <2>4. RatesFit(e)
    <3>1. today - today = 0
      BY <1>1
    <3> QED BY <2>2, <2>3, <3>1, RateAfterUnfolds DEF RatesFit
  <2>5. Mine(e, weekEvents[w]) = {}
    <3>1. \A k \in Week : weekEvents[w][k] > 0 => k <= today \div DAYS_PER_WEEK
      BY <1>3, <2>1 DEF Separate
    <3>2. today \div DAYS_PER_WEEK \in Nat /\ \A k \in Week : k \in Nat
      BY <1>1, WeekOfDay, AttestationTypes DEF Week
    <3>3. ASSUME NEW k \in Week, k > today \div DAYS_PER_WEEK, weekEvents[w][k] = 1 PROVE FALSE
      BY <3>1, <3>2, <3>3
    <3> QED BY <2>2, <3>3 DEF Mine
  <2>6. RewardsFit(e, weekEvents[w])
    BY <2>3, <2>5, FS_EmptySet, MultAfterUnfolds DEF RewardsFit
  <2> QED BY <2>1, <2>4, <2>6
<1>6. CASE MovesSabbath(w)
  <2>1. PICK offset : e = [c EXCEPT !.sabbathOffset = offset]
    BY <1>6 DEF MovesSabbath
  <2>2. /\ c.isCitizen /\ weekEvents'[w] = weekEvents[w]
        /\ e.joinDay = c.joinDay /\ e.lastDecayDay = c.lastDecayDay
        /\ e.decayRateAtLastDay = c.decayRateAtLastDay
        /\ e.volunteerWeeks = c.volunteerWeeks /\ e.volunteerMultBP = c.volunteerMultBP
    BY <1>1, <1>6, <2>1 DEF MovesSabbath, Citizen
  <2> HIDE DEF c, e
  <2> QED BY <1>3, <2>2 DEF RatesFit, RewardsFit, Mine
<1>7. CASE Leaves(w)
  BY <1>2, <1>7, NoCitizenType DEF Leaves
<1>8. CASE IsCredited(w)
  <2>1. PICK a, n, lock, counted, d :
         /\ a \in Axis /\ n \in Nat /\ lock \in Nat
         /\ CreditedWith(w, a, n, lock, counted, d)
    BY <1>8 DEF IsCredited
  <2>2. /\ a \in Axis /\ c.isCitizen
        /\ SettledFacts(c, a, today, volunteerDays[w], counted, d)
        /\ Emitted(weekEvents[w], counted, weekEvents'[w])
        /\ e.joinDay = d.joinDay /\ e.lastDecayDay = d.lastDecayDay
        /\ e.decayRateAtLastDay = d.decayRateAtLastDay
        /\ e.volunteerWeeks = d.volunteerWeeks /\ e.volunteerMultBP = d.volunteerMultBP
    BY <2>1 DEF CreditedWith, CreditedFrom, Emitted
  <2> HIDE DEF c, e
  <2>3. RatesFit(d)
    BY <1>1, <1>3, <2>2, RatesFitSettled
  <2>4. RewardsFit(d, weekEvents'[w])
    BY <1>1, <1>3, <2>2, RewardsFitSettled
  <2> QED BY <2>2, <2>3, <2>4 DEF RatesFit, RewardsFit, Mine
<1> QED BY <1>1, <1>4, <1>5, <1>6, <1>7, <1>8 DEF StepOf

\* Nobody is a citizen at deployment.
LEMMA LifeInit == Init => \A w \in Worker : LifeInv(w)
  BY NoCitizenType DEF Init, LifeInv

\* Rates and rewards fit in every reachable state.
THEOREM LivesInductive == Spec => [](\A w \in Worker : LifeInv(w))
<1>1. TypeOK /\ TypeOK' /\ [Next]_vars
        /\ (\A w \in Worker : WeekInv(w)) /\ (\A w \in Worker : LifeInv(w))
        => (\A w \in Worker : LifeInv(w))'
  BY LifeStep
<1> QED BY <1>1, LifeInit, TypeCorrect, WeeksInductive, PTL DEF Spec

\* The decay rate of an axis is a function of the days settled since joining,
\* however calls, axes and the limit of days split them (_applyDecay, join).
THEOREM RateAlwaysFollowsTenure == Spec => []RateFollowsTenure
<1>1. (\A w \in Worker : LifeInv(w)) => RateFollowsTenure
  BY LifeInvIs
<1> QED BY <1>1, LivesInductive, PTL

\* The weeks and the multiplier on record are those earned since the current
\* joining, although the attested days of earlier lives are kept (_processWeeks,
\* join, ragequit).
THEOREM RewardsAlwaysOfThisLife == Spec => []RewardsOfThisLife
<1>1. (\A w \in Worker : LifeInv(w)) => RewardsOfThisLife
  BY LifeInvIs
<1> QED BY <1>1, LivesInductive, PTL

-----------------------------------------------------------------------------
(* Views and settlement.  These hold of any citizen whose day clocks are not *)
(* in the future: no step is analysed.                                       *)

\* The weeks pending on a later day are those pending earlier and those since.
LEMMA PendingAdds ==
    ASSUME NEW c \in Citizen, NEW d \in Citizen, NEW day \in Nat, NEW later \in Nat,
           day <= later, d.lastProcessedWeek = c.lastProcessedWeek + WeeksPending(c, day)
    PROVE  /\ WeeksPending(c, day) \in Nat /\ WeeksPending(d, later) \in Nat
           /\ WeeksPending(c, later) = WeeksPending(c, day) + WeeksPending(d, later)
<1>1. /\ LastCompleteWeek(day) \in Int /\ LastCompleteWeek(later) \in Int
      /\ LastCompleteWeek(day) <= LastCompleteWeek(later)
  BY LastCompleteWeekType
<1>2. c.lastProcessedWeek \in Nat /\ d.lastProcessedWeek \in Nat
  BY DEF Citizen
<1> QED BY <1>1, <1>2 DEF WeeksPending

\* d is the citizen c after a settlement of axis a, n days on, that counted weeks.
SettledSo(c, a, active, volunteer, n, counted, d) ==
    /\ d \in Citizen /\ d.isCitizen = c.isCitizen
    /\ \A b \in Axis : Advanced(c, d, b, IF b = a THEN n ELSE 0)
    /\ \A b \in Axis \ {a} : /\ d.decayRateAtLastDay[b] = c.decayRateAtLastDay[b]
                             /\ d.baseHonor[b] >= c.baseHonor[b]
                             /\ counted = {} => d.baseHonor[b] = c.baseHonor[b]
    /\ d.baseHonor[a] >= ViewRun(c, a, active, n).honor
    /\ a # "CAPITAL" => d.baseHonor[a] = ViewRun(c, a, active, n).honor
    /\ a = "CAPITAL" => d.baseHonor[a] >= ViewRun(c, a, active, n).honor
                                            + VOLUNTEER_CAPITAL_MIN * Cardinality(counted)
    /\ counted = {} => ViewStart(d, a) = ViewRun(c, a, active, n)
    /\ d.lastProcessedWeek = c.lastProcessedWeek + WeeksPending(c, d.lastDecayDay[a])
    /\ d.volunteerMultBP = MultRun(c, volunteer, WeeksPending(c, d.lastDecayDay[a]))

\* Settling an axis is running the loops of the views and storing where they end.
LEMMA SettledIs ==
    ASSUME NEW w \in Worker, NEW a \in Axis, citizens[w] \in Citizen, today \in Nat,
           Settled(w, a).ok, NEW n, n = DaysToSettle(citizens[w], a, today)
    PROVE  SettledSo(citizens[w], a, activeDays[w], volunteerDays[w], n,
                     Settled(w, a).counted, Settled(w, a).citizen)
<1> DEFINE c       == citizens[w]
           active  == activeDays[w]
           volun   == volunteerDays[w]
           m       == Decayed(c, a, active, today).citizen
           weeks   == WeeksProcessed(m, volun, m.lastDecayDay[a])
           counted == weeks.counted
           d       == weeks.citizen
           view    == ViewRun(c, a, active, n)
<1>1. /\ Settled(w, a).ok = (Decayed(c, a, active, today).ok /\ weeks.ok)
      /\ Settled(w, a).citizen = d /\ Settled(w, a).counted = counted
  BY DEF Settled
<1>2. DecayedFacts(c, a, today, m)
  BY DecayedType
<1>3. Advanced(c, m, a, n) /\ ViewStart(m, a) = view
  <2>1. Decayed(c, a, active, today).ok
    BY <1>1
  <2> HIDE DEF active
  <2> QED BY <2>1, DecayedIsView
<1> HIDE DEF m, view
<1>4. /\ m \in Citizen /\ m.lastDecayDay[a] \in Nat /\ SameMembership(c, m)
      /\ m.lastProcessedWeek = c.lastProcessedWeek /\ m.volunteerMultBP = c.volunteerMultBP
  BY <1>2 DEF DecayedFacts, Citizen
<1>5. ProcessedFacts(m, volun, m.lastDecayDay[a], counted, d)
  BY <1>1, <1>4, WeeksProcessedType
<1> HIDE DEF weeks, counted, d, active, volun, c
<1>6. /\ d \in Citizen /\ SameMembership(m, d)
      /\ d.lastDecayDay = m.lastDecayDay /\ d.decayRateAtLastDay = m.decayRateAtLastDay
      /\ \A b \in Axis \ {"CAPITAL"} : d.baseHonor[b] = m.baseHonor[b]
      /\ d.baseHonor["CAPITAL"]
            >= m.baseHonor["CAPITAL"] + VOLUNTEER_CAPITAL_MIN * Cardinality(counted)
      /\ counted = {} => d.baseHonor["CAPITAL"] = m.baseHonor["CAPITAL"]
      /\ IsFiniteSet(counted)
  BY <1>5 DEF ProcessedFacts
<1>7. /\ \A b \in Axis : m.baseHonor[b] \in Nat /\ d.baseHonor[b] \in Nat
                         /\ c.lastDecayDay[b] \in Nat
      /\ VOLUNTEER_CAPITAL_MIN * Cardinality(counted) \in Nat
  <2>1. Cardinality(counted) \in Nat
    BY <1>6, FS_CardinalityType
  <2>2. VOLUNTEER_CAPITAL_MIN * Cardinality(counted) \in Nat
    BY <2>1, ConstantsAssumption
  <2>3. c \in Citizen
    BY DEF c
  <2> QED BY <1>4, <1>6, <2>2, <2>3, ConstantsAssumption DEF Citizen, Uint
<1>8. d.isCitizen = c.isCitizen
  BY <1>4, <1>6 DEF SameMembership
<1>9. \A b \in Axis : Advanced(c, d, b, IF b = a THEN n ELSE 0)
  <2>1. ASSUME NEW b \in Axis, b # a PROVE d.lastDecayDay[b] = c.lastDecayDay[b] + 0
    BY <1>2, <1>6, <1>7, <2>1 DEF DecayedFacts
  <2>2. d.lastDecayDay[a] = c.lastDecayDay[a] + n
    BY <1>3, <1>6 DEF Advanced
  <2>3. d.joinDay = c.joinDay /\ d.sabbathOffset = c.sabbathOffset
    BY <1>4, <1>6 DEF SameMembership
  <2> QED BY <2>1, <2>2, <2>3 DEF Advanced
<1>10. \A b \in Axis : /\ d.baseHonor[b] >= m.baseHonor[b]
                       /\ counted = {} => d.baseHonor[b] = m.baseHonor[b]
  <2>1. d.baseHonor["CAPITAL"] >= m.baseHonor["CAPITAL"] /\ "CAPITAL" \in Axis
    <3>1. "CAPITAL" \in Axis
      BY DEF Axis
    <3> QED BY <1>6, <1>7, <3>1
  <2> QED BY <1>6, <1>7, <2>1
<1>11. \A b \in Axis \ {a} : /\ d.decayRateAtLastDay[b] = c.decayRateAtLastDay[b]
                             /\ d.baseHonor[b] >= c.baseHonor[b]
                             /\ counted = {} => d.baseHonor[b] = c.baseHonor[b]
  BY <1>2, <1>6, <1>10 DEF DecayedFacts
<1>12. m.baseHonor[a] = view.honor /\ m.decayRateAtLastDay[a] = view.rate
  BY <1>3 DEF ViewStart
<1>13. /\ d.baseHonor[a] >= view.honor
       /\ a # "CAPITAL" => d.baseHonor[a] = view.honor
       /\ a = "CAPITAL"
            => d.baseHonor[a] >= view.honor + VOLUNTEER_CAPITAL_MIN * Cardinality(counted)
  BY <1>6, <1>10, <1>12
<1>14. counted = {} => ViewStart(d, a) = view
  BY <1>3, <1>6, <1>10 DEF ViewStart
<1>15. /\ d.lastProcessedWeek = c.lastProcessedWeek + WeeksPending(c, d.lastDecayDay[a])
       /\ d.volunteerMultBP = MultRun(c, volun, WeeksPending(c, d.lastDecayDay[a]))
  <2> DEFINE p == WeeksPending(m, m.lastDecayDay[a])
  <2>1. p = WeeksPending(c, d.lastDecayDay[a])
    BY <1>4, <1>6 DEF WeeksPending
  <2>2. d.lastProcessedWeek = m.lastProcessedWeek + p /\ d.volunteerMultBP = MultRun(m, volun, p)
    BY <1>5 DEF ProcessedFacts
  <2>3. p \in Nat
    <3>1. LastCompleteWeek(m.lastDecayDay[a]) \in Int /\ m.lastProcessedWeek \in Nat
      BY <1>4, LastCompleteWeekType DEF Citizen
    <3> QED BY <3>1 DEF WeeksPending
  <2>4. MultRun(m, volun, p) = MultRun(c, volun, p)
    <3> HIDE DEF p
    <3>1. c \in Citizen /\ c.lastProcessedWeek \in Nat
      BY DEF c, Citizen
    <3>2. m.lastProcessedWeek = c.lastProcessedWeek + 0 /\ 0 + p = p
      BY <1>4, <2>3, <3>1
    <3>3. m.volunteerMultBP = MultRun(c, volun, 0)
      BY <1>4, <3>1, MultRunUnfolds
    <3>4. MultRun(m, volun, p) = MultRun(c, volun, 0 + p)
      BY <1>4, <2>3, <3>1, <3>2, <3>3, MultRunContinues
    <3> QED BY <3>2, <3>4
  <2> HIDE DEF p
  <2> QED BY <1>4, <2>1, <2>2, <2>4
<1>16. SettledSo(c, a, active, volun, n, counted, d)
  BY <1>6, <1>8, <1>9, <1>11, <1>13, <1>14, <1>15 DEF SettledSo, view
<1> QED BY <1>1, <1>16 DEF c, active, volun

\* The clocks of a citizen in a reachable state.
LEMMA ClocksBehind ==
    ASSUME TypeOK, \A w \in Worker : WeekInv(w), NEW w \in Worker, citizens[w].isCitizen,
           NEW a \in Axis
    PROVE  /\ citizens[w] \in Citizen /\ today \in Nat
           /\ citizens[w].lastDecayDay[a] \in Nat /\ citizens[w].lastDecayDay[a] <= today
<1>1. citizens[w] \in Citizen /\ today \in Nat
  BY AttestationTypes DEF TypeOK
<1>2. citizens[w].lastDecayDay[a] \in Nat /\ citizens[w].joinDay \in Nat
  BY <1>1 DEF Citizen
<1>3. citizens[w].lastDecayDay[a] \in citizens[w].joinDay..today
  BY DEF WeekInv, WeekClock
<1> QED BY <1>1, <1>2, <1>3

\* Settling yields the honor the view showed, and on the capital axis the bonuses
\* of the counted weeks on top (_applyDecay and getCurrentHonor, two loops).
THEOREM SettlementIsTheView == Spec => []SettleMatchesView
<1>1. TypeOK => SettleMatchesView
  <2> SUFFICES ASSUME TypeOK, NEW w \in Worker, NEW a \in Axis,
                      citizens[w].isCitizen, Settled(w, a).ok
               PROVE  LET s    == Settled(w, a)
                          view == CurrentHonor(citizens[w], a, activeDays[w], today)
                      IN  IF a = "CAPITAL"
                          THEN s.citizen.baseHonor[a]
                                 >= view + VOLUNTEER_CAPITAL_MIN * Cardinality(s.counted)
                          ELSE s.citizen.baseHonor[a] = view
    BY DEF SettleMatchesView
  <2> DEFINE n == DaysToSettle(citizens[w], a, today)
  <2>1. citizens[w] \in Citizen /\ today \in Nat
    BY AttestationTypes DEF TypeOK
  <2>2. SettledSo(citizens[w], a, activeDays[w], volunteerDays[w], n,
                  Settled(w, a).counted, Settled(w, a).citizen)
    BY <2>1, SettledIs
  <2>3. CurrentHonor(citizens[w], a, activeDays[w], today)
          = ViewRun(citizens[w], a, activeDays[w], n).honor
    BY ViewIsRun
  <2> HIDE DEF n
  <2> QED BY <2>2, <2>3 DEF SettledSo
<1> QED BY <1>1, TypeCorrect, PTL

\* The multiplier of the voting power is the one settlement will leave, and never
\* less than what it leaves today (_processWeeks, getCurrentMultBP).
THEOREM MultiplierIsAhead == Spec => []MultiplierAnticipates
<1>1. TypeOK /\ (\A w \in Worker : WeekInv(w)) => MultiplierAnticipates
  <2> SUFFICES ASSUME TypeOK, \A w \in Worker : WeekInv(w), NEW w \in Worker, NEW a \in Axis,
                      citizens[w].isCitizen, Settled(w, a).ok
               PROVE  LET s    == Settled(w, a)
                          view == CurrentMultBP(citizens[w], volunteerDays[w], today)
                      IN  /\ s.citizen.volunteerMultBP <= view
                          /\ s.citizen.lastDecayDay[a] = today => s.citizen.volunteerMultBP = view
    BY DEF MultiplierAnticipates
  <2> DEFINE c == citizens[w]
             d == Settled(w, a).citizen
             v == volunteerDays[w]
             n == DaysToSettle(c, a, today)
  <2>1. c \in Citizen /\ today \in Nat /\ c.lastDecayDay[a] \in Nat /\ c.lastDecayDay[a] <= today
    BY ClocksBehind
  <2>2. SettledSo(c, a, activeDays[w], v, n, Settled(w, a).counted, d)
    BY <2>1, SettledIs
  <2>3. n \in Nat /\ (n = 0 \/ c.lastDecayDay[a] + n <= today)
    BY <2>1, DaysToSettleType
  <2>4. CurrentMultBP(c, v, today) = MultRun(c, v, WeeksPending(c, today))
    BY MultViewIsRun
  <2> HIDE DEF n, c, d, v
  <2>5. d \in Citizen /\ d.lastDecayDay[a] \in Nat /\ d.lastDecayDay[a] <= today
    BY <2>1, <2>2, <2>3 DEF SettledSo, Advanced
  <2>6. /\ d.lastProcessedWeek = c.lastProcessedWeek + WeeksPending(c, d.lastDecayDay[a])
        /\ d.volunteerMultBP = MultRun(c, v, WeeksPending(c, d.lastDecayDay[a]))
    BY <2>2 DEF SettledSo
  <2>7. /\ WeeksPending(c, d.lastDecayDay[a]) \in Nat /\ WeeksPending(c, today) \in Nat
        /\ WeeksPending(c, d.lastDecayDay[a]) <= WeeksPending(c, today)
    BY <2>1, <2>5, <2>6, PendingAdds
  <2>8. MultRun(c, v, WeeksPending(c, d.lastDecayDay[a])) <= MultRun(c, v, WeeksPending(c, today))
    BY <2>1, <2>7, MultRunGrows
  <2>9. /\ d.volunteerMultBP <= CurrentMultBP(c, v, today)
        /\ d.lastDecayDay[a] = today => d.volunteerMultBP = CurrentMultBP(c, v, today)
    BY <2>4, <2>6, <2>8
  <2> QED BY <2>9 DEF c, d, v
<1> QED BY <1>1, TypeCorrect, WeeksInductive, PTL

\* Decay does not depend on when it is settled, nor on where the limit of days
\* interrupts it (_applyDecay).
THEOREM DecayIsPathFree == Spec => []SettlementSplits
<1>1. TypeOK => SettlementSplits
  <2> SUFFICES ASSUME TypeOK, NEW w \in Worker, NEW a \in Axis, citizens[w].isCitizen,
                      NEW day \in citizens[w].lastDecayDay[a]..today
               PROVE  LET c      == citizens[w]
                          first  == Decayed(c, a, activeDays[w], day)
                          second == Decayed(first.citizen, a, activeDays[w], today)
                          days   == second.citizen.lastDecayDay[a] - c.lastDecayDay[a]
                          whole  == DecayRun(c, a, activeDays[w], days)
                      IN  whole.ok => /\ second.citizen.baseHonor[a] = whole.honor
                                      /\ second.citizen.decayRateAtLastDay[a] = whole.rate
    BY DEF SettlementSplits
  <2>1. citizens[w] \in Citizen /\ today \in Nat
    BY AttestationTypes DEF TypeOK
  <2>2. citizens[w].lastDecayDay[a] \in Nat
    BY <2>1 DEF Citizen
  <2>3. day \in Nat
    BY <2>1, <2>2
  <2> QED BY <2>1, <2>3, DecaySplits
<1> QED BY <1>1, TypeCorrect, PTL

\* The multiplier shown is the same before and after a settlement.
LEMMA SettledMult ==
    ASSUME NEW c \in Citizen, NEW a \in Axis, NEW active, NEW volunteer, NEW n \in Nat,
           NEW counted, NEW d, SettledSo(c, a, active, volunteer, n, counted, d),
           NEW day \in Nat, d.lastDecayDay[a] <= day
    PROVE  CurrentMultBP(d, volunteer, day) = CurrentMultBP(c, volunteer, day)
<1> DEFINE p == WeeksPending(c, d.lastDecayDay[a])
           q == WeeksPending(d, day)
<1>1. /\ d \in Citizen
      /\ d.lastProcessedWeek = c.lastProcessedWeek + p /\ d.volunteerMultBP = MultRun(c, volunteer, p)
  BY DEF SettledSo
<1>2. d.lastDecayDay[a] \in Nat
  BY <1>1 DEF Citizen
<1>3. p \in Nat /\ q \in Nat /\ WeeksPending(c, day) = p + q
  BY <1>1, <1>2, PendingAdds
<1>4. MultRun(d, volunteer, q) = MultRun(c, volunteer, p + q)
  <2> HIDE DEF p, q
  <2> QED BY <1>1, <1>3, MultRunContinues
<1> QED BY <1>3, <1>4, MultViewIsRun

\* The honor shown for every axis is the same before and after a settlement, but
\* for the bonuses of counted weeks and for a view that now looks further ahead.
LEMMA SettledHonor ==
    ASSUME NEW c \in Citizen, NEW a \in Axis, NEW active, NEW volunteer, NEW day \in Nat,
           c.isCitizen, c.lastDecayDay[a] <= day,
           NEW n, n = DaysToSettle(c, a, day),
           NEW counted, NEW d, SettledSo(c, a, active, volunteer, n, counted, d), NEW b \in Axis
    PROVE  /\ d.lastDecayDay[a] = day
                => CurrentHonor(c, b, active, day) <= CurrentHonor(d, b, active, day)
           /\ counted = {}
                => CurrentHonor(d, b, active, day) <= CurrentHonor(c, b, active, day)
<1> DEFINE k == DaysToSettle(c, b, day)
           l == DaysToSettle(d, b, day)
<1>1. /\ d \in Citizen /\ d.isCitizen
      /\ Advanced(c, d, b, IF b = a THEN n ELSE 0)
  BY DEF SettledSo
<1>2. k \in Nat /\ l \in Nat /\ n \in Nat
  BY <1>1, DaysToSettleType
<1>3. /\ CurrentHonor(c, b, active, day) = ViewRun(c, b, active, k).honor
      /\ CurrentHonor(d, b, active, day) = ViewRun(d, b, active, l).honor
  BY <1>1, ViewIsRun
<1>4. /\ c.lastDecayDay[b] \in Nat /\ d.lastDecayDay[b] \in Nat
      /\ c.baseHonor[b] \in Nat /\ d.baseHonor[b] \in Nat
  BY <1>1, ConstantsAssumption DEF Citizen, Uint
<1>5. CASE b # a
  <2>1. Advanced(c, d, b, 0) /\ d.lastDecayDay[b] = c.lastDecayDay[b]
    <3>1. Advanced(c, d, b, 0)
      BY <1>1, <1>5
    <3> QED BY <1>4, <3>1 DEF Advanced
  <2>2. k = l
    BY <2>1 DEF DaysToSettle
  <2>3. /\ d.decayRateAtLastDay[b] = c.decayRateAtLastDay[b]
        /\ d.baseHonor[b] >= c.baseHonor[b]
        /\ counted = {} => d.baseHonor[b] = c.baseHonor[b]
    BY <1>5 DEF SettledSo
  <2> HIDE DEF k, l
  <2>4. ViewRun(c, b, active, k).honor <= ViewRun(d, b, active, k).honor
    BY <1>1, <1>2, <2>1, <2>3, ViewRunKeepsOrder
  <2>5. ASSUME counted = {}
        PROVE  ViewRun(d, b, active, k).honor <= ViewRun(c, b, active, k).honor
    <3>1. Advanced(d, c, b, 0)
      BY <1>4, <2>1 DEF Advanced
    <3>2. c.baseHonor[b] >= d.baseHonor[b]
      BY <1>4, <2>3, <2>5
    <3> QED BY <1>1, <1>2, <2>3, <3>1, <3>2, ViewRunKeepsOrder
  <2> QED BY <1>3, <2>2, <2>4, <2>5
<1>6. CASE b = a
  <2>1. k = n /\ Advanced(c, d, a, n)
    BY <1>1, <1>6
  <2>2. d.baseHonor[a] >= ViewRun(c, a, active, n).honor
        /\ (counted = {} => ViewStart(d, a) = ViewRun(c, a, active, n))
    BY DEF SettledSo
  <2>3. ASSUME d.lastDecayDay[a] = day
        PROVE  ViewRun(d, a, active, l).honor = d.baseHonor[a]
    <3>1. l = 0
      BY <1>4, <1>6, <2>3 DEF DaysToSettle
    <3> HIDE DEF l
    <3> QED BY <1>1, <3>1, ViewRunUnfolds DEF ViewStart
  <2> HIDE DEF k, l
  <2>4. ASSUME counted = {}
        PROVE  ViewRun(d, a, active, l).honor <= ViewRun(c, a, active, n).honor
    <3>1. ViewRun(d, a, active, l) = ViewRun(c, a, active, n + l)
      BY <1>1, <1>2, <2>1, <2>2, <2>4, ViewRunContinues
    <3> QED BY <1>2, <3>1, ViewRunShrinks
  <2> QED BY <1>3, <1>6, <2>1, <2>2, <2>3, <2>4
<1> QED BY <1>5, <1>6

\* Bringing an axis up to date is no way to gain votes, but for the bonuses of the
\* weeks it counts, nor to lose any; one the limit of days cuts short can only
\* lower them (getVotingPower around _applyDecay).
THEOREM NoVotesBySettling == Spec => []PowerSurvivesSettlement
<1>1. TypeOK /\ (\A w \in Worker : WeekInv(w)) => PowerSurvivesSettlement
  <2> SUFFICES ASSUME TypeOK, \A w \in Worker : WeekInv(w), NEW w \in Worker, NEW a \in Axis,
                      citizens[w].isCitizen, Settled(w, a).ok
               PROVE  LET s     == Settled(w, a)
                          Power(c) == VotingPower(c, activeDays[w], volunteerDays[w], today)
                          before   == Power(citizens[w])
                          after    == Power(s.citizen)
                      IN  IF s.citizen.lastDecayDay[a] = today
                          THEN after >= before /\ (s.counted = {} => after = before)
                          ELSE s.counted = {} => after <= before
    BY DEF PowerSurvivesSettlement
  <2> DEFINE c       == citizens[w]
             d       == Settled(w, a).citizen
             counted == Settled(w, a).counted
             active  == activeDays[w]
             v       == volunteerDays[w]
             n       == DaysToSettle(c, a, today)
             before  == VotingPower(c, active, v, today)
             after   == VotingPower(d, active, v, today)
  <2>1. /\ c \in Citizen /\ c.isCitizen /\ today \in Nat
        /\ c.lastDecayDay[a] \in Nat /\ c.lastDecayDay[a] <= today
    BY ClocksBehind
  <2>2. SettledSo(c, a, active, v, n, counted, d)
    BY <2>1, SettledIs
  <2>3. n \in Nat /\ (n = 0 \/ c.lastDecayDay[a] + n <= today)
    BY <2>1, DaysToSettleType
  <2> HIDE DEF c, d, counted, active, v
  <2>4. \A b \in Axis :
           /\ d.lastDecayDay[a] = today
                => CurrentHonor(c, b, active, today) <= CurrentHonor(d, b, active, today)
           /\ counted = {}
                => CurrentHonor(d, b, active, today) <= CurrentHonor(c, b, active, today)
    BY <2>1, <2>2, SettledHonor
  <2> HIDE DEF n
  <2>5. d \in Citizen /\ d.isCitizen = c.isCitizen /\ d.lastDecayDay[a] <= today
    BY <2>1, <2>2, <2>3 DEF SettledSo, Advanced
  <2>6. CurrentMultBP(d, v, today) = CurrentMultBP(c, v, today)
    BY <2>1, <2>2, <2>3, <2>5, SettledMult
  <2>7. d.lastDecayDay[a] = today => before <= after
    BY <2>1, <2>4, <2>5, <2>6, PowerKeepsOrder
  <2>8. counted = {} => after <= before
    BY <2>1, <2>4, <2>5, <2>6, PowerKeepsOrder
  <2>9. before \in Nat /\ after \in Nat
    BY <2>1, <2>5, PowerIsNatural
  <2> HIDE DEF before, after
  <2>10. IF d.lastDecayDay[a] = today
         THEN after >= before /\ (counted = {} => after = before)
         ELSE counted = {} => after <= before
    BY <2>7, <2>8, <2>9
  <2> QED BY <2>10 DEF before, after, c, d, counted, active, v
<1> QED BY <1>1, TypeCorrect, WeeksInductive, PTL

\* The view of an axis answers when settling it goes through, and only then.
LEMMA HonorFitsAsSettled ==
    ASSUME NEW c \in Citizen, NEW a \in Axis, NEW active, NEW day \in Nat, c.isCitizen
    PROVE  CurrentHonorFits(c, a, active, day) <=> Decayed(c, a, active, day).ok
<1> DEFINE n == DaysToSettle(c, a, day)
<1>1. n \in Nat
  BY DaysToSettleType
<1>2. Decayed(c, a, active, day).ok = DecayRun(c, a, active, n).ok
  BY DecayedIs
<1>3. CurrentHonorFits(c, a, active, day)
        <=> \A k \in 1..n : ViewDayFits(ViewRun(c, a, active, k - 1), c,
                                        c.lastDecayDay[a] + k, active)
  BY Zenon DEF CurrentHonorFits, ViewDayFits
<1> HIDE DEF n
<1> QED BY <1>1, <1>2, <1>3, DecayFitsAsViewed

\* Where an axis settles up to today, the weeks pending today are those that the
\* settlement has counted, so that the view of the multiplier answers.
LEMMA MultFitsWhenSettled ==
    ASSUME NEW w \in Worker, NEW a \in Axis, citizens[w] \in Citizen, today \in Nat,
           Settled(w, a).ok, Settled(w, a).citizen.lastDecayDay[a] = today
    PROVE  CurrentMultBPFits(citizens[w], volunteerDays[w], today)
<1> DEFINE c     == citizens[w]
           volun == volunteerDays[w]
           m     == Decayed(c, a, activeDays[w], today).citizen
           weeks == WeeksProcessed(m, volun, m.lastDecayDay[a])
           p     == WeeksPending(m, m.lastDecayDay[a])
<1>1. weeks.ok /\ Settled(w, a).citizen = weeks.citizen
  BY DEF Settled
<1>2. WeeksRun(m, volun, p).ok
  BY <1>1 DEF WeeksProcessed, WeeksPending
<1>3. DecayedFacts(c, a, today, m)
  BY DecayedType
<1> HIDE DEF m
<1>4. /\ m \in Citizen /\ m.lastDecayDay[a] \in Nat
      /\ m.lastProcessedWeek = c.lastProcessedWeek /\ m.volunteerMultBP = c.volunteerMultBP
  BY <1>3 DEF DecayedFacts, Citizen
<1>5. ProcessedFacts(m, volun, m.lastDecayDay[a], weeks.counted, weeks.citizen)
  BY <1>1, <1>4, WeeksProcessedType
<1> HIDE DEF weeks, c, volun
<1>6. m.lastDecayDay[a] = today
  BY <1>1, <1>5 DEF ProcessedFacts
<1>7. p = WeeksPending(c, today)
  BY <1>4, <1>6 DEF WeeksPending
<1>8. p \in Nat
  <2>1. LastCompleteWeek(m.lastDecayDay[a]) \in Int /\ m.lastProcessedWeek \in Nat
    BY <1>4, LastCompleteWeekType DEF Citizen
  <2> QED BY <2>1 DEF WeeksPending
<1> HIDE DEF p
<1>9. ASSUME NEW k \in 1..p PROVE MultRun(m, volun, k - 1) = MultRun(c, volun, k - 1)
  <2>1. c \in Citizen /\ c.lastProcessedWeek \in Nat
    BY DEF c, Citizen
  <2>2. k - 1 \in Nat /\ 0 + (k - 1) = k - 1 /\ m.lastProcessedWeek = c.lastProcessedWeek + 0
    BY <1>4, <1>8, <2>1
  <2>3. m.volunteerMultBP = MultRun(c, volun, 0)
    BY <1>4, <2>1, MultRunUnfolds
  <2>4. MultRun(m, volun, k - 1) = MultRun(c, volun, 0 + (k - 1))
    BY <1>4, <2>1, <2>2, <2>3, MultRunContinues
  <2> QED BY <2>2, <2>4
<1>10. \A k \in 1..p : Qualified(c.lastProcessedWeek + k, volun)
                        => MultRun(m, volun, k - 1) * VOLUNTEER_BONUS_NUM <= MAX_UINT
  BY <1>2, <1>4, <1>8, WeeksFitWhenViewed
<1>11. CurrentMultBPFits(c, volun, today)
  BY <1>7, <1>9, <1>10 DEF CurrentMultBPFits
<1> QED BY <1>11 DEF c, volun

\* A settlement that counts no week and brings its axis up to date leaves the vote
\* as it was: every view shows the same, and those of that axis do answer.
LEMMA VotesStay ==
    ASSUME NEW c \in Citizen, NEW a \in Axis, NEW active, NEW volunteer, NEW day \in Nat,
           c.isCitizen, c.lastDecayDay[a] <= day,
           NEW n, n = DaysToSettle(c, a, day),
           NEW d, SettledSo(c, a, active, volunteer, n, {}, d), d.lastDecayDay[a] = day,
           CurrentHonorFits(c, a, active, day), CurrentMultBPFits(c, volunteer, day)
    PROVE  VotingPowerFits(d, active, volunteer, day) <=> VotingPowerFits(c, active, volunteer, day)
<1>1. d \in Citizen /\ d.isCitizen
  BY DEF SettledSo
<1>2. \A b \in Axis : CurrentHonor(d, b, active, day) = CurrentHonor(c, b, active, day)
  <2> SUFFICES ASSUME NEW b \in Axis
               PROVE CurrentHonor(d, b, active, day) = CurrentHonor(c, b, active, day)
    OBVIOUS
  <2>1. /\ CurrentHonor(c, b, active, day) <= CurrentHonor(d, b, active, day)
        /\ CurrentHonor(d, b, active, day) <= CurrentHonor(c, b, active, day)
    BY SettledHonor
  <2>2. CurrentHonor(c, b, active, day) \in Nat /\ CurrentHonor(d, b, active, day) \in Nat
    BY <1>1, ViewsAreNatural
  <2> QED BY <2>1, <2>2
<1>3. CurrentMultBP(d, volunteer, day) = CurrentMultBP(c, volunteer, day)
  <2>1. n \in Nat /\ d.lastDecayDay[a] <= day
    BY DaysToSettleType
  <2> QED BY <2>1, SettledMult
<1>4. /\ BaseVP(d, active, day) = BaseVP(c, active, day)
      /\ SqrtFactor(d, volunteer, day) = SqrtFactor(c, volunteer, day)
  <2>1. "CAPITAL" \in Axis /\ "LABOR" \in Axis /\ "VERIFICATION" \in Axis
    BY DEF Axis
  <2> QED BY <1>2, <1>3, <2>1 DEF BaseVP, SqrtFactor
<1>5. ASSUME NEW b \in Axis
      PROVE  CurrentHonorFits(d, b, active, day) <=> CurrentHonorFits(c, b, active, day)
  <2>1. CASE b = a
    <3>1. DaysToSettle(d, a, day) = 0
      BY DEF DaysToSettle
    <3>2. 1..0 = {}
      OBVIOUS
    <3>3. CurrentHonorFits(d, a, active, day)
      BY <3>1, <3>2 DEF CurrentHonorFits
    <3> QED BY <2>1, <3>3
  <2>2. CASE b # a
    <3>1. Advanced(c, d, b, 0) /\ c.lastDecayDay[b] \in Nat
      BY <2>2 DEF SettledSo, Citizen
    <3>2. d.lastDecayDay[b] = c.lastDecayDay[b]
      BY <3>1 DEF Advanced
    <3>3. DaysToSettle(d, b, day) = DaysToSettle(c, b, day) /\ DaysToSettle(c, b, day) \in Nat
      BY <3>2, DaysToSettleType DEF DaysToSettle
    <3>4. ViewStart(d, b) = ViewRun(c, b, active, 0)
      <4>1. d.baseHonor[b] = c.baseHonor[b] /\ d.decayRateAtLastDay[b] = c.decayRateAtLastDay[b]
        BY <2>2 DEF SettledSo
      <4> QED BY <4>1, ViewRunUnfolds DEF ViewStart
    <3>5. ASSUME NEW k \in 1..DaysToSettle(c, b, day)
          PROVE  ViewRun(d, b, active, k - 1) = ViewRun(c, b, active, k - 1)
      <4>1. k - 1 \in Nat /\ 0 + (k - 1) = k - 1
        BY <3>3
      <4>2. ViewRun(d, b, active, k - 1) = ViewRun(c, b, active, 0 + (k - 1))
        BY <1>1, <3>1, <3>4, <4>1, ViewRunContinues
      <4> QED BY <4>1, <4>2
    <3>6. \A e : IsSabbath(d, e) <=> IsSabbath(c, e)
      BY <3>1, SameSabbath
    <3> QED BY <1>1, <3>2, <3>3, <3>5, <3>6, Zenon DEF CurrentHonorFits
  <2> QED BY <2>1, <2>2
<1>6. CurrentMultBPFits(d, volunteer, day)
  <2>1. d.lastProcessedWeek = c.lastProcessedWeek + WeeksPending(c, day)
    BY DEF SettledSo
  <2>2. /\ WeeksPending(c, day) \in Nat /\ WeeksPending(d, day) \in Nat
        /\ WeeksPending(c, day) = WeeksPending(c, day) + WeeksPending(d, day)
    BY <1>1, <2>1, PendingAdds
  <2>3. WeeksPending(d, day) = 0 /\ 1..0 = {}
    BY <2>2
  <2> QED BY <2>3 DEF CurrentMultBPFits
<1> QED BY <1>1, <1>3, <1>4, <1>5, <1>6 DEF VotingPowerFits

\* The views and the settlement overflow alike, and settling silences no vote and
\* gives none back, but for the weeks it counts (the checked products of
\* getVotingPower and of _applyDecay).
THEOREM OverflowAlwaysShared == Spec => []OverflowIsShared
<1>1. TypeOK /\ (\A w \in Worker : WeekInv(w)) => OverflowIsShared
  <2> SUFFICES ASSUME TypeOK, \A w \in Worker : WeekInv(w), NEW w \in Worker, NEW a \in Axis,
                      citizens[w].isCitizen
               PROVE  LET c       == citizens[w]
                          s       == Settled(w, a)
                          current == s.ok /\ s.citizen.lastDecayDay[a] = today
                          Votes(d) == VotingPowerFits(d, activeDays[w], volunteerDays[w], today)
                      IN  /\ CurrentHonorFits(c, a, activeDays[w], today)
                               <=> Decayed(c, a, activeDays[w], today).ok
                          /\ current => CurrentMultBPFits(c, volunteerDays[w], today)
                          /\ current /\ s.counted = {} => (Votes(s.citizen) <=> Votes(c))
    BY DEF OverflowIsShared
  <2> DEFINE c      == citizens[w]
             s      == Settled(w, a)
             active == activeDays[w]
             v      == volunteerDays[w]
  <2>1. /\ c \in Citizen /\ c.isCitizen /\ today \in Nat
        /\ c.lastDecayDay[a] \in Nat /\ c.lastDecayDay[a] <= today
    BY ClocksBehind
  <2>2. CurrentHonorFits(c, a, active, today) <=> Decayed(c, a, active, today).ok
    BY <2>1, HonorFitsAsSettled
  <2>3. s.ok => Decayed(c, a, active, today).ok
    BY DEF Settled
  <2>4. s.ok /\ s.citizen.lastDecayDay[a] = today => CurrentMultBPFits(c, v, today)
    BY <2>1, MultFitsWhenSettled
  <2>5. s.ok => SettledSo(c, a, active, v, DaysToSettle(c, a, today), s.counted, s.citizen)
    BY <2>1, SettledIs
  <2> HIDE DEF c, s, active, v
  <2>6. ASSUME s.ok, s.citizen.lastDecayDay[a] = today, s.counted = {}
        PROVE  VotingPowerFits(s.citizen, active, v, today) <=> VotingPowerFits(c, active, v, today)
    BY <2>1, <2>2, <2>3, <2>4, <2>5, <2>6, VotesStay
  <2> QED BY <2>2, <2>4, <2>6 DEF c, s, active, v
<1> QED BY <1>1, TypeCorrect, WeeksInductive, PTL

-----------------------------------------------------------------------------
(* What a step may never do. *)

\* Every step within a life moves all clocks forward or leaves them.
LEMMA RewindStep == TypeOK /\ TypeOK' /\ [Next]_vars => NeverRewinds
<1> SUFFICES ASSUME TypeOK, TypeOK', [Next]_vars, NEW w \in Worker, SameLife(w)
             PROVE  LET c == citizens[w]  d == citizens'[w] IN
                    /\ d.joinDay = c.joinDay
                    /\ d.lastProcessedWeek >= c.lastProcessedWeek
                    /\ d.volunteerWeeks >= c.volunteerWeeks
                    /\ d.volunteerMultBP >= c.volunteerMultBP
                    /\ \A a \in Axis : /\ d.lastDecayDay[a] >= c.lastDecayDay[a]
                                       /\ d.decayRateAtLastDay[a] >= c.decayRateAtLastDay[a]
  BY DEF NeverRewinds
<1> DEFINE c == citizens[w]
           e == citizens'[w]
<1>1. StepOf(w) /\ c \in Citizen /\ e \in Citizen /\ c.isCitizen /\ e.isCitizen
  BY StepCases DEF TypeOK, SameLife
<1>2. /\ c.lastProcessedWeek \in Nat /\ c.volunteerWeeks \in Nat /\ c.volunteerMultBP \in Nat
      /\ \A a \in Axis : c.lastDecayDay[a] \in Nat /\ c.decayRateAtLastDay[a] \in Nat
  BY <1>1, ConstantsAssumption DEF Citizen, Uint
<1>3. CASE Idle(w)
  BY <1>2, <1>3 DEF Idle
<1>4. CASE Joins(w) \/ Leaves(w)
  BY <1>1, <1>4, NoCitizenType DEF Joins, Leaves
<1>5. CASE MovesSabbath(w)
  <2>1. PICK offset : e = [c EXCEPT !.sabbathOffset = offset]
    BY <1>5 DEF MovesSabbath
  <2>2. /\ e.joinDay = c.joinDay /\ e.lastProcessedWeek = c.lastProcessedWeek
        /\ e.volunteerWeeks = c.volunteerWeeks /\ e.volunteerMultBP = c.volunteerMultBP
        /\ e.lastDecayDay = c.lastDecayDay /\ e.decayRateAtLastDay = c.decayRateAtLastDay
    BY <1>1, <2>1 DEF Citizen
  <2> QED BY <1>2, <2>2
<1>6. CASE IsCredited(w)
  <2>1. PICK a, n, lock, counted, d :
         /\ a \in Axis /\ n \in Nat /\ lock \in Nat
         /\ CreditedWith(w, a, n, lock, counted, d)
    BY <1>6 DEF IsCredited
  <2>2. /\ SettledFacts(c, a, today, volunteerDays[w], counted, d)
        /\ e.joinDay = d.joinDay /\ e.lastProcessedWeek = d.lastProcessedWeek
        /\ e.volunteerWeeks = d.volunteerWeeks /\ e.volunteerMultBP = d.volunteerMultBP
        /\ e.lastDecayDay = d.lastDecayDay /\ e.decayRateAtLastDay = d.decayRateAtLastDay
    BY <2>1 DEF CreditedWith, CreditedFrom
  <2>3. IsFiniteSet(counted) /\ d.volunteerWeeks = c.volunteerWeeks + Cardinality(counted)
    BY <2>2 DEF SettledFacts
  <2>4. d.volunteerWeeks >= c.volunteerWeeks
    <3>1. Cardinality(counted) \in Nat
      BY <2>3, FS_CardinalityType
    <3> QED BY <1>2, <2>3, <3>1
  <2> QED BY <2>2, <2>4 DEF SettledFacts, SameMembership
<1> QED BY <1>1, <1>3, <1>4, <1>5, <1>6 DEF StepOf

\* Within a life no day clock, week clock, rate or multiplier runs backwards,
\* whichever axis a call settles (_applyDecay, _processWeeks).
THEOREM ClocksOnlyAdvance == Spec => ClocksNeverRewind
<1>1. TypeOK /\ TypeOK' /\ [Next]_vars => [NeverRewinds]_vars
  BY RewindStep
<1> QED BY <1>1, TypeCorrect, PTL DEF Spec, ClocksNeverRewind

\* Every step within a life pays for the honor it adds.
LEMMA EarnedStep == TypeOK /\ TypeOK' /\ [Next]_vars => Earned
<1> SUFFICES ASSUME TypeOK, TypeOK', [Next]_vars, NEW w \in Worker, SameLife(w)
             PROVE  LET c == citizens[w]  d == citizens'[w] IN
                    /\ d.lockedKWR - c.lockedKWR = bridged'[w] - bridged[w]
                    /\ \A a \in Axis \ {"CAPITAL"} :
                          d.baseHonor[a] > c.baseHonor[a] => consumed' # consumed
                    /\ d.baseHonor["CAPITAL"] > c.baseHonor["CAPITAL"]
                          => bridged'[w] > bridged[w] \/ d.volunteerWeeks > c.volunteerWeeks
  BY DEF Earned
<1> DEFINE c == citizens[w]
           e == citizens'[w]
<1>1. StepOf(w) /\ c \in Citizen /\ e \in Citizen /\ c.isCitizen /\ e.isCitizen
      /\ bridged[w] \in Nat
  BY StepCases DEF TypeOK, SameLife
<1>2. /\ c.lockedKWR \in Nat /\ c.volunteerWeeks \in Nat
      /\ \A a \in Axis : c.baseHonor[a] \in Nat
      /\ "CAPITAL" \in Axis
  BY <1>1, ConstantsAssumption DEF Citizen, Uint, Axis
<1>3. CASE Idle(w)
  BY <1>1, <1>2, <1>3 DEF Idle
<1>4. CASE Joins(w) \/ Leaves(w)
  BY <1>1, <1>4, NoCitizenType DEF Joins, Leaves
<1>5. CASE MovesSabbath(w)
  <2>1. PICK offset : e = [c EXCEPT !.sabbathOffset = offset]
    BY <1>5 DEF MovesSabbath
  <2>2. e.lockedKWR = c.lockedKWR /\ e.baseHonor = c.baseHonor /\ bridged'[w] = bridged[w]
    BY <1>1, <1>5, <2>1 DEF MovesSabbath, Citizen
  <2> QED BY <1>1, <1>2, <2>2
<1>6. CASE IsCredited(w)
  <2>1. PICK a, n, lock, counted, d :
         /\ a \in Axis /\ n \in Nat /\ lock \in Nat
         /\ lock = IF a = "CAPITAL" THEN n ELSE 0
         /\ CreditedWith(w, a, n, lock, counted, d)
    BY <1>6 DEF IsCredited
  <2>2. /\ a \in Axis /\ n \in Nat /\ lock \in Nat
        /\ SettledFacts(c, a, today, volunteerDays[w], counted, d)
        /\ CreditedFrom(d, a, n, lock, e)
        /\ bridged'[w] = bridged[w] + lock
        /\ consumed' # consumed
    BY <2>1 DEF CreditedWith
  <2>3. /\ d \in Citizen /\ d.lockedKWR = c.lockedKWR
        /\ d.baseHonor["CAPITAL"] <= c.baseHonor["CAPITAL"] \/ d.volunteerWeeks > c.volunteerWeeks
    BY <2>2 DEF SettledFacts, SameMembership
  <2>4. d.baseHonor["CAPITAL"] \in Nat
    BY <2>3, ConstantsAssumption DEF Citizen, Uint, Axis
  <2>5. e.lockedKWR - c.lockedKWR = bridged'[w] - bridged[w]
    BY <1>1, <1>2, <2>2, <2>3 DEF CreditedFrom
  <2>6. e.baseHonor["CAPITAL"] > c.baseHonor["CAPITAL"]
          => bridged'[w] > bridged[w] \/ e.volunteerWeeks > c.volunteerWeeks
    <3>1. e.volunteerWeeks = d.volunteerWeeks
      BY <2>2 DEF CreditedFrom
    <3>2. CASE a # "CAPITAL"
      BY <1>2, <2>2, <2>3, <2>4, <3>1, <3>2 DEF CreditedFrom
    <3>3. CASE a = "CAPITAL"
      <4>1. lock = n /\ e.baseHonor["CAPITAL"] = d.baseHonor["CAPITAL"] + n
        BY <2>1, <2>2, <3>3 DEF CreditedFrom
      <4> QED BY <1>1, <1>2, <2>2, <2>3, <2>4, <3>1, <4>1
    <3> QED BY <3>2, <3>3
  <2> QED BY <2>2, <2>5, <2>6
<1> QED BY <1>1, <1>3, <1>4, <1>5, <1>6 DEF StepOf

\* Honor is raised by nothing but a fresh attestation, a bridged lock or a
\* volunteer week counted in that step; kWR is claimed only by bridging it.
THEOREM HonorOnlyEarned == Spec => HonorIsEarned
<1>1. TypeOK /\ TypeOK' /\ [Next]_vars => [Earned]_vars
  BY EarnedStep
<1> QED BY <1>1, TypeCorrect, PTL DEF Spec, HonorIsEarned

-----------------------------------------------------------------------------
(* The contract implements the civic ledger. *)

Members == {w \in Worker : citizens[w].isCitizen}
Claims == [w \in Worker |-> citizens[w].lockedKWR]

\* The check and the mark of an identifier spend it once in the ledger.
LEMMA SpentOnce ==
    ASSUME NEW att, att.id \in Id, Accepted(att), consumed' = consumed \cup {att.id}
    PROVE  {att.id} \in Single /\ Civic!Spend({att.id})
  BY DEF Accepted, Single, Civic!Spend

\* Every function is a step of the ledger or leaves the ledger unchanged.
LEMMA CivicStep == TypeOK /\ [Next]_vars => [Civic!Next]_(Civic!ledger)
<1> SUFFICES ASSUME TypeOK, [Next]_vars PROVE Civic!Next \/ UNCHANGED Civic!ledger
  OBVIOUS
<1> USE DEF TypeOK
<1>1. CASE NextDay \/ UNCHANGED vars
  BY <1>1 DEF NextDay, vars, contract, events, Civic!ledger
<1>2. ASSUME NEW att \in PoPAttestations, AttestPoP(att) PROVE Civic!Next
  <2>1. att.worker \in Worker /\ att.id \in Id
    BY AttestationTypes
  <2>2. {att.id} \in Single /\ Civic!Spend({att.id})
    BY <1>2, <2>1, SpentOnce DEF AttestPoP
  <2>3. Civic!Verify(att.worker, {att.id})
    BY <1>2, <2>2 DEF AttestPoP, events, Civic!Verify
  <2> QED BY <2>1, <2>2, <2>3 DEF Civic!Next
<1>3. ASSUME NEW v \in Worker, Join(v) PROVE Civic!Next
  <2>1. Joined(citizens[v], today).isCitizen
        /\ Joined(citizens[v], today).lockedKWR = citizens[v].lockedKWR
    BY JoinedType, AttestationTypes
  <2>2. Members' = Members \cup {v} /\ v \notin Members
    BY <1>3, <2>1 DEF Join, Members
  <2>3. Claims' = Claims
    BY <1>3, <2>1 DEF Join, Claims
  <2>4. Civic!Enter(v)
    BY <1>3, <2>2, <2>3 DEF Join, events, Civic!Enter, Members, Claims
  <2> QED BY <2>4 DEF Civic!Next
<1>4. ASSUME NEW v \in Worker, NEW offset \in 0..DAYS_PER_WEEK, SetSabbathDay(v, offset)
      PROVE UNCHANGED Civic!ledger
  <2>1. /\ [citizens[v] EXCEPT !.sabbathOffset = offset].isCitizen = citizens[v].isCitizen
        /\ [citizens[v] EXCEPT !.sabbathOffset = offset].lockedKWR = citizens[v].lockedKWR
    BY DEF Citizen
  <2>2. Members' = Members /\ Claims' = Claims
    BY <1>4, <2>1 DEF SetSabbathDay, Members, Claims
  <2> QED BY <1>4, <2>2 DEF SetSabbathDay, events, Civic!ledger, Members, Claims
<1>5. ASSUME NEW v \in Worker, Ragequit(v) PROVE Civic!Next
  <2>1. ~ NoCitizen.isCitizen /\ NoCitizen.lockedKWR = 0
    BY DEF NoCitizen
  <2>2. v \in Members /\ Members' = Members \ {v}
    BY <1>5, <2>1 DEF Ragequit, Deleted, Members
  <2>3. Claims' = [Claims EXCEPT ![v] = 0]
    BY <1>5, <2>1 DEF Ragequit, Deleted, Claims
  <2>4. requested' = [requested EXCEPT ![v] = @ + Claims[v]]
    BY <1>5 DEF Ragequit, Claims
  <2>5. Civic!Leave(v)
    BY <1>5, <2>2, <2>3, <2>4 DEF Ragequit, Civic!Leave, Members, Claims
  <2> QED BY <2>5 DEF Civic!Next
<1>6. ASSUME NEW att \in MintAttestations, BridgeMintCapital(att) PROVE Civic!Next
  <2> DEFINE w == att.worker
             n == att.kWRAmount
             s == Settled(w, "CAPITAL")
  <2>1. /\ w \in Worker /\ citizens[w] \in Citizen /\ citizens[w].isCitizen
        /\ SettledFacts(citizens[w], "CAPITAL", today, volunteerDays[w], s.counted, s.citizen)
        /\ citizens' = [citizens EXCEPT ![w] = Minted(w, n)]
    BY <1>6, MintedType
  <2>2. /\ s.citizen \in Citizen /\ s.citizen.isCitizen
        /\ s.citizen.lockedKWR = citizens[w].lockedKWR
    BY <2>1 DEF SettledFacts, SameMembership
  <2>3. Minted(w, n).isCitizen /\ Minted(w, n).lockedKWR = citizens[w].lockedKWR + n
    <3> HIDE DEF n
    <3> QED BY <2>2 DEF Minted, Citizen
  <2>4. att.id \in Id /\ Accepted(att) /\ consumed' = consumed \cup {att.id} /\ n > 0
    BY <1>6, AttestationTypes DEF BridgeMintCapital
  <2>5. {att.id} \in Single /\ Civic!Spend({att.id})
    BY <2>4, SpentOnce
  <2> HIDE DEF s
  <2>6. w \in Members /\ Members' = Members
    BY <2>1, <2>3 DEF Members
  <2>7. Claims' = [Claims EXCEPT ![w] = @ + n]
    BY <2>1, <2>3 DEF Claims
  <2>8. /\ bridged' = [bridged EXCEPT ![w] = @ + n]
        /\ UNCHANGED <<attestedPoP, requested>>
    BY <1>6 DEF BridgeMintCapital
  <2> HIDE DEF w, n
  <2>9. Civic!Deposit(w, n, {att.id})
    BY <2>4, <2>5, <2>6, <2>7, <2>8 DEF Civic!Deposit, Members, Claims
  <2>10. n \in {m.kWRAmount : m \in MintAttestations}
    BY DEF n
  <2> QED BY <2>1, <2>5, <2>9, <2>10 DEF Civic!Next
<1>7. ASSUME NEW att \in HonorAttestations, AttestHonor(att) PROVE Civic!Next
  <2> DEFINE w == att.worker
             s == Settled(w, att.axis)
             e == Honored(w, att.axis, att.honorDelta)
  <2>1. /\ w \in Worker /\ citizens[w] \in Citizen /\ citizens[w].isCitizen
        /\ SettledFacts(citizens[w], att.axis, today, volunteerDays[w], s.counted, s.citizen)
        /\ citizens' = [citizens EXCEPT ![w] = e]
    BY <1>7, HonoredType
  <2>2. /\ s.citizen \in Citizen /\ s.citizen.isCitizen
        /\ s.citizen.lockedKWR = citizens[w].lockedKWR
    BY <2>1 DEF SettledFacts, SameMembership
  <2>3. e.isCitizen /\ e.lockedKWR = citizens[w].lockedKWR
    BY <2>2 DEF Honored, Citizen
  <2>4. att.id \in Id /\ Accepted(att) /\ consumed' = consumed \cup {att.id}
    BY <1>7, AttestationTypes DEF AttestHonor
  <2>5. {att.id} \in Single /\ Civic!Spend({att.id})
    BY <2>4, SpentOnce
  <2> HIDE DEF s, e
  <2>6. w \in Members /\ Members' = Members /\ Claims' = Claims
    BY <2>1, <2>3 DEF Members, Claims
  <2>7. UNCHANGED <<attestedPoP, bridged, requested>>
    BY <1>7 DEF AttestHonor
  <2>8. Civic!Credit(w, {att.id})
    BY <2>5, <2>6, <2>7 DEF Civic!Credit, Members, Claims
  <2> QED BY <2>1, <2>5, <2>8 DEF Civic!Next
<1>8. ASSUME NEW att \in DayAttestations, AttestDay(att) PROVE Civic!Next
  <2>1. att.worker \in Worker /\ att.id \in Id
    BY AttestationTypes
  <2>2. {att.id} \in Single /\ Civic!Spend({att.id})
    BY <1>8, <2>1, SpentOnce DEF AttestDay
  <2>3. Civic!Credit(att.worker, {att.id})
    BY <1>8, <2>1, <2>2 DEF AttestDay, events, Civic!Credit
  <2> QED BY <2>1, <2>2, <2>3 DEF Civic!Next
<1>9. ASSUME NEW sender \in Sender, NEW v \in Worker, NEW badge \in Badge,
             GrantBadge(sender, v, badge) \/ RevokeBadge(sender, v, badge)
      PROVE UNCHANGED Civic!ledger
  BY <1>9 DEF GrantBadge, RevokeBadge, events, Civic!ledger
<1>10. ASSUME NEW sender \in Sender, NEW key \in Key, RotateAttester(sender, key)
       PROVE UNCHANGED Civic!ledger
  BY <1>10 DEF RotateAttester, events, Civic!ledger
<1> QED BY <1>1, <1>2, <1>3, <1>4, <1>5, <1>6, <1>7, <1>8, <1>9, <1>10 DEF Next

\* Refinement: under the mapping of Civic every behaviour of the contract is one
\* of the civic ledger, for any sets of payloads whatsoever.
THEOREM ImplementsLedger == Spec => CivicSpec
<1>1. Init => Civic!Init
  BY DEF Init, Civic!Init, NoCitizen
<1>2. TypeOK /\ [Next]_vars => [Civic!Next]_(Civic!ledger)
  BY CivicStep
<1> QED BY <1>1, <1>2, TypeCorrect, PTL DEF Spec, CivicSpec, Civic!Spec
=============================================================================
