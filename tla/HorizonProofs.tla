---------------------------- MODULE HorizonProofs ---------------------------
(***************************************************************************)
(* When the decay rate is full under the constants of the source, and that *)
(* the roots are exact, for any horizon, any gaps between settlements, any *)
(* deposit and any days attested as active.                                *)
(***************************************************************************)
EXTENDS SeumHorizon, SeumMathProofs

USE DEF PosNat

-----------------------------------------------------------------------------
(* The rate as a function of the days settled. *)

\* The constants of the source that decay depends on (SeumStandard.sol).
SourceRates ==
    /\ BASIS_POINTS = 10000 /\ BASE_DECAY_BP = 100
    /\ DECAY_GROWTH_NUM = 101 /\ DECAY_GROWTH_DEN = 100

\* The rate after any number of days is a rate.
LEMMA RateAfterType == \A n \in Nat : RateAfter(n) \in 0..BASIS_POINTS
<1> DEFINE Good == {n \in Nat : RateAfter(n) \in 0..BASIS_POINTS}
<1>1. 0 \in Good
  BY RateAfterUnfolds, ConstantsAssumption
<1>2. ASSUME NEW n \in Nat, n \in Good PROVE n + 1 \in Good
  <2>1. GrownRate(RateAfter(n)) \in RateAfter(n)..BASIS_POINTS /\ RateAfter(n) \in Nat
    BY <1>2, GrownRateType
  <2> QED BY <2>1, RateAfterUnfolds
<1> HIDE DEF Good
<1>3. Nat \subseteq Good
  BY <1>1, <1>2, NatSetInduction
<1> QED BY <1>3 DEF Good

\* A later rate is no lower.
LEMMA RateOnlyGrows ==
    ASSUME NEW m \in Nat, NEW n \in Nat, m <= n
    PROVE  RateAfter(m) <= RateAfter(n)
<1> DEFINE Good == {k \in Nat : RateAfter(m) <= RateAfter(m + k)}
<1>1. 0 \in Good
  <2>1. m + 0 = m
    OBVIOUS
  <2> QED BY <2>1, RateAfterType
<1>2. ASSUME NEW k \in Nat, k \in Good PROVE k + 1 \in Good
  <2>1. m + k \in Nat /\ m + (k + 1) = (m + k) + 1 /\ m \in Nat
    OBVIOUS
  <2>2. RateAfter(m) <= RateAfter(m + k) /\ RateAfter(m + k) \in 0..BASIS_POINTS
    BY <1>2, <2>1, RateAfterType
  <2>3. GrownRate(RateAfter(m + k)) \in RateAfter(m + k)..BASIS_POINTS
    BY <2>2, GrownRateType
  <2>4. RateAfter(m + (k + 1)) = GrownRate(RateAfter(m + k))
    BY <2>1, RateAfterUnfolds
  <2>5. RateAfter(m) \in 0..BASIS_POINTS
    BY RateAfterType
  <2> QED BY <2>2, <2>3, <2>4, <2>5, ConstantsAssumption
<1> HIDE DEF Good
<1>3. n - m \in Nat /\ m + (n - m) = n
  OBVIOUS
<1>4. n - m \in Good
  BY <1>1, <1>2, <1>3, NatSetInduction
<1> QED BY <1>3, <1>4 DEF Good

\* Growing by k a day, a rate of r on day m is one of s on day n.
Reaches(m, r, k, n, s) == RateAfter(m) = r => RateAfter(n) = s

\* While the rate stays within one hundred, 1% of it, rounded down, is the same
\* number each day: over those days and the one that leaves the hundred, it grows
\* by that number a day.
LEMMA RateSegment ==
    ASSUME SourceRates, NEW m \in Nat, NEW n \in Nat, NEW r \in Nat, NEW s \in Nat, m <= n,
           NEW k \in Nat, 100 * k <= r, r < 100 * k + 100,
           s = r + k * (n - m), s <= 10000, s - k < 100 * k + 100
    PROVE  Reaches(m, r, k, n, s)
<1> DEFINE Good == {j \in Nat : j <= n - m => RateAfter(m + j) = r + k * j}
<1>1. k \in Nat /\ 100 * k <= r
  OBVIOUS
<1>2. s = r + k * (n - m) /\ s - k < 100 * (k + 1)
  OBVIOUS
<1>3. SUFFICES ASSUME RateAfter(m) = r PROVE RateAfter(n) = s
  BY DEF Reaches
<1>4. 0 \in Good
  <2>1. m + 0 = m /\ r + k * 0 = r
    BY <1>1
  <2> QED BY <1>3, <2>1
<1>5. ASSUME NEW j \in Nat, j \in Good PROVE j + 1 \in Good
  <2>1. SUFFICES ASSUME j + 1 <= n - m PROVE RateAfter(m + (j + 1)) = r + k * (j + 1)
    OBVIOUS
  <2> DEFINE q == r + k * j
  <2>2. RateAfter(m + j) = q
    BY <1>5, <2>1
  <2>3. m + j \in Nat /\ m + (j + 1) = (m + j) + 1
    OBVIOUS
  <2>4. k * j \in Nat /\ k * (j + 1) = k * j + k /\ k * (j + 1) <= k * (n - m)
    <3>1. \A t, u \in Nat : t <= u => k * t <= k * u
      BY <1>1
    <3>2. j + 1 \in Nat /\ n - m \in Nat
      OBVIOUS
    <3>3. k * (j + 1) <= k * (n - m)
      BY <2>1, <3>1, <3>2
    <3> QED BY <1>1, <3>3
  <2>5. k * (n - m) \in Nat
    BY <1>1, <2>4
  <2>6. q \in Nat /\ 100 * k <= q /\ q < 100 * k + 100 /\ q + k <= 10000 /\ q + k = r + k * (j + 1)
    BY <1>1, <1>2, <2>4, <2>5
  <2> HIDE DEF q
  <2>7. (q * 101) \div 100 = q + k
    BY <1>1, <2>6
  <2>8. GrownRate(q) = q + k
    BY <1>1, <2>6, <2>7 DEF GrownRate, Lesser, SourceRates
  <2>9. RateAfter(m + (j + 1)) = GrownRate(q)
    BY <2>2, <2>3, RateAfterUnfolds
  <2> QED BY <2>6, <2>8, <2>9
<1> HIDE DEF Good
<1>6. n - m \in Nat /\ m + (n - m) = n
  OBVIOUS
<1>7. n - m \in Good
  BY <1>4, <1>5, <1>6, NatSetInduction
<1> QED BY <1>2, <1>6, <1>7 DEF Good

\* The rate of the source hundred by hundred: the day on which it enters each, and
\* the first day on which it is full.
LEMMA RateOfTheSource ==
    ASSUME SourceRates
    PROVE  RateAfter(519) = 9970 /\ RateAfter(520) = 10000
<1>1. RateAfter(0) = 100
  BY RateAfterUnfolds DEF SourceRates
<1>2. RateAfter(284) = 1005
  <2>1. /\ Reaches(0, 100, 1, 100, 200) /\ Reaches(100, 200, 2, 150, 300)
        /\ Reaches(150, 300, 3, 184, 402)
    BY RateSegment
  <2>2. /\ Reaches(184, 402, 4, 209, 502) /\ Reaches(209, 502, 5, 229, 602)
        /\ Reaches(229, 602, 6, 246, 704)
    BY RateSegment
  <2>3. /\ Reaches(246, 704, 7, 260, 802) /\ Reaches(260, 802, 8, 273, 906)
        /\ Reaches(273, 906, 9, 284, 1005)
    BY RateSegment
  <2> QED BY <1>1, <2>1, <2>2, <2>3 DEF Reaches
<1>3. RateAfter(351) = 1913
  <2>1. /\ Reaches(284, 1005, 10, 294, 1105) /\ Reaches(294, 1105, 11, 303, 1204)
        /\ Reaches(303, 1204, 12, 311, 1300)
    BY RateSegment
  <2>2. /\ Reaches(311, 1300, 13, 319, 1404) /\ Reaches(319, 1404, 14, 326, 1502)
        /\ Reaches(326, 1502, 15, 333, 1607)
    BY RateSegment
  <2>3. /\ Reaches(333, 1607, 16, 339, 1703) /\ Reaches(339, 1703, 17, 345, 1805)
        /\ Reaches(345, 1805, 18, 351, 1913)
    BY RateSegment
  <2> QED BY <1>2, <2>1, <2>2, <2>3 DEF Reaches
<1>4. RateAfter(391) = 2824
  <2>1. /\ Reaches(351, 1913, 19, 356, 2008) /\ Reaches(356, 2008, 20, 361, 2108)
        /\ Reaches(361, 2108, 21, 366, 2213)
    BY RateSegment
  <2>2. /\ Reaches(366, 2213, 22, 370, 2301) /\ Reaches(370, 2301, 23, 375, 2416)
        /\ Reaches(375, 2416, 24, 379, 2512)
    BY RateSegment
  <2>3. /\ Reaches(379, 2512, 25, 383, 2612) /\ Reaches(383, 2612, 26, 387, 2716)
        /\ Reaches(387, 2716, 27, 391, 2824)
    BY RateSegment
  <2> QED BY <1>3, <2>1, <2>2, <2>3 DEF Reaches
<1>5. RateAfter(419) = 3717
  <2>1. /\ Reaches(391, 2824, 28, 394, 2908) /\ Reaches(394, 2908, 29, 398, 3024)
        /\ Reaches(398, 3024, 30, 401, 3114)
    BY RateSegment
  <2>2. /\ Reaches(401, 3114, 31, 404, 3207) /\ Reaches(404, 3207, 32, 407, 3303)
        /\ Reaches(407, 3303, 33, 410, 3402)
    BY RateSegment
  <2>3. /\ Reaches(410, 3402, 34, 413, 3504) /\ Reaches(413, 3504, 35, 416, 3609)
        /\ Reaches(416, 3609, 36, 419, 3717)
    BY RateSegment
  <2> QED BY <1>4, <2>1, <2>2, <2>3 DEF Reaches
<1>6. RateAfter(441) = 4615
  <2>1. /\ Reaches(419, 3717, 37, 422, 3828) /\ Reaches(422, 3828, 38, 424, 3904)
        /\ Reaches(424, 3904, 39, 427, 4021)
    BY RateSegment
  <2>2. /\ Reaches(427, 4021, 40, 429, 4101) /\ Reaches(429, 4101, 41, 432, 4224)
        /\ Reaches(432, 4224, 42, 434, 4308)
    BY RateSegment
  <2>3. /\ Reaches(434, 4308, 43, 437, 4437) /\ Reaches(437, 4437, 44, 439, 4525)
        /\ Reaches(439, 4525, 45, 441, 4615)
    BY RateSegment
  <2> QED BY <1>5, <2>1, <2>2, <2>3 DEF Reaches
<1>7. RateAfter(459) = 5510
  <2>1. /\ Reaches(441, 4615, 46, 443, 4707) /\ Reaches(443, 4707, 47, 445, 4801)
        /\ Reaches(445, 4801, 48, 448, 4945)
    BY RateSegment
  <2>2. /\ Reaches(448, 4945, 49, 450, 5043) /\ Reaches(450, 5043, 50, 452, 5143)
        /\ Reaches(452, 5143, 51, 454, 5245)
    BY RateSegment
  <2>3. /\ Reaches(454, 5245, 52, 456, 5349) /\ Reaches(456, 5349, 53, 457, 5402)
        /\ Reaches(457, 5402, 54, 459, 5510)
    BY RateSegment
  <2> QED BY <1>6, <2>1, <2>2, <2>3 DEF Reaches
<1>8. RateAfter(475) = 6453
  <2>1. /\ Reaches(459, 5510, 55, 461, 5620) /\ Reaches(461, 5620, 56, 463, 5732)
        /\ Reaches(463, 5732, 57, 465, 5846)
    BY RateSegment
  <2>2. /\ Reaches(465, 5846, 58, 466, 5904) /\ Reaches(466, 5904, 59, 468, 6022)
        /\ Reaches(468, 6022, 60, 470, 6142)
    BY RateSegment
  <2>3. /\ Reaches(470, 6142, 61, 471, 6203) /\ Reaches(471, 6203, 62, 473, 6327)
        /\ Reaches(473, 6327, 63, 475, 6453)
    BY RateSegment
  <2> QED BY <1>7, <2>1, <2>2, <2>3 DEF Reaches
<1>9. RateAfter(488) = 7337
  <2>1. /\ Reaches(475, 6453, 64, 476, 6517) /\ Reaches(476, 6517, 65, 478, 6647)
        /\ Reaches(478, 6647, 66, 479, 6713)
    BY RateSegment
  <2>2. /\ Reaches(479, 6713, 67, 481, 6847) /\ Reaches(481, 6847, 68, 482, 6915)
        /\ Reaches(482, 6915, 69, 484, 7053)
    BY RateSegment
  <2>3. /\ Reaches(484, 7053, 70, 485, 7123) /\ Reaches(485, 7123, 71, 487, 7265)
        /\ Reaches(487, 7265, 72, 488, 7337)
    BY RateSegment
  <2> QED BY <1>8, <2>1, <2>2, <2>3 DEF Reaches
<1>10. RateAfter(500) = 8262
  <2>1. /\ Reaches(488, 7337, 73, 489, 7410) /\ Reaches(489, 7410, 74, 491, 7558)
        /\ Reaches(491, 7558, 75, 492, 7633)
    BY RateSegment
  <2>2. /\ Reaches(492, 7633, 76, 493, 7709) /\ Reaches(493, 7709, 77, 495, 7863)
        /\ Reaches(495, 7863, 78, 496, 7941)
    BY RateSegment
  <2>3. /\ Reaches(496, 7941, 79, 497, 8020) /\ Reaches(497, 8020, 80, 498, 8100)
        /\ Reaches(498, 8100, 81, 500, 8262)
    BY RateSegment
  <2> QED BY <1>9, <2>1, <2>2, <2>3 DEF Reaches
<1>11. RateAfter(510) = 9121
  <2>1. /\ Reaches(500, 8262, 82, 501, 8344) /\ Reaches(501, 8344, 83, 502, 8427)
        /\ Reaches(502, 8427, 84, 503, 8511)
    BY RateSegment
  <2>2. /\ Reaches(503, 8511, 85, 505, 8681) /\ Reaches(505, 8681, 86, 506, 8767)
        /\ Reaches(506, 8767, 87, 507, 8854)
    BY RateSegment
  <2>3. /\ Reaches(507, 8854, 88, 508, 8942) /\ Reaches(508, 8942, 89, 509, 9031)
        /\ Reaches(509, 9031, 90, 510, 9121)
    BY RateSegment
  <2> QED BY <1>10, <2>1, <2>2, <2>3 DEF Reaches
<1>12. RateAfter(519) = 9970
  <2>1. /\ Reaches(510, 9121, 91, 511, 9212) /\ Reaches(511, 9212, 92, 512, 9304)
        /\ Reaches(512, 9304, 93, 514, 9490)
    BY RateSegment
  <2>2. /\ Reaches(514, 9490, 94, 515, 9584) /\ Reaches(515, 9584, 95, 516, 9679)
        /\ Reaches(516, 9679, 96, 517, 9775)
    BY RateSegment
  <2>3. /\ Reaches(517, 9775, 97, 518, 9872) /\ Reaches(518, 9872, 98, 519, 9970)
    BY RateSegment
  <2> QED BY <1>11, <2>1, <2>2, <2>3 DEF Reaches
<1>13. RateAfter(520) = 10000
  <2>1. RateAfter(519 + 1) = GrownRate(9970) /\ 519 + 1 = 520
    BY <1>12, RateAfterUnfolds
  <2>2. GrownRate(9970) = 10000
    BY DEF GrownRate, Lesser, SourceRates
  <2> QED BY <2>1, <2>2
<1> QED BY <1>12, <1>13

\* The rate is full from the 520th settled day on, and not before.
LEMMA FullFrom520 ==
    ASSUME SourceRates, NEW n \in Nat
    PROVE  RateAfter(n) = BASIS_POINTS <=> n >= 520
<1> DEFINE r == RateAfter(n)
<1>1. r \in Nat /\ r <= BASIS_POINTS
  BY RateAfterType, ConstantsAssumption
<1>2. BASIS_POINTS = 10000
  BY DEF SourceRates
<1>3. n >= 520 => 10000 <= r
  BY RateOnlyGrows, RateOfTheSource
<1>4. n <= 519 => r <= 9970
  BY RateOnlyGrows, RateOfTheSource
<1> HIDE DEF r
<1>5. r = BASIS_POINTS <=> n >= 520
  BY <1>1, <1>2, <1>3, <1>4
<1> QED BY <1>5 DEF r

-----------------------------------------------------------------------------
(* The citizen of SeumHorizon. *)

\* The rate on record has the age of the membership, whatever was settled when.
HorizonInv ==
    /\ today \in Nat
    /\ c \in Citizen
    /\ SettledDays \in Nat
    /\ Rate = RateAfter(SettledDays)

LEMMA HorizonInit == Init => HorizonInv
<1> SUFFICES ASSUME Init PROVE HorizonInv
  OBVIOUS
<1> DEFINE honor == [[a \in Axis |-> 0] EXCEPT !["CAPITAL"] = INITIAL_CAPITAL_HONOR + Deposit]
<1>1. /\ c.isCitizen = TRUE
      /\ c = [isCitizen |-> TRUE, joinDay |-> 0, sabbathOffset |-> DEFAULT_SABBATH_OFFSET,
              lockedKWR |-> Deposit, baseHonor |-> honor,
              lastDecayDay |-> [a \in Axis |-> 0],
              decayRateAtLastDay |-> [a \in Axis |-> BASE_DECAY_BP],
              volunteerWeeks |-> 0, lastProcessedWeek |-> 0 \div DAYS_PER_WEEK,
              volunteerMultBP |-> BASIS_POINTS]
  BY DEF Init, Joined, NoCitizen, Axis
<1>2. honor \in [Axis -> Uint] /\ Deposit \in Uint
  BY HorizonAssumption, ConstantsAssumption DEF Uint, Axis
<1>3. 0 \div DAYS_PER_WEEK \in Nat /\ BASE_DECAY_BP \in 0..BASIS_POINTS
      /\ BASIS_POINTS \in Uint /\ DEFAULT_SABBATH_OFFSET \in 0..(DAYS_PER_WEEK - 1) /\ 0 \in Uint
  BY ConstantsAssumption DEF Uint
<1> HIDE DEF honor
<1>4. c \in Citizen
  BY <1>1, <1>2, <1>3 DEF Citizen
<1>5. SettledDays = 0 /\ Rate = BASE_DECAY_BP
  BY <1>1 DEF SettledDays, Rate, Axis
<1> QED BY <1>4, <1>5, RateAfterUnfolds DEF HorizonInv, Init

LEMMA HorizonStep == HorizonInv /\ [Next]_vars => HorizonInv'
<1> SUFFICES ASSUME HorizonInv, [Next]_vars PROVE HorizonInv'
  OBVIOUS
<1> USE DEF HorizonInv
<1>1. CASE UNCHANGED vars
  BY <1>1 DEF vars, SettledDays, Rate
<1>2. ASSUME NEW gap \in Gaps, Settle(gap) PROVE HorizonInv'
  <2> DEFINE n == DaysToSettle(c, "CAPITAL", today')
             run == DecayRun(c, "CAPITAL", active, n)
  <2>1. today' \in Nat /\ "CAPITAL" \in Axis
    BY <1>2, HorizonAssumption DEF Settle, Axis
  <2>2. Decayed(c, "CAPITAL", active, today').ok
        /\ c' = Decayed(c, "CAPITAL", active, today').citizen
    BY <1>2 DEF Settle
  <2>3. n \in Nat
    BY <2>1, DaysToSettleType
  <2>4. c' \in Citizen
    BY <2>1, <2>2, DecayedType DEF DecayedFacts
  <2> HIDE DEF n
  <2>5. /\ Advanced(c, c', "CAPITAL", n)
        /\ c'.decayRateAtLastDay["CAPITAL"] = run.rate /\ run.ok
    BY <2>1, <2>2, DecayedIs DEF n
  <2>6. SettledDays' = SettledDays + n /\ SettledDays + n \in Nat
    <3>1. c.joinDay \in Nat /\ c.lastDecayDay["CAPITAL"] \in Nat
      BY <2>1 DEF Citizen
    <3>2. c'.joinDay = c.joinDay /\ c'.lastDecayDay["CAPITAL"] = c.lastDecayDay["CAPITAL"] + n
      BY <2>5 DEF Advanced
    <3> QED BY <2>3, <3>1, <3>2 DEF SettledDays
  <2>7. run.rate = RateAfter(SettledDays + n)
    <3>1. c.decayRateAtLastDay["CAPITAL"] = RateAfter(SettledDays)
      BY DEF Rate
    <3> QED BY <2>1, <2>3, <2>5, <3>1, DecayRunAges
  <2>8. Rate' = RateAfter(SettledDays')
    BY <2>5, <2>6, <2>7 DEF Rate
  <2> QED BY <2>1, <2>4, <2>6, <2>8
<1> QED BY <1>1, <1>2 DEF Next

\* However a citizen's settlements are spaced, under the source's constants the
\* rate is full from the 520th settled day on and not before, never on day 462 as
\* DEV_SETUP.md has it (_applyDecay).
THEOREM FullOnlyFromDay520 ==
    ASSUME SourceRates
    PROVE  Spec => []FullRateFromDay520
<1>1. HorizonInv => FullRateFromDay520
  BY FullFrom520 DEF HorizonInv, FullRateFromDay520
<1> QED BY <1>1, HorizonInit, HorizonStep, PTL DEF Spec

\* Every root the views may take is the integer square root, for any constants
\* and however far the calendar goes (sqrt, int_sqrt).
THEOREM RootsAreAlwaysExact == Spec => []RootsAreExact
<1>1. HorizonInv => RootsAreExact
  <2> SUFFICES ASSUME HorizonInv,
                      NEW y \in (today * RootStep)..(today * RootStep + RootStep - 1)
               PROVE  LET r == Isqrt(y) IN r * r <= y /\ y < (r + 1) * (r + 1)
    BY DEF RootsAreExact
  <2>1. today * RootStep \in Nat
    BY HorizonAssumption DEF HorizonInv
  <2>2. y \in Nat
    BY <2>1
  <2> QED BY <2>2, RootIsExact DEF IsRoot
<1> QED BY <1>1, HorizonInit, HorizonStep, PTL DEF Spec
=============================================================================
