------------------------------ MODULE SeumMath ------------------------------
(***************************************************************************)
(* The integer arithmetic of the standard, shared by the EVM contract and  *)
(* its CosmWasm twin: the daily decay loop, the weekly volunteer loop, the *)
(* read-only views and the integer square root.  Every operator is a pure  *)
(* function of a citizen record; loops are recursive functions indexed by  *)
(* the iteration count.                                                    *)
(***************************************************************************)
EXTENDS Integers

CONSTANTS
    BASIS_POINTS,             \* 10000 in the source
    BASE_DECAY_BP,            \* 100
    DECAY_GROWTH_NUM,         \* 101
    DECAY_GROWTH_DEN,         \* 100
    VOLUNTEER_BONUS_NUM,      \* 101342
    VOLUNTEER_BONUS_DEN,      \* 100000
    VOLUNTEER_CAPITAL_MIN,    \* 100
    VOLUNTEER_CAPITAL_PCT,    \* 100, in basis points
    MAX_DECAY_DAYS_PER_CALL,  \* 90
    DEFAULT_SABBATH_OFFSET,   \* 6
    INITIAL_CAPITAL_HONOR,    \* 1
    LABOR_WEIGHT,             \* 5
    VERIFICATION_WEIGHT,      \* 5
    DAYS_PER_WEEK,            \* the literal 7 of the week and sabbath arithmetic
    MAX_UINT                  \* 2^256 - 1 (2^128 - 1 in the twin): checked arithmetic

PosNat == Nat \ {0}

ASSUME ConstantsAssumption ==
    /\ BASIS_POINTS \in PosNat
    /\ BASE_DECAY_BP \in 0..BASIS_POINTS
    /\ DECAY_GROWTH_NUM \in Nat /\ DECAY_GROWTH_DEN \in PosNat
    /\ DECAY_GROWTH_NUM >= DECAY_GROWTH_DEN
    /\ VOLUNTEER_BONUS_NUM \in Nat /\ VOLUNTEER_BONUS_DEN \in PosNat
    /\ VOLUNTEER_BONUS_NUM >= VOLUNTEER_BONUS_DEN
    /\ VOLUNTEER_CAPITAL_MIN \in Nat /\ VOLUNTEER_CAPITAL_PCT \in Nat
    /\ MAX_DECAY_DAYS_PER_CALL \in PosNat
    /\ DAYS_PER_WEEK \in PosNat
    /\ DEFAULT_SABBATH_OFFSET \in 0..(DAYS_PER_WEEK - 1)
    /\ LABOR_WEIGHT \in Nat /\ VERIFICATION_WEIGHT \in Nat
    /\ MAX_UINT \in Nat
    /\ INITIAL_CAPITAL_HONOR \in 0..MAX_UINT
    /\ BASIS_POINTS <= MAX_UINT

-----------------------------------------------------------------------------
Axis == {"CAPITAL", "LABOR", "VERIFICATION"}
Uint == 0..MAX_UINT

Citizen == [isCitizen          : BOOLEAN,
            joinDay            : Nat,
            sabbathOffset      : 0..(DAYS_PER_WEEK - 1),
            lockedKWR          : Uint,
            baseHonor          : [Axis -> Uint],
            lastDecayDay       : [Axis -> Nat],
            decayRateAtLastDay : [Axis -> 0..BASIS_POINTS],
            volunteerWeeks     : Nat,
            lastProcessedWeek  : Nat,
            volunteerMultBP    : Uint]

\* What `delete citizens[who]` leaves, and what an address never seen holds.
NoCitizen == [isCitizen          |-> FALSE,
              joinDay            |-> 0,
              sabbathOffset      |-> 0,
              lockedKWR          |-> 0,
              baseHonor          |-> [a \in Axis |-> 0],
              lastDecayDay       |-> [a \in Axis |-> 0],
              decayRateAtLastDay |-> [a \in Axis |-> 0],
              volunteerWeeks     |-> 0,
              lastProcessedWeek  |-> 0,
              volunteerMultBP    |-> 0]

\* join assigns field by field: what it leaves alone (lockedKWR, volunteerWeeks
\* and two axes of baseHonor) is whatever the deleted struct holds.
JoinedKeepingWeekMark(c, day) ==  \* mutant: lastProcessedWeek is left alone
    [c EXCEPT !.isCitizen = TRUE, !.joinDay = day,
              !.sabbathOffset = DEFAULT_SABBATH_OFFSET,
              !.baseHonor["CAPITAL"] = INITIAL_CAPITAL_HONOR,
              !.lastDecayDay = [a \in Axis |-> day],
              !.decayRateAtLastDay = [a \in Axis |-> BASE_DECAY_BP],
              !.volunteerMultBP = BASIS_POINTS]

Joined(c, day) ==
    [c EXCEPT !.isCitizen           = TRUE,
              !.joinDay             = day,
              !.sabbathOffset       = DEFAULT_SABBATH_OFFSET,
              !.baseHonor["CAPITAL"] = INITIAL_CAPITAL_HONOR,
              !.lastDecayDay        = [a \in Axis |-> day],
              !.decayRateAtLastDay  = [a \in Axis |-> BASE_DECAY_BP],
              !.lastProcessedWeek   = day \div DAYS_PER_WEEK,
              !.volunteerMultBP     = BASIS_POINTS]

Lesser(m, n) == IF m <= n THEN m ELSE n

-----------------------------------------------------------------------------
(* Decay: one iteration per calendar day, oldest first. *)

GrownRateRoundedUp(rate) ==  \* mutant: the division rounds up
    Lesser(BASIS_POINTS, (rate * DECAY_GROWTH_NUM + DECAY_GROWTH_DEN - 1) \div DECAY_GROWTH_DEN)

GrownRate(rate) == Lesser(BASIS_POINTS, (rate * DECAY_GROWTH_NUM) \div DECAY_GROWTH_DEN)

\* The rate on record once so many days are settled.
RateAfter(days) ==
    LET rate[k \in 0..days] == IF k = 0 THEN BASE_DECAY_BP ELSE GrownRate(rate[k-1])
    IN  rate[days]

IsSabbath(c, day) == (day - c.joinDay) % DAYS_PER_WEEK = c.sabbathOffset

\* At most MAX_DECAY_DAYS_PER_CALL days are settled by one call.
DaysToSettle(c, a, today) ==
    IF today > c.lastDecayDay[a]
    THEN Lesser(today - c.lastDecayDay[a], MAX_DECAY_DAYS_PER_CALL)
    ELSE 0

\* mutant: an exempt day does not grow the rate
DecayDayRateSpared(s, c, day, active) ==
    IF s.honor = 0 \/ IsSabbath(c, day) \/ day \in active THEN s
    ELSE LET rate == GrownRate(s.rate)
         IN  [s EXCEPT !.rate = rate, !.honor = (@ * (BASIS_POINTS - rate)) \div BASIS_POINTS]

\* mutant: settlement forgets the sabbath
DecayDayNoSabbath(s, c, day, active) ==
    LET rate == GrownRate(s.rate)
        kept == IF day \in active THEN s.honor
                ELSE (s.honor * (BASIS_POINTS - rate)) \div BASIS_POINTS
    IN  [s EXCEPT !.rate = rate, !.honor = kept]

\* mutant: the product is computed before the exemptions are looked at
DecayDayEager(s, c, day, active) ==
    IF ~s.ok THEN s
    ELSE LET rate    == GrownRate(s.rate)
             spared  == s.honor = 0 \/ IsSabbath(c, day) \/ day \in active
             product == s.honor * (BASIS_POINTS - rate)
         IN  [rate  |-> rate,
              honor |-> IF spared THEN s.honor ELSE product \div BASIS_POINTS,
              ok    |-> product <= MAX_UINT]

\* The rate grows on every day, an exempt one too.  "ok" turns FALSE where the
\* checked multiplication reverts, which ends the call; at the full rate the
\* product is 0 and so is the honor.
DecayDay(s, c, day, active) ==
    IF ~s.ok THEN s
    ELSE LET rate    == GrownRate(s.rate)
             spared  == s.honor = 0 \/ IsSabbath(c, day) \/ day \in active
             product == s.honor * (BASIS_POINTS - rate)
         IN  [rate  |-> rate,
              honor |-> IF spared THEN s.honor ELSE product \div BASIS_POINTS,
              ok    |-> spared \/ product <= MAX_UINT]

DecayRun(c, a, active, n) ==
    LET run[k \in 0..n] ==
            IF k = 0
            THEN [rate |-> c.decayRateAtLastDay[a], honor |-> c.baseHonor[a], ok |-> TRUE]
            ELSE DecayDay(run[k-1], c, c.lastDecayDay[a] + k, active)
    IN  run[n]

\* mutant: the grown rate is not stored
DecayedRateLost(c, a, active, today) ==
    LET n    == DaysToSettle(c, a, today)
        last == DecayRun(c, a, active, n)
    IN  [ok |-> last.ok,
         citizen |-> [c EXCEPT !.baseHonor[a] = last.honor, !.lastDecayDay[a] = @ + n]]

Decayed(c, a, active, today) ==
    LET n    == DaysToSettle(c, a, today)
        last == DecayRun(c, a, active, n)
    IN  [ok |-> last.ok,
         citizen |-> [c EXCEPT !.baseHonor[a]          = last.honor,
                               !.lastDecayDay[a]       = @ + n,
                               !.decayRateAtLastDay[a] = last.rate]]

-----------------------------------------------------------------------------
(* Volunteer weeks: calendar weeks, each counted once it is complete. *)

\* The last week all of whose days are at or before throughDay; it is negative,
\* hence below every processed week, where the source returns early.
LastCompleteWeek(throughDay) == (throughDay - (DAYS_PER_WEEK - 1)) \div DAYS_PER_WEEK

Qualified(week, volunteer) ==
    \E i \in 0..(DAYS_PER_WEEK - 1) : week * DAYS_PER_WEEK + i \in volunteer

CapitalBonus(capital) ==
    LET share == (capital * VOLUNTEER_CAPITAL_PCT) \div BASIS_POINTS
    IN  IF share < VOLUNTEER_CAPITAL_MIN THEN VOLUNTEER_CAPITAL_MIN ELSE share

GrownMult(mult) == (mult * VOLUNTEER_BONUS_NUM) \div VOLUNTEER_BONUS_DEN

VolunteerWeek(s, week, volunteer) ==
    IF s.ok /\ Qualified(week, volunteer)
    THEN [capital |-> s.capital + CapitalBonus(s.capital),
          mult    |-> GrownMult(s.mult),
          weeks   |-> s.weeks + 1,
          counted |-> s.counted \cup {week},
          ok      |-> /\ s.mult * VOLUNTEER_BONUS_NUM <= MAX_UINT
                      /\ s.capital * VOLUNTEER_CAPITAL_PCT <= MAX_UINT
                      /\ s.capital + CapitalBonus(s.capital) <= MAX_UINT]
    ELSE s

WeeksRun(c, volunteer, n) ==
    LET run[k \in 0..n] ==
            IF k = 0
            THEN [capital |-> c.baseHonor["CAPITAL"], mult |-> c.volunteerMultBP,
                  weeks |-> c.volunteerWeeks, counted |-> {}, ok |-> TRUE]
            ELSE VolunteerWeek(run[k-1], c.lastProcessedWeek + k, volunteer)
    IN  run[n]

\* mutant: the early return for weeks already processed is missing
WeeksProcessedNoReturn(c, volunteer, throughDay) ==
    LET pending == LastCompleteWeek(throughDay) - c.lastProcessedWeek
        last    == WeeksRun(c, volunteer, IF pending > 0 THEN pending ELSE 0)
    IN  [ok |-> last.ok,
         counted |-> last.counted,
         citizen |-> [c EXCEPT !.baseHonor["CAPITAL"] = last.capital,
                               !.volunteerMultBP      = last.mult,
                               !.volunteerWeeks       = last.weeks,
                               !.lastProcessedWeek    = @ + pending]]

WeeksProcessed(c, volunteer, throughDay) ==
    LET pending == LastCompleteWeek(throughDay) - c.lastProcessedWeek
        n       == IF pending > 0 THEN pending ELSE 0
        last    == WeeksRun(c, volunteer, n)
    IN  [ok |-> last.ok,
         counted |-> last.counted,
         citizen |-> [c EXCEPT !.baseHonor["CAPITAL"] = last.capital,
                               !.volunteerMultBP      = last.mult,
                               !.volunteerWeeks       = last.weeks,
                               !.lastProcessedWeek    = @ + n]]

-----------------------------------------------------------------------------
(* Views.  getCurrentHonor repeats the loop of the decay with early returns.  A *)
(* view is called apart from any transaction: where a checked product overflows *)
(* the caller gets no answer. *)

\* mutant: the view knows no sabbath
CurrentHonorNoSabbath(c, a, active, today) ==
    LET n == DaysToSettle(c, a, today)
        view[k \in 0..n] ==
            IF k = 0
            THEN [rate |-> c.decayRateAtLastDay[a], honor |-> c.baseHonor[a]]
            ELSE LET rate == GrownRate(view[k-1].rate)
                     kept == IF c.lastDecayDay[a] + k \in active
                             THEN view[k-1].honor
                             ELSE (view[k-1].honor * (BASIS_POINTS - rate)) \div BASIS_POINTS
                 IN  [rate |-> rate, honor |-> kept]
    IN  IF c.isCitizen THEN view[n].honor ELSE 0

ViewRun(c, a, active, n) ==
    LET view[k \in 0..n] ==
            IF k = 0
            THEN [rate |-> c.decayRateAtLastDay[a], honor |-> c.baseHonor[a]]
            ELSE LET day  == c.lastDecayDay[a] + k
                     rate == GrownRate(view[k-1].rate)
                     kept == IF IsSabbath(c, day) \/ day \in active
                             THEN view[k-1].honor
                             ELSE (view[k-1].honor * (BASIS_POINTS - rate)) \div BASIS_POINTS
                 IN  [rate |-> rate, honor |-> kept]
    IN  view[n]

CurrentHonor(c, a, active, today) ==
    IF c.isCitizen THEN ViewRun(c, a, active, DaysToSettle(c, a, today)).honor ELSE 0

\* When the view answers: each day's checked product fits.  Where the source
\* returns early, at honor 0 or the full rate, the products are 0 from there on.
CurrentHonorFits(c, a, active, today) ==
    c.isCitizen =>
        \A k \in 1..DaysToSettle(c, a, today) :
            LET s   == ViewRun(c, a, active, k - 1)
                day == c.lastDecayDay[a] + k
            IN  \/ IsSabbath(c, day) \/ day \in active
                \/ s.honor * (BASIS_POINTS - GrownRate(s.rate)) <= MAX_UINT

\* mutant: the view counts the current week before it is over
CurrentMultBPEarly(c, volunteer, today) ==
    LET pending == today \div DAYS_PER_WEEK - c.lastProcessedWeek
        n       == IF pending > 0 THEN pending ELSE 0
        mult[k \in 0..n] ==
            IF k = 0 THEN c.volunteerMultBP
            ELSE IF Qualified(c.lastProcessedWeek + k, volunteer)
                 THEN GrownMult(mult[k-1]) ELSE mult[k-1]
    IN  mult[n]

\* The weeks a view or a settlement through that day counts.
WeeksPending(c, day) ==
    LET pending == LastCompleteWeek(day) - c.lastProcessedWeek
    IN  IF pending > 0 THEN pending ELSE 0

MultRun(c, volunteer, n) ==
    LET mult[k \in 0..n] ==
            IF k = 0 THEN c.volunteerMultBP
            ELSE IF Qualified(c.lastProcessedWeek + k, volunteer)
                 THEN GrownMult(mult[k-1]) ELSE mult[k-1]
    IN  mult[n]

\* The multiplier counts complete weeks up to today, settled or not.
CurrentMultBP(c, volunteer, today) == MultRun(c, volunteer, WeeksPending(c, today))

CurrentMultBPFits(c, volunteer, today) ==
    \A k \in 1..WeeksPending(c, today) :
        Qualified(c.lastProcessedWeek + k, volunteer)
          => MultRun(c, volunteer, k - 1) * VOLUNTEER_BONUS_NUM <= MAX_UINT

\* mutant: the iterate that ended the loop is returned
IsqrtLastIterate(y) ==
    LET newton[z \in PosNat] ==
            LET x == (y \div z + z) \div 2 IN IF x < z THEN newton[x] ELSE x
    IN  IF y > 3 THEN newton[y \div 2 + 1] ELSE IF y # 0 THEN 1 ELSE 0

\* Newton's iteration, while the iterate decreases.  It starts at y, whose first
\* successor y/2 + 1 is below it for every y > 3.
Isqrt(y) ==
    LET newton[z \in PosNat] ==
            LET x == (y \div z + z) \div 2 IN IF x < z THEN newton[x] ELSE z
    IN  IF y > 3 THEN newton[y \div 2 + 1] ELSE IF y # 0 THEN 1 ELSE 0

BaseVP(c, active, today) ==
    LET root(a) == Isqrt(CurrentHonor(c, a, active, today))
    IN  root("CAPITAL") + LABOR_WEIGHT * root("LABOR")
           + VERIFICATION_WEIGHT * root("VERIFICATION")

SqrtFactor(c, volunteer, today) ==
    Isqrt(CurrentMultBP(c, volunteer, today) * BASIS_POINTS)

VotingPower(c, active, volunteer, today) ==
    IF c.isCitizen
    THEN (BaseVP(c, active, today) * SqrtFactor(c, volunteer, today)) \div BASIS_POINTS
    ELSE 0

\* When the voting power answers: every view it asks does, and its two products
\* fit.  The sum of the roots is no larger than its product with the factor.
VotingPowerFits(c, active, volunteer, today) ==
    c.isCitizen =>
        /\ \A a \in Axis : CurrentHonorFits(c, a, active, today)
        /\ CurrentMultBPFits(c, volunteer, today)
        /\ CurrentMultBP(c, volunteer, today) * BASIS_POINTS <= MAX_UINT
        /\ BaseVP(c, active, today) * SqrtFactor(c, volunteer, today) <= MAX_UINT
=============================================================================
