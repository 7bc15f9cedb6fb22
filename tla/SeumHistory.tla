----------------------------- MODULE SeumHistory ----------------------------
(***************************************************************************)
(* SeumStandard with a history of the days each settlement decayed, to     *)
(* compare them with the days that were attested as active.                *)
(***************************************************************************)
EXTENDS SeumStandard

VARIABLE decayedDays  \* decayedDays[w]: days of this life on which honor of w was decayed

hvars == <<vars, decayedDays>>

\* The days one step decays: those settled, unless the axis held no honor, the
\* day was a sabbath or its bit was already set.
DecayedNow(w) ==
    LET c == citizens[w]  d == citizens'[w] IN
    UNION {{day \in (c.lastDecayDay[a] + 1)..d.lastDecayDay[a] :
               /\ c.baseHonor[a] # 0
               /\ ~IsSabbath(c, day)
               /\ day \notin activeDays[w]} : a \in Axis}

HInit == Init /\ decayedDays = [w \in Worker |-> {}]

HNext ==
    /\ Next
    /\ decayedDays' = [w \in Worker |->
                         IF SameLife(w) THEN decayedDays[w] \cup DecayedNow(w) ELSE {}]

HSpec == HInit /\ [][HNext]_hvars

-----------------------------------------------------------------------------
\* DEV_SETUP.md: a day with at least two hours of attested activity is exempt
\* from decay.  A settlement decays the current day too, and nothing gives the
\* honor back when the day is attested afterwards.
ActiveDaysAreExempt == \A w \in Worker : decayedDays[w] \cap activeDays[w] = {}
=============================================================================
