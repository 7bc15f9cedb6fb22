----------------------------- MODULE SeumHorizon ----------------------------
(***************************************************************************)
(* One citizen over a year and a half under the constants of the source.   *)
(* The citizen joins on day 0 and bridges Deposit the same day; afterwards *)
(* a call settles the capital axis after gaps of any length in Gaps, also  *)
(* longer than the 90 days one call settles.                               *)
(***************************************************************************)
EXTENDS SeumMath

CONSTANTS
    Deposit,     \* kWR bridged on the day of joining
    Gaps,        \* days between two settlements
    Horizon,     \* bound on the clock
    ActiveDays,  \* the sets of attested active days to consider
    RootStep     \* how many square roots each day checks

ASSUME HorizonAssumption ==
    /\ Deposit \in Nat /\ INITIAL_CAPITAL_HONOR + Deposit <= MAX_UINT
    /\ Gaps \subseteq Nat /\ Horizon \in Nat /\ RootStep \in Nat

VARIABLES today, c, active

vars == <<today, c, active>>

Init ==
    /\ today = 0
    /\ active \in ActiveDays
    /\ c = [Joined(NoCitizen, 0) EXCEPT !.lockedKWR = Deposit,
                                        !.baseHonor["CAPITAL"] = @ + Deposit]

Settle(gap) ==
    /\ today + gap <= Horizon
    /\ today' = today + gap
    /\ LET s == Decayed(c, "CAPITAL", active, today')
       IN  s.ok /\ c' = s.citizen
    /\ UNCHANGED active

Next == \E gap \in Gaps : Settle(gap)

Spec == Init /\ [][Next]_vars

-----------------------------------------------------------------------------
SettledDays == c.lastDecayDay["CAPITAL"] - c.joinDay
Rate == c.decayRateAtLastDay["CAPITAL"]

\* Integer division delays the growth of the rate: it is full from the 520th
\* settled day on and not before, whatever the gaps between settlements were.
FullRateFromDay520 == (Rate = BASIS_POINTS) <=> (SettledDays >= 520)

\* DEV_SETUP.md: the decay rate 1% x 1.01^n reaches its 100% cap on day 462.
FullRateByDay462 == SettledDays >= 462 => Rate = BASIS_POINTS

\* Newton's iteration ends at the integer square root (sqrt, int_sqrt).
RootsAreExact ==
    \A y \in (today * RootStep)..(today * RootStep + RootStep - 1) :
        LET r == Isqrt(y) IN r * r <= y /\ y < (r + 1) * (r + 1)
=============================================================================
