---------------------------- MODULE MCSeumHorizon ---------------------------
(* The constants of the source; 2^31 - 1 stands for the largest integer. *)
EXTENDS SeumHorizon

Largest == 2147483647
NoDays == {}
EveryThirdDay == {d \in 0..600 : d % 3 = 0}
DayPatterns == {NoDays, EveryThirdDay}
=============================================================================
