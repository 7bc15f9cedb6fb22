---------------------------- MODULE MCSeumHistory ---------------------------
(* One worker of SeumHistory, with one day that may be attested as active. *)
EXTENDS SeumHistory

CONSTANTS w1, k1, i1, i2, i3

PoP == {[worker |-> w1, id |-> i1, expiry |-> MaxDay, signer |-> k1]}
Mints == {[worker |-> w1, kWRAmount |-> 60, id |-> i2, expiry |-> MaxDay, signer |-> k1]}
Days == {[worker |-> w1, day |-> 1, active |-> TRUE, volunteer |-> FALSE, id |-> i3,
          expiry |-> MaxDay, signer |-> k1]}
=============================================================================
