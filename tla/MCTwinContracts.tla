--------------------------- MODULE MCTwinContracts --------------------------
(* One worker on both chains, with two locks, a job and volunteer days. *)
EXTENDS TwinContracts, TLC

CONSTANTS kwr, w1, k1, i1, i2, i3, i4, i5

Signed(payload) == payload @@ [expiry |-> MaxDay, signer |-> k1]
PoP == {Signed([worker |-> w1, id |-> i1])}
Mints == {Signed([worker |-> w1, kWRAmount |-> 30, id |-> i2]),
          Signed([worker |-> w1, kWRAmount |-> 60, id |-> i3])}
Honors == {Signed([worker |-> w1, axis |-> "LABOR", honorDelta |-> 30, id |-> i4])}
Days == {Signed([worker |-> w1, day |-> d, active |-> a, volunteer |-> TRUE, id |-> i5]) :
            d \in {3, 5}, a \in BOOLEAN}
=============================================================================
