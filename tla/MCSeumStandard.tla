--------------------------- MODULE MCSeumStandard ---------------------------
(* Finite instances of SeumStandard: the signed payloads TLC may submit. *)
EXTENDS SeumStandard, TLC

CONSTANTS w1, w2, k1, k2, i1, i2, i3, i4, i5, i6

\* Membership and money: two workers, two keys, an expired payload, and an
\* identifier (i2) signed both as a lock of w1 and as a nonce of w2.  The honor
\* delta leaves w1's labor axis one settlement away from overflow, or none if the
\* day is active; the second volunteer week of w2 overflows the multiplier.
MoneyPoP ==
    {[worker |-> w1, id |-> i1, expiry |-> MaxDay, signer |-> k1],
     [worker |-> w2, id |-> i2, expiry |-> MaxDay, signer |-> k2]}
MoneyMints ==
    [worker : {w1}, kWRAmount : {60}, id : {i2, i3}, expiry : {MaxDay}, signer : {k1}]
      \cup [worker : {w2}, kWRAmount : {40, 0}, id : {i4}, expiry : {1}, signer : {k2}]
MoneyHonors ==
    [worker : {w1}, axis : {"LABOR", "CAPITAL"}, honorDelta : {MAX_UINT}, id : {i3, i4},
     expiry : {MaxDay}, signer : {k1}]
MoneyDays ==
    [worker : {w2}, day : {3, 5}, active : {FALSE}, volunteer : {TRUE}, id : {i1, i3},
     expiry : {MaxDay}, signer : {k2}]
      \cup [worker : {w1}, day : {2}, active : {TRUE}, volunteer : {FALSE}, id : {i3},
            expiry : {MaxDay}, signer : {k1}]

\* The life of the citizen in time: one worker, one key, every day attestable.
TimePoP == {[worker |-> w1, id |-> i1, expiry |-> MaxDay, signer |-> k1]}
TimeMints == {[worker |-> w1, kWRAmount |-> 60, id |-> i2, expiry |-> MaxDay, signer |-> k1]}
TimeHonors ==
    [worker : {w1}, axis : {"LABOR"}, honorDelta : {50}, id : {i3},
     expiry : {MaxDay}, signer : {k1}]
TimeDays ==
    [worker : {w1}, day : {2, 4, 5}, active : {FALSE}, volunteer : {TRUE}, id : {i5},
     expiry : {MaxDay}, signer : {k1}]
      \cup [worker : {w1}, day : {3, 4}, active : {TRUE}, volunteer : BOOLEAN, id : {i6},
            expiry : {MaxDay}, signer : {k1}]
=============================================================================
