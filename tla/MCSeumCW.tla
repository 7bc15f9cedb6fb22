------------------------------ MODULE MCSeumCW ------------------------------
(* A finite instance of SeumCW: two workers, two keys, two denominations. *)
EXTENDS SeumCW, TLC

CONSTANTS w1, w2, k1, k2, i1, i2, kwr, dust

\* w1 may attach nothing, only a strange coin, or both coins at once.
Deposits ==
    [worker : {w1}, funds : {(kwr :> 0 @@ dust :> 1), (kwr :> 60 @@ dust :> 1)}]
      \cup [worker : {w2}, funds : {(kwr :> 40 @@ dust :> 0)}]
Honors ==
    [worker : {w1}, axis : {"LABOR", "CAPITAL"}, honorDelta : {50}, id : {i1}]
      \cup [worker : {w1}, axis : {"LABOR"}, honorDelta : {MAX_UINT}, id : {i2}]
Days ==
    [worker : {w1}, day : {2}, active : {TRUE}, volunteer : {TRUE}, id : {i1}]
Coins == {(kwr :> 5 @@ dust :> 5)}
=============================================================================
