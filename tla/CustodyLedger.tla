--------------------------- MODULE CustodyLedger ----------------------------
(***************************************************************************)
(* What the bridge promises about a person's kWR: locked on Zion, it is in *)
(* flight, then a claim on the civic contract, then owed once the person   *)
(* has left, and is released on Zion at last.  It moves in this order only *)
(* and is nowhere twice.                                                   *)
(***************************************************************************)
EXTENDS Integers

CONSTANTS
    Person,
    Amount  \* the amounts that move

VARIABLES
    escrow,  \* escrow[p]: held on Zion
    flight,  \* flight[p]: locked on Zion, not yet minted
    claim,   \* claim[p]: minted on the civic contract
    owed     \* owed[p]: requested by leaving, not yet released

custody == <<escrow, flight, claim, owed>>

Init ==
    /\ escrow = [p \in Person |-> 0] /\ flight = [p \in Person |-> 0]
    /\ claim = [p \in Person |-> 0] /\ owed = [p \in Person |-> 0]

Lock(p, n) ==
    /\ n > 0
    /\ escrow' = [escrow EXCEPT ![p] = @ + n]
    /\ flight' = [flight EXCEPT ![p] = @ + n]
    /\ UNCHANGED <<claim, owed>>

Mint(p, n) ==
    /\ n \in 1..flight[p]
    /\ flight' = [flight EXCEPT ![p] = @ - n]
    /\ claim' = [claim EXCEPT ![p] = @ + n]
    /\ UNCHANGED <<escrow, owed>>

Leave(p) ==
    /\ claim' = [claim EXCEPT ![p] = 0]
    /\ owed' = [owed EXCEPT ![p] = @ + claim[p]]
    /\ UNCHANGED <<escrow, flight>>

Release(p, n) ==
    /\ n \in 1..owed[p]
    /\ escrow' = [escrow EXCEPT ![p] = @ - n]
    /\ owed' = [owed EXCEPT ![p] = @ - n]
    /\ UNCHANGED <<flight, claim>>

Next == \E p \in Person :
    \/ Leave(p)
    \/ \E n \in Amount : Lock(p, n) \/ Mint(p, n) \/ Release(p, n)

Spec == Init /\ [][Next]_custody

-----------------------------------------------------------------------------
\* Every kWR in escrow is in exactly one of the three stages, and no stage holds
\* kWR that is not in escrow.
Conserved ==
    \A p \in Person :
        /\ flight[p] >= 0 /\ claim[p] >= 0 /\ owed[p] >= 0
        /\ escrow[p] = flight[p] + claim[p] + owed[p]
=============================================================================
