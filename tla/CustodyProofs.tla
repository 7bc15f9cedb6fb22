---------------------------- MODULE CustodyProofs ----------------------------
(***************************************************************************)
(* The ledger of custody conserves kWR, for any persons and any amounts.   *)
(***************************************************************************)
EXTENDS CustodyLedger, TLAPS

Sorted ==
    /\ escrow \in [Person -> Int] /\ flight \in [Person -> Int]
    /\ claim \in [Person -> Int] /\ owed \in [Person -> Int]

Balanced(p) ==
    /\ flight[p] >= 0 /\ claim[p] >= 0 /\ owed[p] >= 0
    /\ escrow[p] = flight[p] + claim[p] + owed[p]

Ledger == Sorted /\ Conserved

\* A step that moves kWR of one person leaves those of the others alone.
LEMMA LockConserves ==
    ASSUME Ledger, NEW p \in Person, NEW n \in Int, Lock(p, n)
    PROVE  Ledger'
<1>1. Sorted'
  BY DEF Ledger, Sorted, Lock
<1>2. ASSUME NEW q \in Person PROVE Balanced(q)'
  <2>1. Balanced(q)
    BY DEF Ledger, Conserved, Balanced
  <2>2. CASE q # p
    BY <2>1, <2>2 DEF Lock, Ledger, Sorted, Balanced
  <2>3. CASE q = p
    BY <2>1, <2>3 DEF Lock, Ledger, Sorted, Balanced
  <2> QED
    BY <2>2, <2>3
<1> QED
  BY <1>1, <1>2 DEF Ledger, Conserved, Balanced

LEMMA MintConserves ==
    ASSUME Ledger, NEW p \in Person, NEW n, Mint(p, n)
    PROVE  Ledger'
<1>1. n \in Int /\ n > 0 /\ n <= flight[p]
  BY DEF Mint, Ledger, Sorted
<1>2. Sorted'
  BY <1>1 DEF Ledger, Sorted, Mint
<1>3. ASSUME NEW q \in Person PROVE Balanced(q)'
  <2>1. Balanced(q)
    BY DEF Ledger, Conserved, Balanced
  <2>2. CASE q # p
    BY <1>1, <2>1, <2>2 DEF Mint, Ledger, Sorted, Balanced
  <2>3. CASE q = p
    BY <1>1, <2>1, <2>3 DEF Mint, Ledger, Sorted, Balanced
  <2> QED
    BY <2>2, <2>3
<1> QED
  BY <1>2, <1>3 DEF Ledger, Conserved, Balanced

LEMMA LeaveConserves ==
    ASSUME Ledger, NEW p \in Person, Leave(p)
    PROVE  Ledger'
<1>1. Sorted'
  BY DEF Ledger, Sorted, Leave
<1>2. ASSUME NEW q \in Person PROVE Balanced(q)'
  <2>1. Balanced(q)
    BY DEF Ledger, Conserved, Balanced
  <2>2. CASE q # p
    BY <2>1, <2>2 DEF Leave, Ledger, Sorted, Balanced
  <2>3. CASE q = p
    BY <2>1, <2>3 DEF Leave, Ledger, Sorted, Balanced
  <2> QED
    BY <2>2, <2>3
<1> QED
  BY <1>1, <1>2 DEF Ledger, Conserved, Balanced

LEMMA ReleaseConserves ==
    ASSUME Ledger, NEW p \in Person, NEW n, Release(p, n)
    PROVE  Ledger'
<1>1. n \in Int /\ n > 0 /\ n <= owed[p]
  BY DEF Release, Ledger, Sorted
<1>2. Sorted'
  BY <1>1 DEF Ledger, Sorted, Release
<1>3. ASSUME NEW q \in Person PROVE Balanced(q)'
  <2>1. Balanced(q)
    BY DEF Ledger, Conserved, Balanced
  <2>2. CASE q # p
    BY <1>1, <2>1, <2>2 DEF Release, Ledger, Sorted, Balanced
  <2>3. CASE q = p
    BY <1>1, <2>1, <2>3 DEF Release, Ledger, Sorted, Balanced
  <2> QED
    BY <2>2, <2>3
<1> QED
  BY <1>2, <1>3 DEF Ledger, Conserved, Balanced

LEMMA InitLedger == Init => Ledger
BY DEF Init, Ledger, Sorted, Conserved

LEMMA StepLedger ==
    ASSUME Amount \subseteq Int, Ledger, [Next]_custody
    PROVE  Ledger'
<1>1. CASE Next
  BY <1>1, LockConserves, MintConserves, LeaveConserves, ReleaseConserves DEF Next
<1>2. CASE UNCHANGED custody
  BY <1>2 DEF custody, Ledger, Sorted, Conserved
<1> QED
  BY <1>1, <1>2

\* Whatever moves, every kWR in escrow is in flight, a claim or owed, once: what
\* Bridge, which implements the ledger (BridgeImplementsCustody), inherits from it.
THEOREM LedgerConserves ==
    ASSUME Amount \subseteq Int
    PROVE  Spec => []Conserved
<1>1. Ledger /\ [Next]_custody => Ledger'
  BY StepLedger
<1>2. Ledger => Conserved
  BY DEF Ledger
<1> QED
  BY <1>1, <1>2, InitLedger, PTL DEF Spec
=============================================================================
