---------------------------- MODULE CivicLedger -----------------------------
(***************************************************************************)
(* What a civic contract promises about people and money, on either chain: *)
(* only a verified person becomes a member, only a member is credited or   *)
(* deposits, a member may leave at any time and is released exactly the    *)
(* claim, and every token is spent at most once.  How much honor decays    *)
(* plays no part in it.                                                    *)
(***************************************************************************)
EXTENDS Integers

CONSTANTS
    Person,
    Amount,          \* the amounts that may be deposited
    VerifySpends,    \* the sets of tokens a verification may spend
    DepositSpends,   \* ... a deposit
    CreditSpends     \* ... any other credit

VARIABLES
    verified,    \* the persons proved to be one
    members,     \* the persons who are members
    claim,       \* claim[p]: what p is released when leaving now
    deposited,   \* deposited[p]: total deposited
    released,    \* released[p]: total released
    spent        \* the tokens used

ledger == <<verified, members, claim, deposited, released, spent>>

Init ==
    /\ verified = {} /\ members = {} /\ spent = {}
    /\ claim = [p \in Person |-> 0]
    /\ deposited = [p \in Person |-> 0]
    /\ released = [p \in Person |-> 0]

Spend(tokens) ==
    /\ tokens \cap spent = {}
    /\ spent' = spent \cup tokens

Verify(p, tokens) ==
    /\ Spend(tokens)
    /\ verified' = verified \cup {p}
    /\ UNCHANGED <<members, claim, deposited, released>>

Enter(p) ==
    /\ p \in verified \ members
    /\ members' = members \cup {p}
    /\ UNCHANGED <<verified, claim, deposited, released, spent>>

Deposit(p, amount, tokens) ==
    /\ p \in members
    /\ amount > 0
    /\ Spend(tokens)
    /\ claim' = [claim EXCEPT ![p] = @ + amount]
    /\ deposited' = [deposited EXCEPT ![p] = @ + amount]
    /\ UNCHANGED <<verified, members, released>>

Credit(p, tokens) ==
    /\ p \in members
    /\ Spend(tokens)
    /\ UNCHANGED <<verified, members, claim, deposited, released>>

Leave(p) ==
    /\ p \in members
    /\ members' = members \ {p}
    /\ released' = [released EXCEPT ![p] = @ + claim[p]]
    /\ claim' = [claim EXCEPT ![p] = 0]
    /\ UNCHANGED <<verified, deposited, spent>>

Next == \E p \in Person :
    \/ Enter(p)
    \/ Leave(p)
    \/ \E tokens \in VerifySpends : Verify(p, tokens)
    \/ \E amount \in Amount, tokens \in DepositSpends : Deposit(p, amount, tokens)
    \/ \E tokens \in CreditSpends : Credit(p, tokens)

Spec == Init /\ [][Next]_ledger
=============================================================================
