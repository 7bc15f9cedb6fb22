------------------------------- MODULE SeumCW -------------------------------
(***************************************************************************)
(* The CosmWasm twin seum-standard.  One action per ExecuteMsg; a message  *)
(* that returns an error, or overflows under the checked arithmetic of the *)
(* release build, changes nothing and is an action that is not enabled.    *)
(* Payloads are not signed: the attester sends them.  kWR is a coin of the *)
(* chain, so contribute_capital carries it and ragequit sends it back.     *)
(*                                                                         *)
(* CITIZENS holds no entry where the model holds NoCitizen; every entry is *)
(* saved with is_citizen set.                                              *)
(***************************************************************************)
EXTENDS SeumMath, FiniteSetsExt

CONSTANTS
    Worker,
    Badge,
    Key,            \* addresses that may be the attester
    Governance,     \* InstantiateMsg.governance
    Id,             \* the strings used as job_id and nonce
    FirstAttester,  \* InstantiateMsg.attester
    GenesisDay,
    MaxDay,         \* bound on the clock
    MaxContributed, \* bound on what one worker contributes in all lives
    KWR,            \* InstantiateMsg.kwr_denom
    Denom,          \* all denominations of the chain
    Contributions,  \* contribute_capital: the sender and the coins attached
    HonorCalls,     \* the arguments of attest_honor that are ever sent
    DayCalls,       \* the arguments of attest_day that are ever sent
    Gifts           \* coins sent to the contract otherwise, as [Denom -> Uint]

ASSUME CallsAssumption ==
    /\ GenesisDay \in Nat /\ MaxDay \in Nat /\ GenesisDay <= MaxDay
    /\ MaxContributed \in Nat
    /\ IsFiniteSet(Worker)
    /\ FirstAttester \in Key /\ KWR \in Denom
    /\ Contributions \subseteq [worker : Worker, funds : [Denom -> Uint]]
    /\ HonorCalls \subseteq [worker : Worker, axis : Axis, honorDelta : Uint, id : Id]
    /\ DayCalls \subseteq
          [worker : Worker, day : Nat, active : BOOLEAN, volunteer : BOOLEAN, id : Id]
    /\ Gifts \subseteq [Denom -> Uint]

VARIABLES
    today,         \* env.block.time / SECONDS_PER_DAY
    attester,      \* CONFIG.attester
    citizens,      \* CITIZENS
    hasBadge,      \* HAS_BADGE: the badges saved as true
    attestedPoP,   \* ATTESTED_POP
    activeDays,    \* ACTIVE_DAY_BITS[w] as a set of days
    volunteerDays, \* VOLUNTEER_DAY_BITS[w] as a set of days
    consumed,      \* CONSUMED
    held,          \* the bank's balance of the contract, by denomination
    gifted,        \* the part of it that came outside of contribute_capital
    contributed,   \* contributed[w]: total of w's contributions
    paidOut        \* paidOut[w]: total of the BankMsg::Send to w

contract == <<attester, citizens, hasBadge, attestedPoP, activeDays, volunteerDays, consumed>>
bank == <<held, gifted, contributed, paidOut>>
vars == <<today, contract, bank>>

TypeOK ==
    /\ today \in GenesisDay..MaxDay
    /\ attester \in Key
    /\ citizens \in [Worker -> Citizen]
    /\ hasBadge \in [Worker -> SUBSET Badge]
    /\ attestedPoP \subseteq Worker
    /\ activeDays \in [Worker -> SUBSET Nat]
    /\ volunteerDays \in [Worker -> SUBSET Nat]
    /\ consumed \subseteq Id
    /\ held \in [Denom -> Int] /\ gifted \in [Denom -> Nat]
    /\ contributed \in [Worker -> Nat] /\ paidOut \in [Worker -> Nat]

Init ==
    /\ today = GenesisDay
    /\ attester = FirstAttester
    /\ citizens = [w \in Worker |-> NoCitizen]
    /\ hasBadge = [w \in Worker |-> {}]
    /\ attestedPoP = {}
    /\ activeDays = [w \in Worker |-> {}]
    /\ volunteerDays = [w \in Worker |-> {}]
    /\ consumed = {}
    /\ held = [d \in Denom |-> 0] /\ gifted = [d \in Denom |-> 0]
    /\ contributed = [w \in Worker |-> 0] /\ paidOut = [w \in Worker |-> 0]

-----------------------------------------------------------------------------
(* Settlement.  Decay, credit and weeks come in this order on every axis: the *)
(* EVM contract processes the weeks before it credits.                        *)

Result(ok, c) == [ok |-> ok, citizen |-> c]

\* mutant: the credit is added but the lock is not recorded
CreditedUnlocked(w, a, n, lock) ==
    LET decay == Decayed(citizens[w], a, activeDays[w], today)
        paid  == [decay.citizen EXCEPT !.baseHonor[a] = @ + n]
        weeks == WeeksProcessed(paid, volunteerDays[w], paid.lastDecayDay[a])
    IN  Result(decay.ok /\ weeks.ok /\ paid.baseHonor[a] <= MAX_UINT, weeks.citizen)

\* mutant: attested honor is locked like a contribution
CreditedLockingHonor(w, a, n, lock) ==
    LET decay == Decayed(citizens[w], a, activeDays[w], today)
        paid  == [decay.citizen EXCEPT !.baseHonor[a] = @ + n, !.lockedKWR = @ + n]
        weeks == WeeksProcessed(paid, volunteerDays[w], paid.lastDecayDay[a])
    IN  Result(/\ decay.ok /\ weeks.ok
               /\ paid.baseHonor[a] <= MAX_UINT /\ paid.lockedKWR <= MAX_UINT,
               weeks.citizen)

\* mutant: the additions are not checked
CreditedUnchecked(w, a, n, lock) ==
    LET decay == Decayed(citizens[w], a, activeDays[w], today)
        paid  == [decay.citizen EXCEPT !.baseHonor[a] = @ + n, !.lockedKWR = @ + lock]
        weeks == WeeksProcessed(paid, volunteerDays[w], paid.lastDecayDay[a])
    IN  Result(decay.ok /\ weeks.ok, weeks.citizen)

\* mutant: weeks up to today, not up to the axis just settled
CreditedThroughToday(w, a, n, lock) ==
    LET decay == Decayed(citizens[w], a, activeDays[w], today)
        paid  == [decay.citizen EXCEPT !.baseHonor[a] = @ + n, !.lockedKWR = @ + lock]
        weeks == WeeksProcessed(paid, volunteerDays[w], today)
    IN  Result(decay.ok /\ weeks.ok, weeks.citizen)

\* apply_decay, the credit n with kWR lock, process_weeks_with_storage; each
\* addition is checked.
Credited(w, a, n, lock) ==
    LET decay == Decayed(citizens[w], a, activeDays[w], today)
        paid  == [decay.citizen EXCEPT !.baseHonor[a] = @ + n, !.lockedKWR = @ + lock]
        weeks == WeeksProcessed(paid, volunteerDays[w], paid.lastDecayDay[a])
    IN  Result(/\ decay.ok /\ weeks.ok
               /\ paid.baseHonor[a] <= MAX_UINT /\ paid.lockedKWR <= MAX_UINT,
               weeks.citizen)

-----------------------------------------------------------------------------
(* Membership. *)

AttestPoP(sender, w) ==
    /\ sender = attester
    /\ attestedPoP' = attestedPoP \cup {w}
    /\ UNCHANGED <<today, attester, citizens, hasBadge, activeDays, volunteerDays, consumed, bank>>

Join(w) ==
    /\ w \in attestedPoP
    /\ ~citizens[w].isCitizen
    /\ citizens' = [citizens EXCEPT ![w] = Joined(NoCitizen, today)]
    /\ UNCHANGED <<today, attester, hasBadge, attestedPoP, activeDays, volunteerDays,
                   consumed, bank>>

SetSabbathDay(w, offset) ==
    /\ offset < DAYS_PER_WEEK
    /\ citizens[w].isCitizen
    /\ citizens' = [citizens EXCEPT ![w].sabbathOffset = offset]
    /\ UNCHANGED <<today, attester, hasBadge, attestedPoP, activeDays, volunteerDays,
                   consumed, bank>>

\* mutant: the entry of the citizen is kept, with its lock
RagequitKeepingLock(w) ==
    /\ citizens[w].isCitizen
    /\ hasBadge' = [hasBadge EXCEPT ![w] = {}]
    /\ citizens' = [citizens EXCEPT ![w].isCitizen = FALSE]
    /\ held' = [held EXCEPT ![KWR] = @ - citizens[w].lockedKWR]
    /\ paidOut' = [paidOut EXCEPT ![w] = @ + citizens[w].lockedKWR]
    /\ UNCHANGED <<today, attester, attestedPoP, activeDays, volunteerDays, consumed,
                   gifted, contributed>>

\* The bank send is executed with the message; an amount of 0 sends nothing.
Ragequit(w) ==
    LET amount == citizens[w].lockedKWR IN
    /\ citizens[w].isCitizen
    /\ amount <= held[KWR]
    /\ hasBadge' = [hasBadge EXCEPT ![w] = {}]
    /\ citizens' = [citizens EXCEPT ![w] = NoCitizen]
    /\ held' = [held EXCEPT ![KWR] = @ - amount]
    /\ paidOut' = [paidOut EXCEPT ![w] = @ + amount]
    /\ UNCHANGED <<today, attester, attestedPoP, activeDays, volunteerDays, consumed,
                   gifted, contributed>>

-----------------------------------------------------------------------------
(* Attested honor. *)

\* The coins arrive with the message.  Only the kwr_denom coin is looked at:
\* coins of other denominations are kept and credited to nobody.
ContributeCapital(call) ==
    LET w      == call.worker
        amount == call.funds[KWR]
        s      == Credited(w, "CAPITAL", amount, amount)
    IN  /\ w \in attestedPoP
        /\ citizens[w].isCitizen
        /\ amount > 0
        /\ contributed[w] + amount <= MaxContributed
        /\ s.ok
        /\ citizens' = [citizens EXCEPT ![w] = s.citizen]
        /\ held' = [d \in Denom |-> held[d] + call.funds[d]]
        /\ contributed' = [contributed EXCEPT ![w] = @ + amount]
        /\ UNCHANGED <<today, attester, hasBadge, attestedPoP, activeDays, volunteerDays,
                       consumed, gifted, paidOut>>

\* mutant: no replay check
FreshAlways(id) == TRUE

\* job_id and nonce share one map.
Fresh(id) == id \notin consumed

AttestHonor(sender, call) ==
    LET w == call.worker
        s == Credited(w, call.axis, call.honorDelta, 0)
    IN  /\ sender = attester
        /\ call.axis # "CAPITAL"
        /\ Fresh(call.id)
        /\ w \in attestedPoP
        /\ citizens[w].isCitizen
        /\ s.ok
        /\ citizens' = [citizens EXCEPT ![w] = s.citizen]
        /\ consumed' = consumed \cup {call.id}
        /\ UNCHANGED <<today, attester, hasBadge, attestedPoP, activeDays, volunteerDays, bank>>

\* mutant: the nonce is checked but not recorded
AttestDayUnrecorded(sender, call) ==
    LET w == call.worker
        Marked(days, gate) == IF gate THEN [days EXCEPT ![w] = @ \cup {call.day}] ELSE days
    IN  /\ sender = attester
        /\ Fresh(call.id)
        /\ w \in attestedPoP
        /\ citizens[w].isCitizen
        /\ call.day \in citizens[w].joinDay..today
        /\ activeDays' = Marked(activeDays, call.active)
        /\ volunteerDays' = Marked(volunteerDays, call.volunteer)
        /\ UNCHANGED <<today, attester, citizens, hasBadge, attestedPoP, consumed, bank>>

AttestDay(sender, call) ==
    LET w == call.worker
        Marked(days, gate) == IF gate THEN [days EXCEPT ![w] = @ \cup {call.day}] ELSE days
    IN  /\ sender = attester
        /\ Fresh(call.id)
        /\ w \in attestedPoP
        /\ citizens[w].isCitizen
        /\ call.day <= today
        /\ call.day >= citizens[w].joinDay
        /\ consumed' = consumed \cup {call.id}
        /\ activeDays' = Marked(activeDays, call.active)
        /\ volunteerDays' = Marked(volunteerDays, call.volunteer)
        /\ UNCHANGED <<today, attester, citizens, hasBadge, attestedPoP, bank>>

-----------------------------------------------------------------------------
(* Governance. *)

GrantBadge(sender, w, badge) ==
    /\ sender = Governance
    /\ citizens[w].isCitizen
    /\ hasBadge' = [hasBadge EXCEPT ![w] = @ \cup {badge}]
    /\ UNCHANGED <<today, attester, citizens, attestedPoP, activeDays, volunteerDays,
                   consumed, bank>>

RevokeBadge(sender, w, badge) ==
    /\ sender = Governance
    /\ hasBadge' = [hasBadge EXCEPT ![w] = @ \ {badge}]
    /\ UNCHANGED <<today, attester, citizens, attestedPoP, activeDays, volunteerDays,
                   consumed, bank>>

RotateAttester(sender, newAttester) ==
    /\ sender = Governance
    /\ attester' = newAttester
    /\ UNCHANGED <<today, citizens, hasBadge, attestedPoP, activeDays, volunteerDays,
                   consumed, bank>>

-----------------------------------------------------------------------------
(* The chain. *)

NextDay ==
    /\ today < MaxDay
    /\ today' = today + 1
    /\ UNCHANGED <<contract, bank>>

\* Coins sent to the contract's address, or attached to any other message: no
\* handler but contribute_capital looks at info.funds.  Each gift comes once.
Gift(coins) ==
    /\ \A d \in Denom : gifted[d] = 0
    /\ held' = [d \in Denom |-> held[d] + coins[d]]
    /\ gifted' = [d \in Denom |-> gifted[d] + coins[d]]
    /\ UNCHANGED <<today, contract, contributed, paidOut>>

Sender == Worker \cup Key \cup {Governance}

Next ==
    \/ NextDay
    \/ \E coins \in Gifts : Gift(coins)
    \/ \E sender \in Sender, w \in Worker : AttestPoP(sender, w)
    \/ \E w \in Worker : Join(w)
    \/ \E w \in Worker, offset \in 0..DAYS_PER_WEEK : SetSabbathDay(w, offset)
    \/ \E w \in Worker : Ragequit(w)
    \/ \E call \in Contributions : ContributeCapital(call)
    \/ \E sender \in Sender, call \in HonorCalls : AttestHonor(sender, call)
    \/ \E sender \in Sender, call \in DayCalls : AttestDay(sender, call)
    \/ \E sender \in Sender, w \in Worker, badge \in Badge : GrantBadge(sender, w, badge)
    \/ \E sender \in Sender, w \in Worker, badge \in Badge : RevokeBadge(sender, w, badge)
    \/ \E sender \in Sender, key \in Key : RotateAttester(sender, key)

Spec == Init /\ [][Next]_vars

-----------------------------------------------------------------------------
(* Safety. *)

\* The contract is backed coin by coin: the kWR it holds, but for gifts, are
\* exactly the locks of its citizens, whatever contributions, exits and strange
\* coins there were; so a ragequit is always paid out of its own citizen's coins.
LocksAreBacked ==
    held[KWR] = gifted[KWR] + MapThenSumSet(LAMBDA w : citizens[w].lockedKWR, Worker)

\* "You are free to leave at any time", with the money: the bank never refuses
\* the payout of a ragequit.
LeavingNeverBlocked ==
    \A w \in Worker : citizens[w].isCitizen => ENABLED Ragequit(w)

\* Honor is credited once: without signatures and expiries, the shared map of
\* job_ids and nonces alone keeps the attester's repeated attest_honor from
\* raising labor or verification again; capital rises by coins or by weeks.
Earned ==
    \A w \in Worker : citizens[w].isCitizen /\ citizens'[w].isCitizen =>
        LET c == citizens[w]  d == citizens'[w] IN
        /\ d.lockedKWR - c.lockedKWR = contributed'[w] - contributed[w]
        /\ \A a \in Axis \ {"CAPITAL"} :
              d.baseHonor[a] > c.baseHonor[a] => consumed' # consumed
        /\ d.baseHonor["CAPITAL"] > c.baseHonor["CAPITAL"]
              => contributed'[w] > contributed[w] \/ d.volunteerWeeks > c.volunteerWeeks
HonorIsEarned == [][Earned]_vars

\* The twin implements the same civic ledger as the EVM contract: a proof of
\* personhood and a contribution spend no identifier here, since nothing is
\* signed and the coins come with the message.
Civic == INSTANCE CivicLedger WITH
    Person <- Worker,
    Amount <- {call.funds[KWR] : call \in Contributions},
    VerifySpends <- {{}}, DepositSpends <- {{}}, CreditSpends <- {{id} : id \in Id},
    verified <- attestedPoP,
    members <- {w \in Worker : citizens[w].isCitizen},
    claim <- [w \in Worker |-> citizens[w].lockedKWR],
    deposited <- contributed,
    released <- paidOut,
    spent <- consumed

\* Every message is a step of the ledger or leaves it unchanged: in particular a
\* job_id or nonce is used once and a ragequit pays exactly the claim.
CivicSpec == Civic!Spec
=============================================================================
