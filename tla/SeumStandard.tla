---------------------------- MODULE SeumStandard ----------------------------
(***************************************************************************)
(* The EVM contract SeumStandard v3.1.  One action per external function;  *)
(* a transaction is atomic, a failed require is an action that is not      *)
(* enabled.  Time is the day number block.timestamp / 86400, and an expiry *)
(* is the last day on which a signature is accepted.                       *)
(*                                                                         *)
(* The attester's signatures exist outside the contract: the constants     *)
(* PoPAttestations ... DayAttestations are every payload anyone ever       *)
(* signed, under any key.  Anybody may submit any of them, in any order,   *)
(* any number of times.                                                    *)
(***************************************************************************)
EXTENDS SeumMath, FiniteSets

CONSTANTS
    Worker,            \* addresses that may become citizens
    Badge,             \* GOVERNANCE, AUDIT, DISPUTE, NODE in the source
    Key,               \* addresses that may be the attester (address(0) is none)
    Governance,        \* the deployer
    Id,                \* the bytes32 values used as nonce, lockId and jobId
    FirstAttester,     \* the constructor's argument
    GenesisDay,        \* the day of deployment
    MaxDay,            \* bound on the clock
    PoPAttestations,   \* signed ("ATTEST_POP", worker, expiry, nonce)
    MintAttestations,  \* signed ("BRIDGE_MINT_CAPITAL", worker, kWRAmount, lockId, expiry)
    HonorAttestations, \* signed ("ATTEST_HONOR", worker, axis, honorDelta, jobId, expiry)
    DayAttestations    \* signed ("ATTEST_DAY", worker, day, gates, expiry, nonce)

ASSUME AttestationAssumption ==
    /\ GenesisDay \in Nat /\ MaxDay \in Nat /\ GenesisDay <= MaxDay
    /\ FirstAttester \in Key
    /\ PoPAttestations \subseteq [worker : Worker, id : Id, expiry : Nat, signer : Key]
    /\ MintAttestations \subseteq
          [worker : Worker, kWRAmount : Uint, id : Id, expiry : Nat, signer : Key]
    /\ HonorAttestations \subseteq
          [worker : Worker, axis : Axis, honorDelta : Uint, id : Id, expiry : Nat, signer : Key]
    /\ DayAttestations \subseteq
          [worker : Worker, day : Nat, active : BOOLEAN, volunteer : BOOLEAN,
           id : Id, expiry : Nat, signer : Key]

VARIABLES
    today,         \* block.timestamp / SECONDS_PER_DAY
    attester,      \* the only key whose signatures count
    citizens,      \* citizens[w]: a Citizen record, NoCitizen where deleted
    hasBadge,      \* hasBadge[w]: the badges w holds
    attestedPoP,   \* the addresses that passed proof of personhood
    activeDays,    \* activeDayBits[w] as a set of days
    volunteerDays, \* volunteerDayBits[w] as a set of days
    consumed,      \* the identifiers already used
    bridged,       \* bridged[w]: total of w's CapitalBridged events
    requested,     \* requested[w]: total of w's RagequitRequest events
    weekEvents     \* weekEvents[w][k]: number of VolunteerWeekCounted events of week k

contract == <<attester, citizens, hasBadge, attestedPoP, activeDays, volunteerDays, consumed>>
events == <<bridged, requested, weekEvents>>
vars == <<today, contract, events>>

Week == 0..MaxDay

TypeOK ==
    /\ today \in GenesisDay..MaxDay
    /\ attester \in Key
    /\ citizens \in [Worker -> Citizen]
    /\ hasBadge \in [Worker -> SUBSET Badge]
    /\ attestedPoP \subseteq Worker
    /\ activeDays \in [Worker -> SUBSET Nat]
    /\ volunteerDays \in [Worker -> SUBSET Nat]
    /\ consumed \subseteq Id
    /\ bridged \in [Worker -> Nat]
    /\ requested \in [Worker -> Nat]
    /\ weekEvents \in [Worker -> [Week -> Nat]]

Init ==
    /\ today = GenesisDay
    /\ attester = FirstAttester
    /\ citizens = [w \in Worker |-> NoCitizen]
    /\ hasBadge = [w \in Worker |-> {}]
    /\ attestedPoP = {}
    /\ activeDays = [w \in Worker |-> {}]
    /\ volunteerDays = [w \in Worker |-> {}]
    /\ consumed = {}
    /\ bridged = [w \in Worker |-> 0]
    /\ requested = [w \in Worker |-> 0]
    /\ weekEvents = [w \in Worker |-> [k \in Week |-> 0]]

-----------------------------------------------------------------------------
(* Helpers of the attested functions. *)

\* mutant: unchecked addition
FitsAnything(n) == TRUE

\* The checked addition of the 0.8 compiler: the call reverts on overflow.
Fits(n) == n <= MAX_UINT

\* mutant: no replay check
AcceptedAgain(att) == today <= att.expiry /\ att.signer = attester

\* Expired, Replay and Bad sig: the three checks every attested call makes.
Accepted(att) ==
    /\ today <= att.expiry
    /\ att.id \notin consumed
    /\ att.signer = attester

\* mutant: weeks are processed up to today, not up to the axis just settled
SettledThroughToday(w, a) ==
    LET decay == Decayed(citizens[w], a, activeDays[w], today)
        weeks == WeeksProcessed(decay.citizen, volunteerDays[w], today)
    IN  [ok |-> decay.ok /\ weeks.ok, citizen |-> weeks.citizen, counted |-> weeks.counted]

\* _applyDecay(w, a), which always ends in _processWeeks for the same axis.
Settled(w, a) ==
    LET decay == Decayed(citizens[w], a, activeDays[w], today)
        weeks == WeeksProcessed(decay.citizen, volunteerDays[w], decay.citizen.lastDecayDay[a])
    IN  [ok |-> decay.ok /\ weeks.ok, citizen |-> weeks.citizen, counted |-> weeks.counted]

EmitWeeks(w, counted) ==
    weekEvents' = [weekEvents EXCEPT ![w] =
                     [k \in Week |-> IF k \in counted THEN @[k] + 1 ELSE @[k]]]

-----------------------------------------------------------------------------
(* Membership. *)

AttestPoP(att) ==
    /\ Accepted(att)
    /\ consumed' = consumed \cup {att.id}
    /\ attestedPoP' = attestedPoP \cup {att.worker}
    /\ UNCHANGED <<today, attester, citizens, hasBadge, activeDays, volunteerDays, events>>

Join(w) ==
    /\ w \in attestedPoP
    /\ ~citizens[w].isCitizen
    /\ citizens' = [citizens EXCEPT ![w] = Joined(@, today)]
    /\ UNCHANGED <<today, attester, hasBadge, attestedPoP, activeDays, volunteerDays,
                   consumed, events>>

SetSabbathDay(w, offset) ==
    /\ citizens[w].isCitizen
    /\ offset < DAYS_PER_WEEK
    /\ citizens' = [citizens EXCEPT ![w].sabbathOffset = offset]
    /\ UNCHANGED <<today, attester, hasBadge, attestedPoP, activeDays, volunteerDays,
                   consumed, events>>

\* mutant: the citizen is flagged as gone but the struct is not deleted
FlaggedGone(c) == [c EXCEPT !.isCitizen = FALSE]

\* delete citizens[who]
Deleted(c) == NoCitizen

\* Proof of personhood, the day bits and the used identifiers outlive the citizen.
Ragequit(w) ==
    /\ citizens[w].isCitizen
    /\ requested' = [requested EXCEPT ![w] = @ + citizens[w].lockedKWR]
    /\ hasBadge' = [hasBadge EXCEPT ![w] = {}]
    /\ citizens' = [citizens EXCEPT ![w] = Deleted(@)]
    /\ UNCHANGED <<today, attester, attestedPoP, activeDays, volunteerDays, consumed,
                   bridged, weekEvents>>

-----------------------------------------------------------------------------
(* Attested honor. *)

BridgeMintCapital(att) ==
    LET w    == att.worker
        s    == Settled(w, "CAPITAL")
        paid == [s.citizen EXCEPT !.baseHonor["CAPITAL"] = @ + att.kWRAmount,
                                  !.lockedKWR            = @ + att.kWRAmount]
    IN  /\ w \in attestedPoP
        /\ citizens[w].isCitizen
        /\ att.kWRAmount > 0
        /\ Accepted(att)
        /\ s.ok
        /\ Fits(paid.baseHonor["CAPITAL"]) /\ Fits(paid.lockedKWR)
        /\ consumed' = consumed \cup {att.id}
        /\ citizens' = [citizens EXCEPT ![w] = paid]
        /\ bridged' = [bridged EXCEPT ![w] = @ + att.kWRAmount]
        /\ EmitWeeks(w, s.counted)
        /\ UNCHANGED <<today, attester, hasBadge, attestedPoP, activeDays, volunteerDays, requested>>

AttestHonor(att) ==
    LET w        == att.worker
        s        == Settled(w, att.axis)
        credited == [s.citizen EXCEPT !.baseHonor[att.axis] = @ + att.honorDelta]
    IN  /\ att.axis # "CAPITAL"
        /\ w \in attestedPoP
        /\ citizens[w].isCitizen
        /\ Accepted(att)
        /\ s.ok
        /\ Fits(credited.baseHonor[att.axis])
        /\ consumed' = consumed \cup {att.id}
        /\ citizens' = [citizens EXCEPT ![w] = credited]
        /\ EmitWeeks(w, s.counted)
        /\ UNCHANGED <<today, attester, hasBadge, attestedPoP, activeDays, volunteerDays,
                       bridged, requested>>

\* Setting a bit settles nothing: a day already decayed stays decayed.
AttestDay(att) ==
    LET w == att.worker
        Marked(days, gate) == IF gate THEN [days EXCEPT ![w] = @ \cup {att.day}] ELSE days
    IN  /\ w \in attestedPoP
        /\ citizens[w].isCitizen
        /\ Accepted(att)
        /\ att.day <= today
        /\ att.day >= citizens[w].joinDay
        /\ consumed' = consumed \cup {att.id}
        /\ activeDays' = Marked(activeDays, att.active)
        /\ volunteerDays' = Marked(volunteerDays, att.volunteer)
        /\ UNCHANGED <<today, attester, citizens, hasBadge, attestedPoP, events>>

-----------------------------------------------------------------------------
(* Governance; the sender is checked by the onlyGovernance modifier. *)

\* mutant: anybody is given a badge
GrantBadgeToAnyone(sender, w, badge) ==
    /\ sender = Governance
    /\ hasBadge' = [hasBadge EXCEPT ![w] = @ \cup {badge}]
    /\ UNCHANGED <<today, attester, citizens, attestedPoP, activeDays, volunteerDays,
                   consumed, events>>

GrantBadge(sender, w, badge) ==
    /\ sender = Governance
    /\ citizens[w].isCitizen
    /\ hasBadge' = [hasBadge EXCEPT ![w] = @ \cup {badge}]
    /\ UNCHANGED <<today, attester, citizens, attestedPoP, activeDays, volunteerDays,
                   consumed, events>>

RevokeBadge(sender, w, badge) ==
    /\ sender = Governance
    /\ hasBadge' = [hasBadge EXCEPT ![w] = @ \ {badge}]
    /\ UNCHANGED <<today, attester, citizens, attestedPoP, activeDays, volunteerDays,
                   consumed, events>>

RotateAttester(sender, newAttester) ==
    /\ sender = Governance
    /\ attester' = newAttester
    /\ UNCHANGED <<today, citizens, hasBadge, attestedPoP, activeDays, volunteerDays,
                   consumed, events>>

-----------------------------------------------------------------------------
NextDay ==
    /\ today < MaxDay
    /\ today' = today + 1
    /\ UNCHANGED <<contract, events>>

Sender == Worker \cup {Governance}

Next ==
    \/ NextDay
    \/ \E att \in PoPAttestations : AttestPoP(att)
    \/ \E w \in Worker : Join(w)
    \/ \E w \in Worker, offset \in 0..DAYS_PER_WEEK : SetSabbathDay(w, offset)
    \/ \E w \in Worker : Ragequit(w)
    \/ \E att \in MintAttestations : BridgeMintCapital(att)
    \/ \E att \in HonorAttestations : AttestHonor(att)
    \/ \E att \in DayAttestations : AttestDay(att)
    \/ \E sender \in Sender, w \in Worker, badge \in Badge : GrantBadge(sender, w, badge)
    \/ \E sender \in Sender, w \in Worker, badge \in Badge : RevokeBadge(sender, w, badge)
    \/ \E sender \in Sender, key \in Key : RotateAttester(sender, key)

Spec == Init /\ [][Next]_vars

-----------------------------------------------------------------------------
(* Safety. *)

\* kWR is conserved across any number of lives: what was bridged in for a
\* worker is either still locked to the citizen or was released by a ragequit
\* request (bridgeMintCapital, ragequit, join).
ClaimsMatchLocks ==
    \A w \in Worker : bridged[w] = citizens[w].lockedKWR + requested[w]

\* Citizens passed proof of personhood and only citizens wear badges, whatever
\* order of grant, ragequit, rejoin and revoke led here.
MembershipGates ==
    \A w \in Worker :
        /\ citizens[w].isCitizen => w \in attestedPoP
        /\ hasBadge[w] # {} => citizens[w].isCitizen

\* The three clocks of an axis agree: the decay rate is a function of the days
\* settled since joining, whatever calls settled them and however the 90-day
\* limit split them.
RateFollowsTenure ==
    \A w \in Worker : citizens[w].isCitizen =>
        LET c == citizens[w] IN
        \A a \in Axis : c.decayRateAtLastDay[a] = RateAfter(c.lastDecayDay[a] - c.joinDay)

\* The week clock is bound to the day clocks of all three axes: the weeks
\* processed are exactly those complete at the furthest settled axis, or none
\* since the week of joining.
WeeksFollowClocks ==
    \A w \in Worker : citizens[w].isCitizen =>
        LET c     == citizens[w]
            marks == {LastCompleteWeek(c.lastDecayDay[a]) : a \in Axis}
                       \cup {c.joinDay \div DAYS_PER_WEEK}
        IN  /\ c.lastProcessedWeek \in marks
            /\ \A m \in marks : m <= c.lastProcessedWeek
            /\ \A a \in Axis : c.lastDecayDay[a] \in c.joinDay..today

\* No volunteer week is rewarded twice, in one life or in two, and only a
\* complete week with an attested volunteer day is.
WeeksCountedOnce ==
    \A w \in Worker, k \in Week :
        /\ weekEvents[w][k] <= 1
        /\ weekEvents[w][k] = 1 => /\ Qualified(k, volunteerDays[w])
                                   /\ k <= LastCompleteWeek(today)

\* Nothing of an ended life is left behind, and no counted week lies ahead of the
\* week clock: that of a citizen, or the one rejoining today would set.
LivesAreSeparate ==
    \A w \in Worker :
        LET c    == citizens[w]
            mark == IF c.isCitizen THEN c.lastProcessedWeek ELSE today \div DAYS_PER_WEEK
        IN  /\ c.isCitizen \/ c = NoCitizen
            /\ mark <= today \div DAYS_PER_WEEK
            /\ \A k \in Week : weekEvents[w][k] > 0 => k <= mark

\* A rejoined citizen starts from nothing: the weeks and the multiplier on
\* record are those earned since the current joinDay, although the day bits of
\* earlier lives are kept.
MultAfter(weeks) ==
    LET mult[k \in 0..weeks] == IF k = 0 THEN BASIS_POINTS ELSE GrownMult(mult[k-1])
    IN  mult[weeks]

RewardsOfThisLife ==
    \A w \in Worker : citizens[w].isCitizen =>
        LET c    == citizens[w]
            mine == {k \in Week : k > c.joinDay \div DAYS_PER_WEEK /\ weekEvents[w][k] = 1}
        IN  /\ c.volunteerWeeks = Cardinality(mine)
            /\ c.volunteerMultBP = MultAfter(c.volunteerWeeks)

\* The view and the settlement are two separately written loops that agree:
\* settling labor or verification now yields the honor the view reports, and
\* settling capital yields the view plus the bonuses of the weeks it counts.
SettleMatchesView ==
    \A w \in Worker, a \in Axis :
        LET s    == Settled(w, a)
            view == CurrentHonor(citizens[w], a, activeDays[w], today)
        IN  citizens[w].isCitizen /\ s.ok =>
              IF a = "CAPITAL"
              THEN s.citizen.baseHonor[a] >= view + VOLUNTEER_CAPITAL_MIN * Cardinality(s.counted)
              ELSE s.citizen.baseHonor[a] = view

\* The multiplier in the voting power anticipates settlement: it is what the
\* weeks complete by today leave once they are processed, and processing as far
\* as the decay limit allows never exceeds it.
MultiplierAnticipates ==
    \A w \in Worker, a \in Axis :
        LET s    == Settled(w, a)
            view == CurrentMultBP(citizens[w], volunteerDays[w], today)
        IN  citizens[w].isCitizen /\ s.ok =>
              /\ s.citizen.volunteerMultBP <= view
              /\ s.citizen.lastDecayDay[a] = today => s.citizen.volunteerMultBP = view

\* Decay does not depend on when it is settled, nor on how often the 90-day
\* limit interrupts it: settling at any earlier day and again now leaves the axis
\* as one unlimited run over the same days would.
SettlementSplits ==
    \A w \in Worker, a \in Axis : citizens[w].isCitizen =>
        LET c == citizens[w] IN
        \A day \in c.lastDecayDay[a]..today :
            LET first  == Decayed(c, a, activeDays[w], day)
                second == Decayed(first.citizen, a, activeDays[w], today)
                days   == second.citizen.lastDecayDay[a] - c.lastDecayDay[a]
                whole  == DecayRun(c, a, activeDays[w], days)
            IN  whole.ok => /\ second.citizen.baseHonor[a] = whole.honor
                            /\ second.citizen.decayRateAtLastDay[a] = whole.rate

\* Calling the contract is no way to gain votes: bringing an axis up to date
\* leaves the voting power as the views already reported it, but for the bonuses
\* of the weeks it counts; a settlement the 90-day limit cuts short can only
\* lower it, since the view then looks further ahead.
PowerSurvivesSettlement ==
    \A w \in Worker, a \in Axis :
        LET s     == Settled(w, a)
            Power(c) == VotingPower(c, activeDays[w], volunteerDays[w], today)
            before   == Power(citizens[w])
            after    == Power(s.citizen)
        IN  citizens[w].isCitizen /\ s.ok =>
              IF s.citizen.lastDecayDay[a] = today
              THEN after >= before /\ (s.counted = {} => after = before)
              ELSE s.counted = {} => after <= before

\* Near the largest integer a checked product reverts, in the loops of _applyDecay
\* and _processWeeks and in those of getCurrentHonor and _computeCurrentMultBP.
\* They revert alike: the honor of an axis can be viewed exactly when its days can be
\* settled, the multiplier can be viewed where its weeks were, and bringing an axis
\* up to date neither silences the vote nor gives a silenced one back, unless a
\* week is counted.
OverflowIsShared ==
    \A w \in Worker, a \in Axis :
        LET c       == citizens[w]
            s       == Settled(w, a)
            current == s.ok /\ s.citizen.lastDecayDay[a] = today
            Votes(d) == VotingPowerFits(d, activeDays[w], volunteerDays[w], today)
        IN  c.isCitizen =>
              /\ CurrentHonorFits(c, a, activeDays[w], today)
                   <=> Decayed(c, a, activeDays[w], today).ok
              /\ current => CurrentMultBPFits(c, volunteerDays[w], today)
              /\ current /\ s.counted = {} => (Votes(s.citizen) <=> Votes(c))

-----------------------------------------------------------------------------
(* The contract implements the civic ledger: whatever decay, weeks, badges and *)
(* rotated keys do, people are verified, enter, deposit, are credited and      *)
(* leave with exactly their claim, and every identifier is spent once.         *)

Single == {{id} : id \in Id}

Civic == INSTANCE CivicLedger WITH
    Person <- Worker,
    Amount <- {att.kWRAmount : att \in MintAttestations},
    VerifySpends <- Single, DepositSpends <- Single, CreditSpends <- Single,
    verified <- attestedPoP,
    members <- {w \in Worker : citizens[w].isCitizen},
    claim <- [w \in Worker |-> citizens[w].lockedKWR],
    deposited <- bridged,
    released <- requested,
    spent <- consumed

\* Every step of the contract is a step of the ledger or leaves it unchanged.
CivicSpec == Civic!Spec

-----------------------------------------------------------------------------
(* What a step may never do. *)

SameLife(w) == citizens[w].isCitizen /\ citizens'[w].isCitizen

\* Within a life no clock, rate or multiplier runs backwards.
NeverRewinds ==
    \A w \in Worker : SameLife(w) =>
        LET c == citizens[w]  d == citizens'[w] IN
        /\ d.joinDay = c.joinDay
        /\ d.lastProcessedWeek >= c.lastProcessedWeek
        /\ d.volunteerWeeks >= c.volunteerWeeks
        /\ d.volunteerMultBP >= c.volunteerMultBP
        /\ \A a \in Axis : /\ d.lastDecayDay[a] >= c.lastDecayDay[a]
                           /\ d.decayRateAtLastDay[a] >= c.decayRateAtLastDay[a]
ClocksNeverRewind == [][NeverRewinds]_vars

\* Honor rises only by what was earned: on the labor and verification axes by a
\* fresh attestation, on the capital axis by a bridged lock or by a volunteer
\* week counted in the same step; nothing but a bridged lock raises the claim.
Earned ==
    \A w \in Worker : SameLife(w) =>
        LET c == citizens[w]  d == citizens'[w] IN
        /\ d.lockedKWR - c.lockedKWR = bridged'[w] - bridged[w]
        /\ \A a \in Axis \ {"CAPITAL"} :
              d.baseHonor[a] > c.baseHonor[a] => consumed' # consumed
        /\ d.baseHonor["CAPITAL"] > c.baseHonor["CAPITAL"]
              => bridged'[w] > bridged[w] \/ d.volunteerWeeks > c.volunteerWeeks
HonorIsEarned == [][Earned]_vars
=============================================================================
