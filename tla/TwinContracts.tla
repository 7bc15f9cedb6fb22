---------------------------- MODULE TwinContracts ---------------------------
(***************************************************************************)
(* The same civic life on both chains: every deed reaches the EVM contract *)
(* and its CosmWasm twin on the same day and in the same order.  README    *)
(* and zion-integration.md promise identical results on the two paths.     *)
(*                                                                         *)
(* The twin's variables are those of SeumCW, the EVM contract's carry an e.*)
(* A worker's lock of n kWR for the EVM contract is a contribution of n    *)
(* coins to the twin.  Badges and keys, which touch no honor, stay as they  *)
(* are.  Integers of both have the width of MAX_UINT: amounts that fit 256 *)
(* bits but not the twin's 128 are outside of the comparison.              *)
(***************************************************************************)
EXTENDS SeumCW

CONSTANTS PoPAttestations, MintAttestations, HonorAttestations, DayAttestations

ASSUME PayloadAssumption ==
    /\ PoPAttestations \subseteq [worker : Worker, id : Id, expiry : Nat, signer : Key]
    /\ MintAttestations \subseteq
          [worker : Worker, kWRAmount : Uint, id : Id, expiry : Nat, signer : Key]
    /\ HonorAttestations \subseteq
          [worker : Worker, axis : Axis, honorDelta : Uint, id : Id, expiry : Nat, signer : Key]
    /\ DayAttestations \subseteq
          [worker : Worker, day : Nat, active : BOOLEAN, volunteer : BOOLEAN,
           id : Id, expiry : Nat, signer : Key]

\* The twin keeps neither nonces of proofs nor lock ids: those the EVM contract
\* uses up (a nonce is drawn at random, a lock id comes from the chain) name no
\* job and no day.
ASSUME IdAssumption ==
    \A att \in PoPAttestations \cup MintAttestations :
        \A call \in HonorAttestations \cup DayAttestations : att.id # call.id

\* The decay that every citizen starts with; it is 1% in the source.
ASSUME DecayAssumption == BASE_DECAY_BP > 0

VARIABLES eAttester, eCitizens, eHasBadge, eAttestedPoP, eActiveDays, eVolunteerDays,
          eConsumed, eBridged, eRequested, eWeekEvents

EVM == INSTANCE SeumStandard WITH
    attester <- eAttester, citizens <- eCitizens, hasBadge <- eHasBadge,
    attestedPoP <- eAttestedPoP, activeDays <- eActiveDays,
    volunteerDays <- eVolunteerDays, consumed <- eConsumed,
    bridged <- eBridged, requested <- eRequested, weekEvents <- eWeekEvents

evm == <<eAttester, eCitizens, eHasBadge, eAttestedPoP, eActiveDays, eVolunteerDays,
         eConsumed, eBridged, eRequested, eWeekEvents>>
tvars == <<vars, evm>>

TwinInit == Init /\ EVM!Init

\* What the twin is sent for an EVM payload.
Contribution(att) ==
    [worker |-> att.worker, funds |-> [d \in Denom |-> IF d = KWR THEN att.kWRAmount ELSE 0]]
HonorCall(att) ==
    [worker |-> att.worker, axis |-> att.axis, honorDelta |-> att.honorDelta, id |-> att.id]
DayCall(att) ==
    [worker |-> att.worker, day |-> att.day, active |-> att.active,
     volunteer |-> att.volunteer, id |-> att.id]

TwinNext ==
    \/ EVM!NextDay /\ NextDay
    \/ \E att \in PoPAttestations : EVM!AttestPoP(att) /\ AttestPoP(attester, att.worker)
    \/ \E w \in Worker : EVM!Join(w) /\ Join(w)
    \/ \E w \in Worker, offset \in 0..DAYS_PER_WEEK :
          EVM!SetSabbathDay(w, offset) /\ SetSabbathDay(w, offset)
    \/ \E w \in Worker : EVM!Ragequit(w) /\ Ragequit(w)
    \/ \E att \in MintAttestations :
          EVM!BridgeMintCapital(att) /\ ContributeCapital(Contribution(att))
    \/ \E att \in HonorAttestations :
          EVM!AttestHonor(att) /\ AttestHonor(attester, HonorCall(att))
    \/ \E att \in DayAttestations :
          EVM!AttestDay(att) /\ AttestDay(attester, DayCall(att))

TwinSpec == TwinInit /\ [][TwinNext]_tvars

-----------------------------------------------------------------------------
WithoutCapital(c) == [c EXCEPT !.baseHonor["CAPITAL"] = 0]

Power(base, n) ==
    LET power[k \in 0..n] == IF k = 0 THEN 1 ELSE base * power[k-1] IN power[n]

\* What the rounding of any number of decayed days may add to a lead.
Rounding == (BASIS_POINTS - 1) \div BASE_DECAY_BP + 1

\* The lead x has over y comes of the bonuses of so many weeks: none without a week;
\* with weeks, what their share (VOLUNTEER_CAPITAL_PCT), compounded, makes of y, up to
\* a rounding that grows neither with time nor with the amounts.
LeadIsBonus(x, y, weeks) ==
    /\ weeks = 0 => x = y
    /\ x * Power(BASIS_POINTS, weeks)
         <= (y + Rounding) * Power(BASIS_POINTS + VOLUNTEER_CAPITAL_PCT, weeks)

\* The two implementations, written separately in two languages, agree on
\* everything but the capital honor: clocks, rates, weeks, multiplier, locks and
\* the other axes, in whatever order locks, weeks, late days and exits come.  The
\* twin's capital is never the smaller one; it is the same until a volunteer week
\* of this life is counted, and its lead stays within what the bonuses of the
\* counted weeks make of a credit, however much is locked and however long it decays.
TwinsAgree ==
    \A w \in Worker :
        LET c == citizens[w]  e == eCitizens[w] IN
        /\ WithoutCapital(c) = WithoutCapital(e)
        /\ c.baseHonor["CAPITAL"] >= e.baseHonor["CAPITAL"]
        /\ LeadIsBonus(c.baseHonor["CAPITAL"], e.baseHonor["CAPITAL"], c.volunteerWeeks)
        /\ paidOut[w] = eRequested[w]

\* What one chain accepts the other accepts too, so that walking through both
\* at once leaves no behaviour out: same people and days, and the identifiers of
\* jobs and days used up alike (those of proofs and locks exist on the EVM chain
\* only).  A settlement overflows on both or on neither, unless the twin's larger
\* capital is the first that does not fit.
TwinsAcceptAlike ==
    /\ attestedPoP = eAttestedPoP
    /\ activeDays = eActiveDays /\ volunteerDays = eVolunteerDays
    /\ \A att \in HonorAttestations \cup DayAttestations :
          EVM!Accepted(att) <=> Fresh(att.id) /\ today <= att.expiry /\ att.signer = attester
    /\ \A w \in Worker, a \in Axis :
          LET onTwin == Credited(w, a, 0, 0).ok
              onEVM  == EVM!Settled(w, a).ok
          IN  citizens[w].isCitizen =>
                /\ onTwin => onEVM
                /\ onEVM => \/ onTwin
                            \/ citizens[w].baseHonor["CAPITAL"] > eCitizens[w].baseHonor["CAPITAL"]

\* README.md and zion-integration.md: the results on the two chains are identical
\* to the bit.  The EVM contract processes the volunteer weeks before it adds a
\* bridged amount to the capital, the twin afterwards: the 1% bonus differs.
TwinsIdentical == citizens = eCitizens
=============================================================================
