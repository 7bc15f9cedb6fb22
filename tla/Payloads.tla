------------------------------ MODULE Payloads ------------------------------
(***************************************************************************)
(* From a Zion event to a signed call and back: what the four handlers of  *)
(* the daemon accept, what they sign and put into the calldata, and what   *)
(* the contract recomputes from that calldata.  Pure operators.            *)
(*                                                                         *)
(* An attribute of an event is <<value>>, or <<>> when it is absent or its *)
(* text does not parse; a text that is no address parses as the zero one.  *)
(* A hash is the tuple it is taken of, so that two digests are equal       *)
(* exactly if their fields are, in order; a signature is a digest with the *)
(* key that signed it.                                                     *)
(***************************************************************************)
EXTENDS SeumMath

CONSTANTS
    MAX_UINT64,
    ZeroAddress,
    Contract,     \* the address of SeumStandard
    Nobody        \* what ecrecover yields for another digest: no attester's address

ASSUME WidthAssumption == MAX_UINT64 \in Nat

-----------------------------------------------------------------------------
(* Attributes. *)

Attr(ev, key) == ev.attributes[key][1]

requireAddrAttr(ev, key) == ev.attributes[key] # <<>> /\ Attr(ev, key) # ZeroAddress

\* Any decimal integer, negative ones included.
requireUintAttr(ev, key) == ev.attributes[key] # <<>>

requireUint64Attr(ev, key) == requireUintAttr(ev, key) /\ Attr(ev, key) \in 0..MAX_UINT64

requireBoolAttr(ev, key) == ev.attributes[key] # <<>>

requireBytes32Attr(ev, key) == ev.attributes[key] # <<>>

\* The encoder of the ABI keeps the low 256 bits of an integer.
Word(n) == n % (MAX_UINT + 1)

-----------------------------------------------------------------------------
(* Digests and signatures of the daemon. *)

PackAttestPoPDigest(worker, expiry, nonce) ==
    <<"ATTEST_POP", Contract, worker, expiry, nonce>>

PackBridgeMintCapitalDigest(worker, kWRAmount, lockID, expiry) ==
    <<"BRIDGE_MINT_CAPITAL", Contract, worker, Word(kWRAmount), lockID, expiry>>

PackAttestHonorDigest(worker, axis, honorDelta, jobID, expiry) ==
    <<"ATTEST_HONOR", Contract, worker, axis, Word(honorDelta), jobID, expiry>>

\* mutant: the two gates are packed in the other order
PackAttestDayDigestSwapped(worker, day, activeGate, volunteerGate, expiry, nonce) ==
    <<"ATTEST_DAY", Contract, worker, day, volunteerGate, activeGate, expiry, nonce>>

PackAttestDayDigest(worker, day, activeGate, volunteerGate, expiry, nonce) ==
    <<"ATTEST_DAY", Contract, worker, day, activeGate, volunteerGate, expiry, nonce>>

SignDigest(digest, key) == [digest |-> digest, key |-> key]

-----------------------------------------------------------------------------
(* The calldata, and the digest the contract takes of it. *)

BroadcastAttestPoP(worker, expiry, nonce, sig) ==
    [fn |-> "attestPoP", worker |-> worker, expiry |-> expiry, id |-> nonce, sig |-> sig]

BroadcastBridgeMintCapital(worker, kWRAmount, lockID, expiry, sig) ==
    [fn |-> "bridgeMintCapital", worker |-> worker, kWRAmount |-> Word(kWRAmount),
     id |-> lockID, expiry |-> expiry, sig |-> sig]

BroadcastAttestHonor(worker, axis, honorDelta, jobID, expiry, sig) ==
    [fn |-> "attestHonor", worker |-> worker, axis |-> axis, honorDelta |-> Word(honorDelta),
     id |-> jobID, expiry |-> expiry, sig |-> sig]

BroadcastAttestDay(worker, day, activeGate, volunteerGate, expiry, nonce, sig) ==
    [fn |-> "attestDay", worker |-> worker, day |-> day, active |-> activeGate,
     volunteer |-> volunteerGate, expiry |-> expiry, id |-> nonce, sig |-> sig]

DigestOf(call) ==
    CASE call.fn = "attestPoP" ->
           <<"ATTEST_POP", Contract, call.worker, call.expiry, call.id>>
      [] call.fn = "bridgeMintCapital" ->
           <<"BRIDGE_MINT_CAPITAL", Contract, call.worker, call.kWRAmount, call.id, call.expiry>>
      [] call.fn = "attestHonor" ->
           <<"ATTEST_HONOR", Contract, call.worker, call.axis, call.honorDelta, call.id,
             call.expiry>>
      [] call.fn = "attestDay" ->
           <<"ATTEST_DAY", Contract, call.worker, call.day, call.active, call.volunteer,
             call.expiry, call.id>>

ecrecover(call) == IF call.sig.digest = DigestOf(call) THEN call.sig.key ELSE Nobody

\* The call as module SeumStandard takes it: with the address it recovers.
Attestation(call) ==
    [f \in DOMAIN call \cup {"signer"} |-> IF f = "signer" THEN ecrecover(call) ELSE call[f]]

-----------------------------------------------------------------------------
(* The handlers: a call to broadcast, nothing to do, or an error. *)

Refused == [outcome |-> "error"]
Nothing == [outcome |-> "nothing"]
Calling(call) == [outcome |-> "call", call |-> call]

\* Axis 0 is refused: capital comes by bridge_mint only.
AxisOf(n) == IF n = 1 THEN "LABOR" ELSE "VERIFICATION"

\* The nonce is drawn anew by every attempt.
AttestPoPHandler(ev, expiry, nonce, key) ==
    IF requireAddrAttr(ev, "evm_addr")
    THEN LET worker == Attr(ev, "evm_addr")
             digest == PackAttestPoPDigest(worker, expiry, nonce)
         IN  Calling(BroadcastAttestPoP(worker, expiry, nonce, SignDigest(digest, key)))
    ELSE Refused

BridgeMintHandler(ev, expiry, key) ==
    IF /\ requireAddrAttr(ev, "evm_addr")
       /\ requireUintAttr(ev, "kwr_amount") /\ Attr(ev, "kwr_amount") > 0
       /\ requireBytes32Attr(ev, "lock_id")
    THEN LET worker == Attr(ev, "evm_addr")
             amount == Attr(ev, "kwr_amount")
             lockID == Attr(ev, "lock_id")
             digest == PackBridgeMintCapitalDigest(worker, amount, lockID, expiry)
         IN  Calling(BroadcastBridgeMintCapital(worker, amount, lockID, expiry,
                                                SignDigest(digest, key)))
    ELSE Refused

\* The sign of the delta is not looked at.
AttestHonorHandler(ev, expiry, key) ==
    IF /\ requireAddrAttr(ev, "evm_addr")
       /\ requireUint64Attr(ev, "axis") /\ Attr(ev, "axis") \in {1, 2}
       /\ requireUintAttr(ev, "honor_delta")
       /\ requireBytes32Attr(ev, "job_id")
    THEN LET worker == Attr(ev, "evm_addr")
             axis   == AxisOf(Attr(ev, "axis"))
             delta  == Attr(ev, "honor_delta")
             jobID  == Attr(ev, "job_id")
             digest == PackAttestHonorDigest(worker, axis, delta, jobID, expiry)
         IN  Calling(BroadcastAttestHonor(worker, axis, delta, jobID, expiry,
                                          SignDigest(digest, key)))
    ELSE Refused

\* A day with neither gate is dropped before its nonce is looked at.
AttestDayHandler(ev, expiry, key) ==
    LET worker    == Attr(ev, "evm_addr")
        day       == Attr(ev, "day")
        active    == Attr(ev, "active_gate")
        volunteer == Attr(ev, "volunteer_gate")
        nonce     == Attr(ev, "nonce")
        digest    == PackAttestDayDigest(worker, day, active, volunteer, expiry, nonce)
        usable    == /\ requireAddrAttr(ev, "evm_addr") /\ requireUint64Attr(ev, "day")
                     /\ requireBoolAttr(ev, "active_gate") /\ requireBoolAttr(ev, "volunteer_gate")
    IN  IF ~usable THEN Refused
        ELSE IF ~active /\ ~volunteer THEN Nothing
        ELSE IF ~requireBytes32Attr(ev, "nonce") THEN Refused
        ELSE Calling(BroadcastAttestDay(worker, day, active, volunteer, expiry, nonce,
                                        SignDigest(digest, key)))

Handle(ev, expiry, nonce, key) ==
    CASE ev.type = "EventEvmMappingRegistered" -> AttestPoPHandler(ev, expiry, nonce, key)
      [] ev.type = "EventCapitalLocked" -> BridgeMintHandler(ev, expiry, key)
      [] ev.type = "EventHonorAttested" -> AttestHonorHandler(ev, expiry, key)
      [] ev.type = "EventDayAttested" -> AttestDayHandler(ev, expiry, key)
=============================================================================
