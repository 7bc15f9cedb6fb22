------------------------------ MODULE MCBridge ------------------------------
(* A finite instance of Bridge. *)
EXTENDS Bridge

CONSTANTS w1, i1, i2, n1

Event(type, attributes) == [type |-> type, attributes |-> attributes]

Register(w) == Event("EventEvmMappingRegistered", [evm_addr |-> <<w>>])
Lock(w, n, id) ==
    Event("EventCapitalLocked", [evm_addr |-> <<w>>, kwr_amount |-> <<n>>, lock_id |-> id])
Honor(w, axis, delta, id) ==
    Event("EventHonorAttested", [evm_addr |-> <<w>>, axis |-> <<axis>>, honor_delta |-> <<delta>>,
                                 job_id |-> <<id>>])
Day(w, day, active, volunteer, id) ==
    Event("EventDayAttested", [evm_addr |-> <<w>>, day |-> <<day>>, active_gate |-> <<active>>,
                               volunteer_gate |-> <<volunteer>>, nonce |-> <<id>>])

\* A negative delta under the identifier of a lock, a lock whose identifier does
\* not parse, a day without a gate.
BridgeEvents ==
    {Register(w1), Lock(w1, 3, <<i1>>), Honor(w1, 1, -3, i1), Lock(w1, 2, <<>>),
     Day(w1, 0, TRUE, FALSE, i2), Day(w1, 0, FALSE, FALSE, i2)}
=============================================================================
