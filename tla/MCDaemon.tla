------------------------------ MODULE MCDaemon ------------------------------
(* Finite instances of Daemon. *)
EXTENDS Daemon, TLC

CONSTANTS t1, t2, i1, i2, i3

Ev(tx, type, id, kind) == [tx |-> tx, type |-> type, id |-> id, kind |-> kind]

\* A lock and a registration in one transaction; an event without a handler, a day
\* without a gate and a lock whose attributes are unusable in another.
Mixed ==
    (t1 :> <<Ev(t1, "lock", i2, "send"), Ev(t1, "pop", i1, "send")>>) @@
    (t2 :> <<Ev(t2, "other", i3, "send"), Ev(t2, "day", i3, "noop"), Ev(t2, "lock", i3, "bad")>>)

\* Two locks in one transaction.
TwoLocks == t1 :> <<Ev(t1, "lock", i2, "send"), Ev(t1, "lock", i3, "send")>>
=============================================================================
