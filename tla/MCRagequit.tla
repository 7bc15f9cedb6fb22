----------------------------- MODULE MCRagequit -----------------------------
(* A finite instance of RagequitWatcher. *)
EXTENDS RagequitWatcher

CONSTANTS r1, r2, r3, z1

ZionKeys == {<<"zion", z1>>}
=============================================================================
