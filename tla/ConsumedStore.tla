---------------------------- MODULE ConsumedStore ----------------------------
(***************************************************************************)
(* The daemon's record of what it has processed (package store), written   *)
(* by several goroutines.  BoltStore makes a mark one durable transaction. *)
(* MemoryStore puts it into a map under a lock and then rewrites a file    *)
(* outside of the lock: snapshot, truncate, write, each a step of its own. *)
(***************************************************************************)
EXTENDS FiniteSets

CONSTANT Thread  \* the goroutines that mark keys

VARIABLES
    storeType,  \* "bolt" or "memory"; chosen by the configuration
    open,       \* closeStore has not run
    consumed,   \* MemoryStore.consumed: the map of this process
    disk,       \* the keys in the file, and whether it can be parsed
    flush,      \* flush[t]: the step of t in flush, and the snapshot it writes
    overlapped  \* the last key was put while another goroutine was in flush

storeVars == <<storeType, open, consumed, disk, flush, overlapped>>

NotFlushing == [step |-> "idle", data |-> {}]
Flushing == {t \in Thread : flush[t].step # "idle"}

StoreTyped(key) ==
    /\ storeType \in {"bolt", "memory"} /\ open \in BOOLEAN /\ overlapped \in BOOLEAN
    /\ consumed \subseteq key
    /\ disk \in [ok : BOOLEAN, keys : SUBSET key]
    /\ flush \in [Thread -> [step : {"idle", "snapshot", "truncate", "write"},
                             data : SUBSET key]]

\* A file that does not exist is an empty store.
StoreInit ==
    /\ storeType \in {"bolt", "memory"}
    /\ open = TRUE
    /\ consumed = {}
    /\ disk = [ok |-> TRUE, keys |-> {}]
    /\ flush = [t \in Thread |-> NotFlushing]
    /\ overlapped = FALSE

\* mutant: no dedup
NeverConsumed(key) == FALSE

\* A closed bbolt database answers every View with an error, that is, not found.
IsConsumed(key) == IF storeType = "bolt" THEN open /\ key \in disk.keys ELSE key \in consumed

\* The mark of a closed database is lost: its error is ignored.
MarkBolt(key) ==
    /\ storeType = "bolt"
    /\ disk' = IF open THEN [disk EXCEPT !.keys = @ \cup {key}] ELSE disk
    /\ UNCHANGED <<storeType, open, consumed, flush, overlapped>>

\* mutant: no flush of one's own while another is in progress
PutQuietly(t, key) ==
    /\ storeType = "memory"
    /\ consumed' = consumed \cup {key}
    /\ flush' = IF Flushing = {} THEN [flush EXCEPT ![t].step = "snapshot"] ELSE flush
    /\ overlapped' = FALSE
    /\ UNCHANGED <<storeType, open, disk>>

\* The map is written under the lock; what follows is not.
Put(t, key) ==
    /\ storeType = "memory"
    /\ consumed' = consumed \cup {key}
    /\ flush' = [flush EXCEPT ![t].step = "snapshot"]
    /\ overlapped' = (Flushing # {})
    /\ UNCHANGED <<storeType, open, disk>>

MarkConsumed(t, key) == /\ t \notin Flushing
                        /\ MarkBolt(key) \/ Put(t, key)

TakeSnapshot(t) ==
    /\ flush[t].step = "snapshot"
    /\ flush' = [flush EXCEPT ![t] = [step |-> "truncate", data |-> consumed]]
    /\ UNCHANGED <<storeType, open, consumed, disk, overlapped>>

\* os.WriteFile opens with O_TRUNC: an empty file is not JSON.
Truncate(t) ==
    /\ flush[t].step = "truncate"
    /\ disk' = [ok |-> FALSE, keys |-> {}]
    /\ flush' = [flush EXCEPT ![t].step = "write"]
    /\ UNCHANGED <<storeType, open, consumed, overlapped>>

\* Both goroutines write from the start of the file: of a longer content written
\* since the truncation the tail remains.
Write(t) ==
    /\ flush[t].step = "write"
    /\ disk' = [ok   |-> disk.keys \subseteq flush[t].data,
                keys |-> disk.keys \cup flush[t].data]
    /\ flush' = [flush EXCEPT ![t] = NotFlushing]
    /\ UNCHANGED <<storeType, open, consumed, overlapped>>

FlushStep(t) == TakeSnapshot(t) \/ Truncate(t) \/ Write(t)

\* closeStore: db.Close for bbolt, nothing for the memory store.
CloseStore ==
    /\ open' = FALSE
    /\ UNCHANGED <<storeType, consumed, disk, flush, overlapped>>

\* The process is gone in the middle of whatever it wrote.
StoreLost ==
    /\ open' = FALSE /\ consumed' = {} /\ overlapped' = FALSE
    /\ flush' = [t \in Thread |-> NotFlushing]
    /\ UNCHANGED <<storeType, disk>>

\* The bucket is created if it is missing.
NewBoltStore == storeType = "bolt" /\ consumed' = {}

\* The file is read at the start, which fails if it cannot be parsed.
NewMemoryStore == storeType = "memory" /\ disk.ok /\ consumed' = disk.keys

OpenStore ==
    /\ NewBoltStore \/ NewMemoryStore
    /\ open' = TRUE
    /\ UNCHANGED <<storeType, disk, flush, overlapped>>

-----------------------------------------------------------------------------
\* "Saves on change" (NewMemoryStore) is kept only for marks set one after the
\* other: at rest the file holds the map exactly, unless the last mark was set
\* while another goroutine was writing, when an older snapshot may win or the
\* file may be unreadable.  A readable file never holds a key nobody marked.
FileIsCurrent ==
    storeType = "memory" /\ open =>
        /\ Flushing = {} /\ ~overlapped => disk = [ok |-> TRUE, keys |-> consumed]
        /\ disk.keys \subseteq consumed
=============================================================================
