---------------------------- MODULE SnapshotLog ----------------------------
(***************************************************************************)
(* A decided log and the snapshot a server compacts it into.               *)
(*                                                                         *)
(* Compaction calls KVSnapshot::create on the decided entries after the    *)
(* last compaction, a loop over the entries (kv.rs:29-61), and folds the   *)
(* result into the stored snapshot with KVSnapshot::merge (kv.rs:63-78).   *)
(* The loop is stepped through entry by entry; meanwhile the other servers *)
(* may decide more.  A restarted server compacts up to what it knows to be *)
(* decided (server.rs:281-285), which may be any index of the log.  db is  *)
(* the database of a replica that applies the same entries one command at  *)
(* a time, which is what an installed snapshot has to be indistinguishable *)
(* from.                                                                   *)
(***************************************************************************)
EXTENDS KvStore

CONSTANT
    MaxEntries      \* bound: decided entries

ASSUME MaxEntriesAssumption == MaxEntries \in Nat

VARIABLES
    entries,        \* the decided entries
    db,             \* the database of a replica that applied every entry
    compacted,      \* how many entries the stored snapshot stands for
    target,         \* the index the running compaction stops at
    position,       \* the entries KVSnapshot::create has gone through
    snapshotted,    \* local of KVSnapshot::create
    deleted_keys,   \* local of KVSnapshot::create
    snapshot        \* the stored snapshot

loop == <<position, snapshotted, deleted_keys>>
vars == <<entries, db, compacted, target, loop, snapshot>>

Init ==
    /\ entries = << >>
    /\ db = EmptyDatabase
    /\ compacted = 0
    /\ target = 0
    /\ position = 0
    /\ snapshotted = EmptyDatabase
    /\ deleted_keys = {}
    /\ snapshot = Create(<< >>)

\* One more command is decided, and a replica applies it.
Decide(cmd) ==
    /\ Len(entries) < MaxEntries
    /\ entries' = Append(entries, cmd)
    /\ db' = HandleCommand(db, cmd)
    /\ UNCHANGED <<compacted, target, loop, snapshot>>

\* Mutant of CompactionIdx: an index that is not decided yet is accepted.
CompactionIdxUndecided == compacted + 1 .. Len(entries) + 1

\* The decided index of the server that compacts: any up to the last entry.
CompactionIdx == compacted + 1 .. Len(entries)

\* snapshot(Some(i), true): entries compacted+1 .. i go to create.
StartCompaction(i) ==
    /\ target = compacted
    /\ i \in CompactionIdx
    /\ target' = i
    /\ UNCHANGED <<entries, db, compacted, loop, snapshot>>

\* The Put arm of the loop in KVSnapshot::create.
CreatePut ==
    /\ position < target
    /\ entries[position + 1].value # NoValue
    /\ snapshotted' = HandleCommand(snapshotted, entries[position + 1])
    /\ position' = position + 1
    /\ UNCHANGED <<entries, db, compacted, target, deleted_keys, snapshot>>

\* Mutant of Pushed: a deleted key is remembered only when it was not in the map.
PushedWhenAbsent(k) ==
    IF snapshotted[k] = NoValue THEN deleted_keys \union {k} ELSE deleted_keys

\* The deleted key is pushed whether it was in the map or not (kv.rs:40-46).
Pushed(k) == deleted_keys \union {k}

\* The Delete arm: the key leaves the map.
CreateDelete ==
    /\ position < target
    /\ entries[position + 1].value = NoValue
    /\ snapshotted' = HandleCommand(snapshotted, entries[position + 1])
    /\ deleted_keys' = Pushed(entries[position + 1].key)
    /\ position' = position + 1
    /\ UNCHANGED <<entries, db, compacted, target, snapshot>>

\* The retain that ends create, then the merge into the stored snapshot.
FinishCompaction ==
    LET delta == [snapshotted  |-> snapshotted,
                  deleted_keys |-> Retained(snapshotted, deleted_keys)]
    IN  /\ compacted < target
        /\ position = target
        /\ snapshot' = Merge(snapshot, delta)
        /\ compacted' = target
        /\ snapshotted' = EmptyDatabase
        /\ deleted_keys' = {}
        /\ UNCHANGED <<entries, db, target, position>>

Next ==
    \/ \E cmd \in Command : Decide(cmd)
    \/ \E i \in 1 .. MaxEntries : StartCompaction(i)
    \/ CreatePut
    \/ CreateDelete
    \/ FinishCompaction

Spec == Init /\ [][Next]_vars

-----------------------------------------------------------------------------
\* Every variable keeps its type: in particular the loop of create never runs
\* past the entries the compaction asked for.
TypeOK ==
    /\ entries \in Seq(Command)
    /\ db \in Database
    /\ compacted \in 0 .. Len(entries)
    /\ target \in compacted .. Len(entries)
    /\ position \in compacted .. target
    /\ snapshotted \in Database
    /\ deleted_keys \in SUBSET Key
    /\ snapshot \in KVSnapshot

\* However the log was cut into compactions, the stored snapshot is the one
\* KVSnapshot::create would build from all the compacted entries at once: no
\* put and no tombstone of an earlier compaction is lost or resurrected.
SnapshotExact == snapshot = Create(Prefix(entries, compacted))

\* A lagging replica that stopped anywhere inside the compacted prefix and
\* installs the snapshot (database.rs:72-81) ends where the commands end.
InstallCatchesUp ==
    \A i \in 0 .. compacted :
        HandleSnapshot(StateAfter(Prefix(entries, i)), snapshot)
            = StateAfter(Prefix(entries, compacted))

\* While create runs, its map and its raw tombstones describe the entries it
\* has gone through; a key may be in both until retain.
CreateLoopExact ==
    LET seen == SubSeq(entries, compacted + 1, position)
    IN  /\ snapshotted = StateAfter(seen)
        /\ Retained(snapshotted, deleted_keys) = Create(seen).deleted_keys

\* The reference of KvStore is what command-by-command application computes.
ReferenceExact == db = StateAfter(entries)
=============================================================================
