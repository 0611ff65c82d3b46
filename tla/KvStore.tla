------------------------------ MODULE KvStore ------------------------------
(***************************************************************************)
(* The data of the key-value store: the local RocksDB database of a node,  *)
(* the commands of the replicated log and the snapshots a log is compacted *)
(* into (kv_store/src/kv.rs, kv_store/src/database.rs).                    *)
(*                                                                         *)
(* A database maps every key to the value stored under it, or to NoValue   *)
(* when the key is absent.  KVCommand::Get never enters the log: the       *)
(* server answers it from its own database (server.rs:63-68).              *)
(***************************************************************************)
EXTENDS Naturals, Sequences

CONSTANTS
    Key,        \* the keys clients use
    Value,      \* the values clients store
    NoValue     \* the absence of a value

ASSUME NoValueAssumption == NoValue \notin Value

MaybeValue == Value \union {NoValue}

Database == [Key -> MaybeValue]

EmptyDatabase == [k \in Key |-> NoValue]

\* A logged command: Put(key, value), or Delete(key) when value is NoValue.
Command == [key : Key, value : MaybeValue]

\* Mutant of HandleCommand: a delete leaves the key in place.
PutOnly(d, cmd) ==
    IF cmd.value = NoValue THEN d ELSE [d EXCEPT ![cmd.key] = cmd.value]

\* Database::handle_command for the two commands that are logged.
HandleCommand(d, cmd) == [d EXCEPT ![cmd.key] = cmd.value]

-----------------------------------------------------------------------------
(***************************************************************************)
(* Reference: what a sequence of commands leaves behind, command by        *)
(* command, expressed through the last command that writes each key.       *)
(***************************************************************************)
IsLastWrite(es, k, i) ==
    /\ i \in DOMAIN es
    /\ es[i].key = k
    /\ \A j \in DOMAIN es : j > i => es[j].key # k

Written(es) == {es[i].key : i \in DOMAIN es}

FinalValue(es, k) == es[CHOOSE i \in DOMAIN es : IsLastWrite(es, k, i)].value

StateAfter(es) ==
    [k \in Key |-> IF k \in Written(es) THEN FinalValue(es, k) ELSE NoValue]

\* A database that already holds d, after the commands of es on top of it.
Replay(d, es) ==
    [k \in Key |-> IF k \in Written(es) THEN FinalValue(es, k) ELSE d[k]]

\* The first i commands of es.
Prefix(es, i) == SubSeq(es, 1, i)

-----------------------------------------------------------------------------
(***************************************************************************)
(* KVSnapshot.  The vector deleted_keys is only searched and drained, so   *)
(* its order and its duplicates are abstracted and it is a set.            *)
(***************************************************************************)
KVSnapshot == [snapshotted : Database, deleted_keys : SUBSET Key]

\* Mutant of Retained: the retain is left out.
RetainedAll(snapshotted, deleted) == deleted

\* deleted_keys.retain(|k| !snapshotted.contains_key(k))
Retained(snapshotted, deleted) == {k \in deleted : snapshotted[k] = NoValue}

\* KVSnapshot::create, as a whole; SnapshotLog steps through its loop.
Create(es) ==
    [snapshotted  |-> StateAfter(es),
     deleted_keys |-> {k \in Written(es) : FinalValue(es, k) = NoValue}]

\* Mutant of Merge: the keys a delta deletes are removed but not remembered.
MergeForgetful(self, delta) ==
    [snapshotted  |-> [k \in Key |->
                          IF k \in delta.deleted_keys THEN NoValue
                          ELSE IF delta.snapshotted[k] # NoValue
                               THEN delta.snapshotted[k]
                               ELSE self.snapshotted[k]],
     deleted_keys |-> self.deleted_keys]

\* KVSnapshot::merge: the delta's values are inserted, the keys it deletes are
\* removed and remembered, and the deletions that a value hides are forgotten.
Merge(self, delta) ==
    LET merged == [k \in Key |->
                      IF k \in delta.deleted_keys THEN NoValue
                      ELSE IF delta.snapshotted[k] # NoValue
                           THEN delta.snapshotted[k]
                           ELSE self.snapshotted[k]]
    IN  [snapshotted  |-> merged,
         deleted_keys |->
             Retained(merged, self.deleted_keys \union delta.deleted_keys)]

\* Mutant of HandleSnapshot: the tombstones are not applied.
HandleSnapshotPuts(d, s) ==
    [k \in Key |-> IF s.snapshotted[k] # NoValue THEN s.snapshotted[k] ELSE d[k]]

\* Database::handle_snapshot: put every value, then delete every tombstone.
HandleSnapshot(d, s) ==
    [k \in Key |-> IF k \in s.deleted_keys THEN NoValue
                   ELSE IF s.snapshotted[k] # NoValue
                        THEN s.snapshotted[k]
                        ELSE d[k]]

\* Database::handle_kv: put every received pair, then delete every key that is
\* in the database and not in the received state.
HandleKv(d, kv) ==
    LET put == [k \in Key |-> IF kv[k] # NoValue THEN kv[k] ELSE d[k]]
    IN  [k \in Key |-> IF kv[k] = NoValue THEN NoValue ELSE put[k]]

(***************************************************************************)
(* What a crash can leave of a database that was being overwritten: the    *)
(* writes reach RocksDB one key at a time, the puts in an arbitrary order  *)
(* and, once they are all done, the deletes.                               *)
(***************************************************************************)
Overwritten(d, new, ks) == [k \in Key |-> IF k \in ks THEN new[k] ELSE d[k]]

Torn(d, new) ==
    LET puts == {k \in Key : new[k] # NoValue}
    IN  {Overwritten(d, new, ks) : ks \in SUBSET puts}
          \union {Overwritten(d, new, puts \union ks) : ks \in SUBSET (Key \ puts)}
=============================================================================
