------------------------- MODULE SnapshotLogProofs -------------------------
(***************************************************************************)
(* Proofs that compaction keeps the meaning of the log, for every set of   *)
(* keys and values and every schedule of compactions.                      *)
(***************************************************************************)
EXTENDS SnapshotLog, KvStoreTheorems

\* The inductive invariant: besides the exactness of the stored snapshot, that of
\* the locals of create, which the last step of a compaction merges into it.
Inv == TypeOK /\ SnapshotExact /\ CreateLoopExact /\ ReferenceExact

\* The entries create has gone through are a sequence of commands, and the next
\* one extends it.
LEMMA SeenExtends ==
    ASSUME TypeOK, NEW i \in compacted .. Len(entries)
    PROVE  /\ SubSeq(entries, compacted + 1, i) \in Seq(Command)
           /\ i < Len(entries) =>
                /\ entries[i + 1] \in Command
                /\ SubSeq(entries, compacted + 1, i + 1)
                     = Append(SubSeq(entries, compacted + 1, i), entries[i + 1])
<1>1. /\ entries \in Seq(Command) /\ Len(entries) \in Nat /\ compacted \in Nat
      /\ compacted <= Len(entries) /\ i \in Nat
  BY LenProperties DEF TypeOK
<1>2. SubSeq(entries, compacted + 1, i) \in Seq(Command)
  BY <1>1, ElementOfSeq, SubSeqProperties
<1>3. ASSUME i < Len(entries)
      PROVE  /\ entries[i + 1] \in Command
             /\ SubSeq(entries, compacted + 1, i + 1)
                  = Append(SubSeq(entries, compacted + 1, i), entries[i + 1])
  <2>1. i + 1 \in 1 .. Len(entries)
    BY <1>1, <1>3
  <2>2. entries[i + 1] \in Command
    BY <1>1, <2>1
  <2>3. SubSeq(entries, compacted + 1, i + 1)
          = SubSeq(entries, compacted + 1, i + 1 - 1) \o <<entries[i + 1]>>
    BY <1>1, <2>1, SubSeqRecursiveSecond
  <2>4. i + 1 - 1 = i
    BY <1>1
  <2> QED BY <1>2, <2>2, <2>3, <2>4, AppendIsConcat
<1> QED BY <1>2, <1>3

\* Appending an entry leaves the parts of the log before it as they are.
LEMMA SubSeqOfAppend ==
    ASSUME NEW es \in Seq(Command), NEW cmd \in Command,
           NEW i \in Nat, NEW j \in Nat, i > 0, j <= Len(es)
    PROVE  SubSeq(Append(es, cmd), i, j) = SubSeq(es, i, j)
<1>1. CASE j < i
  BY <1>1, SubSeqEmpty
<1>2. CASE i <= j
  <2>1. i \in 1 .. Len(es) /\ j \in 1 .. Len(es)
    BY <1>2, LenProperties
  <2> QED BY <2>1, AppendIsConcat, SubSeqOfConcat1, FinalValueSingle
<1> QED BY <1>1, <1>2

\* Nothing was gone over yet.
LEMMA CreateOfNothing ==
    /\ << >> \in Seq(Command)
    /\ StateAfter(<< >>) = EmptyDatabase
    /\ EmptyDatabase \in Database
    /\ Create(<< >>) \in KVSnapshot
    /\ Retained(EmptyDatabase, {}) = Create(<< >>).deleted_keys
<1>1. << >> \in Seq(Command)
  OBVIOUS
<1>2. StateAfter(<< >>) = EmptyDatabase /\ EmptyDatabase \in Database
  BY <1>1, StateAfterIsReplay, ReplayNothing
<1>3. Create(<< >>) \in KVSnapshot
  BY <1>1, CreateType
<1>4. Written(<< >>) = {}
  BY DEF Written
<1>5. Retained(EmptyDatabase, {}) = Create(<< >>).deleted_keys
  BY <1>4 DEF Retained, Create
<1> QED BY <1>1, <1>2, <1>3, <1>5

\* Before anything is decided everything is empty.
LEMMA InitEstablishes == Init => Inv
<1> SUFFICES ASSUME Init PROVE Inv
  OBVIOUS
<1> USE DEF Init
<1>1. SubSeq(entries, 1, compacted) = << >> /\ SubSeq(entries, compacted + 1, position) = << >>
  <2>1. SubSeq(entries, 1, 0) = << >>
    BY SubSeqEmpty
  <2>2. compacted + 1 = 1
    OBVIOUS
  <2> QED BY <2>1, <2>2
<1>2. TypeOK
  BY CreateOfNothing DEF TypeOK
<1>3. SnapshotExact
  BY <1>1 DEF SnapshotExact, Prefix
<1>4. CreateLoopExact
  BY <1>1, CreateOfNothing DEF CreateLoopExact
<1>5. ReferenceExact
  BY CreateOfNothing DEF ReferenceExact
<1> QED BY <1>2, <1>3, <1>4, <1>5 DEF Inv

\* A new decision touches neither the compacted prefix nor a running create.
LEMMA DecidePreserves ==
    ASSUME Inv, NEW cmd \in Command, Decide(cmd)
    PROVE  Inv'
<1> USE DEF Inv, Decide, loop
<1>1. /\ entries \in Seq(Command) /\ Len(entries) \in Nat
      /\ compacted \in Nat /\ position \in Nat /\ target \in Nat
      /\ compacted <= position /\ position <= target /\ target <= Len(entries)
  BY LenProperties DEF TypeOK
<1>2. entries' \in Seq(Command) /\ Len(entries') = Len(entries) + 1
  BY <1>1, AppendProperties
<1>3. db' \in Database /\ db' = StateAfter(entries')
  <2>1. Replay(EmptyDatabase, Append(entries, cmd))
          = HandleCommand(Replay(EmptyDatabase, entries), cmd)
    BY <1>1, StateAfterIsReplay, ReplayAppend
  <2>2. db' = StateAfter(entries')
    BY <2>1, StateAfterIsReplay DEF ReferenceExact
  <2> QED BY <1>2, <2>2, StateAfterIsReplay, ReplayType
<1>4. TypeOK'
  BY <1>1, <1>2, <1>3 DEF TypeOK
<1>5. SubSeq(entries', 1, compacted) = SubSeq(entries, 1, compacted)
  BY <1>1, SubSeqOfAppend
<1>6. SubSeq(entries', compacted + 1, position) = SubSeq(entries, compacted + 1, position)
  BY <1>1, SubSeqOfAppend
<1>7. SnapshotExact'
  BY <1>5 DEF SnapshotExact, Prefix
<1>8. CreateLoopExact'
  BY <1>6 DEF CreateLoopExact
<1> QED BY <1>3, <1>4, <1>7, <1>8 DEF ReferenceExact

\* The map of create follows the entries, whichever arm an entry takes.
LEMMA LoopMapExact ==
    ASSUME Inv, position < target
    PROVE  LET cmd  == entries[position + 1]
               seen == SubSeq(entries, compacted + 1, position)
               next == SubSeq(entries, compacted + 1, position + 1)
           IN  /\ cmd \in Command
               /\ HandleCommand(snapshotted, cmd) = StateAfter(next)
               /\ StateAfter(next) \in Database
               /\ Written(next) = Written(seen) \union {cmd.key}
               /\ FinalValue(next, cmd.key) = cmd.value
               /\ \A k \in Written(seen) \ {cmd.key} :
                     FinalValue(next, k) = FinalValue(seen, k)
<1> DEFINE cmd  == entries[position + 1]
           seen == SubSeq(entries, compacted + 1, position)
           next == SubSeq(entries, compacted + 1, position + 1)
<1>1. /\ position \in compacted .. Len(entries) /\ position < Len(entries)
  BY LenProperties DEF Inv, TypeOK
<1>2. seen \in Seq(Command) /\ cmd \in Command /\ next = Append(seen, cmd)
  BY <1>1, SeenExtends DEF Inv
<1>3. snapshotted = StateAfter(seen)
  BY DEF Inv, CreateLoopExact
<1> HIDE DEF cmd, seen, next
<1>4. next \in Seq(Command)
  BY <1>2, AppendProperties
<1>5. HandleCommand(snapshotted, cmd) = StateAfter(next)
  BY <1>2, <1>3, StateAfterIsReplay, ReplayAppend
<1>6. StateAfter(next) \in Database
  BY <1>4, StateAfterIsReplay, ReplayType
<1>7. /\ Written(next) = Written(seen) \union {cmd.key}
      /\ FinalValue(next, cmd.key) = cmd.value
      /\ \A k \in Written(seen) \ {cmd.key} : FinalValue(next, k) = FinalValue(seen, k)
  BY <1>2, FinalValueAppend
<1> QED BY <1>2, <1>5, <1>6, <1>7 DEF cmd, seen, next

\* One turn of the loop of create, for a put.
LEMMA CreatePutPreserves ==
    ASSUME Inv, CreatePut
    PROVE  Inv'
<1> USE DEF CreatePut
<1> DEFINE cmd  == entries[position + 1]
           seen == SubSeq(entries, compacted + 1, position)
           next == SubSeq(entries, compacted + 1, position + 1)
<1>1. /\ cmd \in Command
      /\ snapshotted' = StateAfter(next)
      /\ StateAfter(next) \in Database
      /\ Written(next) = Written(seen) \union {cmd.key}
      /\ FinalValue(next, cmd.key) = cmd.value
      /\ \A k \in Written(seen) \ {cmd.key} : FinalValue(next, k) = FinalValue(seen, k)
  BY LoopMapExact
<1>2. TypeOK'
  BY <1>1 DEF Inv, TypeOK
<1>3. Retained(snapshotted', deleted_keys') = Create(next).deleted_keys
  <2>1. Retained(snapshotted, deleted_keys) = Create(seen).deleted_keys
    BY DEF Inv, CreateLoopExact
  <2>2. /\ snapshotted = StateAfter(seen) /\ deleted_keys \subseteq Key
        /\ cmd.key \in Key /\ cmd.value # NoValue
        /\ Written(seen) \subseteq Key
    <3>1. seen \in Seq(Command)
      BY SeenExtends, LenProperties DEF Inv, TypeOK
    <3> QED BY <1>1, <3>1, FinalValueType DEF Inv, CreateLoopExact, TypeOK, Command
  <2>3. \A k \in Key : k \in deleted_keys /\ snapshotted[k] = NoValue
                         <=> k \in Written(seen) /\ FinalValue(seen, k) = NoValue
    BY <2>1, <2>2 DEF Retained, Create
  <2>4. \A k \in Key :
            /\ snapshotted'[k] = IF k \in Written(next) THEN FinalValue(next, k) ELSE NoValue
            /\ snapshotted[k] = IF k \in Written(seen) THEN FinalValue(seen, k) ELSE NoValue
    BY <1>1, <2>2 DEF StateAfter
  <2> HIDE DEF cmd, seen, next
  <2>5. \A k \in Key : k \in deleted_keys /\ snapshotted'[k] = NoValue
                         <=> k \in Written(next) /\ FinalValue(next, k) = NoValue
    BY <1>1, <2>2, <2>3, <2>4
  <2> QED BY <1>1, <2>2, <2>5 DEF Retained, Create
<1>4. CreateLoopExact'
  BY <1>1, <1>3 DEF CreateLoopExact
<1> QED BY <1>2, <1>4 DEF Inv, SnapshotExact, ReferenceExact

\* One turn of the loop of create, for a delete.
LEMMA CreateDeletePreserves ==
    ASSUME Inv, CreateDelete
    PROVE  Inv'
<1> USE DEF CreateDelete, Pushed
<1> DEFINE cmd  == entries[position + 1]
           seen == SubSeq(entries, compacted + 1, position)
           next == SubSeq(entries, compacted + 1, position + 1)
<1>1. /\ cmd \in Command
      /\ snapshotted' = StateAfter(next)
      /\ StateAfter(next) \in Database
      /\ Written(next) = Written(seen) \union {cmd.key}
      /\ FinalValue(next, cmd.key) = cmd.value
      /\ \A k \in Written(seen) \ {cmd.key} : FinalValue(next, k) = FinalValue(seen, k)
  BY LoopMapExact
<1>2. TypeOK'
  BY <1>1 DEF Inv, TypeOK, Command
<1>3. Retained(snapshotted', deleted_keys') = Create(next).deleted_keys
  <2>1. Retained(snapshotted, deleted_keys) = Create(seen).deleted_keys
    BY DEF Inv, CreateLoopExact
  <2>2. /\ snapshotted = StateAfter(seen) /\ deleted_keys \subseteq Key
        /\ cmd.key \in Key /\ cmd.value = NoValue
        /\ Written(seen) \subseteq Key
    <3>1. seen \in Seq(Command)
      BY SeenExtends, LenProperties DEF Inv, TypeOK
    <3> QED BY <1>1, <3>1, FinalValueType DEF Inv, CreateLoopExact, TypeOK, Command
  <2>3. \A k \in Key : k \in deleted_keys /\ snapshotted[k] = NoValue
                         <=> k \in Written(seen) /\ FinalValue(seen, k) = NoValue
    BY <2>1, <2>2 DEF Retained, Create
  <2>4. \A k \in Key :
            /\ snapshotted'[k] = IF k \in Written(next) THEN FinalValue(next, k) ELSE NoValue
            /\ snapshotted[k] = IF k \in Written(seen) THEN FinalValue(seen, k) ELSE NoValue
    BY <1>1, <2>2 DEF StateAfter
  <2> HIDE DEF cmd, seen, next
  <2>5. \A k \in Key : k \in deleted_keys \union {cmd.key} /\ snapshotted'[k] = NoValue
                         <=> k \in Written(next) /\ FinalValue(next, k) = NoValue
    BY <1>1, <2>2, <2>3, <2>4
  <2>6. deleted_keys' = deleted_keys \union {cmd.key}
    BY DEF cmd
  <2> QED BY <1>1, <2>2, <2>5, <2>6 DEF Retained, Create
<1>4. CreateLoopExact'
  BY <1>1, <1>3 DEF CreateLoopExact
<1> QED BY <1>2, <1>4 DEF Inv, SnapshotExact, ReferenceExact

\* The merge at the end of a compaction extends the compacted prefix exactly.
LEMMA FinishPreserves ==
    ASSUME Inv, FinishCompaction
    PROVE  Inv'
<1> USE DEF FinishCompaction
<1> DEFINE old  == Prefix(entries, compacted)
           seen == SubSeq(entries, compacted + 1, target)
           delta == [snapshotted  |-> snapshotted,
                     deleted_keys |-> Retained(snapshotted, deleted_keys)]
<1>1. /\ entries \in Seq(Command) /\ Len(entries) \in Nat
      /\ compacted \in Nat /\ target \in Nat
      /\ compacted < target /\ target <= Len(entries)
  BY LenProperties DEF Inv, TypeOK
<1>2. old \in Seq(Command) /\ seen \in Seq(Command)
  BY <1>1, ElementOfSeq, SubSeqProperties DEF Prefix
<1>3. delta = Create(seen)
  BY DEF Inv, CreateLoopExact, Create
<1>4. old \o seen = Prefix(entries, target)
  BY <1>1, ConcatAdjacentSubSeq DEF Prefix
<1>5. snapshot' = Create(Prefix(entries, target))
  BY <1>2, <1>3, <1>4, MergeOfCreates DEF Inv, SnapshotExact
<1>6. Prefix(entries, target) \in Seq(Command)
  BY <1>2, <1>4, ConcatProperties
<1>7. TypeOK'
  BY <1>1, <1>5, <1>6, CreateOfNothing, CreateType DEF Inv, TypeOK
<1>8. SubSeq(entries, target + 1, target) = << >>
  BY <1>1, SubSeqEmpty
<1>9. CreateLoopExact'
  BY <1>8, CreateOfNothing DEF CreateLoopExact
<1> QED BY <1>5, <1>7, <1>9 DEF Inv, SnapshotExact, ReferenceExact

\* Every reachable state satisfies the inductive invariant.
THEOREM InvInvariant == Spec => []Inv
<1>1. Inv /\ [Next]_vars => Inv'
  <2> SUFFICES ASSUME Inv, [Next]_vars PROVE Inv'
    OBVIOUS
  <2>1. ASSUME NEW cmd \in Command, Decide(cmd) PROVE Inv'
    BY <2>1, DecidePreserves
  <2>2. ASSUME NEW i \in 1 .. MaxEntries, StartCompaction(i) PROVE Inv'
    <3>1. target' = i /\ i \in compacted + 1 .. Len(entries) /\ target = compacted
      BY <2>2 DEF StartCompaction, CompactionIdx
    <3>2. UNCHANGED <<entries, db, compacted, loop, snapshot>>
      BY <2>2 DEF StartCompaction
    <3>3. position = compacted /\ compacted \in Nat /\ Len(entries) \in Nat
      BY <3>1, LenProperties DEF Inv, TypeOK
    <3>4. TypeOK'
      BY <3>1, <3>2, <3>3 DEF Inv, TypeOK, loop
    <3> QED BY <3>2, <3>4 DEF Inv, SnapshotExact, CreateLoopExact, ReferenceExact, loop
  <2>3. CASE CreatePut
    BY <2>3, CreatePutPreserves
  <2>4. CASE CreateDelete
    BY <2>4, CreateDeletePreserves
  <2>5. CASE FinishCompaction
    BY <2>5, FinishPreserves
  <2>6. CASE UNCHANGED vars
    BY <2>6 DEF vars, loop, Inv, TypeOK, SnapshotExact, CreateLoopExact, ReferenceExact
  <2> QED BY <2>1, <2>2, <2>3, <2>4, <2>5, <2>6 DEF Next
<1> QED BY InitEstablishes, <1>1, PTL DEF Spec

\* TypeOK holds for every instance.
THEOREM TypeCorrect == Spec => []TypeOK
<1>1. Inv => TypeOK
  BY DEF Inv
<1> QED BY InvInvariant, <1>1, PTL

\* The stored snapshot is the snapshot of the compacted entries, however they
\* were cut into compactions (kv.rs:29-78).
THEOREM SnapshotIsExact == Spec => []SnapshotExact
<1>1. Inv => SnapshotExact
  BY DEF Inv
<1> QED BY InvInvariant, <1>1, PTL

\* At every step of the loop of create, its locals are the snapshot of the entries
\* gone through, tombstones that a put hides included (kv.rs:32-49).
THEOREM CreateLoopIsExact == Spec => []CreateLoopExact
<1>1. Inv => CreateLoopExact
  BY DEF Inv
<1> QED BY InvInvariant, <1>1, PTL

\* Applying the decided entries one by one leaves the reference state
\* (server.rs:195-197).
THEOREM ReferenceIsExact == Spec => []ReferenceExact
<1>1. Inv => ReferenceExact
  BY DEF Inv
<1> QED BY InvInvariant, <1>1, PTL

\* Installing the stored snapshot takes a replica from any point of the compacted
\* prefix to its end (database.rs:72-81).
THEOREM InstallIsExact == Spec => []InstallCatchesUp
<1>1. Inv => InstallCatchesUp
  <2> SUFFICES ASSUME Inv, NEW i \in 0 .. compacted
               PROVE  HandleSnapshot(StateAfter(Prefix(entries, i)), snapshot)
                        = StateAfter(Prefix(entries, compacted))
    BY DEF InstallCatchesUp
  <2> DEFINE a == Prefix(entries, i)
             b == SubSeq(entries, i + 1, compacted)
  <2>1. /\ entries \in Seq(Command) /\ Len(entries) \in Nat /\ compacted \in Nat
        /\ compacted <= Len(entries) /\ i \in Nat /\ i <= compacted
    BY LenProperties DEF Inv, TypeOK
  <2>2. a \in Seq(Command) /\ b \in Seq(Command)
    BY <2>1, ElementOfSeq, SubSeqProperties DEF Prefix
  <2>3. a \o b = Prefix(entries, compacted)
    BY <2>1, ConcatAdjacentSubSeq DEF Prefix
  <2>4. snapshot = Create(a \o b)
    BY <2>3 DEF Inv, SnapshotExact
  <2> HIDE DEF a, b
  <2>5. HandleSnapshot(StateAfter(a), snapshot) = StateAfter(a \o b)
    BY <2>2, <2>4, StateAfterIsReplay, SnapshotSkipsApplied
  <2> QED BY <2>3, <2>5 DEF a
<1> QED BY InvInvariant, <1>1, PTL
=============================================================================
