-------------------------- MODULE KvStoreTheorems --------------------------
(***************************************************************************)
(* Facts about the operators of KvStore, for all sequences of commands and *)
(* all databases: what the last writes of a sequence are, and how          *)
(* snapshots compose with sequences of commands.                           *)
(***************************************************************************)
EXTENDS KvStore, SequenceTheorems, WellFoundedInduction, TLAPS

-----------------------------------------------------------------------------
(***************************************************************************)
(* The last write of a key.                                                *)
(***************************************************************************)
\* A key that is written has a last write.
LEMMA LastWriteExists ==
    ASSUME NEW es \in Seq(Command), NEW k \in Written(es)
    PROVE  \E i \in DOMAIN es : IsLastWrite(es, k, i)
<1> DEFINE Distance == {Len(es) - i : i \in {j \in DOMAIN es : es[j].key = k}}
<1>1. Distance \subseteq Nat
  BY LenProperties
<1>2. Distance # {}
  BY DEF Written
<1>3. PICK x \in Distance : \A y \in Distance : ~ (<<y, x>> \in OpToRel(<, Nat))
  <2> HIDE DEF Distance
  <2> QED BY <1>1, <1>2, WFMin, NatLessThanWellFounded
<1>4. PICK i \in DOMAIN es : es[i].key = k /\ x = Len(es) - i
  OBVIOUS
<1>5. ASSUME NEW j \in DOMAIN es, j > i, es[j].key = k
      PROVE  FALSE
  <2>1. i \in Nat /\ j \in Nat /\ Len(es) \in Nat /\ j <= Len(es)
    BY LenProperties
  <2>2. Len(es) - j \in Distance
    BY <1>5
  <2>3. Len(es) - j \in Nat /\ x \in Nat /\ Len(es) - j < x
    BY <2>1, <1>4, <1>5
  <2>4. <<Len(es) - j, x>> \in OpToRel(<, Nat)
    BY <2>3 DEF OpToRel
  <2> QED BY <1>3, <2>2, <2>4
<1> QED BY <1>4, <1>5 DEF IsLastWrite

\* The value a sequence leaves under a key is that of any of its last writes.
LEMMA FinalValueIs ==
    ASSUME NEW es \in Seq(Command), NEW k, NEW i, IsLastWrite(es, k, i)
    PROVE  k \in Written(es) /\ FinalValue(es, k) = es[i].value
<1> DEFINE j == CHOOSE m \in DOMAIN es : IsLastWrite(es, k, m)
<1>1. i \in DOMAIN es /\ es[i].key = k
  BY DEF IsLastWrite
<1>2. j \in DOMAIN es /\ IsLastWrite(es, k, j)
  BY <1>1
<1>3. i \in Nat /\ j \in Nat
  BY <1>1, <1>2, LenProperties
<1>4. i = j
  <2>1. ~ (i < j) /\ ~ (j < i)
    BY <1>1, <1>2, <1>3 DEF IsLastWrite
  <2> QED BY <1>3, <2>1
<1> QED BY <1>1, <1>4 DEF Written, FinalValue

\* What a sequence writes is typed.
LEMMA FinalValueType ==
    ASSUME NEW es \in Seq(Command)
    PROVE  /\ Written(es) \subseteq Key
           /\ \A k \in Written(es) : FinalValue(es, k) \in MaybeValue
<1>1. \A i \in DOMAIN es : es[i].key \in Key /\ es[i].value \in MaybeValue
  <2>1. \A i \in DOMAIN es : es[i] \in Command
    OBVIOUS
  <2> QED BY <2>1 DEF Command
<1>2. ASSUME NEW k \in Written(es)
      PROVE  FinalValue(es, k) \in MaybeValue
  <2>1. PICK i \in DOMAIN es : IsLastWrite(es, k, i)
    BY LastWriteExists
  <2> QED BY <1>1, <2>1, FinalValueIs
<1> QED BY <1>1, <1>2 DEF Written

\* In a concatenation the second sequence has the last word.
LEMMA FinalValueConcat ==
    ASSUME NEW a \in Seq(Command), NEW b \in Seq(Command), NEW k
    PROVE  /\ Written(a \o b) = Written(a) \union Written(b)
           /\ k \in Written(b) => FinalValue(a \o b, k) = FinalValue(b, k)
           /\ k \in Written(a) \ Written(b) => FinalValue(a \o b, k) = FinalValue(a, k)
<1> DEFINE c == a \o b
<1>1. /\ c \in Seq(Command)
      /\ Len(c) = Len(a) + Len(b)
      /\ Len(a) \in Nat /\ Len(b) \in Nat
      /\ DOMAIN a = 1 .. Len(a) /\ DOMAIN b = 1 .. Len(b) /\ DOMAIN c = 1 .. Len(a) + Len(b)
  BY ConcatProperties, LenProperties
<1>2. \A i \in DOMAIN a : i \in DOMAIN c /\ c[i] = a[i]
  BY <1>1, ConcatProperties
<1>3. \A i \in DOMAIN b : Len(a) + i \in DOMAIN c /\ c[Len(a) + i] = b[i]
  BY <1>1, ConcatProperties
<1>4. \A i \in DOMAIN c : i \in DOMAIN a \/ (i - Len(a) \in DOMAIN b /\ c[i] = b[i - Len(a)])
  BY <1>1, ConcatProperties
<1> HIDE DEF c
<1>5. Written(c) = Written(a) \union Written(b)
  <2>1. Written(c) \subseteq Written(a) \union Written(b)
    BY <1>2, <1>4 DEF Written
  <2>2. Written(a) \subseteq Written(c)
    BY <1>2 DEF Written
  <2>3. Written(b) \subseteq Written(c)
    BY <1>3 DEF Written
  <2> QED BY <2>1, <2>2, <2>3
<1>6. ASSUME k \in Written(b)
      PROVE  FinalValue(c, k) = FinalValue(b, k)
  <2>1. PICK i \in DOMAIN b : IsLastWrite(b, k, i)
    BY <1>6, LastWriteExists
  <2>2. ASSUME NEW j \in DOMAIN c, j > Len(a) + i
        PROVE  c[j].key # k
    <3>1. j - Len(a) \in DOMAIN b /\ c[j] = b[j - Len(a)] /\ j - Len(a) > i
      BY <1>1, <1>4, <2>2
    <3> QED BY <2>1, <3>1 DEF IsLastWrite
  <2>3. IsLastWrite(c, k, Len(a) + i)
    BY <1>3, <2>1, <2>2 DEF IsLastWrite
  <2> QED BY <1>1, <1>3, <2>1, <2>3, FinalValueIs
<1>7. ASSUME k \in Written(a), k \notin Written(b)
      PROVE  FinalValue(c, k) = FinalValue(a, k)
  <2>1. PICK i \in DOMAIN a : IsLastWrite(a, k, i)
    BY <1>7, LastWriteExists
  <2>2. ASSUME NEW j \in DOMAIN c, j > i
        PROVE  c[j].key # k
    <3>1. CASE j \in DOMAIN a
      BY <1>2, <2>1, <2>2, <3>1 DEF IsLastWrite
    <3>2. CASE j \notin DOMAIN a
      BY <1>4, <1>7, <3>2 DEF Written
    <3> QED BY <3>1, <3>2
  <2>3. IsLastWrite(c, k, i)
    BY <1>2, <2>1, <2>2 DEF IsLastWrite
  <2> QED BY <1>1, <1>2, <2>1, <2>3, FinalValueIs
<1> QED BY <1>5, <1>6, <1>7 DEF c

\* A single command writes its key.
LEMMA FinalValueSingle ==
    ASSUME NEW cmd \in Command
    PROVE  /\ <<cmd>> \in Seq(Command)
           /\ Written(<<cmd>>) = {cmd.key}
           /\ FinalValue(<<cmd>>, cmd.key) = cmd.value
<1>1. <<cmd>> \in Seq(Command) /\ DOMAIN <<cmd>> = {1} /\ <<cmd>>[1] = cmd
  OBVIOUS
<1>2. IsLastWrite(<<cmd>>, cmd.key, 1)
  BY <1>1 DEF IsLastWrite
<1> QED BY <1>1, <1>2, FinalValueIs DEF Written

\* Appending a command overrides its key and leaves the others.
LEMMA FinalValueAppend ==
    ASSUME NEW es \in Seq(Command), NEW cmd \in Command
    PROVE  LET next == Append(es, cmd)
           IN  /\ Written(next) = Written(es) \union {cmd.key}
               /\ FinalValue(next, cmd.key) = cmd.value
               /\ \A k \in Written(es) \ {cmd.key} :
                      FinalValue(next, k) = FinalValue(es, k)
<1> DEFINE one == <<cmd>>
<1>1. Append(es, cmd) = es \o one
  BY AppendIsConcat
<1>2. /\ one \in Seq(Command) /\ Written(one) = {cmd.key}
      /\ FinalValue(one, cmd.key) = cmd.value
  BY FinalValueSingle
<1> HIDE DEF one
<1>3. Written(es \o one) = Written(es) \union {cmd.key}
  BY <1>2, FinalValueConcat
<1>4. FinalValue(es \o one, cmd.key) = cmd.value
  BY <1>2, FinalValueConcat
<1>5. ASSUME NEW k \in Written(es) \ {cmd.key}
      PROVE  FinalValue(es \o one, k) = FinalValue(es, k)
  BY <1>2, FinalValueConcat
<1> QED BY <1>1, <1>3, <1>4, <1>5

-----------------------------------------------------------------------------
(***************************************************************************)
(* Replaying commands.                                                     *)
(***************************************************************************)
LEMMA ReplayType ==
    ASSUME NEW d \in Database, NEW es \in Seq(Command)
    PROVE  Replay(d, es) \in Database
BY FinalValueType DEF Replay, Database

\* StateAfter replays on the empty database.
LEMMA StateAfterIsReplay ==
    ASSUME NEW es
    PROVE  /\ EmptyDatabase \in Database
           /\ StateAfter(es) = Replay(EmptyDatabase, es)
BY DEF StateAfter, Replay, EmptyDatabase, Database, MaybeValue

\* Nothing to replay changes nothing.
LEMMA ReplayNothing ==
    ASSUME NEW d \in Database
    PROVE  Replay(d, << >>) = d
BY DEF Replay, Written, Database

\* Replaying one sequence after another replays their concatenation.
LEMMA ReplayConcat ==
    ASSUME NEW d \in Database, NEW a \in Seq(Command), NEW b \in Seq(Command)
    PROVE  Replay(Replay(d, a), b) = Replay(d, a \o b)
BY FinalValueConcat DEF Replay

\* Replaying one more command is what Database::handle_command does.
LEMMA ReplayAppend ==
    ASSUME NEW d \in Database, NEW es \in Seq(Command), NEW cmd \in Command
    PROVE  Replay(d, Append(es, cmd)) = HandleCommand(Replay(d, es), cmd)
<1>1. Append(es, cmd) = es \o <<cmd>>
  BY AppendIsConcat
<1>2. Replay(d, es \o <<cmd>>) = Replay(Replay(d, es), <<cmd>>)
  BY FinalValueSingle, ReplayConcat
<1>3. Replay(d, es) \in Database
  BY ReplayType
<1>4. \A r \in Database : Replay(r, <<cmd>>) = HandleCommand(r, cmd)
  BY FinalValueSingle DEF Replay, HandleCommand, Database, Command
<1> QED BY <1>1, <1>2, <1>3, <1>4

-----------------------------------------------------------------------------
(***************************************************************************)
(* Snapshots.                                                              *)
(***************************************************************************)
LEMMA CreateType ==
    ASSUME NEW es \in Seq(Command)
    PROVE  Create(es) \in KVSnapshot
<1>1. StateAfter(es) \in Database
  BY StateAfterIsReplay, ReplayType
<1> QED BY <1>1, FinalValueType DEF Create, KVSnapshot

\* Installing the snapshot of some commands (database.rs:72-81) has the effect of
\* the commands.
LEMMA SnapshotReplays ==
    ASSUME NEW d \in Database, NEW es \in Seq(Command)
    PROVE  HandleSnapshot(d, Create(es)) = Replay(d, es)
BY DEF HandleSnapshot, Create, Replay, StateAfter

\* Merging the snapshots of two sequences (kv.rs:63-78) gives the snapshot of
\* their concatenation: tombstones and values of both keep their order.
THEOREM MergeOfCreates ==
    ASSUME NEW a \in Seq(Command), NEW b \in Seq(Command)
    PROVE  Merge(Create(a), Create(b)) = Create(a \o b)
<1>1. \A k \in Key :
        /\ Written(a \o b) = Written(a) \union Written(b)
        /\ k \in Written(b) => FinalValue(a \o b, k) = FinalValue(b, k)
        /\ k \in Written(a) \ Written(b) => FinalValue(a \o b, k) = FinalValue(a, k)
  BY FinalValueConcat
<1>2. Written(a) \subseteq Key /\ Written(b) \subseteq Key /\ Written(a \o b) \subseteq Key
  BY FinalValueType, FinalValueConcat
<1> DEFINE m == Merge(Create(a), Create(b))
<1>3. m.snapshotted = StateAfter(a \o b)
  BY <1>1 DEF Merge, Create, StateAfter
<1>4. m.deleted_keys = {k \in Written(a \o b) : FinalValue(a \o b, k) = NoValue}
  <2>1. m.deleted_keys = Retained(m.snapshotted, Create(a).deleted_keys \union Create(b).deleted_keys)
    BY DEF Merge
  <2>2. \A k \in Key : m.snapshotted[k] =
            IF k \in Written(a \o b) THEN FinalValue(a \o b, k) ELSE NoValue
    BY <1>3 DEF StateAfter
  <2> HIDE DEF m
  <2>3. ASSUME NEW k \in Key
        PROVE  k \in m.deleted_keys
                 <=> (k \in Written(a \o b) /\ FinalValue(a \o b, k) = NoValue)
    BY <1>1, <2>1, <2>2 DEF Retained, Create
  <2>4. m.deleted_keys \subseteq Key
    BY <1>2, <2>1 DEF Retained, Create
  <2> QED BY <1>2, <2>3, <2>4
<1> QED BY <1>3, <1>4 DEF Merge, Create

\* A replica that has applied the commands of a, and installs the snapshot of a
\* and b, is where it would be had it applied b.
THEOREM SnapshotSkipsApplied ==
    ASSUME NEW d \in Database, NEW a \in Seq(Command), NEW b \in Seq(Command)
    PROVE  HandleSnapshot(Replay(d, a), Create(a \o b)) = Replay(d, a \o b)
<1>1. HandleSnapshot(Replay(d, a), Create(a \o b)) = Replay(Replay(d, a), a \o b)
  BY ReplayType, ConcatProperties, SnapshotReplays
<1>2. Replay(Replay(d, a), a \o b) = Replay(d, a \o b)
  BY FinalValueConcat DEF Replay
<1> QED BY <1>1, <1>2

\* Database::handle_kv makes the database the one it received (database.rs:36-63).
THEOREM HandleKvReplaces ==
    ASSUME NEW d \in Database, NEW kv \in Database
    PROVE  HandleKv(d, kv) = kv
BY DEF HandleKv, Database
=============================================================================
