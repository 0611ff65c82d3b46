--------------------------- MODULE KvServerProofs ---------------------------
(***************************************************************************)
(* Proofs about the servers, for every set of nodes, keys and values, every *)
(* sequence of configurations and all bounds.                              *)
(***************************************************************************)
EXTENDS KvServer, KvStoreTheorems, FiniteSetTheorems

-----------------------------------------------------------------------------
(***************************************************************************)
(* Constants and operators.                                                *)
(***************************************************************************)
LEMMA ConfigFacts ==
    /\ Config = 1 .. Len(ConfigNodes)
    /\ Len(ConfigNodes) \in Nat
    /\ 1 \in Config
    /\ \A c \in Config : ConfigNodes[c] \subseteq Node
<1>1. ConfigNodes \in Seq(SUBSET Node) /\ Len(ConfigNodes) > 0
  BY ConfigAssumption
<1>2. Config = 1 .. Len(ConfigNodes) /\ Len(ConfigNodes) \in Nat
  BY <1>1, LenProperties DEF Config
<1>3. \A c \in Config : ConfigNodes[c] \in SUBSET Node
  BY <1>1, <1>2, ElementOfSeq
<1> QED BY <1>1, <1>2, <1>3

\* Every node is in its first configuration, and in none before.
LEMMA FirstConfigType ==
    ASSUME NEW n \in Node
    PROVE  /\ FirstConfig(n) \in Config /\ n \in ConfigNodes[FirstConfig(n)]
           /\ \A b \in Config : n \in ConfigNodes[b] => FirstConfig(n) <= b
<1> DEFINE S == {c \in Config : n \in ConfigNodes[c]}
<1>1. S # {} /\ S \subseteq Nat
  BY ConfigAssumption, ConfigFacts DEF Config
<1>2. PICK c \in S : \A b \in S : ~ (<<b, c>> \in OpToRel(<, Nat))
  <2> HIDE DEF S
  <2> QED BY <1>1, WFMin, NatLessThanWellFounded
<1>3. \A b \in Config : b < c => n \notin ConfigNodes[b]
  <2> SUFFICES ASSUME NEW b \in Config, b < c, n \in ConfigNodes[b] PROVE FALSE
    OBVIOUS
  <2>1. b \in S /\ b \in Nat /\ c \in Nat
    BY <1>1
  <2>2. <<b, c>> \in OpToRel(<, Nat)
    BY <2>1 DEF OpToRel
  <2> QED BY <1>2, <2>1, <2>2
<1>4. \E m \in Config :
          n \in ConfigNodes[m] /\ \A b \in Config : b < m => n \notin ConfigNodes[b]
  BY <1>2, <1>3
<1>5. /\ FirstConfig(n) \in Config /\ n \in ConfigNodes[FirstConfig(n)]
      /\ \A b \in Config : b < FirstConfig(n) => n \notin ConfigNodes[b]
  BY <1>4 DEF FirstConfig
<1>6. \A b \in Config : b \in Nat
  BY ConfigFacts
<1> HIDE DEF FirstConfig
<1> QED BY <1>5, <1>6

\* A prefix of a log is a sequence of commands.
LEMMA PrefixType ==
    ASSUME NEW es \in Seq(Command), NEW i \in Nat, i <= Len(es)
    PROVE  /\ Prefix(es, i) \in Seq(Command)
           /\ Len(Prefix(es, i)) = i
           /\ \A j \in 1 .. i : Prefix(es, i)[j] = es[j]
<1>1. \A j \in 1 .. i : es[j] \in Command
  BY LenProperties
<1>2. /\ SubSeq(es, 1, i) \in Seq(Command)
      /\ Len(SubSeq(es, 1, i)) = IF 1 <= i THEN i - 1 + 1 ELSE 0
      /\ \A j \in 1 .. i - 1 + 1 : SubSeq(es, 1, i)[j] = es[1 + j - 1]
  BY <1>1, SubSeqProperties
<1> QED BY <1>2 DEF Prefix

LEMMA StoreTypes ==
    ASSUME NEW d \in Database
    PROVE  /\ \A cmd \in Command : HandleCommand(d, cmd) \in Database
           /\ \A s \in KVSnapshot : HandleSnapshot(d, s) \in Database
           /\ \A kv \in Database : HandleKv(d, kv) \in Database
<1>1. \A cmd \in Command : HandleCommand(d, cmd) \in Database
  BY DEF HandleCommand, Command, Database
<1>2. \A s \in KVSnapshot : HandleSnapshot(d, s) \in Database
  BY DEF HandleSnapshot, KVSnapshot, Database, MaybeValue
<1>3. \A kv \in Database : HandleKv(d, kv) \in Database
  BY HandleKvReplaces
<1> QED BY <1>1, <1>2, <1>3

\* A torn database has, under every key, the old value or the new one.
LEMMA TornValues ==
    ASSUME NEW d \in Database, NEW new \in Database, NEW torn \in Torn(d, new)
    PROVE  torn \in Database /\ \A k \in Key : torn[k] \in {d[k], new[k]}
BY DEF Torn, Overwritten, Database

-----------------------------------------------------------------------------
(***************************************************************************)
(* Type correctness.  The bounds on the stored indexes are part of it: an  *)
(* instance whose decided index passed the commands of its log is one      *)
(* whose configuration is stopped, which is why a successor exists.        *)
(***************************************************************************)
LEMMA InitTypeOK == Init => TypeOK
<1> SUFFICES ASSUME Init PROVE TypeOK
  OBVIOUS
<1> USE DEF Init
<1>1. << >> \in Seq(Command) /\ Len(<< >>) = 0
  OBVIOUS
<1>2. EmptyDatabase \in Database
  BY StateAfterIsReplay
<1>3. boot \in [Node -> Config]
  BY FirstConfigType
<1>4. \A n \in Node, c \in Config :
         storage[n][c] = Fresh /\ DecidedLen(c) = 0 /\ Len(log[c]) = 0
  BY <1>1 DEF DecidedLen
<1>5. storage \in [Node -> [Config -> [decided : Nat, compacted : Nat]]]
  BY DEF Fresh
<1> QED BY <1>1, <1>2, <1>3, <1>4, <1>5 DEF TypeOK, Fresh

\* What the instance that n runs knows.
LEMMA ServingFacts ==
    ASSUME TypeOK, NEW n \in Node
    PROVE  LET c == serving[n]
           IN  /\ c \in Config
               /\ log[c] \in Seq(Command) /\ Len(log[c]) \in Nat
               /\ Decided(n) \in Nat /\ Compacted(n) \in Nat
               /\ DecidedLen(c) \in Nat
               /\ Decided(n) <= DecidedLen(c)
               /\ Compacted(n) <= Len(log[c]) /\ Compacted(n) <= Decided(n)
               /\ Len(log[c]) <= DecidedLen(c) /\ DecidedLen(c) <= Len(log[c]) + 1
               /\ IsReconfigured(n, c) => /\ stopped[c]
                                          /\ c + 1 \in Config
                                          /\ Decided(n) = Len(log[c]) + 1
<1>1. serving[n] \in Config /\ log[serving[n]] \in Seq(Command)
  BY DEF TypeOK
<1>2. Len(log[serving[n]]) \in Nat
  BY <1>1, LenProperties
<1>3. storage[n][serving[n]] \in [decided : Nat, compacted : Nat]
  BY <1>1 DEF TypeOK
<1> QED BY <1>1, <1>2, <1>3 DEF TypeOK, Decided, Compacted, DecidedLen, IsReconfigured

\* Changing one entry of storage keeps the others.
LEMMA StorageUpdate ==
    ASSUME TypeOK, NEW n \in Node, NEW c \in Config, NEW d \in Nat, NEW i \in Nat,
           d <= DecidedLen(c), i <= Len(log[c]), i <= d,
           storage' = [storage EXCEPT ![n][c] = [decided |-> d, compacted |-> i]],
           UNCHANGED consensus
    PROVE  /\ storage' \in [Node -> [Config -> [decided : Nat, compacted : Nat]]]
           /\ \A m \in Node, b \in Config :
                 /\ storage'[m][b].decided <= DecidedLen(b)'
                 /\ storage'[m][b].compacted <= Len(log'[b])
                 /\ storage'[m][b].compacted <= storage'[m][b].decided
<1>1. storage \in [Node -> [Config -> [decided : Nat, compacted : Nat]]]
  BY DEF TypeOK
<1>2. \A m \in Node, b \in Config :
         storage'[m][b] = IF m = n /\ b = c THEN [decided |-> d, compacted |-> i]
                                           ELSE storage[m][b]
  BY <1>1
<1>3. storage' \in [Node -> [Config -> [decided : Nat, compacted : Nat]]]
  BY <1>1
<1>4. \A b \in Config : DecidedLen(b)' = DecidedLen(b) /\ log'[b] = log[b]
  BY DEF consensus, DecidedLen
<1>5. \A m \in Node, b \in Config :
         /\ storage[m][b].decided <= DecidedLen(b)
         /\ storage[m][b].compacted <= Len(log[b])
         /\ storage[m][b].compacted <= storage[m][b].decided
  BY DEF TypeOK
<1>6. ASSUME NEW m \in Node, NEW b \in Config
      PROVE  /\ storage'[m][b].decided <= DecidedLen(b)'
             /\ storage'[m][b].compacted <= Len(log'[b])
             /\ storage'[m][b].compacted <= storage'[m][b].decided
  <2>1. CASE m = n /\ b = c
    <3>1. storage'[m][b] = [decided |-> d, compacted |-> i]
      BY <1>2, <2>1
    <3> QED BY <1>4, <2>1, <3>1
  <2>2. CASE ~ (m = n /\ b = c)
    <3>1. storage'[m][b] = storage[m][b]
      BY <1>2, <2>2
    <3> QED BY <1>4, <1>5, <3>1
  <2> QED BY <2>1, <2>2
<1> QED BY <1>3, <1>6

\* Changing one field of an entry of storage.
LEMMA StorageFields ==
    ASSUME NEW r \in [decided : Nat, compacted : Nat], NEW x
    PROVE  /\ [r EXCEPT !.decided = x] = [decided |-> x, compacted |-> r.compacted]
           /\ [r EXCEPT !.compacted = x] = [decided |-> r.decided, compacted |-> x]
OBVIOUS

\* A longer or newly stopped log only raises the bounds.
LEMMA ConsensusTypeOK ==
    ASSUME TypeOK, NEW c \in Config,
           (\E cmd \in Command : Choose(c, cmd)) \/ ChooseStopSign(c)
    PROVE  TypeOK'
<1>1. log \in [Config -> Seq(Command)] /\ stopped \in [Config -> BOOLEAN]
  BY DEF TypeOK
<1>2. \A b \in Config : Len(log[b]) \in Nat
  BY <1>1, LenProperties
<1>3. \A m \in Node, b \in Config :
         /\ storage[m][b].decided \in Nat /\ storage[m][b].compacted \in Nat
         /\ storage[m][b].decided <= DecidedLen(b)
         /\ storage[m][b].compacted <= Len(log[b])
  <2>1. storage \in [Node -> [Config -> [decided : Nat, compacted : Nat]]]
    BY DEF TypeOK
  <2>2. \A m \in Node, b \in Config :
           /\ storage[m][b].decided <= DecidedLen(b)
           /\ storage[m][b].compacted <= Len(log[b])
    BY DEF TypeOK
  <2> QED BY <2>1, <2>2
<1>4. CASE \E cmd \in Command : Choose(c, cmd)
  <2>1. PICK cmd \in Command : Choose(c, cmd)
    BY <1>4
  <2>2. log' = [log EXCEPT ![c] = Append(log[c], cmd)] /\ stopped' = stopped
    BY <2>1 DEF Choose
  <2>3. Append(log[c], cmd) \in Seq(Command) /\ Len(Append(log[c], cmd)) = Len(log[c]) + 1
    BY <1>1, AppendProperties
  <2>4. \A b \in Config : Len(log'[b]) \in Nat /\ Len(log'[b]) >= Len(log[b])
    BY <1>1, <1>2, <2>2, <2>3
  <2>5. \A m \in Node, b \in Config :
           /\ storage[m][b].decided <= DecidedLen(b)'
           /\ storage[m][b].compacted <= Len(log'[b])
    <3>1. \A b \in Config : DecidedLen(b)' >= DecidedLen(b) /\ DecidedLen(b)' \in Nat
                            /\ DecidedLen(b) \in Nat
      BY <1>2, <2>2, <2>4 DEF DecidedLen
    <3> QED BY <1>2, <1>3, <2>4, <3>1
  <2>6. log' \in [Config -> Seq(Command)]
    BY <1>1, <2>2, <2>3
  <2>7. UNCHANGED <<storage, db, boot, pc, serving, cluster, last_decided_idx, applied, flushed,
                    catchup, restarts>>
    BY <2>1 DEF Choose, persistent, volatile, instance
  <2>8. \A m \in Node, b \in Config :
           storage[m][b].compacted <= storage[m][b].decided
    BY DEF TypeOK
  <2> QED BY <2>2, <2>5, <2>6, <2>7, <2>8 DEF TypeOK
<1>5. CASE ChooseStopSign(c)
  <2>1. stopped' = [stopped EXCEPT ![c] = TRUE] /\ log' = log /\ c + 1 \in Config
    BY <1>5 DEF ChooseStopSign
  <2>2. \A m \in Node, b \in Config : storage[m][b].decided <= DecidedLen(b)'
    <3>1. \A b \in Config : stopped[b] => stopped'[b]
      BY <1>1, <2>1
    <3>2. \A b \in Config : DecidedLen(b)' >= DecidedLen(b) /\ DecidedLen(b)' \in Nat
                            /\ DecidedLen(b) \in Nat
      BY <1>2, <2>1, <3>1 DEF DecidedLen
    <3> QED BY <1>3, <3>2
  <2>3. stopped' \in [Config -> BOOLEAN] /\ \A b \in Config : stopped'[b] => b + 1 \in Config
    BY <1>1, <2>1 DEF TypeOK
  <2>4. UNCHANGED <<storage, db, boot, pc, serving, cluster, last_decided_idx, applied, flushed,
                    catchup, restarts>>
    BY <1>5 DEF ChooseStopSign, persistent, volatile, instance
  <2> QED BY <2>1, <2>2, <2>3, <2>4 DEF TypeOK
<1> QED BY <1>4, <1>5

\* The indexes that process_incoming_msgs and a restart move.
LEMMA StorageTypeOK ==
    ASSUME TypeOK, NEW n \in Node,
           \/ LearnDecided(n)
           \/ \E i \in 1 .. Len(log[serving[n]]) : SyncFromSnapshot(n, i)
           \/ Start(n)
    PROVE  TypeOK'
<1>1. storage \in [Node -> [Config -> [decided : Nat, compacted : Nat]]]
  BY DEF TypeOK
<1>2. CASE LearnDecided(n)
  <2>1. /\ storage' = [storage EXCEPT ![n][serving[n]] =
                           [decided |-> Decided(n) + 1, compacted |-> Compacted(n)]]
    <3>1. storage' = [storage EXCEPT ![n][serving[n]].decided = Decided(n) + 1]
      BY <1>2 DEF LearnDecided, Decided
    <3>2. storage[n][serving[n]] \in [decided : Nat, compacted : Nat]
      BY <1>1, ServingFacts
    <3>3. [storage[n][serving[n]] EXCEPT !.decided = Decided(n) + 1]
            = [decided |-> Decided(n) + 1, compacted |-> Compacted(n)]
      BY <3>2, StorageFields DEF Compacted
    <3> QED BY <3>1, <3>3
  <2>2. Decided(n) + 1 <= DecidedLen(serving[n])
    BY <1>2, ServingFacts DEF LearnDecided
  <2>3. UNCHANGED <<consensus, db, boot, volatile, catchup, restarts>>
    BY <1>2 DEF LearnDecided
  <2>4. /\ storage' \in [Node -> [Config -> [decided : Nat, compacted : Nat]]]
        /\ \A m \in Node, b \in Config :
              /\ storage'[m][b].decided <= DecidedLen(b)'
              /\ storage'[m][b].compacted <= Len(log'[b])
              /\ storage'[m][b].compacted <= storage'[m][b].decided
    <3>1. /\ serving[n] \in Config /\ Decided(n) + 1 \in Nat /\ Compacted(n) \in Nat
          /\ Compacted(n) <= Len(log[serving[n]]) /\ Compacted(n) <= Decided(n) + 1
      BY ServingFacts
    <3> QED BY <2>1, <2>2, <2>3, <3>1, StorageUpdate
  <2> QED BY <2>3, <2>4 DEF TypeOK, consensus, volatile, instance
<1>3. CASE \E i \in 1 .. Len(log[serving[n]]) : SyncFromSnapshot(n, i)
  <2>1. PICK i \in 1 .. Len(log[serving[n]]) : SyncFromSnapshot(n, i)
    BY <1>3
  <2>2. /\ storage' = [storage EXCEPT ![n][serving[n]] = [decided |-> i, compacted |-> i]]
        /\ UNCHANGED <<consensus, db, boot, volatile, catchup, restarts>>
    BY <2>1 DEF SyncFromSnapshot
  <2>3. i \in Nat /\ i <= Len(log[serving[n]]) /\ i <= DecidedLen(serving[n])
    BY ServingFacts
  <2>4. /\ storage' \in [Node -> [Config -> [decided : Nat, compacted : Nat]]]
        /\ \A m \in Node, b \in Config :
              /\ storage'[m][b].decided <= DecidedLen(b)'
              /\ storage'[m][b].compacted <= Len(log'[b])
              /\ storage'[m][b].compacted <= storage'[m][b].decided
    <3>1. serving[n] \in Config /\ i <= i
      BY <2>3, ServingFacts
    <3>2. UNCHANGED consensus
      BY <2>2
    <3> QED BY <2>2, <2>3, <3>1, <3>2, StorageUpdate
  <2> QED BY <2>2, <2>4 DEF TypeOK, consensus, volatile, instance
<1>4. CASE Start(n)
  <2> DEFINE c == boot[n]
             d == storage[n][c].decided
  <2>1. c \in Config /\ d \in Nat /\ d <= DecidedLen(c) /\ Len(log[c]) \in Nat
    BY <1>1, LenProperties DEF TypeOK
  <2>2. SnapshotIdx(n) \in Nat /\ SnapshotIdx(n) <= d /\ SnapshotIdx(n) <= Len(log[c])
    BY <2>1 DEF SnapshotIdx, IsReconfigured
  <2>3. /\ storage' = [storage EXCEPT ![n][c] = [decided |-> d, compacted |-> SnapshotIdx(n)]]
    <3>1. storage' = [storage EXCEPT ![n][c].compacted = SnapshotIdx(n)]
      BY <1>4 DEF Start
    <3>2. storage[n][c] \in [decided : Nat, compacted : Nat]
      BY <1>1, <2>1
    <3>3. [storage[n][c] EXCEPT !.compacted = SnapshotIdx(n)]
            = [decided |-> d, compacted |-> SnapshotIdx(n)]
      BY <3>2, StorageFields
    <3> QED BY <3>1, <3>3
  <2>4. /\ UNCHANGED <<consensus, db, boot, serving, last_decided_idx, applied, flushed, catchup,
                       restarts>>
        /\ pc' = [pc EXCEPT ![n] = "loop"]
    BY <1>4 DEF Start
  <2>6. cluster' \in [Node -> Config]
    BY <1>4 DEF Start, Counted, TypeOK
  <2>5. /\ storage' \in [Node -> [Config -> [decided : Nat, compacted : Nat]]]
        /\ \A m \in Node, b \in Config :
              /\ storage'[m][b].decided <= DecidedLen(b)'
              /\ storage'[m][b].compacted <= Len(log'[b])
              /\ storage'[m][b].compacted <= storage'[m][b].decided
    BY <2>1, <2>2, <2>3, <2>4, StorageUpdate
  <2> QED BY <2>4, <2>5, <2>6 DEF TypeOK, consensus
<1> QED BY <1>2, <1>3, <1>4

\* Steps that leave the logs and the storage alone keep the bounds.
LEMMA FrameTypeOK ==
    ASSUME TypeOK, UNCHANGED <<consensus, storage>>,
           db' \in [Node -> Database],
           boot' \in [Node -> Config],
           pc' \in [Node -> {"new", "loop", "apply", "panicked", "down"}],
           serving' \in [Node -> Config],
           cluster' \in [Node -> Config],
           last_decided_idx' \in [Node -> Nat],
           applied' \in [Node -> Nat],
           flushed' \in [Node -> BOOLEAN],
           catchup' \in SUBSET CatchupMessage,
           restarts' \in Nat
    PROVE  TypeOK'
BY DEF TypeOK, consensus, DecidedLen

\* The steps of handle_decided_entries and update_database.
LEMMA ApplyTypeOK ==
    ASSUME TypeOK, NEW n \in Node,
           \/ HandleDecidedEntries(n)
           \/ ApplySnapshot(n)
           \/ ApplyCommand(n)
           \/ FinishDecided(n)
           \/ \E reached \in SUBSET (Node \ {n}) : ApplyStopSign(n, reached)
    PROVE  TypeOK'
<1> USE DEF consensus, persistent, volatile, instance
<1>1. CASE HandleDecidedEntries(n)
  <2>1. ReadFrom(last_decided_idx[n], Decided(n)) \in Nat
    BY ServingFacts DEF ReadFrom, TypeOK
  <2> QED BY <1>1, <2>1, FrameTypeOK DEF HandleDecidedEntries, TypeOK
<1>2. CASE ApplySnapshot(n)
  <2>1. Prefix(log[serving[n]], Compacted(n)) \in Seq(Command)
    BY ServingFacts, PrefixType
  <2>2. HandleSnapshot(db[n], Create(Prefix(log[serving[n]], Compacted(n)))) \in Database
    BY <2>1, CreateType, StoreTypes DEF TypeOK
  <2> QED BY <1>2, <2>2, ServingFacts, FrameTypeOK DEF ApplySnapshot, TypeOK
<1>3. CASE ApplyCommand(n)
  <2>1. log[serving[n]][applied[n] + 1] \in Command
    <3>1. applied[n] + 1 \in 1 .. Len(log[serving[n]])
      BY <1>3, ServingFacts DEF ApplyCommand, AtCommand, TypeOK
    <3> QED BY <3>1, ServingFacts
  <2>2. HandleCommand(db[n], log[serving[n]][applied[n] + 1]) \in Database
    BY <2>1, StoreTypes DEF TypeOK
  <2>3. db' \in [Node -> Database] /\ applied' \in [Node -> Nat]
    BY <1>3, <2>2 DEF ApplyCommand, TypeOK
  <2> QED BY <1>3, <2>3, FrameTypeOK DEF ApplyCommand, TypeOK
<1>4. CASE FinishDecided(n)
  BY <1>4, ServingFacts, FrameTypeOK DEF FinishDecided, TypeOK
<1>5. CASE \E reached \in SUBSET (Node \ {n}) : ApplyStopSign(n, reached)
  <2>1. PICK reached \in SUBSET (Node \ {n}) : ApplyStopSign(n, reached)
    BY <1>5
  <2>2. serving[n] + 1 \in Config
    BY <2>1, ServingFacts DEF ApplyStopSign, AtStopSign
  <2>3. {[from |-> n, to |-> p, kv |-> db[n]] : p \in reached} \subseteq CatchupMessage
    BY DEF CatchupMessage, TypeOK
  <2>4. catchup' \in SUBSET CatchupMessage
    BY <2>1, <2>3 DEF ApplyStopSign, TypeOK
  <2>5. last_decided_idx' \in [Node -> Nat]
    BY <2>1, ServingFacts DEF ApplyStopSign, TypeOK
  <2> QED BY <2>1, <2>2, <2>4, <2>5, FrameTypeOK DEF ApplyStopSign, TypeOK
<1> QED BY <1>1, <1>2, <1>3, <1>4, <1>5

\* A process that ends leaves typed variables behind.
LEMMA ExitTypes ==
    ASSUME TypeOK, NEW n \in Node, NEW how \in {"panicked", "down"}, Exit(n, how)
    PROVE  /\ pc' \in [Node -> {"new", "loop", "apply", "panicked", "down"}]
           /\ serving' \in [Node -> Config]
           /\ cluster' \in [Node -> Config]
           /\ last_decided_idx' \in [Node -> Nat]
           /\ applied' \in [Node -> Nat]
           /\ flushed' \in [Node -> BOOLEAN]
           /\ catchup' \in SUBSET CatchupMessage
BY DEF Exit, TypeOK

LEMMA FailTypes ==
    ASSUME TypeOK, NEW n \in Node, Fail(n)
    PROVE  /\ pc' \in [Node -> {"new", "loop", "apply", "panicked", "down"}]
           /\ serving' \in [Node -> Config]
           /\ cluster' \in [Node -> Config]
           /\ last_decided_idx' \in [Node -> Nat]
           /\ applied' \in [Node -> Nat]
           /\ flushed' \in [Node -> BOOLEAN]
           /\ catchup' \in SUBSET CatchupMessage
           /\ restarts' \in Nat
<1>1. Exit(n, "down") /\ restarts' \in Nat
  BY DEF Fail, TypeOK
<1> QED BY <1>1, ExitTypes

LEMMA FailureTypeOK ==
    ASSUME TypeOK, NEW n \in Node,
           AppendPanics(n) \/ BuildFails(n) \/ Crash(n) \/ CrashInSnapshot(n)
    PROVE  TypeOK'
<1> USE DEF consensus, persistent
<1>1. CASE AppendPanics(n)
  BY <1>1, ExitTypes, FrameTypeOK DEF AppendPanics, TypeOK
<1>2. CASE BuildFails(n)
  BY <1>2, ExitTypes, FrameTypeOK DEF BuildFails, TypeOK
<1>3. CASE Crash(n)
  BY <1>3, FailTypes, FrameTypeOK DEF Crash, TypeOK
<1>4. CASE CrashInSnapshot(n)
  <2> DEFINE new == HandleSnapshot(db[n], Create(Prefix(log[serving[n]], Compacted(n))))
  <2>1. PICK torn \in Torn(db[n], new) : db' = [db EXCEPT ![n] = torn]
    BY <1>4 DEF CrashInSnapshot
  <2>2. new \in Database
    BY ServingFacts, PrefixType, CreateType, StoreTypes DEF TypeOK
  <2> HIDE DEF new
  <2>3. torn \in Database
    BY <2>2, TornValues DEF TypeOK
  <2>4. db' \in [Node -> Database]
    BY <2>1, <2>3 DEF TypeOK
  <2> QED BY <1>4, <2>4, FailTypes, FrameTypeOK DEF CrashInSnapshot, TypeOK
<1> QED BY <1>1, <1>2, <1>3, <1>4

LEMMA CatchupTypeOK ==
    ASSUME TypeOK, NEW m \in catchup, ReceiveCatchup(m) \/ CrashInHandleKv(m)
    PROVE  TypeOK'
<1> USE DEF consensus, volatile, instance
<1>1. m.to \in Node /\ m.kv \in Database /\ HandleKv(db[m.to], m.kv) \in Database
  <2>1. m.to \in Node /\ m.kv \in Database /\ db[m.to] \in Database
    BY DEF TypeOK, CatchupMessage
  <2> QED BY <2>1, StoreTypes
<1>2. CASE ReceiveCatchup(m)
  BY <1>1, <1>2, FrameTypeOK DEF ReceiveCatchup, TypeOK
<1>3. CASE CrashInHandleKv(m)
  <2>1. PICK torn \in Torn(db[m.to], HandleKv(db[m.to], m.kv)) :
            db' = [db EXCEPT ![m.to] = torn]
    BY <1>3 DEF CrashInHandleKv
  <2>2. torn \in Database
    BY <1>1, <2>1, TornValues DEF TypeOK
  <2>3. db' \in [Node -> Database]
    BY <2>1, <2>2 DEF TypeOK
  <2> QED BY <1>1, <1>3, <2>3, FailTypes, FrameTypeOK DEF CrashInHandleKv, TypeOK
<1> QED BY <1>2, <1>3

LEMMA BootTypeOK ==
    ASSUME TypeOK, NEW n \in Node, NEW c \in Config, Boot(n, c)
    PROVE  TypeOK'
<1> USE DEF consensus
<1>1. cluster' \in [Node -> Config]
  BY DEF Boot, Counted, TypeOK
<1>2. boot' \in [Node -> Config] /\ serving' \in [Node -> Config]
  BY DEF Boot, TypeOK
<1>3. pc' \in [Node -> {"new", "loop", "apply", "panicked", "down"}]
  BY DEF Boot, TypeOK
<1> QED BY <1>1, <1>2, <1>3, FrameTypeOK DEF Boot, TypeOK

LEMMA NextTypeOK == TypeOK /\ [Next]_vars => TypeOK'
<1> SUFFICES ASSUME TypeOK, [Next]_vars PROVE TypeOK'
  OBVIOUS
<1>1. ASSUME NEW c \in Config, NEW cmd \in Command, Choose(c, cmd) PROVE TypeOK'
  BY <1>1, ConsensusTypeOK
<1>2. ASSUME NEW c \in Config, ChooseStopSign(c) PROVE TypeOK'
  BY <1>2, ConsensusTypeOK
<1>3. ASSUME NEW n \in Node, Step(n) PROVE TypeOK'
  BY <1>3, StorageTypeOK, ApplyTypeOK, FailureTypeOK, BootTypeOK DEF Step
<1>8. ASSUME NEW n \in Node, LearnDecided(n) PROVE TypeOK'
  BY <1>8, StorageTypeOK
<1>4. ASSUME NEW n \in Node, NEW i \in 1 .. Len(log[serving[n]]), SyncFromSnapshot(n, i)
      PROVE  TypeOK'
  BY <1>4, StorageTypeOK
<1>5. ASSUME NEW m \in catchup, ReceiveCatchup(m) \/ CrashInHandleKv(m) PROVE TypeOK'
  BY <1>5, CatchupTypeOK
<1>6. ASSUME NEW n \in Node, AppendPanics(n) \/ Crash(n) \/ CrashInSnapshot(n) PROVE TypeOK'
  BY <1>6, FailureTypeOK
<1>7. CASE UNCHANGED vars
  BY <1>7, FrameTypeOK DEF vars, consensus, persistent, volatile, instance, TypeOK
<1> QED BY <1>1, <1>2, <1>3, <1>4, <1>5, <1>6, <1>7, <1>8 DEF Next

\* The types and the index bounds hold in every reachable state.
THEOREM TypeCorrect == Spec => []TypeOK
BY InitTypeOK, NextTypeOK, PTL DEF Spec

-----------------------------------------------------------------------------
(***************************************************************************)
(* Configurations.  The members of configuration c move on to c + 1 at its *)
(* StopSign; a node that joins later may run an instance of c + 1 as soon  *)
(* as it has a pod.  So what keeps c + 1 from deciding before c is stopped *)
(* is that the joiners alone are no majority of the nodes they count: a    *)
(* cluster may be scaled from two replicas to three, or doubled, but not   *)
(* from one replica to three.                                              *)
(***************************************************************************)
\* The members of b that join after c.
Joiners(b, c) == {n \in ConfigNodes[b] : FirstConfig(n) > c}

JoinersNoMajority ==
    \A b, c \in Config :
        c < b => 2 * Cardinality(Joiners(b, c)) <= Cardinality(ConfigNodes[b])

\* config_1 of n holds the log of no configuration later than the first n is in, and
\* n has gone from there to what it serves by StopSigns.
ServesInSequence ==
    \A n \in Node :
        /\ boot[n] <= FirstConfig(n)
        /\ boot[n] <= serving[n] /\ serving[n] <= cluster[n]
        /\ \A c \in Config : boot[n] <= c /\ c < serving[n] => stopped[c]

DecidesInSequence ==
    \A c \in Config :
        c + 1 \in Config /\ (log[c + 1] # << >> \/ stopped[c + 1]) => stopped[c]

\* A process that is down has nothing but its config_1.
DownAtBoot == \A n \in Node : pc[n] = "down" => serving[n] = boot[n]

SequenceInv == TypeOK /\ ServesInSequence /\ DecidesInSequence /\ DownAtBoot

\* A majority that runs an instance of c + 1 has a member that c had, too.
LEMMA MajorityMoved ==
    ASSUME JoinersNoMajority, SequenceInv, NEW c \in Config, c + 1 \in Config,
           CanDecide(c + 1)
    PROVE  stopped[c]
<1>1. PICK n \in Node : serving[n] = c + 1 /\ HasMajority(n)
  BY DEF CanDecide
<1> DEFINE b == cluster[n]
           active == {m \in ConfigNodes[b] : Active(m, c + 1)}
<1>2. b \in Config /\ b > c /\ c \in Nat
  <2>1. b \in Config /\ serving[n] <= b
    BY DEF SequenceInv, TypeOK, ServesInSequence
  <2> QED BY <1>1, <2>1, ConfigFacts
<1>3. 2 * Cardinality(active) > Cardinality(ConfigNodes[b])
  BY <1>1 DEF HasMajority
<1>4. 2 * Cardinality(Joiners(b, c)) <= Cardinality(ConfigNodes[b])
  BY <1>2 DEF JoinersNoMajority
<1>5. IsFiniteSet(ConfigNodes[b]) /\ IsFiniteSet(Joiners(b, c)) /\ IsFiniteSet(active)
  <2>1. IsFiniteSet(ConfigNodes[b])
    BY <1>2, ConfigAssumption, ConfigFacts, FS_Subset
  <2> QED BY <2>1, FS_Subset DEF Joiners
<1>6. /\ Cardinality(active) \in Nat /\ Cardinality(Joiners(b, c)) \in Nat
      /\ Cardinality(ConfigNodes[b]) \in Nat
  BY <1>5, FS_CardinalityType
<1>7. ~ (active \subseteq Joiners(b, c))
  <2> SUFFICES ASSUME active \subseteq Joiners(b, c) PROVE FALSE
    OBVIOUS
  <2>1. Cardinality(active) <= Cardinality(Joiners(b, c))
    BY <1>5, FS_Subset
  <2> HIDE DEF active, b
  <2> QED BY <1>3, <1>4, <1>6, <2>1
<1>8. PICK m \in ConfigNodes[b] : serving[m] = c + 1 /\ ~ (FirstConfig(m) > c)
  BY <1>7 DEF Joiners, Active
<1>9. m \in Node /\ FirstConfig(m) \in Nat /\ boot[m] \in Nat
  <2>0. m \in Node
    <3> HIDE DEF b
    <3> QED BY <1>2, ConfigFacts
  <2>1. m \in Node /\ boot \in [Node -> Config] /\ \A a \in Config : a \in Nat
    <3>1. \A a \in Config : a \in Nat
      BY ConfigFacts
    <3> QED BY <2>0, <3>1 DEF SequenceInv, TypeOK
  <2>2. FirstConfig(m) \in Config /\ boot[m] \in Config
    BY <2>1, FirstConfigType
  <2> QED BY <2>1, <2>2
<1>10. boot[m] <= FirstConfig(m)
  BY <1>9 DEF SequenceInv, ServesInSequence
<1>11. boot[m] <= c /\ c < serving[m]
  BY <1>2, <1>8, <1>9, <1>10
<1> QED BY <1>9, <1>11 DEF SequenceInv, ServesInSequence

\* Nobody changes what it serves, or counts, and stopped configurations stay so.
LEMMA ServingStays ==
    ASSUME SequenceInv, UNCHANGED <<boot, serving, cluster>>,
           \A c \in Config : stopped[c] => stopped'[c]
    PROVE  ServesInSequence'
<1>1. \A n : FirstConfig(n)' = FirstConfig(n)
  BY DEF FirstConfig
<1> QED BY <1>1 DEF SequenceInv, ServesInSequence

\* The process of n, and no other, changes what it serves or counts.
LEMMA ServingChanges ==
    ASSUME SequenceInv, NEW n \in Node, UNCHANGED consensus,
           \A m \in Node \ {n} : /\ boot'[m] = boot[m] /\ serving'[m] = serving[m]
                                 /\ cluster'[m] = cluster[m],
           boot'[n] <= FirstConfig(n), boot'[n] <= serving'[n], serving'[n] <= cluster'[n],
           \A c \in Config : boot'[n] <= c /\ c < serving'[n] => stopped[c]
    PROVE  ServesInSequence' /\ DecidesInSequence'
<1>1. \A m : FirstConfig(m)' = FirstConfig(m)
  BY DEF FirstConfig
<1>2. ServesInSequence'
  BY <1>1 DEF SequenceInv, ServesInSequence, consensus
<1>3. DecidesInSequence'
  BY DEF SequenceInv, DecidesInSequence, consensus
<1> QED BY <1>2, <1>3

LEMMA SequenceTypes ==
    ASSUME SequenceInv, NEW n \in Node
    PROVE  /\ TypeOK /\ boot \in [Node -> Config] /\ serving \in [Node -> Config]
           /\ cluster \in [Node -> Config]
           /\ boot[n] \in Nat /\ serving[n] \in Nat /\ cluster[n] \in Nat
           /\ boot[n] <= FirstConfig(n) /\ FirstConfig(n) \in Nat
           /\ boot[n] <= serving[n] /\ serving[n] <= cluster[n]
           /\ \A c \in Config : boot[n] <= c /\ c < serving[n] => stopped[c]
           /\ \A c \in Config : c \in Nat
<1>1. /\ TypeOK /\ boot \in [Node -> Config] /\ serving \in [Node -> Config]
      /\ cluster \in [Node -> Config]
  BY DEF SequenceInv, TypeOK
<1>2. FirstConfig(n) \in Config /\ \A c \in Config : c \in Nat
  BY FirstConfigType, ConfigFacts
<1> QED BY <1>1, <1>2 DEF SequenceInv, ServesInSequence

\* A process that ends falls back to what it booted with.
LEMMA ExitSequence ==
    ASSUME SequenceInv, NEW n \in Node, NEW how, Exit(n, how), UNCHANGED <<consensus, boot>>
    PROVE  ServesInSequence' /\ DecidesInSequence'
<1>1. /\ serving'[n] = boot[n] /\ cluster'[n] = boot[n]
      /\ \A m \in Node \ {n} : serving'[m] = serving[m] /\ cluster'[m] = cluster[m]
  BY SequenceTypes DEF Exit
<1> QED BY <1>1, SequenceTypes, ServingChanges

\* The first boot, a restart, and the switch at a StopSign.
LEMMA SwitchSequence ==
    ASSUME SequenceInv, NEW n \in Node,
           \/ \E c \in Config : Boot(n, c)
           \/ Start(n)
           \/ \E reached : ApplyStopSign(n, reached)
    PROVE  ServesInSequence' /\ DecidesInSequence'
<1>1. CASE \E c \in Config : Boot(n, c)
  <2>1. PICK c \in Config : Boot(n, c)
    BY <1>1
  <2>2. PICK b \in Counted(n, c) : cluster' = [cluster EXCEPT ![n] = b]
    BY <2>1 DEF Boot
  <2>3. /\ boot'[n] = c /\ serving'[n] = c /\ cluster'[n] = b /\ c <= b /\ c <= FirstConfig(n)
        /\ c \in Nat /\ b \in Nat /\ UNCHANGED consensus
        /\ \A m \in Node \ {n} : /\ boot'[m] = boot[m] /\ serving'[m] = serving[m]
                                 /\ cluster'[m] = cluster[m]
    BY <2>1, <2>2, SequenceTypes DEF Boot, Counted
  <2> QED BY <2>3, SequenceTypes, ServingChanges
<1>2. CASE Start(n)
  <2>3. serving[n] = boot[n]
    BY <1>2 DEF Start, SequenceInv, DownAtBoot
  <2>1. PICK b \in Counted(n, boot[n]) : cluster' = [cluster EXCEPT ![n] = b]
    BY <1>2 DEF Start
  <2>2. /\ serving' = serving /\ boot' = boot /\ cluster'[n] = b /\ serving[n] <= b
        /\ UNCHANGED consensus /\ \A m \in Node \ {n} : cluster'[m] = cluster[m]
    BY <1>2, <2>1, <2>3, SequenceTypes DEF Start, Counted
  <2> QED BY <2>2, <2>3, SequenceTypes, ServingChanges
<1>3. CASE \E reached : ApplyStopSign(n, reached)
  <2>1. PICK reached : ApplyStopSign(n, reached)
    BY <1>3
  <2>2. stopped[serving[n]]
    BY <2>1, SequenceTypes, ServingFacts DEF ApplyStopSign, AtStopSign
  <2>3. /\ boot' = boot /\ serving'[n] = serving[n] + 1 /\ cluster'[n] = serving[n] + 1
        /\ UNCHANGED consensus
        /\ \A m \in Node \ {n} : serving'[m] = serving[m] /\ cluster'[m] = cluster[m]
    BY <2>1, SequenceTypes DEF ApplyStopSign, persistent
  <2>4. \A c \in Config : boot[n] <= c /\ c < serving[n] + 1 => stopped[c]
    <3> SUFFICES ASSUME NEW c \in Config, boot[n] <= c, c < serving[n] + 1 PROVE stopped[c]
      OBVIOUS
    <3>1. c < serving[n] \/ c = serving[n]
      BY SequenceTypes
    <3> QED BY <2>2, <3>1, SequenceTypes
  <2> QED BY <2>3, <2>4, SequenceTypes, ServingChanges
<1> QED BY <1>1, <1>2, <1>3

LEMMA StepSequence ==
    ASSUME SequenceInv, NEW n \in Node,
           Step(n) \/ AppendPanics(n) \/ Crash(n) \/ CrashInSnapshot(n)
    PROVE  ServesInSequence' /\ DecidesInSequence'
<1>1. CASE UNCHANGED <<consensus, boot, instance>>
  BY <1>1, SequenceTypes, ServingChanges DEF instance
<1>2. ASSUME NEW how, Exit(n, how), UNCHANGED <<consensus, boot>>
      PROVE  ServesInSequence' /\ DecidesInSequence'
  BY <1>2, ExitSequence
<1>3. Step(n) => \/ UNCHANGED <<consensus, boot, instance>>
                 \/ \E how : Exit(n, how) /\ UNCHANGED <<consensus, boot>>
                 \/ \E c \in Config : Boot(n, c)
                 \/ Start(n)
                 \/ \E reached : ApplyStopSign(n, reached)
  BY DEF Step, HandleDecidedEntries, ApplySnapshot, ApplyCommand, FinishDecided, BuildFails,
     persistent
<1>4. AppendPanics(n) \/ Crash(n) \/ CrashInSnapshot(n) =>
          \E how : Exit(n, how) /\ UNCHANGED <<consensus, boot>>
  BY DEF AppendPanics, Crash, CrashInSnapshot, Fail, persistent
<1> QED BY <1>1, <1>2, <1>3, <1>4, SwitchSequence

\* What is decided, in the log or as a StopSign.
LEMMA DecideSequence ==
    ASSUME JoinersNoMajority, SequenceInv, NEW c \in Config,
           (\E cmd \in Command : Choose(c, cmd)) \/ ChooseStopSign(c)
    PROVE  ServesInSequence' /\ DecidesInSequence'
<1>1. log \in [Config -> Seq(Command)] /\ stopped \in [Config -> BOOLEAN]
  BY DEF SequenceInv, TypeOK
<1>2. /\ \A b \in Config : stopped[b] => stopped'[b]
      /\ UNCHANGED <<boot, serving, cluster>>
      /\ \A b \in Config \ {c} : log'[b] = log[b] /\ stopped'[b] = stopped[b]
      /\ CanDecide(c)
  BY <1>1 DEF Choose, ChooseStopSign, persistent, volatile, instance
<1>3. ServesInSequence'
  BY <1>2, ServingStays
<1>4. DecidesInSequence'
  <2> SUFFICES ASSUME NEW b \in Config, b + 1 \in Config,
                      log'[b + 1] # << >> \/ stopped'[b + 1]
               PROVE  stopped'[b]
    BY DEF DecidesInSequence
  <2>1. CASE b + 1 # c
    BY <1>2, <2>1 DEF SequenceInv, DecidesInSequence
  <2>2. CASE b + 1 = c
    BY <1>2, <2>2, MajorityMoved
  <2> QED BY <2>1, <2>2
<1> QED BY <1>3, <1>4

\* Every step that takes a process down takes it back to its config_1.
LEMMA StepDownAtBoot ==
    ASSUME SequenceInv, [Next]_vars
    PROVE  DownAtBoot'
<1> USE DEF persistent, volatile, instance
<1>1. /\ pc \in [Node -> {"new", "loop", "apply", "panicked", "down"}]
      /\ serving \in [Node -> Config]
      /\ \A n \in Node : pc[n] = "down" => serving[n] = boot[n]
  BY DEF SequenceInv, TypeOK, DownAtBoot
<1>2. CASE UNCHANGED <<pc, boot, serving>>
  BY <1>1, <1>2 DEF DownAtBoot
<1>3. ASSUME NEW n \in Node, NEW how, Exit(n, how), UNCHANGED boot
      PROVE  DownAtBoot'
  BY <1>1, <1>3 DEF Exit, DownAtBoot
<1>4. ASSUME NEW n \in Node, pc'[n] # "down",
             \A m \in Node \ {n} : UNCHANGED <<pc[m], boot[m], serving[m]>>
      PROVE  DownAtBoot'
  BY <1>1, <1>4 DEF DownAtBoot
<1>5. ASSUME NEW n \in Node, Step(n) PROVE DownAtBoot'
  <2>1. CASE ApplySnapshot(n) \/ ApplyCommand(n) \/ HandleDecidedEntries(n) \/ FinishDecided(n)
    <3>1. pc'[n] # "down"
      BY <1>1, <2>1 DEF ApplySnapshot, ApplyCommand, AtCommand, HandleDecidedEntries,
         FinishDecided
    <3>2. \A m \in Node \ {n} : UNCHANGED <<pc[m], boot[m], serving[m]>>
      BY <1>1, <2>1 DEF ApplySnapshot, ApplyCommand, HandleDecidedEntries, FinishDecided
    <3> QED BY <1>4, <3>1, <3>2
  <2>2. CASE BuildFails(n)
    BY <1>3, <2>2 DEF BuildFails
  <2>3. CASE \E reached : ApplyStopSign(n, reached)
    BY <1>1, <1>4, <2>3 DEF ApplyStopSign
  <2>4. CASE (\E c \in Config : Boot(n, c)) \/ Start(n)
    <3>1. boot \in [Node -> Config]
      BY DEF SequenceInv, TypeOK
    <3> QED BY <1>1, <1>4, <2>4, <3>1 DEF Boot, Start
  <2> QED BY <1>5, <2>1, <2>2, <2>3, <2>4 DEF Step
<1>6. ASSUME NEW n \in Node, AppendPanics(n) \/ Crash(n) \/ CrashInSnapshot(n)
      PROVE  DownAtBoot'
  BY <1>3, <1>6 DEF AppendPanics, Crash, CrashInSnapshot, Fail
<1>7. ASSUME NEW m \in catchup, CrashInHandleKv(m) PROVE DownAtBoot'
  <2>1. m.to \in Node
    BY DEF SequenceInv, TypeOK, CatchupMessage
  <2> QED BY <1>3, <1>7, <2>1 DEF CrashInHandleKv, Fail
<1>8. ASSUME NEW m \in catchup, ReceiveCatchup(m) PROVE DownAtBoot'
  BY <1>2, <1>8 DEF ReceiveCatchup
<1>9. ASSUME NEW n \in Node, LearnDecided(n) \/ \E i : SyncFromSnapshot(n, i) PROVE DownAtBoot'
  BY <1>2, <1>9 DEF LearnDecided, SyncFromSnapshot
<1>10. ASSUME NEW c \in Config, ChooseStopSign(c) \/ \E cmd \in Command : Choose(c, cmd)
       PROVE  DownAtBoot'
  BY <1>2, <1>10 DEF ChooseStopSign, Choose
<1>11. CASE UNCHANGED vars
  BY <1>2, <1>11 DEF vars
<1> QED BY <1>5, <1>6, <1>7, <1>8, <1>9, <1>10, <1>11 DEF Next

LEMMA NextSequence ==
    ASSUME JoinersNoMajority, SequenceInv, [Next]_vars
    PROVE  SequenceInv'
<1>1. TypeOK' /\ DownAtBoot'
  BY NextTypeOK, StepDownAtBoot DEF SequenceInv
<1>2. ServesInSequence' /\ DecidesInSequence'
  <2>1. ASSUME NEW c \in Config, (\E cmd \in Command : Choose(c, cmd)) \/ ChooseStopSign(c)
        PROVE  ServesInSequence' /\ DecidesInSequence'
    BY <2>1, DecideSequence
  <2>2. ASSUME NEW n \in Node, Step(n) \/ AppendPanics(n) \/ Crash(n) \/ CrashInSnapshot(n)
        PROVE  ServesInSequence' /\ DecidesInSequence'
    BY <2>2, StepSequence
  <2>3. ASSUME UNCHANGED <<consensus, boot, instance>>
        PROVE  ServesInSequence' /\ DecidesInSequence'
    <3>1. ServesInSequence'
      BY <2>3, ServingStays DEF consensus, instance
    <3> QED BY <2>3, <3>1 DEF SequenceInv, DecidesInSequence, consensus
  <2>4. ASSUME NEW m \in catchup, CrashInHandleKv(m)
        PROVE  ServesInSequence' /\ DecidesInSequence'
    <3>1. m.to \in Node
      BY DEF SequenceInv, TypeOK, CatchupMessage
    <3> QED BY <2>4, <3>1, ExitSequence DEF CrashInHandleKv, Fail
  <2>5. ASSUME NEW m \in catchup, ReceiveCatchup(m)
        PROVE  UNCHANGED <<consensus, boot, instance>>
    BY <2>5 DEF ReceiveCatchup, volatile
  <2>6. ASSUME NEW n \in Node, LearnDecided(n) \/ \E i : SyncFromSnapshot(n, i)
        PROVE  UNCHANGED <<consensus, boot, instance>>
    BY <2>6 DEF LearnDecided, SyncFromSnapshot, volatile
  <2>7. CASE UNCHANGED vars
    BY <2>3, <2>7 DEF vars, volatile, persistent
  <2> QED BY <2>1, <2>2, <2>3, <2>4, <2>5, <2>6, <2>7 DEF Next
<1> QED BY <1>1, <1>2 DEF SequenceInv

\* When the nodes that join are never a majority of the nodes they count, nothing is
\* decided in a configuration before its predecessor is stopped, and no member of a
\* configuration runs a later one before its own is stopped (README.md:80-81,
\* server.rs:201-256), although the fresh instance of a joiner may run one.
THEOREM SequencedByOldMembers ==
    ASSUME JoinersNoMajority
    PROVE  Spec => []ConfigurationsInSequence
<1>1. Init => SequenceInv
  <2> SUFFICES ASSUME Init PROVE SequenceInv
    OBVIOUS
  <2>1. ServesInSequence
    <3> SUFFICES ASSUME NEW n \in Node
                 PROVE  /\ FirstConfig(n) <= FirstConfig(n)
                        /\ \A c \in Config : FirstConfig(n) <= c /\ c < FirstConfig(n)
                                                 => stopped[c]
      BY DEF Init, ServesInSequence
    <3>1. FirstConfig(n) \in Nat /\ \A c \in Config : c \in Nat
      BY FirstConfigType, ConfigFacts
    <3> QED BY <3>1
  <2>2. DecidesInSequence
    BY DEF Init, DecidesInSequence
  <2>3. DownAtBoot
    BY DEF Init, DownAtBoot
  <2> QED BY <2>1, <2>2, <2>3, InitTypeOK DEF SequenceInv
<1>2. SequenceInv /\ [Next]_vars => SequenceInv'
  BY NextSequence
<1>3. SequenceInv => ConfigurationsInSequence
  <2> SUFFICES ASSUME SequenceInv, NEW c \in 1 .. Len(ConfigNodes) - 1
               PROVE  /\ log[c + 1] # << >> \/ stopped[c + 1] => stopped[c]
                      /\ \A n \in ConfigNodes[c] : serving[n] > c => stopped[c]
    BY DEF ConfigurationsInSequence
  <2>1. c \in Config /\ c + 1 \in Config
    BY ConfigFacts
  <2>2. ASSUME NEW n \in ConfigNodes[c], serving[n] > c PROVE stopped[c]
    <3>1. n \in Node /\ FirstConfig(n) <= c /\ c \in Nat
      BY <2>1, ConfigFacts, FirstConfigType
    <3>2. boot[n] <= c /\ c < serving[n]
      BY <2>2, <3>1, SequenceTypes
    <3> QED BY <2>1, <3>1, <3>2, SequenceTypes
  <2> QED BY <2>1, <2>2 DEF SequenceInv, DecidesInSequence
<1> QED BY <1>1, <1>2, <1>3, PTL DEF Spec

\* Only handle_decided_entries enters the loop of update_database.
LEMMA EntersBySuffix ==
    ASSUME TypeOK, NEW n \in Node, [Next]_vars, pc[n] = "loop", pc'[n] = "apply"
    PROVE  HandleDecidedEntries(n)
<1> USE DEF consensus, persistent, volatile
<1>1. pc \in [Node -> {"new", "loop", "apply", "panicked", "down"}]
  BY DEF TypeOK
<1>2. ASSUME NEW m \in Node, Step(m) PROVE HandleDecidedEntries(n)
  BY <1>1, <1>2 DEF Step, LearnDecided, HandleDecidedEntries, ApplySnapshot, ApplyCommand,
     FinishDecided, ApplyStopSign, BuildFails, Boot, Start, Exit
<1>3. ASSUME NEW m \in Node, AppendPanics(m) \/ Crash(m) \/ CrashInSnapshot(m) PROVE FALSE
  BY <1>1, <1>3 DEF AppendPanics, Crash, CrashInSnapshot, Fail, Exit
<1>4. ASSUME NEW m \in catchup, ReceiveCatchup(m) \/ CrashInHandleKv(m) PROVE FALSE
  BY <1>1, <1>4 DEF ReceiveCatchup, CrashInHandleKv, Fail, Exit
<1>5. ASSUME NEW c \in Config, ChooseStopSign(c) \/ \E cmd \in Command : Choose(c, cmd)
      PROVE  FALSE
  BY <1>5 DEF ChooseStopSign, Choose
<1>6. ASSUME NEW m \in Node, LearnDecided(m) \/ \E i : SyncFromSnapshot(m, i) PROVE FALSE
  BY <1>6 DEF LearnDecided, SyncFromSnapshot
<1> QED BY <1>2, <1>3, <1>4, <1>5, <1>6 DEF Next, vars
=============================================================================
