--------------------------- MODULE KvStaticProofs ---------------------------
(***************************************************************************)
(* A cluster whose number of replicas never changes: each caught-up        *)
(* replica is exact, for every number of nodes, keys, values, commands and *)
(* crashes, its reads never go back in time, and it skips no entry.        *)
(***************************************************************************)
EXTENDS KvServerProofs, KvReads

-----------------------------------------------------------------------------
(***************************************************************************)
(* The inductive invariant.  It speaks of one replica: es is the log, st   *)
(* what its directory remembers, p, a and last are the variables of its    *)
(* process, and data is its database.                                      *)
(***************************************************************************)
Running(p) == p \in {"loop", "apply"}

\* The database shows nothing of the log beyond this index: a replica that is down
\* may have applied all it had decided, and a running one whose next entry is a
\* snapshot may have applied any part of it before a crash.
Reach(st, p, a) ==
    IF ~Running(p) THEN st.decided
    ELSE IF a >= st.compacted THEN a ELSE st.compacted

\* Each key has the value it had after some of the first r commands, not necessarily
\* the same ones for all keys.
ShowsUpTo(es, data, r) ==
    \A k \in Key : \E i \in 0 .. r : data[k] = StateAfter(Prefix(es, i))[k]

ReplicaInv(es, st, p, a, last, data) ==
    /\ p # "new"
    /\ a <= st.decided
    /\ p # "apply" => last = a
    /\ ~Running(p) => a = 0
    /\ ShowsUpTo(es, data, Reach(st, p, a))
    /\ Running(p) /\ a >= st.compacted => data = StateAfter(Prefix(es, a))

StaticInv ==
    /\ TypeOK
    /\ catchup = {}
    /\ \A n \in Node : ReplicaInv(log[1], storage[n][1], pc[n], applied[n],
                                  last_decided_idx[n], db[n])

-----------------------------------------------------------------------------
(***************************************************************************)
(* Prefixes.                                                               *)
(***************************************************************************)
LEMMA WrittenPrefix ==
    ASSUME NEW es \in Seq(Command), NEW i \in Nat, NEW j \in Nat, i <= j, j <= Len(es)
    PROVE  Written(Prefix(es, i)) \subseteq Written(Prefix(es, j))
<1>1. Len(es) \in Nat /\ i <= Len(es)
  BY LenProperties
<1>2. /\ Prefix(es, i) \in Seq(Command) /\ Len(Prefix(es, i)) = i
      /\ \A m \in 1 .. i : Prefix(es, i)[m] = es[m]
  BY <1>1, PrefixType
<1>3. /\ Prefix(es, j) \in Seq(Command) /\ Len(Prefix(es, j)) = j
      /\ \A m \in 1 .. j : Prefix(es, j)[m] = es[m]
  BY PrefixType
<1>4. DOMAIN Prefix(es, i) = 1 .. i /\ DOMAIN Prefix(es, j) = 1 .. j
  BY <1>2, <1>3, LenProperties
<1> QED BY <1>2, <1>3, <1>4 DEF Written

LEMMA PrefixNext ==
    ASSUME NEW es \in Seq(Command), NEW i \in Nat, i < Len(es)
    PROVE  /\ es[i + 1] \in Command
           /\ Prefix(es, i + 1) = Append(Prefix(es, i), es[i + 1])
<1>1. i + 1 \in 1 .. Len(es) /\ i + 1 - 1 = i
  BY LenProperties
<1>2. es[i + 1] \in Command
  BY <1>1, LenProperties
<1>3. SubSeq(es, 1, i + 1) = SubSeq(es, 1, i + 1 - 1) \o <<es[i + 1]>>
  BY <1>1, SubSeqRecursiveSecond
<1>4. Prefix(es, i) \in Seq(Command)
  BY PrefixType, LenProperties
<1> QED BY <1>1, <1>2, <1>3, <1>4, AppendIsConcat DEF Prefix

LEMMA PrefixOfAppend ==
    ASSUME NEW es \in Seq(Command), NEW cmd \in Command, NEW i \in Nat, i <= Len(es)
    PROVE  Prefix(Append(es, cmd), i) = Prefix(es, i)
<1>1. CASE i = 0
  BY <1>1, SubSeqEmpty DEF Prefix
<1>2. CASE i > 0
  <2>1. 1 \in 1 .. Len(es) /\ i \in 1 .. Len(es)
    BY <1>2, LenProperties
  <2> QED BY <2>1, AppendIsConcat, SubSeqOfConcat1, FinalValueSingle DEF Prefix
<1> QED BY <1>1, <1>2

\* What shows the first r commands has nothing under a key they do not write.
LEMMA ShowsOnlyWritten ==
    ASSUME NEW es \in Seq(Command), NEW r \in Nat, r <= Len(es), NEW d, ShowsUpTo(es, d, r)
    PROVE  \A k \in Key \ Written(Prefix(es, r)) : d[k] = NoValue
<1> SUFFICES ASSUME NEW k \in Key \ Written(Prefix(es, r)) PROVE d[k] = NoValue
  OBVIOUS
<1>1. PICK i \in 0 .. r : d[k] = StateAfter(Prefix(es, i))[k]
  BY DEF ShowsUpTo
<1>2. k \notin Written(Prefix(es, i))
  BY WrittenPrefix
<1> QED BY <1>1, <1>2 DEF StateAfter

LEMMA ShowsMore ==
    ASSUME NEW es, NEW d, NEW r \in Nat, NEW q \in Nat, r <= q, ShowsUpTo(es, d, r)
    PROVE  ShowsUpTo(es, d, q)
<1>1. 0 .. r \subseteq 0 .. q
  OBVIOUS
<1> QED BY <1>1 DEF ShowsUpTo

LEMMA ShowsExact ==
    ASSUME NEW es, NEW r \in Nat
    PROVE  ShowsUpTo(es, StateAfter(Prefix(es, r)), r)
BY DEF ShowsUpTo

\* A snapshot installed over a database with nothing beyond it leaves its state.
LEMMA InstallOverPart ==
    ASSUME NEW d \in Database, NEW p \in Seq(Command),
           \A k \in Key \ Written(p) : d[k] = NoValue
    PROVE  HandleSnapshot(d, Create(p)) = StateAfter(p)
<1>1. HandleSnapshot(d, Create(p)) = Replay(d, p)
  BY SnapshotReplays
<1> QED BY <1>1 DEF Replay, StateAfter

LEMMA EmptyPrefix ==
    ASSUME NEW es \in Seq(Command)
    PROVE  /\ Prefix(es, 0) = << >>
           /\ Written(Prefix(es, 0)) = {}
           /\ StateAfter(Prefix(es, 0)) = EmptyDatabase
<1>1. Prefix(es, 0) = << >>
  BY SubSeqEmpty DEF Prefix
<1>2. << >> \in Seq(Command) /\ Written(<< >>) = {}
  BY DEF Written
<1> QED BY <1>1, <1>2, StateAfterIsReplay, ReplayNothing

-----------------------------------------------------------------------------
(***************************************************************************)
(* With one configuration nothing is ever stopped.                         *)
(***************************************************************************)
LEMMA OneConfig ==
    ASSUME Len(ConfigNodes) = 1, TypeOK
    PROVE  /\ Config = {1}
           /\ ~stopped[1]
           /\ log[1] \in Seq(Command) /\ Len(log[1]) \in Nat
           /\ \A n \in Node :
                 /\ serving[n] = 1 /\ boot[n] = 1 /\ cluster[n] = 1
                 /\ storage[n][1] \in [decided : Nat, compacted : Nat]
                 /\ storage[n][1].decided <= Len(log[1])
                 /\ storage[n][1].compacted <= storage[n][1].decided
                 /\ ~IsReconfigured(n, 1)
                 /\ applied[n] \in Nat /\ last_decided_idx[n] \in Nat
                 /\ db[n] \in Database
<1>1. Config = {1}
  BY ConfigFacts
<1>2. ~stopped[1]
  BY <1>1 DEF TypeOK
<1>3. log[1] \in Seq(Command) /\ Len(log[1]) \in Nat
  BY <1>1, LenProperties DEF TypeOK
<1>4. ASSUME NEW n \in Node
      PROVE  /\ serving[n] = 1 /\ boot[n] = 1 /\ cluster[n] = 1
             /\ storage[n][1] \in [decided : Nat, compacted : Nat]
             /\ storage[n][1].decided <= Len(log[1])
             /\ storage[n][1].compacted <= storage[n][1].decided
             /\ ~IsReconfigured(n, 1)
             /\ applied[n] \in Nat /\ last_decided_idx[n] \in Nat
             /\ db[n] \in Database
  <2>1. serving[n] = 1 /\ boot[n] = 1 /\ cluster[n] = 1
    BY <1>1 DEF TypeOK
  <2>2. storage[n][1] \in [decided : Nat, compacted : Nat]
    BY <1>1 DEF TypeOK
  <2>3. /\ storage[n][1].decided <= Len(log[1])
        /\ storage[n][1].compacted <= storage[n][1].decided
    BY <1>1, <1>2 DEF TypeOK, DecidedLen
  <2>4. ~IsReconfigured(n, 1)
    BY <1>3, <2>2, <2>3 DEF IsReconfigured
  <2> QED BY <2>1, <2>2, <2>3, <2>4 DEF TypeOK
<1> QED BY <1>1, <1>2, <1>3, <1>4

\* The expected state of the model is the state after a prefix of the only log.
LEMMA OnlyLogExpected ==
    ASSUME Len(ConfigNodes) = 1, TypeOK, NEW i
    PROVE  ExpectedState(1, i) = StateAfter(Prefix(log[1], i))
<1>1. Config = {1}
  BY OneConfig
<1>2. BaseState(1) = EmptyDatabase
  BY <1>1 DEF BaseState, EmptyDatabase
<1> QED BY <1>2, StateAfterIsReplay DEF ExpectedState

-----------------------------------------------------------------------------
(***************************************************************************)
(* Every step keeps the invariant of the replica that takes it.            *)
(***************************************************************************)
\* A step of replica n that leaves the log and all other replicas alone.
LEMMA OneReplica ==
    ASSUME StaticInv, TypeOK', NEW n \in Node, log' = log, catchup' \subseteq catchup,
           \A m \in Node \ {n} :
               /\ storage'[m][1] = storage[m][1] /\ pc'[m] = pc[m]
               /\ applied'[m] = applied[m] /\ db'[m] = db[m]
               /\ last_decided_idx'[m] = last_decided_idx[m],
           ReplicaInv(log[1], storage'[n][1], pc'[n], applied'[n],
                      last_decided_idx'[n], db'[n])
    PROVE  StaticInv'
BY DEF StaticInv

\* One more decided command changes nothing for the replicas.
LEMMA ChooseKeeps ==
    ASSUME Len(ConfigNodes) = 1, StaticInv, TypeOK',
           NEW c \in Config, NEW cmd \in Command, Choose(c, cmd)
    PROVE  StaticInv'
<1>1. /\ log'[1] = Append(log[1], cmd) /\ log[1] \in Seq(Command)
      /\ UNCHANGED <<storage, db, pc, applied, last_decided_idx, catchup>>
  BY OneConfig DEF Choose, StaticInv, TypeOK, persistent, volatile, instance
<1>2. ASSUME NEW n \in Node
      PROVE  ReplicaInv(log'[1], storage[n][1], pc[n], applied[n],
                        last_decided_idx[n], db[n])
  <2> DEFINE r == Reach(storage[n][1], pc[n], applied[n])
  <2>1. ReplicaInv(log[1], storage[n][1], pc[n], applied[n], last_decided_idx[n], db[n])
    BY DEF StaticInv
  <2>2. /\ applied[n] \in Nat /\ applied[n] <= Len(log[1])
        /\ r \in Nat /\ r <= Len(log[1])
    BY <2>1, OneConfig DEF StaticInv, ReplicaInv, Reach
  <2>3. /\ Prefix(log'[1], applied[n]) = Prefix(log[1], applied[n])
        /\ \A i \in 0 .. r : Prefix(log'[1], i) = Prefix(log[1], i)
    BY <1>1, <2>2, PrefixOfAppend
  <2>4. ShowsUpTo(log'[1], db[n], r)
    BY <2>1, <2>3 DEF ReplicaInv, ShowsUpTo
  <2> QED BY <2>1, <2>3, <2>4 DEF ReplicaInv
<1> QED BY <1>1, <1>2 DEF StaticInv

\* Learning a decision raises the index only.
LEMMA LearnKeeps ==
    ASSUME Len(ConfigNodes) = 1, StaticInv, TypeOK', NEW n \in Node, LearnDecided(n)
    PROVE  StaticInv'
<1> USE DEF LearnDecided, consensus, volatile, instance
<1>1. /\ serving[n] = 1 /\ applied[n] \in Nat
      /\ storage \in [Node -> [Config -> [decided : Nat, compacted : Nat]]] /\ 1 \in Config
  BY OneConfig DEF StaticInv, TypeOK
<1>2. /\ storage'[n][1].decided = storage[n][1].decided + 1
      /\ storage'[n][1].compacted = storage[n][1].compacted
      /\ \A m \in Node \ {n} : storage'[m][1] = storage[m][1]
  BY <1>1
<1>3. ReplicaInv(log[1], storage[n][1], pc[n], applied[n], last_decided_idx[n], db[n])
  BY DEF StaticInv
<1>4. ReplicaInv(log[1], storage'[n][1], pc[n], applied[n], last_decided_idx[n], db[n])
  BY <1>1, <1>2, <1>3 DEF ReplicaInv, Reach, Running
<1> QED BY <1>2, <1>4, OneReplica

\* A snapshot from the leader covers more than the replica has applied.
LEMMA SyncKeeps ==
    ASSUME Len(ConfigNodes) = 1, StaticInv, TypeOK', NEW n \in Node,
           NEW i \in 1 .. Len(log[serving[n]]), SyncFromSnapshot(n, i)
    PROVE  StaticInv'
<1> USE DEF SyncFromSnapshot, consensus, volatile, instance
<1> DEFINE r == Reach(storage[n][1], pc[n], applied[n])
<1>1. /\ serving[n] = 1 /\ applied[n] \in Nat /\ log[1] \in Seq(Command)
      /\ Len(log[1]) \in Nat /\ Decided(n) = storage[n][1].decided
      /\ storage[n][1].decided \in Nat /\ storage[n][1].compacted \in Nat
      /\ storage[n][1].compacted <= storage[n][1].decided
      /\ storage \in [Node -> [Config -> [decided : Nat, compacted : Nat]]] /\ 1 \in Config
  BY OneConfig DEF StaticInv, TypeOK, Decided
<1>2. /\ storage'[n][1] = [decided |-> i, compacted |-> i]
      /\ \A m \in Node \ {n} : storage'[m][1] = storage[m][1]
  BY <1>1
<1>3. ReplicaInv(log[1], storage[n][1], pc[n], applied[n], last_decided_idx[n], db[n])
  BY DEF StaticInv
<1>4. /\ i \in Nat /\ applied[n] < i /\ i <= Len(log[1]) /\ Running(pc[n])
      /\ r \in Nat /\ r <= i
  BY <1>1, <1>3 DEF ReplicaInv, Reach, Running
<1>5. ShowsUpTo(log[1], db[n], i)
  BY <1>3, <1>4, ShowsMore DEF ReplicaInv
<1>6. Reach(storage'[n][1], pc[n], applied[n]) = i
  BY <1>1, <1>2, <1>4 DEF Reach
<1>7. ReplicaInv(log[1], storage'[n][1], pc[n], applied[n], last_decided_idx[n], db[n])
  BY <1>1, <1>2, <1>3, <1>4, <1>5, <1>6 DEF ReplicaInv
<1> QED BY <1>2, <1>7, OneReplica

\* handle_decided_entries starts where the replica stopped, and ends there.
LEMMA HandleKeeps ==
    ASSUME Len(ConfigNodes) = 1, StaticInv, TypeOK', NEW n \in Node,
           HandleDecidedEntries(n) \/ FinishDecided(n)
    PROVE  StaticInv'
<1> USE DEF consensus, persistent
<1>1. /\ serving[n] = 1 /\ applied[n] \in Nat /\ last_decided_idx[n] \in Nat
      /\ Decided(n) = storage[n][1].decided /\ storage[n][1].decided \in Nat
      /\ pc \in [Node -> {"new", "loop", "apply", "panicked", "down"}]
      /\ applied \in [Node -> Nat] /\ last_decided_idx \in [Node -> Nat]
  BY OneConfig DEF StaticInv, TypeOK, Decided
<1>2. ReplicaInv(log[1], storage[n][1], pc[n], applied[n], last_decided_idx[n], db[n])
  BY DEF StaticInv
<1>3. CASE HandleDecidedEntries(n)
  <2>1. pc[n] = "loop" /\ ReadFrom(last_decided_idx[n], Decided(n)) = applied[n]
    BY <1>1, <1>2, <1>3 DEF HandleDecidedEntries, ReplicaInv, ReadFrom
  <2>2. /\ log' = log /\ storage' = storage /\ db' = db /\ catchup' = catchup
        /\ applied' = applied /\ Running(pc'[n]) /\ last_decided_idx'[n] = applied[n]
        /\ \A m \in Node \ {n} : /\ pc'[m] = pc[m]
                                 /\ last_decided_idx'[m] = last_decided_idx[m]
    BY <1>1, <1>3, <2>1 DEF HandleDecidedEntries, Running
  <2>3. ReplicaInv(log[1], storage[n][1], pc'[n], applied[n], applied[n], db[n])
    BY <1>2, <2>1, <2>2 DEF ReplicaInv, Reach, Running
  <2> QED BY <2>2, <2>3, OneReplica
<1>4. CASE FinishDecided(n)
  <2>1. pc[n] = "apply" /\ applied[n] = Decided(n)
    BY <1>1, <1>2, <1>4 DEF FinishDecided, ReplicaInv
  <2>2. /\ log' = log /\ storage' = storage /\ db' = db /\ catchup' = catchup
        /\ applied' = applied /\ pc'[n] = "loop" /\ last_decided_idx'[n] = applied[n]
        /\ \A m \in Node \ {n} : /\ pc'[m] = pc[m]
                                 /\ last_decided_idx'[m] = last_decided_idx[m]
    BY <1>1, <1>4, <2>1 DEF FinishDecided
  <2>3. ReplicaInv(log[1], storage[n][1], "loop", applied[n], applied[n], db[n])
    BY <1>2, <2>1 DEF ReplicaInv, Reach, Running
  <2> QED BY <2>2, <2>3, OneReplica
<1> QED BY <1>3, <1>4

\* A snapshot is installed over values of its own prefix, and leaves its state.
LEMMA InstallShows ==
    ASSUME Len(ConfigNodes) = 1, StaticInv, NEW n \in Node, ApplySnapshot(n)
    PROVE  LET c == storage[n][1].compacted
           IN  /\ ShowsUpTo(log[1], db[n], c)
               /\ db'[n] = StateAfter(Prefix(log[1], c))
<1> DEFINE c == storage[n][1].compacted
           p == Prefix(log[1], c)
<1>1. /\ serving[n] = 1 /\ applied[n] \in Nat /\ log[1] \in Seq(Command)
      /\ Len(log[1]) \in Nat /\ Compacted(n) = c /\ c \in Nat /\ c <= Len(log[1])
      /\ db[n] \in Database /\ db \in [Node -> Database]
  BY OneConfig DEF StaticInv, TypeOK, Compacted
<1>2. pc[n] = "apply" /\ applied[n] < c
  BY <1>1 DEF ApplySnapshot
<1>3. ReplicaInv(log[1], storage[n][1], pc[n], applied[n], last_decided_idx[n], db[n])
  BY DEF StaticInv
<1>4. ShowsUpTo(log[1], db[n], c)
  BY <1>1, <1>2, <1>3 DEF ReplicaInv, Reach, Running
<1>5. p \in Seq(Command) /\ \A k \in Key \ Written(p) : db[n][k] = NoValue
  BY <1>1, <1>4, PrefixType, ShowsOnlyWritten
<1>6. HandleSnapshot(db[n], Create(p)) = StateAfter(p)
  BY <1>1, <1>5, InstallOverPart
<1> QED BY <1>1, <1>4, <1>6 DEF ApplySnapshot

\* A command is applied to the state after those before it.
LEMMA CommandShows ==
    ASSUME Len(ConfigNodes) = 1, StaticInv, NEW n \in Node, ApplyCommand(n)
    PROVE  /\ db[n] = StateAfter(Prefix(log[1], applied[n]))
           /\ db'[n] = StateAfter(Prefix(log[1], applied[n] + 1))
<1> DEFINE a == applied[n]
           p == Prefix(log[1], a)
           cmd == log[1][a + 1]
<1>1. /\ serving[n] = 1 /\ a \in Nat /\ log[1] \in Seq(Command) /\ Len(log[1]) \in Nat
      /\ Compacted(n) = storage[n][1].compacted /\ storage[n][1].compacted \in Nat
      /\ db \in [Node -> Database]
  BY OneConfig DEF StaticInv, TypeOK, Compacted
<1>2. pc[n] = "apply" /\ a >= storage[n][1].compacted /\ a < Len(log[1])
  BY <1>1 DEF ApplyCommand, AtCommand
<1>3. cmd \in Command /\ Prefix(log[1], a + 1) = Append(p, cmd) /\ p \in Seq(Command)
  <2>1. cmd \in Command /\ Prefix(log[1], a + 1) = Append(p, cmd)
    BY <1>1, <1>2, PrefixNext
  <2>2. p \in Seq(Command)
    BY <1>1, <1>2, PrefixType
  <2> QED BY <2>1, <2>2
<1>4. ReplicaInv(log[1], storage[n][1], pc[n], a, last_decided_idx[n], db[n])
  BY DEF StaticInv
<1>5. db[n] = StateAfter(p)
  BY <1>2, <1>4 DEF ReplicaInv, Running
<1>6. HandleCommand(db[n], cmd) = StateAfter(Append(p, cmd))
  <2> HIDE DEF p, cmd
  <2>1. StateAfter(p) = Replay(EmptyDatabase, p)
    BY StateAfterIsReplay
  <2>2. StateAfter(Append(p, cmd)) = Replay(EmptyDatabase, Append(p, cmd))
    BY StateAfterIsReplay
  <2>3. Replay(EmptyDatabase, Append(p, cmd)) = HandleCommand(Replay(EmptyDatabase, p), cmd)
    BY <1>3, StateAfterIsReplay, ReplayAppend
  <2> QED BY <1>5, <2>1, <2>2, <2>3
<1>7. db'[n] = HandleCommand(db[n], cmd)
  BY <1>1 DEF ApplyCommand
<1> QED BY <1>3, <1>5, <1>6, <1>7

\* Installing a snapshot and applying a command reach the state of their prefix.
LEMMA ApplyKeeps ==
    ASSUME Len(ConfigNodes) = 1, StaticInv, TypeOK', NEW n \in Node,
           ApplySnapshot(n) \/ ApplyCommand(n)
    PROVE  StaticInv'
<1> USE DEF consensus
<1>1. /\ serving[n] = 1 /\ applied[n] \in Nat
      /\ Decided(n) = storage[n][1].decided /\ storage[n][1].decided \in Nat
      /\ Compacted(n) = storage[n][1].compacted /\ storage[n][1].compacted \in Nat
      /\ storage[n][1].compacted <= storage[n][1].decided
      /\ db \in [Node -> Database] /\ applied \in [Node -> Nat]
  BY OneConfig DEF StaticInv, TypeOK, Decided, Compacted
<1>2. ReplicaInv(log[1], storage[n][1], pc[n], applied[n], last_decided_idx[n], db[n])
  BY DEF StaticInv
<1>3. CASE ApplySnapshot(n)
  <2> DEFINE c == storage[n][1].compacted
             p == Prefix(log[1], c)
  <2>1. /\ log' = log /\ storage' = storage /\ catchup' = catchup /\ pc' = pc
        /\ last_decided_idx' = last_decided_idx /\ pc[n] = "apply" /\ applied'[n] = c
        /\ \A m \in Node \ {n} : applied'[m] = applied[m] /\ db'[m] = db[m]
    BY <1>1, <1>3 DEF ApplySnapshot
  <2>2. db'[n] = StateAfter(p)
    BY <1>3, InstallShows
  <2>3. ShowsUpTo(log[1], StateAfter(p), c)
    BY <1>1, ShowsExact
  <2>4. ReplicaInv(log[1], storage[n][1], "apply", c, last_decided_idx[n], StateAfter(p))
    BY <1>1, <2>3 DEF ReplicaInv, Reach, Running
  <2> QED BY <2>1, <2>2, <2>4, OneReplica
<1>4. CASE ApplyCommand(n)
  <2> DEFINE a == applied[n]
             q == Prefix(log[1], a + 1)
  <2>1. /\ log' = log /\ storage' = storage /\ catchup' = catchup /\ pc' = pc
        /\ last_decided_idx' = last_decided_idx /\ pc[n] = "apply" /\ applied'[n] = a + 1
        /\ a >= storage[n][1].compacted /\ a < storage[n][1].decided
        /\ \A m \in Node \ {n} : applied'[m] = applied[m] /\ db'[m] = db[m]
    BY <1>1, <1>4 DEF ApplyCommand, AtCommand
  <2>2. db'[n] = StateAfter(q)
    BY <1>4, CommandShows
  <2>3. ShowsUpTo(log[1], StateAfter(q), a + 1)
    BY <1>1, ShowsExact
  <2>4. ReplicaInv(log[1], storage[n][1], "apply", a + 1, last_decided_idx[n], StateAfter(q))
    BY <1>1, <2>1, <2>3 DEF ReplicaInv, Reach, Running
  <2> QED BY <2>1, <2>2, <2>4, OneReplica
<1> QED BY <1>3, <1>4

\* A crash inside an installation leaves old values and values of the snapshot.
LEMMA TornShows ==
    ASSUME Len(ConfigNodes) = 1, StaticInv, NEW n \in Node, CrashInSnapshot(n)
    PROVE  /\ ShowsUpTo(log[1], db[n], storage[n][1].compacted)
           /\ \E torn :
                     /\ db' = [db EXCEPT ![n] = torn]
                     /\ ShowsUpTo(log[1], torn, storage[n][1].decided)
                     /\ \A k \in Key : torn[k] = db[n][k] \/
                           torn[k] = StateAfter(Prefix(log[1], storage[n][1].compacted))[k]
<1> DEFINE d == storage[n][1].decided
           c == storage[n][1].compacted
           p == Prefix(log[1], c)
           new == HandleSnapshot(db[n], Create(p))
<1>1. /\ serving[n] = 1 /\ applied[n] \in Nat /\ log[1] \in Seq(Command)
      /\ Len(log[1]) \in Nat /\ Compacted(n) = c /\ c \in Nat /\ d \in Nat
      /\ c <= d /\ d <= Len(log[1]) /\ db[n] \in Database
  BY OneConfig DEF StaticInv, Compacted
<1>2. ShowsUpTo(log[1], db[n], c)
  <2>1. ReplicaInv(log[1], storage[n][1], pc[n], applied[n], last_decided_idx[n], db[n])
    BY DEF StaticInv
  <2>2. pc[n] = "apply" /\ applied[n] < c
    BY <1>1 DEF CrashInSnapshot
  <2> QED BY <1>1, <2>1, <2>2 DEF ReplicaInv, Reach, Running
<1>3. PICK torn \in Torn(db[n], new) : db' = [db EXCEPT ![n] = torn]
  BY <1>1 DEF CrashInSnapshot
<1>4. p \in Seq(Command)
  BY <1>1, PrefixType
<1>5. new = StateAfter(p) /\ new \in Database
  <2>1. \A k \in Key \ Written(p) : db[n][k] = NoValue
    BY <1>1, <1>2, ShowsOnlyWritten
  <2>2. new = StateAfter(p)
    BY <1>1, <1>4, <2>1, InstallOverPart
  <2> HIDE DEF new
  <2> QED BY <1>4, <2>2, StateAfterIsReplay, ReplayType
<1>6. \A k \in Key : torn[k] \in {db[n][k], StateAfter(p)[k]}
  <2> HIDE DEF new
  <2> QED BY <1>1, <1>3, <1>5, TornValues
<1>7. ShowsUpTo(log[1], torn, c)
  <2>1. ShowsUpTo(log[1], StateAfter(p), c)
    BY <1>1, ShowsExact
  <2> HIDE DEF p
  <2> QED BY <1>2, <1>6, <2>1 DEF ShowsUpTo
<1>8. ShowsUpTo(log[1], torn, d)
  BY <1>1, <1>7, ShowsMore
<1> QED BY <1>2, <1>3, <1>6, <1>8

\* A crash, also inside an installation, leaves nothing beyond what was decided.
LEMMA CrashKeeps ==
    ASSUME Len(ConfigNodes) = 1, StaticInv, TypeOK', NEW n \in Node,
           Crash(n) \/ CrashInSnapshot(n)
    PROVE  StaticInv'
<1> USE DEF consensus, persistent
<1> DEFINE d == storage[n][1].decided
           c == storage[n][1].compacted
           r == Reach(storage[n][1], pc[n], applied[n])
<1>1. /\ serving[n] = 1 /\ applied[n] \in Nat /\ log[1] \in Seq(Command)
      /\ Len(log[1]) \in Nat /\ Compacted(n) = c /\ c \in Nat /\ d \in Nat
      /\ c <= d /\ d <= Len(log[1]) /\ db[n] \in Database /\ db \in [Node -> Database]
      /\ pc \in [Node -> {"new", "loop", "apply", "panicked", "down"}]
      /\ applied \in [Node -> Nat] /\ last_decided_idx \in [Node -> Nat]
  BY OneConfig DEF StaticInv, TypeOK, Compacted
<1>2. ReplicaInv(log[1], storage[n][1], pc[n], applied[n], last_decided_idx[n], db[n])
  BY DEF StaticInv
<1>3. r \in Nat /\ r <= d
  BY <1>1, <1>2 DEF ReplicaInv, Reach
<1>4. ShowsUpTo(log[1], db[n], d)
  BY <1>1, <1>2, <1>3, ShowsMore DEF ReplicaInv
<1>5. /\ log' = log /\ storage' = storage /\ catchup' \subseteq catchup
      /\ pc'[n] = "down" /\ applied'[n] = 0 /\ last_decided_idx'[n] = 0
      /\ \A m \in Node \ {n} : /\ pc'[m] = pc[m] /\ applied'[m] = applied[m]
                               /\ last_decided_idx'[m] = last_decided_idx[m]
  BY <1>1 DEF Crash, CrashInSnapshot, Fail, Exit
<1>6. /\ ShowsUpTo(log[1], db'[n], d)
      /\ \A m \in Node \ {n} : db'[m] = db[m]
  <2>1. CASE Crash(n)
    BY <1>4, <2>1 DEF Crash
  <2>2. CASE CrashInSnapshot(n)
    <3>1. PICK torn : db' = [db EXCEPT ![n] = torn] /\ ShowsUpTo(log[1], torn, d)
      BY <2>2, TornShows
    <3> QED BY <1>1, <3>1
  <2> QED BY <2>1, <2>2
<1>7. Reach(storage[n][1], "down", 0) = d
  BY DEF Reach, Running
<1>8. ReplicaInv(log[1], storage[n][1], "down", 0, 0, db'[n])
  BY <1>1, <1>6, <1>7 DEF ReplicaInv, Running
<1> QED BY <1>5, <1>6, <1>8, OneReplica

\* At a restart everything decided is compacted, so that a replica that has decided
\* anything installs a snapshot first, and one that has not is empty.
LEMMA StartKeeps ==
    ASSUME Len(ConfigNodes) = 1, StaticInv, TypeOK', NEW n \in Node, Start(n)
    PROVE  StaticInv'
<1> USE DEF consensus
<1> DEFINE d == storage[n][1].decided
<1>1. /\ boot[n] = 1 /\ log[1] \in Seq(Command) /\ d \in Nat
      /\ SnapshotIdx(n) = d /\ db[n] \in Database
      /\ pc \in [Node -> {"new", "loop", "apply", "panicked", "down"}]
      /\ storage \in [Node -> [Config -> [decided : Nat, compacted : Nat]]] /\ 1 \in Config
  BY OneConfig DEF StaticInv, TypeOK, SnapshotIdx
<1>2. ReplicaInv(log[1], storage[n][1], pc[n], applied[n], last_decided_idx[n], db[n])
  BY DEF StaticInv
<1>3. ~Running(pc[n]) /\ pc[n] # "apply" /\ applied[n] = 0 /\ last_decided_idx[n] = 0
  BY <1>2 DEF Start, ReplicaInv, Running
<1>4. storage'[n][1].decided = d /\ storage'[n][1].compacted = d
  BY <1>1 DEF Start
<1>5. /\ log' = log /\ UNCHANGED <<db, applied, last_decided_idx, catchup>>
      /\ pc'[n] = "loop"
      /\ \A m \in Node \ {n} : pc'[m] = pc[m] /\ storage'[m][1] = storage[m][1]
  BY <1>1 DEF Start
<1>6. Reach(storage'[n][1], "loop", 0) = d
  BY <1>1, <1>4 DEF Reach, Running
<1>7. ShowsUpTo(log[1], db[n], d)
  BY <1>2, <1>3 DEF ReplicaInv, Reach
<1>8. 0 >= d => db[n] = StateAfter(Prefix(log[1], 0))
  <2> SUFFICES ASSUME d = 0 PROVE db[n] = EmptyDatabase
    BY <1>1, EmptyPrefix
  <2>1. \A k \in Key : db[n][k] = NoValue
    BY <1>1, <1>7, EmptyPrefix DEF ShowsUpTo, EmptyDatabase
  <2> QED BY <1>1, <2>1 DEF EmptyDatabase, Database
<1>9. ReplicaInv(log[1], storage'[n][1], "loop", 0, 0, db[n])
  BY <1>1, <1>4, <1>6, <1>7, <1>8 DEF ReplicaInv
<1> QED BY <1>3, <1>5, <1>9, OneReplica

\* The steps that need a second configuration never happen.
LEMMA NeverStopped ==
    ASSUME Len(ConfigNodes) = 1, StaticInv, NEW n \in Node
    PROVE  /\ ~BuildFails(n) /\ ~AppendPanics(n)
           /\ \A reached : ~ApplyStopSign(n, reached)
           /\ \A c \in Config : ~ChooseStopSign(c) /\ ~Boot(n, c)
<1>1. serving[n] = 1 /\ ~IsReconfigured(n, 1) /\ Config = {1}
  BY OneConfig DEF StaticInv
<1>2. pc[n] # "new" /\ serving[n] + 1 \notin Config
  BY <1>1 DEF StaticInv, ReplicaInv
<1> QED BY <1>1, <1>2 DEF BuildFails, AppendPanics, ApplyStopSign, AtStopSign, ChooseStopSign,
           Boot

LEMMA InitStatic ==
    ASSUME Len(ConfigNodes) = 1, Init
    PROVE  StaticInv
<1> USE DEF Init
<1>1. TypeOK /\ Config = {1} /\ log[1] = << >> /\ << >> \in Seq(Command)
  BY InitTypeOK, ConfigFacts
<1>2. \A n \in Node : /\ storage[n][1] = Fresh /\ applied[n] = 0
                      /\ last_decided_idx[n] = 0 /\ db[n] = EmptyDatabase
  BY <1>1
<1>4. \A n \in Node : pc[n] # "new"
  BY <1>1, ConfigAssumption DEF Config
<1>3. \A n \in Node : ReplicaInv(log[1], Fresh, pc[n], 0, 0, EmptyDatabase)
  <2>1. Fresh.decided = 0 /\ Fresh.compacted = 0
    BY DEF Fresh
  <2>2. StateAfter(Prefix(log[1], 0)) = EmptyDatabase
    BY <1>1, EmptyPrefix
  <2>3. ShowsUpTo(log[1], EmptyDatabase, 0)
    BY <2>2, ShowsExact
  <2> QED BY <1>4, <2>1, <2>2, <2>3 DEF ReplicaInv, Reach
<1> QED BY <1>1, <1>2, <1>3 DEF StaticInv

LEMMA NextStatic ==
    ASSUME Len(ConfigNodes) = 1, StaticInv, [Next]_vars
    PROVE  StaticInv'
<1>1. TypeOK'
  BY NextTypeOK DEF StaticInv
<1>2. ASSUME NEW c \in Config, NEW cmd \in Command, Choose(c, cmd) PROVE StaticInv'
  BY <1>1, <1>2, ChooseKeeps
<1>3. ASSUME NEW c \in Config, ChooseStopSign(c) PROVE StaticInv'
  <2>1. \A n \in Node : FALSE
    BY <1>3, NeverStopped
  <2> QED BY <1>1, <1>3, <2>1 DEF StaticInv, ChooseStopSign
<1>4. ASSUME NEW n \in Node, Step(n) PROVE StaticInv'
  BY <1>1, <1>4, HandleKeeps, ApplyKeeps, StartKeeps, NeverStopped DEF Step
<1>9. ASSUME NEW n \in Node, LearnDecided(n) PROVE StaticInv'
  BY <1>1, <1>9, LearnKeeps
<1>5. ASSUME NEW n \in Node, NEW i \in 1 .. Len(log[serving[n]]), SyncFromSnapshot(n, i)
      PROVE  StaticInv'
  BY <1>1, <1>5, SyncKeeps
<1>6. ASSUME NEW m \in catchup PROVE FALSE
  BY <1>6 DEF StaticInv
<1>7. ASSUME NEW n \in Node, AppendPanics(n) \/ Crash(n) \/ CrashInSnapshot(n)
      PROVE  StaticInv'
  BY <1>1, <1>7, CrashKeeps, NeverStopped
<1>8. CASE UNCHANGED vars
  BY <1>1, <1>8 DEF StaticInv, vars, consensus, persistent, volatile, instance
<1> QED BY <1>2, <1>3, <1>4, <1>5, <1>6, <1>7, <1>8, <1>9 DEF Next

\* A caught-up replica of a static cluster holds exactly what the decided commands
\* leave behind (server.rs:149-200, 281-285).
THEOREM StaticReplicasExact ==
    ASSUME Len(ConfigNodes) = 1
    PROVE  Spec => []CaughtUpReplicaExact
<1>1. Init => StaticInv
  BY InitStatic
<1>2. StaticInv /\ [Next]_vars => StaticInv'
  BY NextStatic
<1>3. StaticInv => CaughtUpReplicaExact
  <2> SUFFICES ASSUME StaticInv, NEW n \in Node, CaughtUp(n)
               PROVE  db[n] = ExpectedState(serving[n], applied[n])
    BY DEF CaughtUpReplicaExact
  <2>1. /\ serving[n] = 1 /\ storage[n][1] \in [decided : Nat, compacted : Nat]
        /\ storage[n][1].compacted <= storage[n][1].decided
    BY OneConfig DEF StaticInv
  <2>2. Running(pc[n]) /\ applied[n] = storage[n][1].decided
    BY <2>1 DEF CaughtUp, Decided, Running
  <2>3. db[n] = StateAfter(Prefix(log[1], applied[n]))
    BY <2>1, <2>2 DEF StaticInv, ReplicaInv
  <2> QED BY <2>1, <2>3, OnlyLogExpected DEF StaticInv
<1> QED BY <1>1, <1>2, <1>3, PTL DEF Spec

-----------------------------------------------------------------------------
(***************************************************************************)
(* Reads.  The history variable never passes what the database may show,   *)
(* and the value of every key is the one at the index it gives.            *)
(***************************************************************************)
ReadsInv ==
    /\ StaticInv
    /\ shown \in [Node -> [Key -> Nat]]
    /\ \A n \in Node, k \in Key :
           /\ applied[n] <= shown[n][k]
           /\ shown[n][k] <= Reach(storage[n][1], pc[n], applied[n])
           /\ db[n][k] = StateAfter(Prefix(log[1], shown[n][k]))[k]

\* What an index of the only log shows, and where the history variable may be.
LEMMA ReadsTypes ==
    ASSUME Len(ConfigNodes) = 1, ReadsInv, NEW n \in Node, NEW k \in Key
    PROVE  LET r == Reach(storage[n][1], pc[n], applied[n])
           IN  /\ TypeOK /\ serving[n] = 1 /\ log[1] \in Seq(Command) /\ Len(log[1]) \in Nat
               /\ Decided(n) = storage[n][1].decided /\ Compacted(n) = storage[n][1].compacted
               /\ storage[n][1].decided \in Nat /\ storage[n][1].compacted \in Nat
               /\ storage[n][1].decided <= Len(log[1])
               /\ storage[n][1].compacted <= storage[n][1].decided
               /\ applied[n] \in Nat /\ shown[n][k] \in Nat /\ r \in Nat
               /\ applied[n] <= shown[n][k] /\ shown[n][k] <= r
               /\ r <= storage[n][1].decided
               /\ db[n][k] = ValueAt(k, shown[n][k])
               /\ \A i : ValueAt(k, i) = StateAfter(Prefix(log[1], i))[k]
<1>1. StaticInv /\ TypeOK
  BY DEF ReadsInv, StaticInv
<1>2. ReplicaInv(log[1], storage[n][1], pc[n], applied[n], last_decided_idx[n], db[n])
  BY <1>1 DEF StaticInv
<1>3. /\ serving[n] = 1 /\ log[1] \in Seq(Command) /\ Len(log[1]) \in Nat
      /\ storage[n][1].decided \in Nat /\ storage[n][1].compacted \in Nat
      /\ storage[n][1].decided <= Len(log[1])
      /\ storage[n][1].compacted <= storage[n][1].decided
      /\ applied[n] \in Nat
  BY <1>1, OneConfig
<1>4. /\ Reach(storage[n][1], pc[n], applied[n]) \in Nat
      /\ Reach(storage[n][1], pc[n], applied[n]) <= storage[n][1].decided
  BY <1>2, <1>3 DEF ReplicaInv, Reach
<1>5. \A i : ValueAt(k, i) = StateAfter(Prefix(log[1], i))[k]
  BY <1>1, OnlyLogExpected DEF ValueAt
<1>6. /\ shown[n][k] \in Nat /\ applied[n] <= shown[n][k]
      /\ shown[n][k] <= Reach(storage[n][1], pc[n], applied[n])
      /\ db[n][k] = StateAfter(Prefix(log[1], shown[n][k]))[k]
  BY DEF ReadsInv
<1> QED BY <1>1, <1>3, <1>4, <1>5, <1>6 DEF Decided, Compacted

\* The history variable follows a value to an index that the value is of, and no
\* further than the first one.
LEMMA FollowFirst ==
    ASSUME NEW n \in Node, NEW k \in Key, Len(log[1]) \in Nat, Reached(n, k) \in Nat,
           db'[n][k] # db[n][k],
           NEW j \in Nat, Reached(n, k) <= j, j <= Len(log[1]), ValueAt(k, j) = db'[n][k]
    PROVE  /\ Follow(n, k) \in Nat /\ Reached(n, k) <= Follow(n, k) /\ Follow(n, k) <= j
           /\ ValueAt(k, Follow(n, k)) = db'[n][k]
<1> DEFINE later == Later(k, db'[n][k], Reached(n, k))
<1>1. j \in later /\ later \subseteq Nat
  BY DEF Later
<1>2. PICK m \in later : \A i \in later : ~ (<<i, m>> \in OpToRel(<, Nat))
  <2> HIDE DEF later
  <2> QED BY <1>1, WFMin, NatLessThanWellFounded
<1>3. \A i \in later : m <= i
  <2> SUFFICES ASSUME NEW i \in later, ~ (m <= i) PROVE FALSE
    OBVIOUS
  <2>1. m \in Nat /\ i \in Nat
    BY <1>1
  <2>2. <<i, m>> \in OpToRel(<, Nat)
    BY <2>1 DEF OpToRel
  <2> QED BY <1>2, <2>2
<1>4. Follow(n, k) = CHOOSE x \in later : \A i \in later : x <= i
  BY <1>1 DEF Follow
<1>5. Follow(n, k) \in later /\ \A i \in later : Follow(n, k) <= i
  <2> HIDE DEF later
  <2> QED BY <1>2, <1>3, <1>4
<1> QED BY <1>1, <1>5 DEF Later

\* The steps that change a database, or the index that is reached in it.
LEMMA ChangesDatabase ==
    ASSUME Len(ConfigNodes) = 1, StaticInv, NEW n \in Node, [Next]_vars,
           ~ApplySnapshot(n), ~ApplyCommand(n), ~CrashInSnapshot(n)
    PROVE  db'[n] = db[n] /\ (applied'[n] = applied[n] \/ applied'[n] = 0)
<1> USE DEF consensus, persistent, volatile, instance
<1>1. db \in [Node -> Database] /\ applied \in [Node -> Nat] /\ catchup = {}
  BY DEF StaticInv, TypeOK
<1>2. ASSUME NEW m \in Node, Step(m)
      PROVE  db'[n] = db[n] /\ (applied'[n] = applied[n] \/ applied'[n] = 0)
  <2>1. CASE HandleDecidedEntries(m)
    <3>1. ReadFrom(last_decided_idx[m], Decided(m)) = applied[m]
      <4>1. pc[m] = "loop" /\ applied[m] <= Decided(m) /\ last_decided_idx[m] = applied[m]
        BY <2>1, OneConfig DEF StaticInv, ReplicaInv, HandleDecidedEntries, Decided
      <4>2. applied[m] \in Nat /\ Decided(m) \in Nat
        BY <1>1, ServingFacts DEF StaticInv
      <4> QED BY <4>1, <4>2 DEF ReadFrom
    <3> QED BY <1>1, <2>1, <3>1 DEF HandleDecidedEntries
  <2>2. CASE ApplySnapshot(m) \/ ApplyCommand(m)
    BY <1>1, <2>2 DEF ApplySnapshot, ApplyCommand
  <2>3. CASE FinishDecided(m) \/ Start(m)
    BY <2>3 DEF FinishDecided, Start
  <2> QED BY <1>2, <2>1, <2>2, <2>3, NeverStopped DEF Step
<1>3. ASSUME NEW m \in Node, AppendPanics(m) \/ Crash(m) \/ CrashInSnapshot(m)
      PROVE  db'[n] = db[n] /\ (applied'[n] = applied[n] \/ applied'[n] = 0)
  BY <1>1, <1>3 DEF AppendPanics, Crash, CrashInSnapshot, Fail, Exit
<1>4. ASSUME NEW c \in Config, ChooseStopSign(c) \/ \E cmd \in Command : Choose(c, cmd)
      PROVE  UNCHANGED <<db, applied>>
  BY <1>4 DEF ChooseStopSign, Choose
<1>5. ASSUME NEW m \in Node, LearnDecided(m) \/ \E i : SyncFromSnapshot(m, i)
      PROVE  UNCHANGED <<db, applied>>
  BY <1>5 DEF LearnDecided, SyncFromSnapshot
<1> QED BY <1>1, <1>2, <1>3, <1>4, <1>5 DEF Next, vars

\* What the database may show never shrinks, whatever happens to a replica.
ReachKept(n) ==
    LET next == Reach(storage'[n][1], pc'[n], applied'[n])
    IN  next \in Nat /\ Reach(storage[n][1], pc[n], applied[n]) <= next

LEMMA ReachGrows ==
    ASSUME Len(ConfigNodes) = 1, ReadsInv, NEW n \in Node, [Next]_vars
    PROVE  ReachKept(n)
<1> USE DEF consensus, persistent, volatile, instance
<1> DEFINE r == Reach(storage[n][1], pc[n], applied[n])
           Same == /\ storage'[n][1] = storage[n][1] /\ pc'[n] = pc[n]
                   /\ applied'[n] = applied[n]
<1>1. /\ storage[n][1].decided \in Nat /\ storage[n][1].compacted \in Nat
      /\ applied[n] \in Nat /\ serving[n] = 1 /\ Decided(n) = storage[n][1].decided
      /\ Compacted(n) = storage[n][1].compacted
      /\ storage[n][1].compacted <= storage[n][1].decided
      /\ applied[n] <= storage[n][1].decided
      /\ r \in Nat /\ r <= storage[n][1].decided
      /\ storage \in [Node -> [Config -> [decided : Nat, compacted : Nat]]] /\ 1 \in Config
      /\ pc \in [Node -> {"new", "loop", "apply", "panicked", "down"}]
      /\ applied \in [Node -> Nat] /\ boot[n] = 1
  <2>1. StaticInv /\ TypeOK
    BY DEF ReadsInv, StaticInv
  <2>2. ReplicaInv(log[1], storage[n][1], pc[n], applied[n], last_decided_idx[n], db[n])
    BY <2>1 DEF StaticInv
  <2>3. /\ storage[n][1].decided \in Nat /\ storage[n][1].compacted \in Nat
        /\ applied[n] \in Nat /\ serving[n] = 1 /\ boot[n] = 1
        /\ storage[n][1].compacted <= storage[n][1].decided
    BY <2>1, OneConfig
  <2>4. /\ applied[n] <= storage[n][1].decided
        /\ r \in Nat /\ r <= storage[n][1].decided
    BY <2>2, <2>3 DEF ReplicaInv, Reach
  <2> QED BY <2>1, <2>3, <2>4, ConfigFacts DEF TypeOK, Decided, Compacted
<1>2. ASSUME Same PROVE ReachKept(n)
  BY <1>1, <1>2 DEF ReachKept
<1>3. ASSUME storage'[n][1] = storage[n][1], Running(pc[n]), Running(pc'[n]),
             applied'[n] \in Nat, applied[n] <= applied'[n]
      PROVE  ReachKept(n)
  BY <1>1, <1>3 DEF Reach, ReachKept
<1>4. ASSUME storage'[n][1] = storage[n][1], ~Running(pc'[n]) PROVE ReachKept(n)
  BY <1>1, <1>4 DEF Reach, ReachKept
<1>5. ASSUME NEW m \in Node, LearnDecided(m) PROVE ReachKept(n)
  <2>1. CASE m = n
    <3>1. /\ storage'[n][1].decided = storage[n][1].decided + 1
          /\ storage'[n][1].compacted = storage[n][1].compacted
          /\ pc'[n] = pc[n] /\ applied'[n] = applied[n] /\ Running(pc[n])
      BY <1>1, <1>5, <2>1 DEF LearnDecided, Running
    <3> QED BY <1>1, <3>1 DEF Reach, ReachKept
  <2>2. CASE m # n
    <3>1. Same
      BY <1>1, <1>5, <2>2 DEF LearnDecided
    <3> QED BY <1>2, <3>1
  <2> QED BY <2>1, <2>2
<1>6. ASSUME NEW m \in Node, NEW i \in 1 .. Len(log[serving[m]]), SyncFromSnapshot(m, i)
      PROVE  ReachKept(n)
  <2>1. CASE m = n
    <3>1. /\ storage'[n][1].compacted = i
          /\ pc'[n] = pc[n] /\ applied'[n] = applied[n] /\ Running(pc[n])
      BY <1>1, <1>6, <2>1 DEF SyncFromSnapshot, Running
    <3>2. i \in Nat /\ storage[n][1].decided < i
      BY <1>1, <1>6, <2>1 DEF SyncFromSnapshot
    <3> QED BY <1>1, <3>1, <3>2 DEF Reach, ReachKept
  <2>2. CASE m # n
    <3>1. Same
      BY <1>1, <1>6, <2>2 DEF SyncFromSnapshot
    <3> QED BY <1>2, <3>1
  <2> QED BY <2>1, <2>2
<1>7. ASSUME NEW m \in Node, Start(m) PROVE ReachKept(n)
  <2>1. CASE m = n
    <3>1. ~Running(pc[n]) /\ pc'[n] = "loop" /\ applied'[n] = applied[n]
      BY <1>1, <1>7, <2>1 DEF Start, Running
    <3>2. storage'[n][1].compacted = storage[n][1].decided
      <4>1. ~IsReconfigured(n, 1)
        BY OneConfig DEF ReadsInv, StaticInv
      <4>2. SnapshotIdx(n) = storage[n][1].decided
        BY <1>1, <4>1 DEF SnapshotIdx
      <4> QED BY <1>1, <1>7, <2>1, <4>2 DEF Start
    <3>3. r = storage[n][1].decided
      BY <3>1 DEF Reach
    <3> QED BY <1>1, <3>1, <3>2, <3>3 DEF Reach, Running, ReachKept
  <2>2. CASE m # n
    <3>1. Same
      BY <1>1, <1>7, <2>2 DEF Start
    <3> QED BY <1>2, <3>1
  <2> QED BY <2>1, <2>2
<1>8. ASSUME NEW m \in Node,
             \/ HandleDecidedEntries(m) \/ ApplySnapshot(m) \/ ApplyCommand(m)
             \/ FinishDecided(m)
      PROVE  ReachKept(n)
  <2>1. CASE m = n
    <3>1. storage' = storage /\ Running(pc[n]) /\ Running(pc'[n])
      BY <1>1, <1>8, <2>1 DEF HandleDecidedEntries, ApplySnapshot, ApplyCommand, AtCommand,
         FinishDecided, Running
    <3>2. applied'[n] \in Nat /\ applied[n] <= applied'[n]
      <4>1. CASE HandleDecidedEntries(n)
        <5>1. ReadFrom(last_decided_idx[n], Decided(n)) = applied[n]
          <6>1. pc[n] = "loop" /\ last_decided_idx[n] = applied[n]
            BY <4>1 DEF ReadsInv, StaticInv, ReplicaInv, HandleDecidedEntries
          <6> QED BY <1>1, <6>1 DEF ReadFrom
        <5> QED BY <1>1, <4>1, <5>1 DEF HandleDecidedEntries
      <4>2. CASE ApplySnapshot(n) \/ ApplyCommand(n)
        BY <1>1, <4>2 DEF ApplySnapshot, ApplyCommand
      <4>3. CASE FinishDecided(n)
        BY <1>1, <4>3 DEF FinishDecided
      <4> QED BY <1>8, <2>1, <4>1, <4>2, <4>3
    <3> QED BY <1>3, <3>1, <3>2
  <2>2. CASE m # n
    <3>1. Same
      BY <1>1, <1>8, <2>2 DEF HandleDecidedEntries, ApplySnapshot, ApplyCommand, FinishDecided
    <3> QED BY <1>2, <3>1
  <2> QED BY <2>1, <2>2
<1>9. ASSUME NEW m \in Node, AppendPanics(m) \/ Crash(m) \/ CrashInSnapshot(m) PROVE ReachKept(n)
  <2>1. storage' = storage
    BY <1>9 DEF AppendPanics, Crash, CrashInSnapshot
  <2>2. CASE m = n
    <3>1. ~Running(pc'[n])
      BY <1>1, <1>9, <2>2 DEF AppendPanics, Crash, CrashInSnapshot, Fail, Exit, Running
    <3> QED BY <1>4, <2>1, <3>1
  <2>3. CASE m # n
    <3>1. Same
      BY <1>1, <1>9, <2>1, <2>3 DEF AppendPanics, Crash, CrashInSnapshot, Fail, Exit
    <3> QED BY <1>2, <3>1
  <2> QED BY <2>2, <2>3
<1>10. ASSUME NEW c \in Config, ChooseStopSign(c) \/ \E cmd \in Command : Choose(c, cmd)
       PROVE  ReachKept(n)
  <2>1. Same
    BY <1>10 DEF ChooseStopSign, Choose
  <2> QED BY <1>2, <2>1
<1>11. CASE UNCHANGED vars
  <2>1. Same
    BY <1>11 DEF vars
  <2> QED BY <1>2, <2>1
<1>12. catchup = {} /\ StaticInv
  BY DEF ReadsInv, StaticInv
<1>13. ASSUME NEW m \in Node, Step(m) PROVE ReachKept(n)
  BY <1>7, <1>8, <1>12, <1>13, NeverStopped DEF Step
<1>14. CASE Next
  <2>1. CASE \E c \in Config : ChooseStopSign(c) \/ \E cmd \in Command : Choose(c, cmd)
    BY <1>10, <2>1
  <2>2. CASE \E m \in Node : LearnDecided(m) \/ Step(m)
    BY <1>5, <1>13, <2>2
  <2>3. CASE \E m \in Node : \E i \in 1 .. Len(log[serving[m]]) : SyncFromSnapshot(m, i)
    BY <1>6, <2>3
  <2>4. CASE \E m \in Node : AppendPanics(m) \/ Crash(m) \/ CrashInSnapshot(m)
    BY <1>9, <2>4
  <2> QED BY <1>12, <1>14, <2>1, <2>2, <2>3, <2>4 DEF Next
<1> QED BY <1>11, <1>14

\* What is decided stays decided.
LEMMA OnlyLogGrows ==
    ASSUME Len(ConfigNodes) = 1, StaticInv, Next, NEW i \in Nat, i <= Len(log[1])
    PROVE  Prefix(log'[1], i) = Prefix(log[1], i)
<1> USE DEF consensus
<1>1. /\ log \in [Config -> Seq(Command)] /\ 1 \in Config /\ log[1] \in Seq(Command)
      /\ catchup = {}
  BY OneConfig DEF StaticInv, TypeOK
<1>2. ASSUME NEW c \in Config, NEW cmd \in Command, Choose(c, cmd)
      PROVE  Prefix(log'[1], i) = Prefix(log[1], i)
  <2>1. log'[1] = log[1] \/ log'[1] = Append(log[1], cmd)
    BY <1>1, <1>2 DEF Choose
  <2> QED BY <1>1, <2>1, PrefixOfAppend
<1>3. ASSUME NEW n \in Node, Step(n) PROVE log' = log
  BY <1>3 DEF Step, HandleDecidedEntries, ApplySnapshot, ApplyCommand, FinishDecided,
     ApplyStopSign, BuildFails, Boot, Start
<1>4. ASSUME NEW n \in Node, AppendPanics(n) \/ Crash(n) \/ CrashInSnapshot(n) PROVE log' = log
  BY <1>4 DEF AppendPanics, Crash, CrashInSnapshot
<1>5. ASSUME NEW n \in Node, LearnDecided(n) \/ \E j : SyncFromSnapshot(n, j) PROVE log' = log
  BY <1>5 DEF LearnDecided, SyncFromSnapshot
<1>6. ASSUME NEW c, ChooseStopSign(c) PROVE log' = log
  BY <1>6 DEF ChooseStopSign
<1> QED BY <1>1, <1>2, <1>3, <1>4, <1>5, <1>6 DEF Next

\* One step of the history variable for one key of one replica, and where the new
\* value is found.
LEMMA ReadsFollow ==
    ASSUME Len(ConfigNodes) = 1, ReadsInv, NEW n \in Node, NEW k \in Key, [Next]_vars
    PROVE  /\ Follow(n, k) \in Nat /\ applied'[n] <= Follow(n, k)
           /\ Follow(n, k) <= Reach(storage'[n][1], pc'[n], applied'[n])
           /\ Follow(n, k) <= Len(log[1])
           /\ db'[n][k] = ValueAt(k, Follow(n, k))
           /\ db'[n][k] # db[n][k] =>
                  \E j \in shown[n][k] .. Decided(n) : ValueAt(k, j) = db'[n][k]
<1> DEFINE st == storage[n][1]
           r == Reach(st, pc[n], applied[n])
           next == Reach(storage'[n][1], pc'[n], applied'[n])
           s == shown[n][k]
<1>1. /\ TypeOK /\ serving[n] = 1 /\ log[1] \in Seq(Command) /\ Len(log[1]) \in Nat
      /\ Decided(n) = st.decided /\ Compacted(n) = st.compacted
      /\ st.decided \in Nat /\ st.compacted \in Nat
      /\ st.decided <= Len(log[1]) /\ st.compacted <= st.decided
      /\ applied[n] \in Nat /\ s \in Nat /\ r \in Nat
      /\ applied[n] <= s /\ s <= r /\ r <= st.decided
      /\ db[n][k] = ValueAt(k, s)
      /\ \A i : ValueAt(k, i) = StateAfter(Prefix(log[1], i))[k]
      /\ pc \in [Node -> {"new", "loop", "apply", "panicked", "down"}]
      /\ applied \in [Node -> Nat] /\ db \in [Node -> Database] /\ StaticInv
  BY ReadsTypes DEF TypeOK, ReadsInv
<1>2. next \in Nat /\ r <= next
  BY ReachGrows DEF ReachKept
\* Every key has the value it has at the index j that is reached.
<1>3. ASSUME NEW j \in Nat, applied'[n] = j, s <= j, j <= st.decided, j <= next,
             db'[n] = StateAfter(Prefix(log[1], j))
      PROVE  /\ Follow(n, k) = j /\ db'[n][k] = ValueAt(k, j) /\ j \in s .. Decided(n)
             /\ j <= Len(log[1])
  <2>1. Reached(n, k) = j /\ db'[n][k] = ValueAt(k, j)
    BY <1>1, <1>3 DEF Reached
  <2>2. j <= Len(log[1]) /\ j \in s .. Decided(n)
    BY <1>1, <1>3
  <2>3. CASE db'[n][k] = db[n][k]
    BY <2>1, <2>2, <2>3 DEF Follow
  <2>4. CASE db'[n][k] # db[n][k]
    <3>1. /\ Follow(n, k) \in Nat /\ j <= Follow(n, k) /\ Follow(n, k) <= j
      BY <1>1, <2>1, <2>2, <2>4, FollowFirst
    <3> QED BY <2>1, <2>2, <3>1
  <2> QED BY <2>3, <2>4
<1>4. CASE ApplySnapshot(n)
  <2>1. applied'[n] = st.compacted /\ storage' = storage /\ pc' = pc /\ pc[n] = "apply"
        /\ applied[n] < st.compacted
    BY <1>1, <1>4 DEF ApplySnapshot, instance
  <2>2. r = st.compacted /\ next = st.compacted
    BY <1>1, <2>1 DEF Reach, Running
  <2>3. db'[n] = StateAfter(Prefix(log[1], st.compacted))
    BY <1>4, <1>1, InstallShows
  <2>4. /\ Follow(n, k) = st.compacted /\ db'[n][k] = ValueAt(k, st.compacted)
        /\ st.compacted \in s .. Decided(n) /\ st.compacted <= Len(log[1])
    BY <1>1, <1>3, <2>1, <2>2, <2>3
  <2> QED BY <1>1, <2>1, <2>2, <2>4
<1>5. CASE ApplyCommand(n)
  <2>1. /\ applied'[n] = applied[n] + 1 /\ storage' = storage /\ pc' = pc /\ pc[n] = "apply"
        /\ applied[n] >= st.compacted /\ applied[n] < st.decided
    BY <1>1, <1>5 DEF ApplyCommand, AtCommand, instance
  <2>2. r = applied[n] /\ next = applied[n] + 1
    BY <1>1, <2>1 DEF Reach, Running
  <2>3. db'[n] = StateAfter(Prefix(log[1], applied[n] + 1))
    BY <1>5, <1>1, CommandShows
  <2>4. /\ Follow(n, k) = applied[n] + 1 /\ db'[n][k] = ValueAt(k, applied[n] + 1)
        /\ applied[n] + 1 \in s .. Decided(n) /\ applied[n] + 1 <= Len(log[1])
    BY <1>1, <1>3, <2>1, <2>2, <2>3
  <2> QED BY <1>1, <2>1, <2>2, <2>4
\* The replica does not get any further, and a new value is one of the snapshot.
<1>6. CASE CrashInSnapshot(n)
  <2>1. applied'[n] = 0 /\ applied[n] < st.compacted /\ pc[n] = "apply"
    BY <1>1, <1>6 DEF CrashInSnapshot, Fail, Exit
  <2>2. r = st.compacted /\ Reached(n, k) = s
    BY <1>1, <2>1 DEF Reach, Running, Reached
  <2>3. db'[n][k] = db[n][k] \/ db'[n][k] = ValueAt(k, st.compacted)
    BY <1>1, <1>6, TornShows
  <2>4. CASE db'[n][k] = db[n][k]
    <3>1. Follow(n, k) = s
      BY <2>2, <2>4 DEF Follow
    <3> QED BY <1>1, <1>2, <2>1, <2>4, <3>1
  <2>5. CASE db'[n][k] # db[n][k]
    <3>1. ValueAt(k, st.compacted) = db'[n][k] /\ st.compacted <= Len(log[1])
      BY <1>1, <2>3, <2>5
    <3>2. /\ Follow(n, k) \in Nat /\ Follow(n, k) <= st.compacted
          /\ ValueAt(k, Follow(n, k)) = db'[n][k]
      BY <1>1, <2>2, <2>5, <3>1, FollowFirst
    <3>3. st.compacted \in s .. Decided(n)
      BY <1>1, <2>2
    <3> QED BY <1>1, <1>2, <2>1, <2>2, <3>1, <3>2, <3>3
  <2> QED BY <2>4, <2>5
<1>7. CASE ~ApplySnapshot(n) /\ ~ApplyCommand(n) /\ ~CrashInSnapshot(n)
  <2>1. db'[n] = db[n] /\ applied'[n] <= s /\ applied'[n] \in Nat
    BY <1>1, <1>7, ChangesDatabase
  <2>2. Follow(n, k) = s
    BY <1>1, <2>1 DEF Follow, Reached
  <2> QED BY <1>1, <1>2, <2>1, <2>2
<1> QED BY <1>4, <1>5, <1>6, <1>7

LEMMA NextReads ==
    ASSUME Len(ConfigNodes) = 1, ReadsInv, [ReadsNext]_readVars
    PROVE  ReadsInv'
<1>1. StaticInv' /\ StaticInv
  BY NextStatic DEF ReadsInv, ReadsNext, readVars
<1>2. CASE UNCHANGED readVars
  BY <1>1, <1>2 DEF ReadsInv, readVars, vars, consensus, persistent, volatile, instance
<1>3. CASE ReadsNext
  <2>1. shown' = [n \in Node |-> [k \in Key |-> Follow(n, k)]] /\ Next
    BY <1>3 DEF ReadsNext
  <2>2. shown' \in [Node -> [Key -> Nat]]
    BY <2>1, ReadsFollow
  <2>3. ASSUME NEW n \in Node, NEW k \in Key
        PROVE  /\ applied'[n] <= shown'[n][k]
               /\ shown'[n][k] <= Reach(storage'[n][1], pc'[n], applied'[n])
               /\ db'[n][k] = StateAfter(Prefix(log'[1], shown'[n][k]))[k]
    <3>1. shown'[n][k] = Follow(n, k)
      BY <2>1
    <3>2. /\ Follow(n, k) \in Nat /\ applied'[n] <= Follow(n, k)
          /\ Follow(n, k) <= Reach(storage'[n][1], pc'[n], applied'[n])
          /\ Follow(n, k) <= Len(log[1])
          /\ db'[n][k] = ValueAt(k, Follow(n, k))
      BY <2>1, ReadsFollow
    <3>3. ValueAt(k, Follow(n, k)) = StateAfter(Prefix(log[1], Follow(n, k)))[k]
      BY ReadsTypes
    <3>4. Prefix(log'[1], Follow(n, k)) = Prefix(log[1], Follow(n, k))
      BY <1>1, <2>1, <3>2, OnlyLogGrows
    <3> QED BY <3>1, <3>2, <3>3, <3>4
  <2> QED BY <1>1, <2>2, <2>3 DEF ReadsInv
<1> QED BY <1>2, <1>3

\* In a static cluster no read of a replica goes back in the log, also while the
\* replica recovers: a key that changes its value takes one that it has, or had, at an
\* index no smaller than that of any value it has shown (server.rs:149-200, 281-285).
THEOREM StaticReadsMonotonic ==
    ASSUME Len(ConfigNodes) = 1
    PROVE  ReadsSpec => MonotonicReads
<1>1. ReadsInit => ReadsInv
  <2> SUFFICES ASSUME ReadsInit PROVE ReadsInv
    OBVIOUS
  <2>1. StaticInv /\ log[1] = << >> /\ \A n \in Node : applied[n] = 0 /\ db[n] = EmptyDatabase
    BY InitStatic, ConfigFacts DEF ReadsInit, Init
  <2>2. shown = [n \in Node |-> [k \in Key |-> 0]]
    BY DEF ReadsInit
  <2>3. StateAfter(Prefix(log[1], 0)) = EmptyDatabase
    BY <2>1, OneConfig, EmptyPrefix DEF StaticInv
  <2>4. \A n \in Node : Reach(storage[n][1], pc[n], applied[n]) >= 0
    <3>1. \A n \in Node : storage[n][1].decided \in Nat /\ storage[n][1].compacted \in Nat
      BY <2>1, OneConfig DEF StaticInv
    <3> QED BY <2>1, <3>1 DEF Reach
  <2> QED BY <2>1, <2>2, <2>3, <2>4 DEF ReadsInv
<1>2. ReadsInv /\ [ReadsNext]_readVars => ReadsInv'
  BY NextReads
<1>3. ReadsInv /\ [ReadsNext]_readVars =>
          [\A n \in Node, k \in Key :
              db'[n][k] # db[n][k] =>
                  \E j \in shown[n][k] .. Decided(n) : ValueAt(k, j) = db'[n][k]]_readVars
  BY ReadsFollow DEF ReadsNext
<1> QED BY <1>1, <1>2, <1>3, PTL DEF ReadsSpec, MonotonicReads

\* What the documentation says of every cluster, that all replicas apply the same
\* commands in the same order (README.md:65), is true of a static one: two replicas that
\* have caught up to the same index hold the same state.
THEOREM StaticMembersAgree ==
    ASSUME Len(ConfigNodes) = 1
    PROVE  Spec => []MembersAgree
<1>1. CaughtUpReplicaExact => MembersAgree
  <2> SUFFICES ASSUME CaughtUpReplicaExact, NEW n \in Node, NEW m \in Node,
                      CaughtUp(n), CaughtUp(m),
                      serving[n] = serving[m], applied[n] = applied[m]
               PROVE  db[n] = db[m]
    BY DEF MembersAgree, AtRest
  <2> QED BY DEF CaughtUpReplicaExact
<1> QED BY <1>1, StaticReplicasExact, PTL

\* In a static cluster handle_decided_entries goes on where it ended or, after a
\* restart, at the beginning (server.rs:152-171).
THEOREM StaticSkipsNothing ==
    ASSUME Len(ConfigNodes) = 1
    PROVE  Spec => NoEntrySkipped
<1>1. Init => StaticInv
  BY InitStatic
<1>2. StaticInv /\ [Next]_vars => StaticInv'
  BY NextStatic
<1>3. StaticInv /\ [Next]_vars =>
          [\A n \in Node :
              pc[n] = "loop" /\ pc'[n] = "apply" => applied'[n] = applied[n]]_vars
  <2> SUFFICES ASSUME StaticInv, [Next]_vars, NEW n \in Node,
                      pc[n] = "loop", pc'[n] = "apply"
               PROVE  applied'[n] = applied[n]
    OBVIOUS
  <2>1. HandleDecidedEntries(n)
    BY EntersBySuffix DEF StaticInv
  <2>2. /\ ReplicaInv(log[1], storage[n][1], pc[n], applied[n], last_decided_idx[n], db[n])
        /\ serving[n] = 1 /\ Decided(n) = storage[n][1].decided
        /\ applied[n] \in Nat /\ storage[n][1].decided \in Nat /\ applied \in [Node -> Nat]
    BY OneConfig DEF StaticInv, TypeOK, Decided
  <2>3. ReadFrom(last_decided_idx[n], Decided(n)) = applied[n]
    BY <2>2 DEF ReplicaInv, ReadFrom
  <2> QED BY <2>1, <2>2, <2>3 DEF HandleDecidedEntries
<1> QED BY <1>1, <1>2, <1>3, PTL DEF Spec, NoEntrySkipped
=============================================================================
