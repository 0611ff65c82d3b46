-------------------------- MODULE KvProgressProofs --------------------------
(***************************************************************************)
(* While no process is restarted: no decided entry is left out, however    *)
(* often the cluster is reconfigured, and the first reconfiguration passes *)
(* on the final state of the log it ends.                                  *)
(***************************************************************************)
EXTENDS KvServerProofs

-----------------------------------------------------------------------------
(***************************************************************************)
(* The inductive invariant.  It speaks of one server: st is what its       *)
(* directories remember, p, s, a, last and f are the variables pc, serving, *)
(* applied, last_decided_idx and flushed of its process.                   *)
(***************************************************************************)
ServerInv(st, p, s, a, last, f) ==
    /\ p # "down"
    \* A node that has no process yet has decided nothing at all.
    /\ p = "new" => ~f /\ a = 0 /\ \A c \in Config : st[c].decided = 0
    \* Only the log of the current configuration has been learned of so far.
    /\ p \in {"new", "loop", "apply"} => \A c \in Config : c > s => st[c].decided = 0
    \* An instance that has sent nothing yet has decided nothing.
    /\ p \in {"new", "loop"} /\ ~f => st[s].decided = 0 /\ a = 0
    \* Afterwards the index is where update_database ended.
    /\ p = "apply" => f
    /\ p = "loop" /\ f => last = a
    /\ p \in {"loop", "apply"} => a <= st[s].decided

ProgressInv ==
    /\ TypeOK
    /\ \A n \in Node : ServerInv(storage[n], pc[n], serving[n], applied[n],
                                 last_decided_idx[n], flushed[n])

-----------------------------------------------------------------------------
\* Crashes are what is ruled out as long as the count of restarts is zero.
LEMMA NoFailure ==
    ASSUME restarts' = 0, TypeOK
    PROVE  /\ \A n \in Node : ~Crash(n) /\ ~CrashInSnapshot(n)
           /\ \A m \in catchup : ~CrashInHandleKv(m)
<1>1. \A n : ~Fail(n)
  BY DEF Fail, TypeOK
<1> QED BY <1>1 DEF Crash, CrashInSnapshot, CrashInHandleKv

\* A step of server n that leaves the others alone.
LEMMA OneServer ==
    ASSUME ProgressInv, TypeOK', NEW n \in Node,
           \A m \in Node \ {n} :
               /\ storage'[m] = storage[m] /\ pc'[m] = pc[m] /\ serving'[m] = serving[m]
               /\ applied'[m] = applied[m] /\ last_decided_idx'[m] = last_decided_idx[m]
               /\ flushed'[m] = flushed[m],
           ServerInv(storage'[n], pc'[n], serving'[n], applied'[n],
                     last_decided_idx'[n], flushed'[n])
    PROVE  ProgressInv'
BY DEF ProgressInv

LEMMA ServerTypes ==
    ASSUME TypeOK, NEW n \in Node
    PROVE  /\ serving[n] \in Config /\ serving[n] \in Nat
           /\ storage \in [Node -> [Config -> [decided : Nat, compacted : Nat]]]
           /\ storage[n] \in [Config -> [decided : Nat, compacted : Nat]]
           /\ Decided(n) = storage[n][serving[n]].decided /\ Decided(n) \in Nat
           /\ applied[n] \in Nat /\ last_decided_idx[n] \in Nat /\ flushed[n] \in BOOLEAN
           /\ pc \in [Node -> {"new", "loop", "apply", "panicked", "down"}]
           /\ serving \in [Node -> Config]
           /\ applied \in [Node -> Nat] /\ last_decided_idx \in [Node -> Nat]
           /\ flushed \in [Node -> BOOLEAN]
<1>1. Decided(n) \in Nat
  BY ServingFacts
<1> QED BY <1>1, ConfigFacts DEF TypeOK, Decided

-----------------------------------------------------------------------------
\* A server learns of decisions only after its instance has spoken.
LEMMA LearnProgress ==
    ASSUME ProgressInv, TypeOK', NEW n \in Node,
           LearnDecided(n) \/ \E i \in 1 .. Len(log[serving[n]]) : SyncFromSnapshot(n, i)
    PROVE  ProgressInv'
<1> USE DEF volatile, instance
<1> DEFINE s == serving[n]
<1>1. TypeOK /\ ServerInv(storage[n], pc[n], s, applied[n], last_decided_idx[n], flushed[n])
  BY DEF ProgressInv
<1>2. pc[n] = "loop" /\ flushed[n] /\ UNCHANGED volatile
  BY DEF LearnDecided, SyncFromSnapshot
<1>3. /\ \A c \in Config \ {s} : storage'[n][c] = storage[n][c]
      /\ \A m \in Node \ {n} : storage'[m] = storage[m]
      /\ storage[n][s].decided <= storage'[n][s].decided
  <2>1. CASE LearnDecided(n)
    BY <1>1, <2>1, ServerTypes DEF LearnDecided
  <2>2. CASE \E i \in 1 .. Len(log[serving[n]]) : SyncFromSnapshot(n, i)
    <3>1. PICK i \in 1 .. Len(log[serving[n]]) : SyncFromSnapshot(n, i)
      BY <2>2
    <3>2. storage[n][s].decided < i
      BY <1>1, <3>1, ServerTypes DEF SyncFromSnapshot
    <3>3. storage'[n][s].decided = i
      BY <1>1, <3>1, ServerTypes DEF SyncFromSnapshot
    <3>4. i \in Nat /\ storage[n][s].decided \in Nat
      BY <1>1, ServerTypes, ServingFacts
    <3> QED BY <1>1, <3>1, <3>2, <3>3, <3>4, ServerTypes DEF SyncFromSnapshot
  <2> QED BY <2>1, <2>2
<1>4. storage'[n][s].decided \in Nat
  BY <1>1, ServerTypes DEF TypeOK
<1>5. ServerInv(storage'[n], pc[n], s, applied[n], last_decided_idx[n], flushed[n])
  <2>1. \A c \in Config : c > s => c # s
    BY ConfigFacts, <1>1, ServerTypes
  <2> QED BY <1>1, <1>2, <1>3, <1>4, <2>1, ServerTypes DEF ServerInv
<1> QED BY <1>2, <1>3, <1>5, OneServer

\* Where handle_decided_entries starts to read, in a state of the invariant.
LEMMA ReadsOn ==
    ASSUME ProgressInv, NEW n \in Node, pc[n] = "loop"
    PROVE  ReadFrom(last_decided_idx[n], Decided(n)) = applied[n]
<1>1. ServerInv(storage[n], pc[n], serving[n], applied[n], last_decided_idx[n], flushed[n])
  BY DEF ProgressInv
<1> QED BY <1>1, ServerTypes DEF ProgressInv, ServerInv, ReadFrom

LEMMA HandleProgress ==
    ASSUME ProgressInv, TypeOK', NEW n \in Node,
           HandleDecidedEntries(n) \/ FinishDecided(n)
    PROVE  ProgressInv'
<1> USE DEF persistent, instance
<1>1. /\ TypeOK
      /\ ServerInv(storage[n], pc[n], serving[n], applied[n], last_decided_idx[n], flushed[n])
  BY DEF ProgressInv
<1>2. CASE HandleDecidedEntries(n)
  <2>1. pc[n] = "loop" /\ ReadFrom(last_decided_idx[n], Decided(n)) = applied[n]
    BY <1>2, ReadsOn DEF HandleDecidedEntries
  <2>2. /\ UNCHANGED <<storage, serving, applied>>
        /\ pc'[n] \in {"loop", "apply"} /\ flushed'[n] /\ last_decided_idx'[n] = applied[n]
        /\ \A m \in Node \ {n} : /\ pc'[m] = pc[m] /\ flushed'[m] = flushed[m]
                                 /\ last_decided_idx'[m] = last_decided_idx[m]
    BY <1>1, <1>2, <2>1, ServerTypes DEF HandleDecidedEntries
  <2>3. ServerInv(storage[n], pc'[n], serving[n], applied[n], applied[n], flushed'[n])
    BY <1>1, <2>1, <2>2 DEF ServerInv
  <2> QED BY <2>2, <2>3, OneServer
<1>3. CASE FinishDecided(n)
  <2>1. pc[n] = "apply" /\ applied[n] = Decided(n)
    <3>1. pc[n] = "apply" /\ applied[n] >= Decided(n)
      BY <1>3 DEF FinishDecided
    <3>2. applied[n] <= storage[n][serving[n]].decided
      BY <1>1, <3>1 DEF ServerInv
    <3>3. Decided(n) = storage[n][serving[n]].decided /\ Decided(n) \in Nat /\ applied[n] \in Nat
      BY <1>1, ServerTypes
    <3> QED BY <3>1, <3>2, <3>3
  <2>2. /\ UNCHANGED <<storage, serving, applied, flushed>>
        /\ pc'[n] = "loop" /\ last_decided_idx'[n] = applied[n]
        /\ \A m \in Node \ {n} : /\ pc'[m] = pc[m]
                                 /\ last_decided_idx'[m] = last_decided_idx[m]
    BY <1>1, <1>3, <2>1, ServerTypes DEF FinishDecided
  <2>3. ServerInv(storage[n], "loop", serving[n], applied[n], applied[n], flushed[n])
    BY <1>1, <2>1 DEF ServerInv
  <2> QED BY <2>2, <2>3, OneServer
<1> QED BY <1>2, <1>3

LEMMA ApplyProgress ==
    ASSUME ProgressInv, TypeOK', NEW n \in Node, ApplySnapshot(n) \/ ApplyCommand(n)
    PROVE  ProgressInv'
<1>1. /\ TypeOK
      /\ ServerInv(storage[n], pc[n], serving[n], applied[n], last_decided_idx[n], flushed[n])
  BY DEF ProgressInv
<1>2. /\ pc[n] = "apply" /\ applied'[n] <= Decided(n)
      /\ UNCHANGED <<storage, pc, serving, last_decided_idx, flushed>>
      /\ \A m \in Node \ {n} : applied'[m] = applied[m]
  <2>1. CASE ApplySnapshot(n)
    BY <1>1, <2>1, ServerTypes, ServingFacts DEF ApplySnapshot, instance
  <2>2. CASE ApplyCommand(n)
    BY <1>1, <2>2, ServerTypes DEF ApplyCommand, AtCommand, instance
  <2> QED BY <2>1, <2>2
<1>3. applied'[n] <= storage[n][serving[n]].decided
  BY <1>1, <1>2, ServerTypes
<1>4. ServerInv(storage[n], "apply", serving[n], applied'[n], last_decided_idx[n], flushed[n])
  BY <1>1, <1>2, <1>3 DEF ServerInv
<1> QED BY <1>2, <1>4, OneServer

\* The next configuration's instance is built over an empty directory.
LEMMA StopSignProgress ==
    ASSUME ProgressInv, TypeOK', NEW n \in Node,
           NEW reached, ApplyStopSign(n, reached)
    PROVE  ProgressInv'
<1> USE DEF persistent
<1> DEFINE next == serving[n] + 1
<1>1. /\ TypeOK /\ pc[n] = "apply" /\ IsReconfigured(n, serving[n])
      /\ ServerInv(storage[n], pc[n], serving[n], applied[n], last_decided_idx[n], flushed[n])
  BY DEF ProgressInv, ApplyStopSign, AtStopSign
<1>2. next \in Config /\ next > serving[n] /\ serving[n] \in Nat
  BY <1>1, ServingFacts, ServerTypes
<1>3. \A c \in Config : c > serving[n] => storage[n][c].decided = 0
  BY <1>1 DEF ServerInv
<1>4. storage[n][next].decided = 0 /\ \A c \in Config : c > next => storage[n][c].decided = 0
  BY <1>2, <1>3, ConfigFacts
<1>5. /\ storage' = storage /\ pc'[n] = "loop" /\ serving'[n] = next
      /\ applied'[n] = 0 /\ ~flushed'[n]
      /\ \A m \in Node \ {n} :
            /\ pc'[m] = pc[m] /\ serving'[m] = serving[m] /\ applied'[m] = applied[m]
            /\ last_decided_idx'[m] = last_decided_idx[m] /\ flushed'[m] = flushed[m]
  BY <1>1, ServerTypes DEF ApplyStopSign
<1>6. ServerInv(storage[n], "loop", next, 0, last_decided_idx'[n], flushed'[n])
  BY <1>4, <1>5 DEF ServerInv
<1> QED BY <1>5, <1>6, OneServer

\* A process that panics stays where it is.
LEMMA PanicProgress ==
    ASSUME ProgressInv, TypeOK', NEW n \in Node, AppendPanics(n) \/ BuildFails(n)
    PROVE  ProgressInv'
<1> USE DEF persistent
<1>1. TypeOK /\ storage' = storage /\ Exit(n, "panicked")
  BY DEF ProgressInv, AppendPanics, BuildFails
<1>2. /\ pc'[n] = "panicked"
      /\ \A m \in Node \ {n} :
            /\ pc'[m] = pc[m] /\ serving'[m] = serving[m] /\ applied'[m] = applied[m]
            /\ last_decided_idx'[m] = last_decided_idx[m] /\ flushed'[m] = flushed[m]
  BY <1>1, ServerTypes DEF Exit
<1>3. ServerInv(storage'[n], "panicked", serving'[n], applied'[n],
                last_decided_idx'[n], flushed'[n])
  BY DEF ServerInv
<1> QED BY <1>1, <1>2, <1>3, OneServer

\* The first boot of a joining node.
LEMMA BootProgress ==
    ASSUME ProgressInv, TypeOK', NEW n \in Node, NEW c \in Config, Boot(n, c)
    PROVE  ProgressInv'
<1>1. /\ TypeOK /\ pc[n] = "new"
      /\ ServerInv(storage[n], "new", serving[n], applied[n], last_decided_idx[n], flushed[n])
  BY DEF ProgressInv, Boot
<1>2. ~flushed[n] /\ applied[n] = 0 /\ \A b \in Config : storage[n][b].decided = 0
  BY <1>1 DEF ServerInv
<1>3. /\ UNCHANGED <<storage, applied, last_decided_idx, flushed>>
      /\ pc'[n] = "loop" /\ serving'[n] = c
      /\ \A m \in Node \ {n} : pc'[m] = pc[m] /\ serving'[m] = serving[m]
  BY <1>1, ServerTypes DEF Boot
<1>4. ServerInv(storage[n], "loop", c, applied[n], last_decided_idx[n], flushed[n])
  BY <1>2 DEF ServerInv
<1> QED BY <1>3, <1>4, OneServer

\* Nothing that a server's index depends on changes.
LEMMA SameServers ==
    ASSUME ProgressInv, TypeOK', UNCHANGED <<storage, volatile>>
    PROVE  ProgressInv'
BY DEF ProgressInv, volatile, instance

LEMMA InitProgress == Init => ProgressInv
<1> SUFFICES ASSUME Init PROVE ProgressInv
  OBVIOUS
<1>1. TypeOK
  BY InitTypeOK
<1>2. ASSUME NEW n \in Node
      PROVE  ServerInv(storage[n], pc[n], serving[n], applied[n],
                       last_decided_idx[n], flushed[n])
  <2>1. \A c \in Config : storage[n][c].decided = 0
    BY DEF Init, Fresh
  <2>2. /\ pc[n] \in {"loop", "new"} /\ applied[n] = 0 /\ ~flushed[n]
        /\ serving[n] \in Config
    BY <1>1, ServerTypes DEF Init
  <2> QED BY <2>1, <2>2 DEF ServerInv
<1> QED BY <1>1, <1>2 DEF ProgressInv

LEMMA NextProgress ==
    ASSUME restarts' = 0, ProgressInv, [Next]_vars
    PROVE  ProgressInv'
<1> USE DEF consensus, persistent
<1>1. TypeOK /\ TypeOK'
  BY NextTypeOK DEF ProgressInv
<1>2. ASSUME NEW c \in Config, NEW cmd \in Command, Choose(c, cmd) PROVE ProgressInv'
  BY <1>1, <1>2, SameServers DEF Choose
<1>3. ASSUME NEW c \in Config, ChooseStopSign(c) PROVE ProgressInv'
  BY <1>1, <1>3, SameServers DEF ChooseStopSign
<1>4. ASSUME NEW n \in Node, Step(n) PROVE ProgressInv'
  <2>1. ~Start(n)
    BY DEF ProgressInv, ServerInv, Start
  <2> QED BY <1>1, <1>4, <2>1, HandleProgress, ApplyProgress, StopSignProgress,
             PanicProgress, BootProgress DEF Step
<1>9. ASSUME NEW n \in Node, LearnDecided(n) PROVE ProgressInv'
  BY <1>1, <1>9, LearnProgress
<1>5. ASSUME NEW n \in Node, NEW i \in 1 .. Len(log[serving[n]]), SyncFromSnapshot(n, i)
      PROVE  ProgressInv'
  BY <1>1, <1>5, LearnProgress
<1>6. ASSUME NEW m \in catchup, ReceiveCatchup(m) PROVE ProgressInv'
  BY <1>1, <1>6, SameServers DEF ReceiveCatchup
<1>7. ASSUME NEW n \in Node, AppendPanics(n) PROVE ProgressInv'
  BY <1>1, <1>7, PanicProgress
<1>8. CASE UNCHANGED vars
  BY <1>1, <1>8, SameServers DEF vars
<1> QED BY <1>1, <1>2, <1>3, <1>4, <1>5, <1>6, <1>7, <1>8, <1>9, NoFailure DEF Next

\* Restarts are counted, never uncounted, up to their bound.
LEMMA NoRestart ==
    ASSUME TypeOK, [Next]_vars
    PROVE  /\ restarts' = 0 => restarts = 0
           /\ MaxRestarts = 0 /\ restarts = 0 => restarts' = 0
<1>1. restarts \in Nat
  BY DEF TypeOK
<1>2. ASSUME NEW n, Fail(n) PROVE restarts < MaxRestarts /\ restarts' = restarts + 1
  BY <1>2 DEF Fail
<1>3. CASE restarts' = restarts
  BY <1>3
<1>4. CASE restarts < MaxRestarts /\ restarts' = restarts + 1
  BY <1>1, <1>4
<1>5. ASSUME NEW n \in Node, Step(n) \/ AppendPanics(n) PROVE restarts' = restarts
  BY <1>5 DEF Step, AppendPanics, HandleDecidedEntries, ApplySnapshot, ApplyCommand,
     FinishDecided, ApplyStopSign, BuildFails, Boot, Start
<1>6. ASSUME NEW n \in Node, Crash(n) \/ CrashInSnapshot(n) PROVE Fail(n)
  BY <1>6 DEF Crash, CrashInSnapshot
<1>7. ASSUME NEW m \in catchup, CrashInHandleKv(m) PROVE Fail(m.to)
  BY <1>7 DEF CrashInHandleKv
<1>8. ASSUME NEW m \in catchup, ReceiveCatchup(m) PROVE restarts' = restarts
  BY <1>8 DEF ReceiveCatchup
<1>9. ASSUME NEW c, ChooseStopSign(c) \/ \E cmd \in Command : Choose(c, cmd)
      PROVE  restarts' = restarts
  BY <1>9 DEF ChooseStopSign, Choose
<1>10. ASSUME NEW n \in Node, LearnDecided(n) \/ \E i : SyncFromSnapshot(n, i)
       PROVE  restarts' = restarts
  BY <1>10 DEF LearnDecided, SyncFromSnapshot
<1>11. CASE UNCHANGED vars
  BY <1>11 DEF vars
<1> QED BY <1>2, <1>3, <1>4, <1>5, <1>6, <1>7, <1>8, <1>9, <1>10, <1>11 DEF Next

\* While no process is restarted, handle_decided_entries goes on where it ended, in
\* every configuration (server.rs:152-171).
THEOREM NoEntrySkippedWithoutRestarts ==
    ASSUME MaxRestarts = 0
    PROVE  Spec => NoEntrySkipped
<1>1. Init => ProgressInv /\ restarts = 0
  BY InitProgress DEF Init
<1>2. ProgressInv /\ restarts = 0 /\ [Next]_vars => (ProgressInv /\ restarts = 0)'
  BY NextProgress, NoRestart DEF ProgressInv
<1>3. ProgressInv /\ [Next]_vars =>
          [\A n \in Node :
              pc[n] = "loop" /\ pc'[n] = "apply" => applied'[n] = applied[n]]_vars
  <2> SUFFICES ASSUME ProgressInv, [Next]_vars, NEW n \in Node,
                      pc[n] = "loop", pc'[n] = "apply"
               PROVE  applied'[n] = applied[n]
    OBVIOUS
  <2>1. HandleDecidedEntries(n)
    BY EntersBySuffix DEF ProgressInv
  <2>2. ReadFrom(last_decided_idx[n], Decided(n)) = applied[n]
    BY ReadsOn
  <2>3. applied \in [Node -> Nat]
    BY DEF ProgressInv, TypeOK
  <2> QED BY <2>1, <2>2, <2>3 DEF HandleDecidedEntries
<1> QED BY <1>1, <1>2, <1>3, PTL DEF Spec, NoEntrySkipped

-----------------------------------------------------------------------------
(***************************************************************************)
(* What StateCatchup carries at the first reconfiguration.  A server that  *)
(* works through the log of the first configuration may receive the final  *)
(* state of that log in the middle of it; from then on it applies old      *)
(* commands to newer values.  What survives is that every key no remaining *)
(* command writes has its final value, and that holds of all keys at the   *)
(* StopSign.  A message of the first reconfiguration that arrives after    *)
(* the second one has begun overwrites newer values, and the state sent    *)
(* then need not be final: hence the bound on the configurations.          *)
(***************************************************************************)
Settled(data, es, a) ==
    \A k \in Key : data[k] = StateAfter(es)[k] \/ \E i \in a + 1 .. Len(es) : es[i].key = k

FirstLogInv(n) ==
    /\ pc[n] = "new" => db[n] = EmptyDatabase
    /\ serving[n] = 1 /\ pc[n] \in {"loop", "apply"} => Settled(db[n], log[1], applied[n])

FinalMessages == \A m \in catchup : stopped[1] /\ m.kv = StateAfter(log[1])

FinalStateInv ==
    /\ ProgressInv
    /\ \A n \in Node : FirstLogInv(n)
    /\ FinalMessages

-----------------------------------------------------------------------------
\* The final value of a key, by its last write.
LEMMA StateAtLastWrite ==
    ASSUME NEW es \in Seq(Command), NEW k \in Key, NEW i \in DOMAIN es, es[i].key = k,
           \A j \in DOMAIN es : j > i => es[j].key # k
    PROVE  StateAfter(es)[k] = es[i].value
<1>1. IsLastWrite(es, k, i)
  BY DEF IsLastWrite
<1> QED BY <1>1, FinalValueIs DEF StateAfter

LEMMA StateAppend ==
    ASSUME NEW es \in Seq(Command), NEW cmd \in Command, NEW k \in Key, k # cmd.key
    PROVE  StateAfter(Append(es, cmd))[k] = StateAfter(es)[k]
BY FinalValueAppend DEF StateAfter

\* All commands are applied.
LEMMA SettledAtEnd ==
    ASSUME NEW es \in Seq(Command), NEW d \in Database, Settled(d, es, Len(es))
    PROVE  d = StateAfter(es)
<1>1. Len(es) \in Nat /\ StateAfter(es) \in Database
  BY LenProperties, StateAfterIsReplay, ReplayType
<1>2. Len(es) + 1 .. Len(es) = {}
  BY <1>1
<1>3. \A k \in Key : d[k] = StateAfter(es)[k]
  BY <1>2 DEF Settled
<1> QED BY <1>1, <1>3 DEF Database

\* One more command is decided.
LEMMA SettledAppend ==
    ASSUME NEW es \in Seq(Command), NEW cmd \in Command, NEW d, NEW a \in Nat,
           a <= Len(es), Settled(d, es, a)
    PROVE  Settled(d, Append(es, cmd), a)
<1> DEFINE next == Append(es, cmd)
<1>1. /\ Len(es) \in Nat /\ Len(next) = Len(es) + 1 /\ next[Len(es) + 1] = cmd
      /\ \A i \in 1 .. Len(es) : next[i] = es[i]
  BY LenProperties, AppendProperties
<1> HIDE DEF next
<1>2. SUFFICES ASSUME NEW k \in Key
               PROVE  \/ d[k] = StateAfter(next)[k]
                      \/ \E i \in a + 1 .. Len(next) : next[i].key = k
  BY DEF Settled, next
<1>3. CASE k = cmd.key
  <2>1. Len(es) + 1 \in a + 1 .. Len(next)
    BY <1>1
  <2> QED BY <1>1, <1>3, <2>1
<1>4. CASE k # cmd.key /\ d[k] = StateAfter(es)[k]
  BY <1>4, StateAppend DEF next
<1>5. CASE \E i \in a + 1 .. Len(es) : es[i].key = k
  <2>1. PICK i \in a + 1 .. Len(es) : es[i].key = k
    BY <1>5
  <2>2. i \in a + 1 .. Len(next) /\ i \in 1 .. Len(es)
    BY <1>1
  <2> QED BY <1>1, <2>1, <2>2
<1> QED BY <1>3, <1>4, <1>5 DEF Settled

\* One more command is applied.
LEMMA SettledCommand ==
    ASSUME NEW es \in Seq(Command), NEW d \in Database, NEW a \in Nat, a < Len(es),
           Settled(d, es, a)
    PROVE  Settled(HandleCommand(d, es[a + 1]), es, a + 1)
<1> DEFINE cmd == es[a + 1]
<1>1. /\ Len(es) \in Nat /\ DOMAIN es = 1 .. Len(es) /\ a + 1 \in DOMAIN es
      /\ cmd \in Command
  BY LenProperties
<1>2. SUFFICES ASSUME NEW k \in Key, \A i \in a + 2 .. Len(es) : es[i].key # k
               PROVE  HandleCommand(d, cmd)[k] = StateAfter(es)[k]
  <2>1. a + 1 + 1 = a + 2
    OBVIOUS
  <2> QED BY <1>2, <2>1 DEF Settled
<1>3. CASE cmd.key = k
  <2>1. \A j \in DOMAIN es : j > a + 1 => es[j].key # k
    BY <1>1, <1>2
  <2>2. StateAfter(es)[k] = cmd.value
    BY <1>1, <1>3, <2>1, StateAtLastWrite
  <2> QED BY <1>3, <2>2 DEF HandleCommand, Database
<1>4. CASE cmd.key # k
  <2>1. HandleCommand(d, cmd)[k] = d[k]
    BY <1>4 DEF HandleCommand, Database
  <2>2. \A i \in a + 1 .. Len(es) : es[i].key # k
    <3> SUFFICES ASSUME NEW i \in a + 1 .. Len(es) PROVE es[i].key # k
      OBVIOUS
    <3>1. i = a + 1 \/ i \in a + 2 .. Len(es)
      BY <1>1
    <3> QED BY <1>2, <1>4, <3>1
  <2> QED BY <2>1, <2>2 DEF Settled
<1> QED BY <1>3, <1>4

\* A snapshot is installed.
LEMMA SettledSnapshot ==
    ASSUME NEW es \in Seq(Command), NEW d \in Database, NEW a \in Nat, NEW c \in Nat,
           a <= c, c <= Len(es), Settled(d, es, a)
    PROVE  Settled(HandleSnapshot(d, Create(Prefix(es, c))), es, c)
<1> DEFINE p == Prefix(es, c)
<1>1. /\ Len(es) \in Nat /\ DOMAIN es = 1 .. Len(es)
      /\ p \in Seq(Command) /\ Len(p) = c /\ \A j \in 1 .. c : p[j] = es[j]
      /\ DOMAIN p = 1 .. c
  BY LenProperties, PrefixType
<1> HIDE DEF p
<1>2. HandleSnapshot(d, Create(p)) = Replay(d, p)
  BY <1>1, SnapshotReplays
<1>3. SUFFICES ASSUME NEW k \in Key, \A i \in c + 1 .. Len(es) : es[i].key # k
               PROVE  Replay(d, p)[k] = StateAfter(es)[k]
  BY <1>2 DEF Settled, p
<1>4. CASE k \in Written(p)
  <2>1. PICK i \in DOMAIN p : IsLastWrite(p, k, i)
    BY <1>1, <1>4, LastWriteExists
  <2>2. i \in 1 .. c /\ i \in DOMAIN es /\ p[i] = es[i] /\ p[i].key = k
    BY <1>1, <2>1 DEF IsLastWrite
  <2>3. ASSUME NEW j \in DOMAIN es, j > i PROVE es[j].key # k
    <3>1. CASE j <= c
      <4>1. j \in DOMAIN p /\ p[j] = es[j]
        BY <1>1, <3>1
      <4> QED BY <2>1, <2>3, <4>1 DEF IsLastWrite
    <3>2. CASE j > c
      BY <1>1, <1>3, <3>2
    <3> QED BY <1>1, <3>1, <3>2
  <2>4. StateAfter(es)[k] = es[i].value
    BY <2>2, <2>3, StateAtLastWrite
  <2>5. FinalValue(p, k) = p[i].value
    BY <1>1, <2>1, FinalValueIs
  <2> QED BY <1>4, <2>2, <2>4, <2>5 DEF Replay
<1>5. CASE k \notin Written(p)
  <2>1. ASSUME NEW i \in a + 1 .. Len(es) PROVE es[i].key # k
    <3>1. CASE i <= c
      <4>1. i \in DOMAIN p /\ p[i] = es[i]
        BY <1>1, <3>1
      <4> QED BY <1>5, <4>1 DEF Written
    <3>2. CASE i > c
      BY <1>1, <1>3, <3>2
    <3> QED BY <1>1, <3>1, <3>2
  <2>2. d[k] = StateAfter(es)[k]
    BY <2>1 DEF Settled
  <2> QED BY <1>5, <2>2 DEF Replay
<1> QED BY <1>4, <1>5

\* A joiner that takes part in the first configuration starts with nothing.
LEMMA SettledEmpty ==
    ASSUME NEW es \in Seq(Command)
    PROVE  Settled(EmptyDatabase, es, 0)
<1> SUFFICES ASSUME NEW k \in Key, EmptyDatabase[k] # StateAfter(es)[k]
             PROVE  \E i \in 0 + 1 .. Len(es) : es[i].key = k
  BY DEF Settled
<1>1. k \in Written(es)
  BY DEF EmptyDatabase, StateAfter
<1>2. PICK i \in DOMAIN es : es[i].key = k
  BY <1>1 DEF Written
<1>3. i \in 0 + 1 .. Len(es)
  BY LenProperties
<1> QED BY <1>2, <1>3

LEMMA SettledFinal ==
    ASSUME NEW es, NEW a
    PROVE  Settled(StateAfter(es), es, a)
BY DEF Settled

-----------------------------------------------------------------------------
\* A step of server n that sends no state and decides nothing.
LEMMA OneFirstLog ==
    ASSUME FinalStateInv, ProgressInv', NEW n \in Node,
           \A m \in Node \ {n} : /\ db'[m] = db[m] /\ pc'[m] = pc[m]
                                 /\ serving'[m] = serving[m] /\ applied'[m] = applied[m],
           FirstLogInv(n)', UNCHANGED consensus, catchup' \subseteq catchup
    PROVE  FinalStateInv'
<1>1. ASSUME NEW m \in Node \ {n} PROVE FirstLogInv(m)'
  BY <1>1 DEF FinalStateInv, FirstLogInv, consensus
<1>2. FinalMessages'
  BY DEF FinalStateInv, FinalMessages, consensus
<1> QED BY <1>1, <1>2 DEF FinalStateInv

LEMMA StateTypes ==
    ASSUME FinalStateInv
    PROVE  /\ TypeOK /\ ProgressInv /\ 1 \in Config
           /\ log[1] \in Seq(Command) /\ Len(log[1]) \in Nat
           /\ log \in [Config -> Seq(Command)]
           /\ db \in [Node -> Database] /\ applied \in [Node -> Nat]
           /\ serving \in [Node -> Config]
           /\ pc \in [Node -> {"new", "loop", "apply", "panicked", "down"}]
           /\ catchup \in SUBSET CatchupMessage
           /\ stopped \in [Config -> BOOLEAN]
<1>1. TypeOK /\ 1 \in Config
  BY ConfigFacts DEF FinalStateInv, ProgressInv
<1> QED BY <1>1, LenProperties DEF FinalStateInv, TypeOK

\* The steps of a server that neither apply an entry nor end the process.
LEMMA QuietFinal ==
    ASSUME FinalStateInv, ProgressInv', NEW n \in Node,
           \/ LearnDecided(n) \/ \E i \in 1 .. Len(log[serving[n]]) : SyncFromSnapshot(n, i)
           \/ HandleDecidedEntries(n) \/ FinishDecided(n)
    PROVE  FinalStateInv'
<1> USE DEF persistent, volatile, instance
<1>1. /\ TypeOK /\ ProgressInv /\ FirstLogInv(n)
      /\ pc \in [Node -> {"new", "loop", "apply", "panicked", "down"}]
      /\ applied \in [Node -> Nat]
  BY StateTypes DEF FinalStateInv
<1>2. UNCHANGED <<consensus, db, serving, catchup>>
  BY DEF LearnDecided, SyncFromSnapshot, HandleDecidedEntries, FinishDecided
<1>3. applied' = applied
  <2>1. CASE HandleDecidedEntries(n)
    <3>1. ReadFrom(last_decided_idx[n], Decided(n)) = applied[n]
      BY <1>1, <2>1, ReadsOn DEF HandleDecidedEntries
    <3> QED BY <1>1, <2>1, <3>1 DEF HandleDecidedEntries
  <2> QED BY <2>1 DEF LearnDecided, SyncFromSnapshot, FinishDecided
<1>4. /\ \A m \in Node \ {n} : pc'[m] = pc[m]
      /\ pc[n] \in {"loop", "apply"} /\ pc'[n] \in {"loop", "apply"}
  BY <1>1 DEF LearnDecided, SyncFromSnapshot, HandleDecidedEntries, FinishDecided
<1>5. FirstLogInv(n)'
  BY <1>1, <1>2, <1>3, <1>4 DEF FirstLogInv, consensus
<1> QED BY <1>2, <1>3, <1>4, <1>5, OneFirstLog

\* The first boot of a node that joins, with nothing to apply commands to yet.
LEMMA BootFinal ==
    ASSUME FinalStateInv, ProgressInv', NEW n \in Node, NEW c \in Config, Boot(n, c)
    PROVE  FinalStateInv'
<1>1. TypeOK /\ ProgressInv /\ FirstLogInv(n) /\ pc[n] = "new" /\ log[1] \in Seq(Command)
  BY StateTypes DEF FinalStateInv, Boot
<1>2. db[n] = EmptyDatabase /\ applied[n] = 0
  BY <1>1 DEF FirstLogInv, ProgressInv, ServerInv
<1>3. /\ UNCHANGED <<consensus, db, applied, catchup>> /\ pc'[n] = "loop"
      /\ \A m \in Node \ {n} : pc'[m] = pc[m] /\ serving'[m] = serving[m]
  BY <1>1, ServerTypes DEF Boot
<1>4. FirstLogInv(n)'
  BY <1>1, <1>2, <1>3, SettledEmpty DEF FirstLogInv, consensus
<1> QED BY <1>3, <1>4, OneFirstLog

LEMMA ApplyFinal ==
    ASSUME FinalStateInv, ProgressInv', NEW n \in Node, ApplySnapshot(n) \/ ApplyCommand(n)
    PROVE  FinalStateInv'
<1>1. /\ TypeOK /\ FirstLogInv(n) /\ log[1] \in Seq(Command) /\ Len(log[1]) \in Nat
      /\ db \in [Node -> Database] /\ applied \in [Node -> Nat]
  BY StateTypes DEF FinalStateInv
<1>2. /\ UNCHANGED <<consensus, pc, serving, catchup>> /\ pc[n] = "apply"
      /\ \A m \in Node \ {n} : db'[m] = db[m] /\ applied'[m] = applied[m]
  BY <1>1 DEF ApplySnapshot, ApplyCommand, AtCommand, instance
<1>3. ASSUME serving[n] = 1 PROVE Settled(db'[n], log[1], applied'[n])
  <2>1. Settled(db[n], log[1], applied[n]) /\ db[n] \in Database /\ applied[n] \in Nat
    BY <1>1, <1>2, <1>3 DEF FirstLogInv
  <2>2. CASE ApplySnapshot(n)
    <3>1. /\ applied[n] < Compacted(n) /\ applied'[n] = Compacted(n)
          /\ db'[n] = HandleSnapshot(db[n], Create(Prefix(log[1], Compacted(n))))
      BY <1>1, <1>3, <2>2 DEF ApplySnapshot
    <3>2. Compacted(n) \in Nat /\ Compacted(n) <= Len(log[1])
      BY <1>1, <1>3, ServingFacts
    <3>3. applied[n] <= Compacted(n)
      BY <2>1, <3>1, <3>2
    <3> HIDE DEF Compacted
    <3> QED BY <1>1, <2>1, <3>1, <3>2, <3>3, SettledSnapshot
  <2>3. CASE ApplyCommand(n)
    <3>1. /\ applied[n] < Len(log[1]) /\ applied'[n] = applied[n] + 1
          /\ db'[n] = HandleCommand(db[n], log[1][applied[n] + 1])
      BY <1>1, <1>3, <2>3 DEF ApplyCommand, AtCommand
    <3> QED BY <1>1, <2>1, <3>1, SettledCommand
  <2> QED BY <2>2, <2>3
<1>4. FirstLogInv(n)'
  BY <1>2, <1>3 DEF FirstLogInv, consensus
<1> QED BY <1>2, <1>4, OneFirstLog

LEMMA PanicFinal ==
    ASSUME FinalStateInv, ProgressInv', NEW n \in Node, AppendPanics(n) \/ BuildFails(n)
    PROVE  FinalStateInv'
<1> USE DEF persistent
<1>1. UNCHANGED <<consensus, db>> /\ Exit(n, "panicked")
  BY DEF AppendPanics, BuildFails
<1>2. pc'[n] = "panicked" /\ catchup' \subseteq catchup
      /\ \A m \in Node \ {n} : /\ pc'[m] = pc[m] /\ serving'[m] = serving[m]
                               /\ applied'[m] = applied[m]
  BY <1>1, StateTypes DEF Exit
<1>3. FirstLogInv(n)'
  BY <1>2 DEF FirstLogInv
<1> QED BY <1>1, <1>2, <1>3, OneFirstLog

\* The state that leaves a server at its StopSign is the final one.
LEMMA StopSignFinal ==
    ASSUME Len(ConfigNodes) <= 2, FinalStateInv, ProgressInv', NEW n \in Node,
           NEW reached, ApplyStopSign(n, reached)
    PROVE  FinalStateInv'
<1> USE DEF persistent
<1>1. TypeOK /\ FirstLogInv(n) /\ serving[n] \in Config /\ serving \in [Node -> Config]
      /\ applied \in [Node -> Nat]
      /\ log[1] \in Seq(Command) /\ db[n] \in Database
      /\ pc \in [Node -> {"new", "loop", "apply", "panicked", "down"}]
  BY StateTypes DEF FinalStateInv
<1>2. /\ pc[n] = "apply" /\ IsReconfigured(n, serving[n])
      /\ applied[n] = Len(log[serving[n]])
      /\ UNCHANGED <<consensus, db>>
  BY DEF ApplyStopSign, AtStopSign
<1>3. serving[n] = 1 /\ stopped[1]
  <2>1. stopped[serving[n]] /\ serving[n] + 1 \in Config
    BY <1>1, <1>2, ServingFacts
  <2> QED BY <1>1, <2>1, ConfigFacts
<1>4. db[n] = StateAfter(log[1])
  BY <1>1, <1>2, <1>3, SettledAtEnd DEF FirstLogInv
<1>5. /\ pc'[n] = "loop" /\ serving'[n] = 2
      /\ \A m \in Node \ {n} : /\ pc'[m] = pc[m] /\ serving'[m] = serving[m]
                               /\ applied'[m] = applied[m]
  BY <1>1, <1>3 DEF ApplyStopSign
<1>6. FinalMessages'
  <2>1. catchup' = catchup \union {[from |-> n, to |-> p, kv |-> db[n]] : p \in reached}
    BY DEF ApplyStopSign
  <2> QED BY <1>2, <1>3, <1>4, <2>1 DEF FinalStateInv, FinalMessages, consensus
<1>7. \A m \in Node : FirstLogInv(m)'
  <2>1. FirstLogInv(n)'
    BY <1>5 DEF FirstLogInv
  <2>2. ASSUME NEW m \in Node \ {n} PROVE FirstLogInv(m)'
    BY <1>2, <1>5 DEF FinalStateInv, FirstLogInv, consensus
  <2> QED BY <2>1, <2>2
<1> QED BY <1>6, <1>7 DEF FinalStateInv

\* A command or a StopSign is decided: nothing is sent before the log is complete.
LEMMA DecideFinal ==
    ASSUME FinalStateInv, ProgressInv', NEW c \in Config,
           (\E cmd \in Command : Choose(c, cmd)) \/ ChooseStopSign(c)
    PROVE  FinalStateInv'
<1> USE DEF persistent, volatile, instance
<1>1. /\ TypeOK /\ ProgressInv /\ log[1] \in Seq(Command) /\ Len(log[1]) \in Nat
      /\ 1 \in Config /\ log \in [Config -> Seq(Command)]
      /\ stopped \in [Config -> BOOLEAN] /\ applied \in [Node -> Nat]
  BY StateTypes
<1>2. UNCHANGED <<db, pc, serving, applied, catchup>>
  BY DEF Choose, ChooseStopSign
<1>3. CASE log'[1] = log[1]
  <2>1. stopped[1] => stopped'[1]
    BY <1>1 DEF Choose, ChooseStopSign
  <2> QED BY <1>2, <1>3, <2>1 DEF FinalStateInv, FirstLogInv, FinalMessages
<1>4. ASSUME NEW cmd \in Command, Choose(c, cmd), c = 1 PROVE FinalStateInv'
  <2>1. ~stopped[1] /\ log'[1] = Append(log[1], cmd)
    BY <1>1, <1>4 DEF Choose
  <2>2. catchup = {}
    BY <2>1 DEF FinalStateInv, FinalMessages
  <2>3. ASSUME NEW n \in Node PROVE FirstLogInv(n)'
    <3>1. FirstLogInv(n)
      BY DEF FinalStateInv
    <3>2. ASSUME serving[n] = 1, pc[n] \in {"loop", "apply"}
          PROVE  applied[n] <= Len(log[1])
      <4>1. applied[n] <= Decided(n)
        BY <3>2 DEF FinalStateInv, ProgressInv, ServerInv, Decided
      <4>2. Decided(n) <= Len(log[1]) /\ Decided(n) \in Nat /\ applied[n] \in Nat
        BY <1>1, <2>1, <3>2, ServingFacts DEF DecidedLen
      <4> QED BY <1>1, <4>1, <4>2
    <3> QED BY <1>1, <1>2, <2>1, <3>1, <3>2, SettledAppend DEF FirstLogInv
  <2> QED BY <1>2, <2>2, <2>3 DEF FinalStateInv, FinalMessages
<1>5. ASSUME NEW cmd \in Command, Choose(c, cmd), c # 1 PROVE log'[1] = log[1]
  BY <1>1, <1>5 DEF Choose
<1>6. ChooseStopSign(c) => log'[1] = log[1]
  BY DEF ChooseStopSign
<1> QED BY <1>3, <1>4, <1>5, <1>6

LEMMA ReceiveFinal ==
    ASSUME FinalStateInv, ProgressInv', NEW m \in catchup, ReceiveCatchup(m)
    PROVE  FinalStateInv'
<1> USE DEF volatile, instance
<1> DEFINE n == m.to
<1>1. n \in Node /\ m.kv \in Database /\ db \in [Node -> Database] /\ FirstLogInv(n)
  BY StateTypes DEF CatchupMessage, FinalStateInv
<1>2. m.kv = StateAfter(log[1])
  BY DEF FinalStateInv, FinalMessages
<1>3. /\ UNCHANGED <<consensus, pc, serving, applied>> /\ catchup' \subseteq catchup
      /\ db' = [db EXCEPT ![n] = HandleKv(db[n], m.kv)] /\ pc[n] = "loop"
  BY <1>1 DEF ReceiveCatchup
<1>4. db'[n] = StateAfter(log[1])
  BY <1>1, <1>2, <1>3, HandleKvReplaces
<1>5. FirstLogInv(n)'
  BY <1>3, <1>4, SettledFinal DEF FirstLogInv, consensus
<1>6. \A p \in Node \ {n} : db'[p] = db[p]
  BY <1>1, <1>3
<1> QED BY <1>1, <1>3, <1>5, <1>6, OneFirstLog

LEMMA InitFinal == Init => FinalStateInv
<1> SUFFICES ASSUME Init PROVE FinalStateInv
  OBVIOUS
<1>1. ProgressInv /\ catchup = {} /\ log[1] = << >>
  BY InitProgress, ConfigFacts DEF Init
<1>2. ASSUME NEW n \in Node PROVE FirstLogInv(n)
  <2>1. db[n] = StateAfter(log[1])
    <3>1. << >> \in Seq(Command) /\ EmptyDatabase \in Database
      BY StateAfterIsReplay
    <3>2. StateAfter(<< >>) = EmptyDatabase
      BY <3>1, StateAfterIsReplay, ReplayNothing
    <3> QED BY <1>1, <3>2 DEF Init
  <2>2. Settled(db[n], log[1], applied[n])
    BY <2>1, SettledFinal
  <2> QED BY <2>2 DEF FirstLogInv, Init
<1> QED BY <1>1, <1>2 DEF FinalStateInv, FinalMessages

LEMMA NextFinal ==
    ASSUME Len(ConfigNodes) <= 2, restarts' = 0, FinalStateInv, [Next]_vars
    PROVE  FinalStateInv'
<1>1. TypeOK /\ ProgressInv'
  BY NextProgress, StateTypes
<1>2. ASSUME NEW c \in Config, (\E cmd \in Command : Choose(c, cmd)) \/ ChooseStopSign(c)
      PROVE  FinalStateInv'
  BY <1>1, <1>2, DecideFinal
<1>3. ASSUME NEW n \in Node, Step(n) PROVE FinalStateInv'
  <2>1. ~Start(n)
    BY <1>1 DEF FinalStateInv, ProgressInv, ServerInv, Start
  <2> QED BY <1>1, <1>3, <2>1, QuietFinal, ApplyFinal, PanicFinal, StopSignFinal, BootFinal
          DEF Step
<1>8. ASSUME NEW n \in Node, LearnDecided(n) PROVE FinalStateInv'
  BY <1>1, <1>8, QuietFinal
<1>4. ASSUME NEW n \in Node, NEW i \in 1 .. Len(log[serving[n]]), SyncFromSnapshot(n, i)
      PROVE  FinalStateInv'
  BY <1>1, <1>4, QuietFinal
<1>5. ASSUME NEW m \in catchup, ReceiveCatchup(m) PROVE FinalStateInv'
  BY <1>1, <1>5, ReceiveFinal
<1>6. ASSUME NEW n \in Node, AppendPanics(n) PROVE FinalStateInv'
  BY <1>1, <1>6, PanicFinal
<1>7. CASE UNCHANGED vars
  BY <1>1, <1>7 DEF FinalStateInv, FirstLogInv, FinalMessages, vars, consensus, persistent,
     volatile, instance
<1> QED BY <1>1, <1>2, <1>3, <1>4, <1>5, <1>6, <1>7, <1>8, NoFailure DEF Next

\* At the first reconfiguration, and while no process has been restarted, the state
\* sent with StateCatchup is that of the complete log of the stopped configuration
\* (server.rs:205-228), although a sender may have received such a message itself.
THEOREM FirstCatchupIsFinal ==
    ASSUME Len(ConfigNodes) <= 2
    PROVE  Spec => []CatchupCarriesFinalState
<1> DEFINE Inv == TypeOK /\ (restarts = 0 => FinalStateInv)
<1>1. Init => Inv
  BY InitTypeOK, InitFinal
<1>2. Inv /\ [Next]_vars => Inv'
  <2> SUFFICES ASSUME Inv, [Next]_vars PROVE Inv'
    OBVIOUS
  <2>1. restarts' = 0 => restarts = 0
    BY NoRestart
  <2> QED BY <2>1, NextTypeOK, NextFinal
<1>3. Inv => CatchupCarriesFinalState
  <2> SUFFICES ASSUME FinalStateInv, NEW m \in catchup
               PROVE  stopped[1] /\ m.kv = Replay(BaseState(1), log[1])
    BY ConfigFacts DEF CatchupCarriesFinalState
  <2>1. stopped[1] /\ m.kv = StateAfter(log[1])
    BY DEF FinalStateInv, FinalMessages
  <2>2. BaseState(1) = EmptyDatabase
    <3>1. \A b \in Config : ~ (b < 1)
      BY ConfigFacts
    <3> QED BY <3>1 DEF BaseState, EmptyDatabase
  <2> QED BY <2>1, <2>2, StateAfterIsReplay
<1> QED BY <1>1, <1>2, <1>3, PTL DEF Spec
=============================================================================
