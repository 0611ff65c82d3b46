------------------------------ MODULE KvServer ------------------------------
(***************************************************************************)
(* The kv_store servers: the event loop of server.rs, the boot sequence of *)
(* main.rs, the persistent database and log directories of every node, and *)
(* reconfiguration with state catch-up.                                    *)
(*                                                                         *)
(* OmniPaxos is external and is modelled by what the servers rely on: each *)
(* configuration has one log of decided commands that ends, once, with a   *)
(* StopSign; a decision needs a majority of the configuration's nodes; and *)
(* every node learns a growing prefix of it, which its storage remembers.  *)
(* A stored snapshot is represented by the number of entries it stands     *)
(* for: SnapshotLog shows that it is then Create of that prefix, however   *)
(* it was put together.                                                    *)
(*                                                                         *)
(* Every process boots "configuration 1" over the directory config_1       *)
(* (main.rs:59-70), with as many nodes as there are replicas at that       *)
(* moment, and no message names a configuration (network.rs:17).  So the   *)
(* fresh instance of a node that joins takes part in whatever its peers    *)
(* run: in the log that is about to be stopped, or in the next one.        *)
(* storage is indexed by the configuration whose log a directory holds,    *)
(* boot[n] is that of config_1, and the directory of the i-th StopSign     *)
(* after it, config{i+1} (server.rs:231), is that of boot[n] + i.          *)
(***************************************************************************)
EXTENDS KvStore, FiniteSets

CONSTANTS
    Node,           \* the server processes (NODES)
    ConfigNodes,    \* ConfigNodes[c]: the members of the c-th configuration
    MaxEntries,     \* bound: MaxEntries[c] commands are decided in configuration c
    MaxRestarts     \* bound: crashes, and restarts after a panic

ASSUME ConfigAssumption ==
    /\ IsFiniteSet(Node)
    /\ ConfigNodes \in Seq(SUBSET Node)
    /\ Len(ConfigNodes) > 0
    /\ \A n \in Node : \E c \in DOMAIN ConfigNodes : n \in ConfigNodes[c]

ASSUME BoundAssumption ==
    MaxEntries \in [DOMAIN ConfigNodes -> Nat] /\ MaxRestarts \in Nat

Config == DOMAIN ConfigNodes

\* The first configuration that n is a member of.
FirstConfig(n) ==
    CHOOSE c \in Config :
        n \in ConfigNodes[c] /\ \A b \in Config : b < c => n \notin ConfigNodes[b]

VARIABLES
    log,                \* log[c]: the commands decided in configuration c
    stopped,            \* stopped[c]: a StopSign was decided after log[c]
    storage,            \* storage[n][c]: what the log directory of n remembers
    db,                 \* db[n]: the RocksDB database of n
    boot,               \* boot[n]: the configuration whose log config_1 of n holds
    pc,                 \* pc[n]: where the process of n is
    serving,            \* serving[n]: the configuration of self.omni_paxos
    cluster,            \* ConfigNodes[cluster[n]]: the nodes that instance counts
    last_decided_idx,   \* self.last_decided_idx
    applied,            \* entries of serving[n] that update_database went over
    flushed,            \* the instance's first messages have been sent
    catchup,            \* StateCatchup messages on their way
    restarts            \* crashes, and restarts after a panic, so far

consensus  == <<log, stopped>>
persistent == <<storage, db, boot>>
instance   == <<serving, cluster>>
volatile   == <<pc, instance, last_decided_idx, applied, flushed>>
vars == <<consensus, persistent, volatile, catchup, restarts>>

-----------------------------------------------------------------------------
Up(n) == pc[n] \in {"loop", "apply"}

\* What n has decided and compacted in the configuration it serves.
Decided(n) == storage[n][serving[n]].decided
Compacted(n) == storage[n][serving[n]].compacted

\* The decided index of a complete log: the StopSign is its last entry.
DecidedLen(c) == IF stopped[c] THEN Len(log[c]) + 1 ELSE Len(log[c])

\* OmniPaxos::is_reconfigured for the instance of n in configuration c.
IsReconfigured(n, c) == storage[n][c].decided > Len(log[c])

\* n runs an instance of c and can be talked to.
Active(n, c) == Up(n) /\ serving[n] = c /\ flushed[n]

\* The instance that n runs has a majority of the nodes it counts.
HasMajority(n) ==
    LET nodes == ConfigNodes[cluster[n]]
    IN  /\ Active(n, serving[n])
        /\ 2 * Cardinality({m \in nodes : Active(m, serving[n])}) > Cardinality(nodes)

CanDecide(c) == \E n \in Node : serving[n] = c /\ HasMajority(n)

\* Somebody with a majority counts n among its nodes, and makes it learn.
CanLearn(n) ==
    \E m \in Node :
        serving[m] = serving[n] /\ HasMajority(m) /\ n \in ConfigNodes[cluster[m]]

\* The database at the beginning of configuration c: of every key, what the last
\* earlier configuration that wrote it left; and after i commands of c.
BaseState(c) ==
    LET writers(k) == {b \in Config : b < c /\ k \in Written(log[b])}
        last(k) == CHOOSE b \in writers(k) : \A a \in writers(k) : a <= b
    IN  [k \in Key |-> IF writers(k) = {} THEN NoValue
                                        ELSE FinalValue(log[last(k)], k)]

ExpectedState(c, i) == Replay(BaseState(c), Prefix(log[c], i))

-----------------------------------------------------------------------------
Fresh == [decided |-> 0, compacted |-> 0]

\* The members of the first configuration have booted, the others have no pod.
Init ==
    /\ log = [c \in Config |-> << >>]
    /\ stopped = [c \in Config |-> FALSE]
    /\ storage = [n \in Node |-> [c \in Config |-> Fresh]]
    /\ db = [n \in Node |-> EmptyDatabase]
    /\ boot = [n \in Node |-> FirstConfig(n)]
    /\ pc = [n \in Node |-> IF n \in ConfigNodes[1] THEN "loop" ELSE "new"]
    /\ serving = boot
    /\ cluster = boot
    /\ last_decided_idx = [n \in Node |-> 0]
    /\ applied = [n \in Node |-> 0]
    /\ flushed = [n \in Node |-> FALSE]
    /\ catchup = {}
    /\ restarts = 0

-----------------------------------------------------------------------------
(***************************************************************************)
(* OmniPaxos.                                                              *)
(***************************************************************************)
\* A command that some server appended is decided.
Choose(c, cmd) ==
    /\ ~stopped[c]
    /\ Len(log[c]) < MaxEntries[c]
    /\ CanDecide(c)
    /\ log' = [log EXCEPT ![c] = Append(@, cmd)]
    /\ UNCHANGED <<stopped, persistent, volatile, catchup, restarts>>

\* The StopSign that the leader proposed with reconfigure is decided.
ChooseStopSign(c) ==
    /\ ~stopped[c]
    /\ c + 1 \in Config
    /\ CanDecide(c)
    /\ stopped' = [stopped EXCEPT ![c] = TRUE]
    /\ UNCHANGED <<log, persistent, volatile, catchup, restarts>>

\* process_incoming_msgs hands the instance a message that decides an entry, which
\* may have been on its way for long.
LearnDecided(n) ==
    /\ pc[n] = "loop"
    /\ flushed[n]
    /\ Decided(n) < DecidedLen(serving[n])
    /\ storage' = [storage EXCEPT ![n][serving[n]].decided = @ + 1]
    /\ UNCHANGED <<consensus, db, boot, volatile, catchup, restarts>>

\* The same, when the leader synchronises a follower with a snapshot.
SyncFromSnapshot(n, i) ==
    /\ pc[n] = "loop"
    /\ flushed[n]
    /\ i \in Decided(n) + 1 .. Len(log[serving[n]])
    /\ storage' = [storage EXCEPT ![n][serving[n]] =
                      [decided |-> i, compacted |-> i]]
    /\ UNCHANGED <<consensus, db, boot, volatile, catchup, restarts>>

-----------------------------------------------------------------------------
(***************************************************************************)
(* The event loop.                                                         *)
(***************************************************************************)
\* The process of n ends: its memory and the messages sent to it are lost.
Exit(n, how) ==
    /\ pc' = [pc EXCEPT ![n] = how]
    /\ serving' = [serving EXCEPT ![n] = boot[n]]
    /\ cluster' = [cluster EXCEPT ![n] = boot[n]]
    /\ last_decided_idx' = [last_decided_idx EXCEPT ![n] = 0]
    /\ applied' = [applied EXCEPT ![n] = 0]
    /\ flushed' = [flushed EXCEPT ![n] = FALSE]
    /\ catchup' = {m \in catchup : m.to # n}

\* The StateCatchup arm of process_incoming_msgs.
ReceiveCatchup(m) ==
    /\ pc[m.to] = "loop"
    /\ db' = [db EXCEPT ![m.to] = HandleKv(@, m.kv)]
    /\ catchup' = catchup \ {m}
    /\ UNCHANGED <<consensus, storage, boot, volatile, restarts>>

\* append(cmd).unwrap() on an instance that has accepted a StopSign, which it may
\* have done as soon as it talks to the others, long before one is decided.
AppendPanics(n) ==
    /\ pc[n] = "loop"
    /\ serving[n] + 1 \in Config
    /\ flushed[n] \/ IsReconfigured(n, serving[n])
    /\ Exit(n, "panicked")
    /\ UNCHANGED <<consensus, persistent, restarts>>

\* Mutant of ReadFrom: the index of the old log is never reset.
ReadFromOldIdx(last, decided) == last

\* Mutant of ReadFrom: the entry at the index is taken for one already applied.
ReadFromNext(last, decided) == last + 1

\* Where handle_decided_entries starts to read: the index is reset only when
\* the new instance has decided nothing yet.
ReadFrom(last, decided) ==
    IF decided < last /\ decided = 0 THEN 0 ELSE last

\* send_outgoing_msgs and the beginning of handle_decided_entries.
HandleDecidedEntries(n) ==
    LET from == ReadFrom(last_decided_idx[n], Decided(n))
    IN  /\ pc[n] = "loop"
        /\ ~flushed[n] \/ from < Decided(n)
        /\ flushed' = [flushed EXCEPT ![n] = TRUE]
        /\ last_decided_idx' = [last_decided_idx EXCEPT ![n] = from]
        /\ IF from < Decided(n)
           THEN /\ pc' = [pc EXCEPT ![n] = "apply"]
                /\ applied' = [applied EXCEPT ![n] = from]
           ELSE UNCHANGED <<pc, applied>>
        /\ UNCHANGED <<consensus, persistent, instance, catchup, restarts>>

\* update_database, LogEntry::Snapshotted.
ApplySnapshot(n) ==
    /\ pc[n] = "apply"
    /\ applied[n] < Compacted(n)
    /\ db' = [db EXCEPT ![n] =
                 HandleSnapshot(@, Create(Prefix(log[serving[n]], Compacted(n))))]
    /\ applied' = [applied EXCEPT ![n] = Compacted(n)]
    /\ UNCHANGED <<consensus, storage, boot, pc, instance, last_decided_idx, flushed,
                   catchup, restarts>>

\* The next decided entry is a command of the log.
AtCommand(n) ==
    /\ pc[n] = "apply"
    /\ applied[n] >= Compacted(n)
    /\ applied[n] < Decided(n)
    /\ applied[n] < Len(log[serving[n]])

\* update_database, LogEntry::Decided.
ApplyCommand(n) ==
    /\ AtCommand(n)
    /\ db' = [db EXCEPT ![n] = HandleCommand(@, log[serving[n]][applied[n] + 1])]
    /\ applied' = [applied EXCEPT ![n] = @ + 1]
    /\ UNCHANGED <<consensus, storage, boot, pc, instance, last_decided_idx, flushed,
                   catchup, restarts>>

\* The end of handle_decided_entries when no StopSign was decided.
FinishDecided(n) ==
    /\ pc[n] = "apply"
    /\ applied[n] >= Decided(n)
    /\ ~IsReconfigured(n, serving[n])
    /\ last_decided_idx' = [last_decided_idx EXCEPT ![n] = Decided(n)]
    /\ pc' = [pc EXCEPT ![n] = "loop"]
    /\ UNCHANGED <<consensus, persistent, instance, applied, flushed, catchup,
                   restarts>>

\* Mutant of AtStopSign: a StopSign counts before it is decided.
AtStopSignUndecided(n) == pc[n] = "apply" /\ applied[n] = Len(log[serving[n]])

\* Mutant of AtStopSign: the entries in front of the StopSign are not waited for.
AtStopSignEarly(n) == pc[n] = "apply" /\ IsReconfigured(n, serving[n])

\* The next decided entry is the StopSign.
AtStopSign(n) ==
    /\ pc[n] = "apply"
    /\ IsReconfigured(n, serving[n])
    /\ applied[n] = Len(log[serving[n]])

(***************************************************************************)
(* update_database, LogEntry::StopSign, on a member of the next            *)
(* configuration: the database is sent to the peers (a message is lost     *)
(* when the link to its receiver is down), the next instance replaces the  *)
(* old one, and handle_decided_entries ends with last_decided_idx set to   *)
(* the index of the old log, unless the new instance is stopped as well.   *)
(* self.current_config_id is 1 + serving[n] - boot[n]: it names the        *)
(* directory, and numbers the StopSign that n may propose next.            *)
(***************************************************************************)
ApplyStopSign(n, reached) ==
    LET next == serving[n] + 1
    IN  /\ AtStopSign(n)
        /\ n \in ConfigNodes[next]
        /\ reached \subseteq {p \in Node \ {n} : Up(p)}
        /\ catchup' = catchup \union
                        {[from |-> n, to |-> p, kv |-> db[n]] : p \in reached}
        /\ serving' = [serving EXCEPT ![n] = next]
        /\ cluster' = [cluster EXCEPT ![n] = next]
        /\ last_decided_idx' = [last_decided_idx EXCEPT ![n] =
                                   IF IsReconfigured(n, next) THEN 0 ELSE Decided(n)]
        /\ applied' = [applied EXCEPT ![n] = 0]
        /\ flushed' = [flushed EXCEPT ![n] = FALSE]
        /\ pc' = [pc EXCEPT ![n] = "loop"]
        /\ UNCHANGED <<consensus, persistent, restarts>>

\* The same on a node the next configuration leaves out: build_for_server fails.
BuildFails(n) ==
    /\ AtStopSign(n)
    /\ n \notin ConfigNodes[serving[n] + 1]
    /\ Exit(n, "panicked")
    /\ UNCHANGED <<consensus, persistent, restarts>>

-----------------------------------------------------------------------------
(***************************************************************************)
(* Crashes and boot.                                                       *)
(***************************************************************************)
\* The process of n dies, or is restarted by Kubernetes after a panic.
Fail(n) ==
    /\ restarts < MaxRestarts
    /\ restarts' = restarts + 1
    /\ Exit(n, "down")

Crash(n) ==
    /\ pc[n] \in {"loop", "apply", "panicked"}
    /\ Fail(n)
    /\ UNCHANGED <<consensus, persistent>>

\* n crashes half-way through Database::handle_snapshot.
CrashInSnapshot(n) ==
    /\ pc[n] = "apply"
    /\ applied[n] < Compacted(n)
    /\ Fail(n)
    /\ LET snapshot == Create(Prefix(log[serving[n]], Compacted(n)))
       IN  \E torn \in Torn(db[n], HandleSnapshot(db[n], snapshot)) :
               db' = [db EXCEPT ![n] = torn]
    /\ UNCHANGED <<consensus, storage, boot>>

\* The receiver crashes half-way through Database::handle_kv.
CrashInHandleKv(m) ==
    /\ pc[m.to] = "loop"
    /\ Fail(m.to)
    /\ \E torn \in Torn(db[m.to], HandleKv(db[m.to], m.kv)) :
           db' = [db EXCEPT ![m.to] = torn]
    /\ UNCHANGED <<consensus, storage, boot>>

\* Mutant of SnapshotIdx: a restarted server does not compact its log.
SnapshotIdxKept(n) == storage[n][boot[n]].compacted

\* Mutant of SnapshotIdx: the StopSign is counted as a compacted entry.
SnapshotIdxStopSign(n) == storage[n][boot[n]].decided

\* The number of entries a snapshot up to the decided index stands for.
SnapshotIdx(n) ==
    IF IsReconfigured(n, boot[n]) THEN Len(log[boot[n]])
                                  ELSE storage[n][boot[n]].decided

\* The nodes 1 .. replica count that main hands to OmniPaxos: those of any
\* configuration from c on that n has a pod in.
Counted(n, c) == {b \in Config : b >= c /\ n \in ConfigNodes[b]}

\* The first boot of a node that joins, whose instance takes part in what its peers
\* run of the configurations up to the first one that contains the node.
Boot(n, c) ==
    /\ pc[n] = "new"
    /\ c <= FirstConfig(n)
    /\ pc' = [pc EXCEPT ![n] = "loop"]
    /\ boot' = [boot EXCEPT ![n] = c]
    /\ serving' = [serving EXCEPT ![n] = c]
    /\ \E b \in Counted(n, c) : cluster' = [cluster EXCEPT ![n] = b]
    /\ UNCHANGED <<consensus, storage, db, last_decided_idx, applied, flushed,
                   catchup, restarts>>

\* main and the beginning of run on a restart: the instance recovers from config_1,
\* and the decided entries are compacted before the loop begins.
Start(n) ==
    /\ pc[n] = "down"
    /\ pc' = [pc EXCEPT ![n] = "loop"]
    /\ storage' = [storage EXCEPT ![n][boot[n]].compacted = SnapshotIdx(n)]
    /\ \E b \in Counted(n, boot[n]) : cluster' = [cluster EXCEPT ![n] = b]
    /\ UNCHANGED <<consensus, db, boot, serving, last_decided_idx, applied, flushed,
                   catchup, restarts>>

-----------------------------------------------------------------------------
Step(n) ==
    \/ HandleDecidedEntries(n)
    \/ ApplySnapshot(n)
    \/ ApplyCommand(n)
    \/ FinishDecided(n)
    \/ \E reached \in SUBSET (Node \ {n}) : ApplyStopSign(n, reached)
    \/ BuildFails(n)
    \/ \E c \in Config : Boot(n, c)
    \/ Start(n)

Next ==
    \/ \E c \in Config, cmd \in Command : Choose(c, cmd)
    \/ \E c \in Config : ChooseStopSign(c)
    \/ \E n \in Node : LearnDecided(n)
    \/ \E n \in Node : Step(n)
    \/ \E n \in Node : \E i \in 1 .. Len(log[serving[n]]) : SyncFromSnapshot(n, i)
    \/ \E m \in catchup : ReceiveCatchup(m)
    \/ \E n \in Node : AppendPanics(n)
    \/ \E n \in Node : Crash(n)
    \/ \E n \in Node : CrashInSnapshot(n)
    \/ \E m \in catchup : CrashInHandleKv(m)

Spec == Init /\ [][Next]_vars

(***************************************************************************)
(* The loop of a running server never rests (server.rs:302-327), and       *)
(* Kubernetes starts a new pod and restarts a dead process.  A server      *)
(* learns what it misses as long as some server with a majority runs the   *)
(* same configuration and counts it: OmniPaxos sends it again.  Nobody     *)
(* does once the others have replaced their instances (server.rs:253):     *)
(* what the replaced instance sent last may still arrive, but owes         *)
(* nothing, as clients, crashes and StateCatchup messages owe nothing.     *)
(***************************************************************************)
Fairness ==
    \A n \in Node : WF_vars(Step(n)) /\ WF_vars(CanLearn(n) /\ LearnDecided(n))

FairSpec == Spec /\ Fairness

-----------------------------------------------------------------------------
(***************************************************************************)
(* Properties.                                                             *)
(***************************************************************************)
CatchupMessage == [from : Node, to : Node, kv : Database]

\* Every variable keeps its type, and the indexes stay within the logs.
TypeOK ==
    /\ log \in [Config -> Seq(Command)]
    /\ stopped \in [Config -> BOOLEAN]
    /\ \A c \in Config : stopped[c] => c + 1 \in Config
    /\ storage \in [Node -> [Config -> [decided : Nat, compacted : Nat]]]
    /\ \A n \in Node, c \in Config :
           /\ storage[n][c].decided <= DecidedLen(c)
           /\ storage[n][c].compacted <= Len(log[c])
           /\ storage[n][c].compacted <= storage[n][c].decided
    /\ db \in [Node -> Database]
    /\ boot \in [Node -> Config]
    /\ pc \in [Node -> {"new", "loop", "apply", "panicked", "down"}]
    /\ serving \in [Node -> Config]
    /\ cluster \in [Node -> Config]
    /\ last_decided_idx \in [Node -> Nat]
    /\ applied \in [Node -> Nat]
    /\ flushed \in [Node -> BOOLEAN]
    /\ catchup \in SUBSET CatchupMessage
    /\ restarts \in Nat

\* n has gone over everything it knows to be decided.
CaughtUp(n) == pc[n] = "loop" /\ flushed[n] /\ applied[n] = Decided(n)

\* A replica that has caught up holds exactly what the decided commands leave
\* behind, whatever crashes, torn snapshot installations and replays it has
\* been through (server.rs:149-200, 281-285).
CaughtUpReplicaExact ==
    \A n \in Node : CaughtUp(n) => db[n] = ExpectedState(serving[n], applied[n])

\* handle_decided_entries continues where the previous update_database ended: no
\* decided entry of a configuration is left out, although last_decided_idx still
\* holds the old log's index right after a reconfiguration (server.rs:152-171).
NoEntrySkipped ==
    [][\A n \in Node :
          pc[n] = "loop" /\ pc'[n] = "apply" => applied'[n] = applied[n]]_vars

\* While no process has been restarted, the state that is sent with StateCatchup is
\* that of the complete log of a stopped configuration, even when the sender had
\* itself received such a message while it applied that log (server.rs:205-228).
\* This is about the first reconfiguration: in the second, a member may send what a
\* late message of the first has left in its database.
CatchupCarriesFinalState ==
    restarts = 0 => \A m \in catchup :
        \E c \in Config : stopped[c] /\ m.kv = Replay(BaseState(c), log[c])

\* Nothing is decided in a configuration before the StopSign of the previous one, and
\* no member of a configuration runs a later one before its own is stopped
\* (README.md:80-81, server.rs:201-256).  Only a node that joins with the later one
\* may run an instance of it by then.
ConfigurationsInSequence ==
    \A c \in 1 .. Len(ConfigNodes) - 1 :
        /\ log[c + 1] # << >> \/ stopped[c + 1] => stopped[c]
        /\ \A n \in ConfigNodes[c] : serving[n] > c => stopped[c]

\* Every replica of a single configuration eventually holds the final state, as
\* often as it has crashed.
Convergence ==
    <>[](\A n \in ConfigNodes[1] :
             pc[n] = "loop" /\ db[n] = ExpectedState(1, Len(log[1])))

\* n misses a decision, and from now on nobody is left to learn it from.
LeftBehind(n) == [](Decided(n) < DecidedLen(serving[n]) /\ ~CanLearn(n))

\* Once a StopSign is decided, every member of the next configuration ends up in it
\* and goes over everything that is decided there, and one that is left out panics
\* (server.rs:252), unless a client's command makes it panic (server.rs:70) or the
\* others have replaced, or lost, the instances it could learn from (server.rs:253).
ReconfigurationCompletes ==
    \A c \in 1 .. Len(ConfigNodes) - 1 : \A n \in ConfigNodes[c] \union ConfigNodes[c + 1] :
        stopped[c] ~> \/ pc[n] = "panicked"
                      \/ /\ n \in ConfigNodes[c + 1]
                         /\ serving[n] > c
                         /\ applied[n] = Len(log[c + 1])
                      \/ LeftBehind(n)

-----------------------------------------------------------------------------
(***************************************************************************)
(* Claims of the documentation and of the code that do not hold.           *)
(***************************************************************************)
AtRest(n) == CaughtUp(n) /\ \A m \in catchup : m.to # n

\* README.md:65: all nodes apply the same commands in the same order, so two
\* members of the first configuration that have applied the same prefix of a log which
\* is not stopped, with no message on its way to them, hold the same state.
MembersAgree ==
    \A n, m \in Node :
        /\ AtRest(n) /\ AtRest(m)
        /\ FirstConfig(n) = 1 /\ FirstConfig(m) = 1
        /\ serving[n] = serving[m] /\ ~stopped[serving[n]]
        /\ applied[n] = applied[m]
        => db[n] = db[m]

\* README.md:39: the new node receives the latest state.  Once every member of
\* the stopped configuration has sent its state and moved on, and nothing is on
\* its way any more, the new node has it.
JoinerHoldsState ==
    \A n, m \in Node :
        /\ AtRest(n) /\ AtRest(m)
        /\ FirstConfig(n) < FirstConfig(m)
        /\ \A p \in ConfigNodes[FirstConfig(m) - 1] : serving[p] = FirstConfig(m)
        /\ serving[n] = serving[m]
        /\ applied[n] = applied[m]
        => db[n] = db[m]
=============================================================================
