-------------------------- MODULE ReconfigTrigger --------------------------
(***************************************************************************)
(* When is a reconfiguration proposed?  The Debug arm of                   *)
(* process_incoming_msgs (server.rs:80-126), which every heartbeat of a    *)
(* peer triggers, and the boot of main.rs:46-57.                           *)
(*                                                                         *)
(* Server n is pod kv-store-(n-1), and a configuration consists of the     *)
(* servers 1 .. r for the replica count r it was proposed for.  OmniPaxos  *)
(* is external: the instances of a configuration elect leaders, a majority *)
(* decides the StopSign a leader has proposed, and a proposal may be lost  *)
(* with its leader.  The operator and Kubernetes are the environment.      *)
(***************************************************************************)
EXTENDS Naturals, Sequences, FiniteSets

CONSTANTS
    MaxReplicas,        \* the servers of NODES are 1 .. MaxReplicas
    DefaultReplicas,    \* the smallest cluster main.rs builds (3 in the code)
    Counts,             \* the replica counts the operator asks for
    MaxChanges,         \* bound: kubectl scale commands
    MaxFaults           \* bound: crashes, failed queries and changes of leader

ASSUME CountsAssumption ==
    /\ MaxReplicas \in Nat
    /\ DefaultReplicas \in 1 .. MaxReplicas
    /\ Counts \subseteq 1 .. MaxReplicas

ASSUME BoundsAssumption == MaxChanges \in Nat /\ MaxFaults \in Nat

Node == 1 .. MaxReplicas

VARIABLES
    replicas,               \* spec.replicas of the StatefulSet
    configs,                \* configs[c]: the size of the c-th configuration
    proposed,               \* proposed[c]: the size its StopSign asks for, or 0
    leader,                 \* leader[c]: the leader of its instances, or 0
    pc,                     \* pc[n]: "none" (no pod), "up", "panicked" or "down"
    serving,                \* serving[n]: the configuration of its instance, or 0
    built,                  \* built[n]: the size of the node set its instance behind
                            \* config_1 was built with, or 0
    current_num_replicas,
    stop_sign_timeot,
    changes,                \* kubectl scale commands so far
    faults                  \* crashes, failed queries and changes of leader so far

consensus == <<configs, proposed, leader>>
server    == <<pc, serving, built, current_num_replicas, stop_sign_timeot>>
bounds    == <<changes, faults>>
vars      == <<replicas, consensus, server, bounds>>

-----------------------------------------------------------------------------
Last == Len(configs)

\* n runs an instance of configuration c.
Runs(n, c) == pc[n] = "up" /\ serving[n] = c

HasMajority(c) ==
    2 * Cardinality({n \in 1 .. configs[c] : Runs(n, c)}) > configs[c]

\* The instance behind config_1 takes part in the first configuration with n.
BootConfig(n) ==
    LET containing == {c \in 1 .. Last : n <= configs[c]}
    IN  IF containing = {} THEN 0
        ELSE CHOOSE c \in containing : \A b \in containing : c <= b

\* get_current_leader of n's instance is n itself.
IsLeader(n) == pc[n] = "up" /\ serving[n] # 0 /\ leader[serving[n]] = n

IsFollower(n) == pc[n] = "up" /\ ~IsLeader(n)

\* The leader's own place, without n.
Without(n) == [c \in 1 .. Last |-> IF leader[c] = n THEN 0 ELSE leader[c]]

Init ==
    /\ replicas = DefaultReplicas
    /\ configs = <<DefaultReplicas>>
    /\ proposed = <<0>>
    /\ leader = <<0>>
    /\ pc = [n \in Node |-> IF n <= DefaultReplicas THEN "up" ELSE "none"]
    /\ serving = [n \in Node |-> IF n <= DefaultReplicas THEN 1 ELSE 0]
    /\ built = [n \in Node |-> IF n <= DefaultReplicas THEN DefaultReplicas ELSE 0]
    /\ current_num_replicas = [n \in Node |-> DefaultReplicas]
    /\ stop_sign_timeot = [n \in Node |-> 0]
    /\ changes = 0
    /\ faults = 0

-----------------------------------------------------------------------------
(***************************************************************************)
(* The environment: the operator, Kubernetes and crashes.                  *)
(***************************************************************************)
Scale(r) ==
    /\ changes < MaxChanges
    /\ r # replicas
    /\ replicas' = r
    /\ changes' = changes + 1
    /\ UNCHANGED <<consensus, server, faults>>

\* main, up to the replica count it starts with, when the query succeeds.
BootCount(queried) == IF queried > DefaultReplicas THEN queried ELSE DefaultReplicas

Boot(n, count) ==
    /\ pc[n] # "up"
    /\ n <= replicas \/ pc[n] # "none"
    /\ pc' = [pc EXCEPT ![n] = "up"]
    /\ serving' = [serving EXCEPT ![n] = BootConfig(n)]
    /\ built' = [built EXCEPT ![n] = count]
    /\ current_num_replicas' = [current_num_replicas EXCEPT ![n] = count]
    /\ stop_sign_timeot' = [stop_sign_timeot EXCEPT ![n] = 0]
    /\ UNCHANGED <<replicas, consensus, changes>>

Start(n) == Boot(n, BootCount(replicas)) /\ UNCHANGED faults

\* The Err arm of main: the server starts with the default.
StartBlind(n) ==
    /\ faults < MaxFaults
    /\ faults' = faults + 1
    /\ Boot(n, DefaultReplicas)

\* n stops running; its instance leads no more.
Leave(n, how) ==
    /\ pc' = [pc EXCEPT ![n] = how]
    /\ leader' = Without(n)
    /\ built' = [built EXCEPT ![n] = 0]
    /\ UNCHANGED <<replicas, configs, proposed, serving, current_num_replicas,
                   stop_sign_timeot, changes>>

Crash(n) ==
    /\ pc[n] = "up"
    /\ faults < MaxFaults
    /\ faults' = faults + 1
    /\ Leave(n, "down")

\* Kubernetes removes the pods beyond the replica count.
DeletePod(n) ==
    /\ pc[n] # "none"
    /\ n > replicas
    /\ Leave(n, "none")
    /\ UNCHANGED faults

-----------------------------------------------------------------------------
(***************************************************************************)
(* OmniPaxos.                                                              *)
(***************************************************************************)
\* A member of the last configuration becomes its leader.  A StopSign proposed by
\* its predecessor may be lost.
BecomeLeader(n, keep) ==
    /\ Runs(n, Last)
    /\ n <= configs[Last]
    /\ HasMajority(Last)
    /\ leader' = [leader EXCEPT ![Last] = n]
    /\ proposed' = [proposed EXCEPT ![Last] = IF keep THEN @ ELSE 0]
    /\ UNCHANGED <<replicas, configs, server, changes>>

Elect(n, keep) ==
    /\ leader[Last] = 0
    /\ BecomeLeader(n, keep)
    /\ UNCHANGED faults

ChangeLeader(n, keep) ==
    /\ leader[Last] \notin {0, n}
    /\ faults < MaxFaults
    /\ faults' = faults + 1
    /\ BecomeLeader(n, keep)

\* The StopSign is decided, and its configuration is the next one.
DecideStopSign ==
    /\ proposed[Last] # 0
    /\ leader[Last] # 0
    /\ HasMajority(Last)
    /\ configs' = Append(configs, proposed[Last])
    /\ proposed' = Append(proposed, 0)
    /\ leader' = Append(leader, 0)
    /\ UNCHANGED <<replicas, server, bounds>>

\* A node that waited for a configuration that contains it is reached by its peers.
Join(n) ==
    /\ Runs(n, 0)
    /\ BootConfig(n) # 0
    /\ serving' = [serving EXCEPT ![n] = BootConfig(n)]
    /\ UNCHANGED <<replicas, consensus, pc, built, current_num_replicas,
                   stop_sign_timeot, bounds>>

-----------------------------------------------------------------------------
(***************************************************************************)
(* The server.                                                             *)
(***************************************************************************)
\* Mutant of ChangeSeen: only a larger count is a change.
GrowthSeen(n) ==
    /\ \E m \in Node \ {n} : pc[m] = "up"
    /\ current_num_replicas[n] < replicas

\* Some peer's Debug message arrives, and the query shows a new replica count.
ChangeSeen(n) ==
    /\ \E m \in Node \ {n} : pc[m] = "up"
    /\ current_num_replicas[n] # replicas

\* The test of stop_sign_timeot (server.rs:87).  The counter only grows when it is
\* not a multiple of five, and it starts at zero: the leader never waits.
DebounceOver(n) == stop_sign_timeot[n] % 5 = 0

\* reconfigure is refused by an instance that has accepted a StopSign.
Accepts(c) == proposed[c] = 0

\* The leader's arm: wait, or record the count and propose the reconfiguration.
LeaderHeartbeat(n) ==
    /\ IsLeader(n)
    /\ ChangeSeen(n)
    /\ IF DebounceOver(n)
       THEN /\ Accepts(serving[n])
            /\ stop_sign_timeot' = [stop_sign_timeot EXCEPT ![n] = 0]
            /\ current_num_replicas' = [current_num_replicas EXCEPT ![n] = replicas]
            /\ proposed' = [proposed EXCEPT ![serving[n]] = replicas]
       ELSE /\ stop_sign_timeot' = [stop_sign_timeot EXCEPT ![n] = @ + 1]
            /\ UNCHANGED <<current_num_replicas, proposed>>
    /\ UNCHANGED <<replicas, configs, leader, pc, serving, built, bounds>>

\* The same when the proposal is refused: expect ends the process.
LeaderPanics(n) ==
    /\ IsLeader(n)
    /\ ChangeSeen(n)
    /\ DebounceOver(n)
    /\ ~Accepts(serving[n])
    /\ Leave(n, "panicked")
    /\ UNCHANGED faults

\* The other servers only record the count.
FollowerHeartbeat(n) ==
    /\ IsFollower(n)
    /\ ChangeSeen(n)
    /\ current_num_replicas' = [current_num_replicas EXCEPT ![n] = replicas]
    /\ UNCHANGED <<replicas, consensus, pc, serving, built, stop_sign_timeot,
                   bounds>>

\* Mutant of HasSuccessor: the last configuration is taken for a stopped one.
HasSuccessorAlways(n) == serving[n] # 0

HasSuccessor(n) == serving[n] # 0 /\ serving[n] < Last

\* update_database finds the decided StopSign on a member of the next configuration.
Switch(n) ==
    /\ pc[n] = "up"
    /\ HasSuccessor(n)
    /\ n <= proposed[serving[n]]
    /\ serving' = [serving EXCEPT ![n] = @ + 1]
    /\ built' = [built EXCEPT ![n] = 0]
    /\ UNCHANGED <<replicas, consensus, pc, current_num_replicas, stop_sign_timeot,
                   bounds>>

\* The same on a server the next configuration leaves out (server.rs:252).
SwitchPanics(n) ==
    /\ pc[n] = "up"
    /\ HasSuccessor(n)
    /\ n > proposed[serving[n]]
    /\ Leave(n, "panicked")
    /\ UNCHANGED faults

Heartbeat(n) == LeaderHeartbeat(n) \/ LeaderPanics(n) \/ FollowerHeartbeat(n)

Restart(n) == Start(n) \/ DeletePod(n)

Reconfigure(n) == Switch(n) \/ SwitchPanics(n) \/ Join(n)

Next ==
    \/ \E r \in Counts : Scale(r)
    \/ \E n \in Node : Restart(n)
    \/ \E n \in Node : StartBlind(n)
    \/ \E n \in Node : Crash(n)
    \/ \E n \in Node, keep \in BOOLEAN : Elect(n, keep)
    \/ \E n \in Node, keep \in BOOLEAN : ChangeLeader(n, keep)
    \/ DecideStopSign
    \/ \E n \in Node : Heartbeat(n)
    \/ \E n \in Node : Reconfigure(n)

Spec == Init /\ [][Next]_vars

(***************************************************************************)
(* Heartbeats are sent every two seconds, OmniPaxos elects a leader and    *)
(* decides when a majority can talk, and Kubernetes starts and removes     *)
(* pods.  Nothing is assumed of the operator and of faults.                *)
(***************************************************************************)
FairSpec ==
    /\ Spec
    /\ \A n \in Node : WF_vars(Heartbeat(n)) /\ WF_vars(Reconfigure(n)) /\ WF_vars(Restart(n))
    /\ WF_vars(\E n \in Node, keep \in BOOLEAN : Elect(n, keep))
    /\ WF_vars(DecideStopSign)

-----------------------------------------------------------------------------
TypeOK ==
    /\ replicas \in 1 .. MaxReplicas
    /\ configs \in Seq(1 .. MaxReplicas) /\ Last > 0
    /\ proposed \in Seq(0 .. MaxReplicas) /\ Len(proposed) = Last
    /\ leader \in Seq(0 .. MaxReplicas) /\ Len(leader) = Last
    /\ pc \in [Node -> {"none", "up", "panicked", "down"}]
    /\ serving \in [Node -> 0 .. Last]
    /\ built \in [Node -> {0} \union DefaultReplicas .. MaxReplicas]
    /\ \A n \in Node : built[n] # 0 => pc[n] = "up"
    /\ current_num_replicas \in [Node -> 1 .. MaxReplicas]
    /\ stop_sign_timeot \in [Node -> {0}]
    /\ changes \in 0 .. MaxChanges /\ faults \in 0 .. MaxFaults

\* When a leader's count differs from the last one the operator asked for, a
\* configuration of that size follows, unless the leader leaves its place
\* (server.rs:83-110).
LeaderReconfigures ==
    \A n \in Node :
        IsLeader(n) /\ current_num_replicas[n] # replicas /\ changes = MaxChanges
            ~> configs[Last] = replicas \/ ~IsLeader(n)

\* Every running server ends up with the current replica count, also one that
\* started with the default because its first query failed (server.rs:85, 114).
CountRecorded ==
    <>[](\A n \in Node : pc[n] = "up" => current_num_replicas[n] = replicas)

\* The running servers whose config_1 was built with the nodes 1 .. r.
BuiltWith(r) == {n \in 1 .. r : built[n] = r}

\* README.md:65: all nodes apply the same commands in the same order.  That takes
\* majorities of configuration 1 that intersect, and every boot derives its nodes
\* from the replica count of that moment (main.rs:46-63).
QuorumsIntersect ==
    \A r, s \in DefaultReplicas .. MaxReplicas :
        /\ 2 * Cardinality(BuiltWith(r)) > r
        /\ 2 * Cardinality(BuiltWith(s)) > s
        => r = s
=============================================================================
