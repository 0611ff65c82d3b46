----------------------- MODULE ReconfigTriggerProofs -----------------------
(***************************************************************************)
(* Type correctness of the reconfiguration trigger, for every number of    *)
(* servers and replicas, and all bounds, and the quorums of configuration  *)
(* 1 in a cluster that is scaled once.                                     *)
(***************************************************************************)
EXTENDS ReconfigTrigger, SequenceTheorems, FiniteSetTheorems, WellFoundedInduction, TLAPS

-----------------------------------------------------------------------------
(***************************************************************************)
(* Sequences and operators.                                                *)
(***************************************************************************)
LEMMA FunctionIsSeq ==
    ASSUME NEW S, NEW n \in Nat, NEW f \in [1 .. n -> S]
    PROVE  f \in Seq(S) /\ Len(f) = n
OBVIOUS

LEMMA AppendIsSeq ==
    ASSUME NEW S, NEW s \in Seq(S), NEW e \in S
    PROVE  Append(s, e) \in Seq(S) /\ Len(Append(s, e)) = Len(s) + 1
OBVIOUS

\* What TypeOK says of the numbers of the configurations.
LEMMA LastFacts ==
    ASSUME TypeOK
    PROVE  /\ Last \in Nat \ {0} /\ MaxReplicas \in Nat
           /\ \A c \in 1 .. Last : /\ configs[c] \in 1 .. MaxReplicas
                                   /\ proposed[c] \in 0 .. MaxReplicas
                                   /\ leader[c] \in 0 .. MaxReplicas
<1>1. Last \in Nat \ {0}
  BY LenProperties DEF TypeOK, Last
<1> QED BY <1>1, ElementOfSeq, CountsAssumption DEF TypeOK, Last

LEMMA BootCountType ==
    ASSUME NEW r \in 1 .. MaxReplicas
    PROVE  BootCount(r) \in DefaultReplicas .. MaxReplicas
BY CountsAssumption DEF BootCount

\* A server boots into an existing configuration, or none.
LEMMA BootConfigType ==
    ASSUME TypeOK, NEW n \in Node
    PROVE  BootConfig(n) \in 0 .. Last
<1> DEFINE containing == {c \in 1 .. Last : n <= configs[c]}
<1>1. CASE containing = {}
  BY <1>1, LastFacts DEF BootConfig
<1>2. CASE containing # {}
  <2>1. containing \subseteq Nat
    BY LastFacts
  <2>2. PICK m \in containing : \A b \in containing : ~ (<<b, m>> \in OpToRel(<, Nat))
    <3> HIDE DEF containing
    <3> QED BY <1>2, <2>1, WFMin, NatLessThanWellFounded
  <2>3. \A b \in containing : m <= b
    <3> SUFFICES ASSUME NEW b \in containing PROVE m <= b
      OBVIOUS
    <3>1. b \in Nat /\ m \in Nat
      BY <2>1, <2>2
    <3>2. b < m => <<b, m>> \in OpToRel(<, Nat)
      BY <3>1 DEF OpToRel
    <3>3. ~(b < m)
      <4> HIDE DEF containing
      <4> QED BY <2>2, <3>2
    <3> QED BY <3>1, <3>3
  <2>4. BootConfig(n) = CHOOSE c \in containing : \A b \in containing : c <= b
    BY <1>2 DEF BootConfig
  <2>5. BootConfig(n) \in containing
    <3> HIDE DEF containing
    <3> QED BY <2>3, <2>4
  <2> QED BY <2>5, LastFacts
<1> QED BY <1>1, <1>2

\* The places of the leaders after n has left.
LEMMA WithoutType ==
    ASSUME TypeOK, NEW n \in Node
    PROVE  Without(n) \in Seq(0 .. MaxReplicas) /\ Len(Without(n)) = Last
<1>1. Without(n) \in [1 .. Last -> 0 .. MaxReplicas]
  BY LastFacts DEF Without
<1> QED BY <1>1, LastFacts, FunctionIsSeq

-----------------------------------------------------------------------------
(***************************************************************************)
(* Type correctness.                                                       *)
(***************************************************************************)
LEMMA InitTypeOK == Init => TypeOK
<1> SUFFICES ASSUME Init PROVE TypeOK
  OBVIOUS
<1>1. /\ <<DefaultReplicas>> \in Seq(1 .. MaxReplicas) /\ Len(<<DefaultReplicas>>) = 1
      /\ <<0>> \in Seq(0 .. MaxReplicas) /\ Len(<<0>>) = 1
  BY CountsAssumption
<1>2. Last = 1
  BY <1>1 DEF Init, Last
<1>3. /\ replicas \in 1 .. MaxReplicas
      /\ configs \in Seq(1 .. MaxReplicas) /\ Last > 0
      /\ proposed \in Seq(0 .. MaxReplicas) /\ Len(proposed) = Last
      /\ leader \in Seq(0 .. MaxReplicas) /\ Len(leader) = Last
  BY <1>1, <1>2, CountsAssumption DEF Init
<1>4. /\ pc \in [Node -> {"none", "up", "panicked", "down"}]
      /\ serving \in [Node -> 0 .. Last]
      /\ current_num_replicas \in [Node -> 1 .. MaxReplicas]
      /\ stop_sign_timeot \in [Node -> {0}]
  BY <1>2, CountsAssumption DEF Init
<1>5. /\ built \in [Node -> {0} \union DefaultReplicas .. MaxReplicas]
      /\ \A n \in Node : built[n] # 0 => pc[n] = "up"
  BY CountsAssumption DEF Init
<1>6. changes \in 0 .. MaxChanges /\ faults \in 0 .. MaxFaults
  BY BoundsAssumption DEF Init
<1> QED BY <1>3, <1>4, <1>5, <1>6 DEF TypeOK

\* The variables of one server after a step that only changes them.
LEMMA ServerUpdate ==
    ASSUME TypeOK, NEW n \in Node, UNCHANGED <<replicas, configs, proposed, changes>>,
           leader' = leader \/ leader' = Without(n),
           faults' \in 0 .. MaxFaults,
           NEW p \in {"none", "up", "panicked", "down"}, pc' = [pc EXCEPT ![n] = p],
           NEW c \in 0 .. Last, serving' = [serving EXCEPT ![n] = c],
           NEW b \in {0} \union DefaultReplicas .. MaxReplicas, b # 0 => p = "up",
           built' = [built EXCEPT ![n] = b],
           NEW r \in 1 .. MaxReplicas,
           current_num_replicas' = [current_num_replicas EXCEPT ![n] = r],
           stop_sign_timeot' \in [Node -> {0}]
    PROVE  TypeOK'
<1>1. Last' = Last
  BY DEF Last
<1>2. leader' \in Seq(0 .. MaxReplicas) /\ Len(leader') = Last
  BY WithoutType DEF TypeOK
<1>3. /\ pc' \in [Node -> {"none", "up", "panicked", "down"}]
      /\ serving' \in [Node -> 0 .. Last]
      /\ current_num_replicas' \in [Node -> 1 .. MaxReplicas]
      /\ built' \in [Node -> {0} \union DefaultReplicas .. MaxReplicas]
  BY DEF TypeOK
<1>4. \A m \in Node : built'[m] # 0 => pc'[m] = "up"
  <2> SUFFICES ASSUME NEW m \in Node, built'[m] # 0 PROVE pc'[m] = "up"
    OBVIOUS
  <2> QED BY DEF TypeOK
<1> QED BY <1>1, <1>2, <1>3, <1>4 DEF TypeOK

LEMMA BootTypeOK ==
    ASSUME TypeOK, NEW n \in Node, NEW count \in DefaultReplicas .. MaxReplicas,
           Boot(n, count), faults' \in 0 .. MaxFaults
    PROVE  TypeOK'
<1>1. BootConfig(n) \in 0 .. Last
  BY BootConfigType
<1>2. count \in 1 .. MaxReplicas
  BY CountsAssumption
<1>3. stop_sign_timeot' \in [Node -> {0}]
  BY DEF TypeOK, Boot
<1> QED BY <1>1, <1>2, <1>3, ServerUpdate DEF Boot, consensus

LEMMA LeaveTypeOK ==
    ASSUME TypeOK, NEW n \in Node, NEW how \in {"none", "panicked", "down"},
           Leave(n, how), faults' \in 0 .. MaxFaults
    PROVE  TypeOK'
<1>1. serving[n] \in 0 .. Last /\ serving' = [serving EXCEPT ![n] = serving[n]]
  BY DEF TypeOK, Leave
<1>2. /\ current_num_replicas[n] \in 1 .. MaxReplicas
      /\ current_num_replicas' = [current_num_replicas EXCEPT ![n] = current_num_replicas[n]]
  BY DEF TypeOK, Leave
<1>3. stop_sign_timeot' \in [Node -> {0}]
  BY DEF TypeOK, Leave
<1> QED BY <1>1, <1>2, <1>3, ServerUpdate DEF Leave

\* The environment: kubectl scale, boots, crashes and deleted pods.
LEMMA EnvironmentTypeOK ==
    ASSUME TypeOK
    PROVE  /\ \A r \in Counts : Scale(r) => TypeOK'
           /\ \A n \in Node : Restart(n) \/ StartBlind(n) \/ Crash(n) => TypeOK'
<1>1. ASSUME NEW r \in Counts, Scale(r) PROVE TypeOK'
  BY <1>1, CountsAssumption, BoundsAssumption
  DEF Scale, consensus, server, TypeOK, Last
<1>2. ASSUME NEW n \in Node, Start(n) PROVE TypeOK'
  <2>1. BootCount(replicas) \in DefaultReplicas .. MaxReplicas
    BY BootCountType DEF TypeOK
  <2>2. faults' \in 0 .. MaxFaults
    BY <1>2 DEF Start, TypeOK
  <2> QED BY <1>2, <2>1, <2>2, BootTypeOK DEF Start
<1>3. ASSUME NEW n \in Node, StartBlind(n) PROVE TypeOK'
  <2>1. faults' \in 0 .. MaxFaults
    BY <1>3, BoundsAssumption DEF StartBlind, TypeOK
  <2>2. DefaultReplicas \in DefaultReplicas .. MaxReplicas
    BY CountsAssumption
  <2> QED BY <1>3, <2>1, <2>2, BootTypeOK DEF StartBlind
<1>4. ASSUME NEW n \in Node, Crash(n) PROVE TypeOK'
  <2>1. faults' \in 0 .. MaxFaults
    BY <1>4, BoundsAssumption DEF Crash, TypeOK
  <2> QED BY <1>4, <2>1, LeaveTypeOK DEF Crash
<1>5. ASSUME NEW n \in Node, DeletePod(n) PROVE TypeOK'
  <2>1. faults' \in 0 .. MaxFaults
    BY <1>5 DEF DeletePod, TypeOK
  <2> QED BY <1>5, <2>1, LeaveTypeOK DEF DeletePod
<1> QED BY <1>1, <1>2, <1>3, <1>4, <1>5 DEF Restart

\* Elections, the decision of a StopSign, and the arrival of a joiner.
LEMMA ConsensusTypeOK ==
    ASSUME TypeOK
    PROVE  /\ \A n \in Node, keep \in BOOLEAN :
                  Elect(n, keep) \/ ChangeLeader(n, keep) => TypeOK'
           /\ DecideStopSign => TypeOK'
           /\ \A n \in Node : Join(n) => TypeOK'
<1>1. ASSUME NEW n \in Node, NEW keep \in BOOLEAN, BecomeLeader(n, keep),
             faults' \in 0 .. MaxFaults
      PROVE  TypeOK'
  <2>1. Last \in 1 .. Len(proposed) /\ Last \in 1 .. Len(leader)
    BY LastFacts DEF TypeOK
  <2>2. n \in 0 .. MaxReplicas
    BY CountsAssumption DEF Node
  <2>3. leader' \in Seq(0 .. MaxReplicas) /\ Len(leader') = Last
    BY <1>1, <2>1, <2>2, ExceptSeq DEF BecomeLeader, TypeOK
  <2>4. (IF keep THEN proposed[Last] ELSE 0) \in 0 .. MaxReplicas
    BY LastFacts
  <2>5. proposed' = [proposed EXCEPT ![Last] = IF keep THEN proposed[Last] ELSE 0]
    BY <1>1, <2>1 DEF BecomeLeader
  <2>6. proposed' \in Seq(0 .. MaxReplicas) /\ Len(proposed') = Last
    BY <2>1, <2>4, <2>5, ExceptSeq DEF TypeOK
  <2> QED BY <1>1, <2>3, <2>6 DEF BecomeLeader, server, TypeOK, Last
<1>2. ASSUME NEW n \in Node, NEW keep \in BOOLEAN, Elect(n, keep) \/ ChangeLeader(n, keep)
      PROVE  TypeOK'
  <2>1. faults' \in 0 .. MaxFaults
    BY <1>2, BoundsAssumption DEF Elect, ChangeLeader, TypeOK
  <2> QED BY <1>1, <1>2, <2>1 DEF Elect, ChangeLeader
<1>3. ASSUME DecideStopSign PROVE TypeOK'
  <2>1. proposed[Last] \in 1 .. MaxReplicas
    BY <1>3, LastFacts DEF DecideStopSign
  <2>2. configs' \in Seq(1 .. MaxReplicas) /\ Last' = Last + 1
    BY <1>3, <2>1, AppendIsSeq DEF DecideStopSign, TypeOK, Last
  <2>3. 0 \in 0 .. MaxReplicas
    BY CountsAssumption
  <2>4. /\ proposed' \in Seq(0 .. MaxReplicas) /\ Len(proposed') = Last + 1
        /\ leader' \in Seq(0 .. MaxReplicas) /\ Len(leader') = Last + 1
    BY <1>3, <2>3, AppendIsSeq DEF DecideStopSign, TypeOK
  <2>5. serving' \in [Node -> 0 .. Last']
    BY <1>3, <2>2, LastFacts DEF DecideStopSign, server, TypeOK
  <2>6. UNCHANGED <<replicas, pc, built, current_num_replicas, stop_sign_timeot, bounds>>
    BY <1>3 DEF DecideStopSign, server
  <2>7. Last' > 0 /\ Len(proposed') = Last' /\ Len(leader') = Last'
    BY <2>2, <2>4, LastFacts
  <2> QED BY <2>2, <2>4, <2>5, <2>6, <2>7 DEF bounds, TypeOK
<1>4. ASSUME NEW n \in Node, Join(n) PROVE TypeOK'
  <2>1. BootConfig(n) \in 0 .. Last
    BY BootConfigType
  <2> QED BY <1>4, <2>1 DEF Join, consensus, bounds, TypeOK, Last
<1> QED BY <1>2, <1>3, <1>4

\* The Debug arm: the counter never leaves zero.
LEMMA HeartbeatTypeOK ==
    ASSUME TypeOK, NEW n \in Node, Heartbeat(n)
    PROVE  TypeOK'
<1>1. CASE LeaderHeartbeat(n)
  <2>1. DebounceOver(n)
    BY DEF DebounceOver, TypeOK
  <2>2. serving[n] \in 1 .. Last
    BY <1>1, LastFacts DEF LeaderHeartbeat, IsLeader, TypeOK
  <2>3. /\ stop_sign_timeot' = [stop_sign_timeot EXCEPT ![n] = 0]
        /\ current_num_replicas' = [current_num_replicas EXCEPT ![n] = replicas]
        /\ proposed' = [proposed EXCEPT ![serving[n]] = replicas]
        /\ UNCHANGED <<replicas, configs, leader, pc, serving, built, bounds>>
    BY <1>1, <2>1 DEF LeaderHeartbeat
  <2>4. proposed' \in Seq(0 .. MaxReplicas) /\ Len(proposed') = Last
    BY <2>2, <2>3, ExceptSeq DEF TypeOK
  <2>5. /\ stop_sign_timeot' \in [Node -> {0}]
        /\ current_num_replicas' \in [Node -> 1 .. MaxReplicas]
    BY <2>3 DEF TypeOK
  <2> QED BY <2>3, <2>4, <2>5 DEF TypeOK, bounds, Last
<1>2. CASE LeaderPanics(n)
  <2>1. faults' \in 0 .. MaxFaults
    BY <1>2 DEF LeaderPanics, TypeOK
  <2> QED BY <1>2, <2>1, LeaveTypeOK DEF LeaderPanics
<1>3. CASE FollowerHeartbeat(n)
  BY <1>3 DEF FollowerHeartbeat, consensus, bounds, TypeOK, Last
<1> QED BY <1>1, <1>2, <1>3 DEF Heartbeat

\* The StopSign arm: a server only moves on to a configuration that exists.
LEMMA SwitchTypeOK ==
    ASSUME TypeOK, NEW n \in Node, Switch(n) \/ SwitchPanics(n)
    PROVE  TypeOK'
<1>1. CASE Switch(n)
  <2>1. serving[n] + 1 \in 0 .. Last
    <3>1. Last \in Nat
      BY LastFacts
    <3>2. serving[n] \in 0 .. Last
      BY DEF TypeOK
    <3>3. serving[n] < Last
      BY <1>1 DEF Switch, HasSuccessor
    <3> QED BY <3>1, <3>2, <3>3
  <2>2. serving' \in [Node -> 0 .. Last] /\ built' \in [Node -> {0} \union DefaultReplicas .. MaxReplicas]
    BY <1>1, <2>1 DEF Switch, TypeOK
  <2>3. \A m \in Node : built'[m] # 0 => pc'[m] = "up"
    BY <1>1 DEF Switch, TypeOK
  <2>4. UNCHANGED <<replicas, configs, proposed, leader, pc, current_num_replicas,
                    stop_sign_timeot, changes, faults, Last>>
    BY <1>1 DEF Switch, consensus, bounds, Last
  <2> QED BY <2>2, <2>3, <2>4 DEF TypeOK
<1>2. CASE SwitchPanics(n)
  <2>1. faults' \in 0 .. MaxFaults
    BY <1>2 DEF SwitchPanics, TypeOK
  <2> QED BY <1>2, <2>1, LeaveTypeOK DEF SwitchPanics
<1> QED BY <1>1, <1>2

LEMMA NextTypeOK == TypeOK /\ [Next]_vars => TypeOK'
<1> SUFFICES ASSUME TypeOK, [Next]_vars PROVE TypeOK'
  OBVIOUS
<1>1. CASE \E r \in Counts : Scale(r)
  BY <1>1, EnvironmentTypeOK
<1>2. CASE \E n \in Node : Restart(n) \/ StartBlind(n) \/ Crash(n)
  BY <1>2, EnvironmentTypeOK
<1>3. CASE \E n \in Node, keep \in BOOLEAN : Elect(n, keep) \/ ChangeLeader(n, keep)
  BY <1>3, ConsensusTypeOK
<1>4. CASE DecideStopSign
  BY <1>4, ConsensusTypeOK
<1>5. CASE \E n \in Node : Heartbeat(n)
  BY <1>5, HeartbeatTypeOK
<1>6. CASE \E n \in Node : Reconfigure(n)
  BY <1>6, SwitchTypeOK, ConsensusTypeOK DEF Reconfigure
<1>7. CASE UNCHANGED vars
  BY <1>7 DEF vars, consensus, server, bounds, TypeOK, Last
<1> QED BY <1>1, <1>2, <1>3, <1>4, <1>5, <1>6, <1>7 DEF Next

\* The configurations, the counts and the numbers of the servers stay what they
\* should be, and stop_sign_timeot stays zero: the debounce of server.rs:87 never
\* waits, whatever the operator and the crashes do.
THEOREM TypeCorrect == Spec => []TypeOK
BY InitTypeOK, NextTypeOK, PTL DEF Spec

-----------------------------------------------------------------------------
(***************************************************************************)
(* The node sets of configuration 1.  When nothing fails and the operator  *)
(* changes the replica count once, to at most twice the default, no server *)
(* that was there before boots again: it is neither removed nor does its   *)
(* leader propose twice.  Only joiners are built with the new count then,  *)
(* and they alone are no majority of it.                                   *)
(***************************************************************************)
OneScaling ==
    MaxFaults = 0 /\ MaxChanges <= 1 /\ \A r \in Counts : r <= 2 * DefaultReplicas

\* Before the change, all agree on the default.
DefaultInv ==
    changes = 0 => /\ replicas = DefaultReplicas
                   /\ \A n \in Node : current_num_replicas[n] = DefaultReplicas
                   /\ \A c \in 1 .. Last : proposed[c] = 0

\* The servers that were there from the start keep running, unless they are scaled away.
ServersStay ==
    \A n \in Node : /\ pc[n] \in {"up", "none"}
                    /\ n <= DefaultReplicas => pc[n] = "up"
                    /\ pc[n] = "up" => n <= replicas

\* All StopSigns ask for the new count, and who proposed one has recorded it.
ProposalsAgree ==
    \A c \in 1 .. Last : /\ proposed[c] \in {0, replicas}
                         /\ c < Last => proposed[c] # 0
                         /\ proposed[c] # 0 => /\ leader[c] # 0
                                               /\ current_num_replicas[leader[c]] = replicas

\* Only joiners count the new number of nodes in configuration 1.
JoinersBuiltNew ==
    \A n \in Node : built[n] \in {0, DefaultReplicas} \/ (built[n] = replicas /\ n > DefaultReplicas)

ScalingInv ==
    /\ TypeOK
    /\ replicas <= 2 * DefaultReplicas
    /\ DefaultInv
    /\ replicas >= DefaultReplicas => ServersStay /\ ProposalsAgree
    /\ JoinersBuiltNew

LEMMA ScalingNumbers ==
    ASSUME ScalingInv, OneScaling
    PROVE  /\ replicas \in 1 .. MaxReplicas /\ DefaultReplicas \in Nat \ {0} /\ MaxReplicas \in Nat
           /\ changes \in {0, 1} /\ faults = 0 /\ Last \in Nat \ {0}
           /\ \A n \in Node : n \in Nat \ {0}
<1>1. TypeOK
  BY DEF ScalingInv
<1>2. changes \in 0 .. MaxChanges /\ faults \in 0 .. 0 /\ replicas \in 1 .. MaxReplicas
  BY <1>1 DEF TypeOK, OneScaling
<1>3. changes \in {0, 1}
  BY <1>2, BoundsAssumption DEF OneScaling
<1> QED BY <1>1, <1>2, <1>3, LastFacts, CountsAssumption DEF Node

LEMMA InitScaling == OneScaling /\ Init => ScalingInv
<1> SUFFICES ASSUME OneScaling, Init PROVE ScalingInv
  OBVIOUS
<1>1. TypeOK
  BY InitTypeOK
<1>2. Last = 1 /\ \A c \in 1 .. Last : proposed[c] = 0
  BY DEF Init, Last
<1>3. DefaultReplicas \in Nat \ {0} /\ \A n \in Node : n \in Nat
  BY CountsAssumption DEF Node
<1>4. replicas = DefaultReplicas /\ replicas <= 2 * DefaultReplicas
  BY <1>3 DEF Init
<1>5. DefaultInv
  BY <1>2 DEF Init, DefaultInv
<1>6. ServersStay
  BY <1>3 DEF Init, ServersStay
<1>7. ProposalsAgree
  BY <1>2 DEF ProposalsAgree
<1>8. JoinersBuiltNew
  BY DEF Init, JoinersBuiltNew
<1> QED BY <1>1, <1>4, <1>5, <1>6, <1>7, <1>8 DEF ScalingInv

\* Nothing stops running, unless the cluster was made smaller than the default.
LEMMA NobodyLeaves ==
    ASSUME ScalingInv, OneScaling, replicas >= DefaultReplicas, NEW n \in Node
    PROVE  ~Crash(n) /\ ~DeletePod(n) /\ ~LeaderPanics(n) /\ ~SwitchPanics(n)
<1>1. ServersStay /\ ProposalsAgree /\ replicas \in Nat /\ n \in Nat
  BY ScalingNumbers DEF ScalingInv
<1>2. ~Crash(n)
  BY ScalingNumbers DEF Crash, OneScaling
<1>3. ~DeletePod(n)
  BY <1>1 DEF DeletePod, ServersStay
<1>4. ASSUME LeaderPanics(n) PROVE FALSE
  <2>1. pc[n] = "up" /\ serving[n] # 0 /\ leader[serving[n]] = n
    BY <1>4 DEF LeaderPanics, IsLeader
  <2>2. serving[n] \in 1 .. Last
    BY <2>1, ScalingNumbers DEF ScalingInv, TypeOK
  <2>3. proposed[serving[n]] # 0 /\ current_num_replicas[n] # replicas
    BY <1>4 DEF LeaderPanics, ChangeSeen, Accepts
  <2> QED BY <1>1, <2>1, <2>2, <2>3 DEF ProposalsAgree
<1>5. ASSUME SwitchPanics(n) PROVE FALSE
  <2>1. pc[n] = "up" /\ serving[n] # 0 /\ serving[n] < Last /\ n > proposed[serving[n]]
    BY <1>5 DEF SwitchPanics, HasSuccessor
  <2>2. serving[n] \in 1 .. Last
    BY <2>1, ScalingNumbers DEF ScalingInv, TypeOK
  <2>3. proposed[serving[n]] = replicas
    BY <1>1, <2>1, <2>2 DEF ProposalsAgree
  <2>4. n <= replicas
    BY <1>1, <2>1 DEF ServersStay
  <2> QED BY <1>1, <2>1, <2>3, <2>4
<1> QED BY <1>2, <1>3, <1>4, <1>5

\* The one change of the replica count.
LEMMA ScaleKeeps ==
    ASSUME ScalingInv, OneScaling, NEW r \in Counts, Scale(r)
    PROVE  ScalingInv'
<1>1. TypeOK'
  BY EnvironmentTypeOK DEF ScalingInv
<1>2. changes < MaxChanges /\ changes' = changes + 1 /\ replicas' = r
      /\ UNCHANGED <<configs, proposed, leader, pc, built, current_num_replicas>>
  BY DEF Scale, consensus, server
<1>3. changes = 0
  BY <1>2, ScalingNumbers, BoundsAssumption DEF OneScaling
<1>4. /\ replicas = DefaultReplicas
      /\ \A c \in 1 .. Last : proposed[c] = 0
  BY <1>3 DEF ScalingInv, DefaultInv
<1>5. r \in 1 .. MaxReplicas /\ r <= 2 * DefaultReplicas /\ DefaultReplicas \in Nat
  BY CountsAssumption DEF OneScaling
<1>6. Last' = Last
  BY <1>2 DEF Last
<1>7. DefaultInv'
  BY <1>2, <1>3 DEF DefaultInv
<1>8. ServersStay /\ ProposalsAgree
  BY <1>4, <1>5 DEF ScalingInv
<1>9. ASSUME r >= DefaultReplicas PROVE ServersStay' /\ ProposalsAgree'
  <2>1. ServersStay'
    BY <1>2, <1>4, <1>5, <1>8, <1>9, ScalingNumbers DEF ServersStay
  <2>2. Last = 1
    BY <1>4, <1>8, ScalingNumbers DEF ProposalsAgree
  <2>3. ProposalsAgree'
    BY <1>2, <1>4, <1>6, <2>2 DEF ProposalsAgree
  <2> QED BY <2>1, <2>3
<1>10. JoinersBuiltNew'
  <2>1. \A n \in Node : built[n] \in {0, DefaultReplicas}
    BY <1>4 DEF ScalingInv, JoinersBuiltNew
  <2> QED BY <1>2, <2>1 DEF JoinersBuiltNew
<1> QED BY <1>1, <1>2, <1>5, <1>7, <1>9, <1>10 DEF ScalingInv

\* A server boots: in a cluster that has grown, only a joiner.
LEMMA StartKeeps ==
    ASSUME ScalingInv, OneScaling, NEW n \in Node, Start(n)
    PROVE  ScalingInv'
<1> DEFINE count == BootCount(replicas)
<1>1. TypeOK' /\ TypeOK
  BY EnvironmentTypeOK DEF ScalingInv, Restart
<1>2. /\ pc[n] # "up" /\ (n <= replicas \/ pc[n] # "none")
      /\ pc' = [pc EXCEPT ![n] = "up"] /\ built' = [built EXCEPT ![n] = count]
      /\ current_num_replicas' = [current_num_replicas EXCEPT ![n] = count]
      /\ UNCHANGED <<replicas, configs, proposed, leader, changes>>
  BY DEF Start, Boot, consensus
<1>3. replicas \in Nat /\ DefaultReplicas \in Nat /\ Last' = Last /\ n \in Nat
  BY <1>2, ScalingNumbers DEF Last
<1>4. count = (IF replicas > DefaultReplicas THEN replicas ELSE DefaultReplicas)
  BY DEF BootCount
<1> HIDE DEF count
<1>5. /\ pc'[n] = "up" /\ built'[n] = count /\ current_num_replicas'[n] = count
      /\ \A m \in Node : m # n => /\ pc'[m] = pc[m] /\ built'[m] = built[m]
                                  /\ current_num_replicas'[m] = current_num_replicas[m]
  BY <1>1, <1>2 DEF TypeOK
<1>6. DefaultInv'
  <2>1. CASE changes = 0
    <3>1. replicas = DefaultReplicas /\ count = DefaultReplicas
          /\ \A m \in Node : current_num_replicas[m] = DefaultReplicas
          /\ \A c \in 1 .. Last : proposed[c] = 0
      BY <1>3, <1>4, <2>1 DEF ScalingInv, DefaultInv
    <3>2. \A m \in Node : current_num_replicas'[m] = DefaultReplicas
      BY <1>5, <3>1
    <3> QED BY <1>2, <1>3, <3>1, <3>2 DEF DefaultInv
  <2>2. CASE changes # 0
    BY <1>2, <2>2 DEF DefaultInv
  <2> QED BY <2>1, <2>2
<1>7. ASSUME replicas >= DefaultReplicas PROVE ServersStay' /\ ProposalsAgree' /\ n > DefaultReplicas
  <2>1. ServersStay /\ ProposalsAgree /\ count = replicas
    BY <1>3, <1>4, <1>7 DEF ScalingInv
  <2>2. n > DefaultReplicas /\ n <= replicas
    BY <1>2, <1>3, <2>1 DEF ServersStay
  <2>3. ServersStay'
    BY <1>2, <1>5, <2>1, <2>2 DEF ServersStay
  <2>4. ASSUME NEW c \in 1 .. Last, proposed[c] # 0
        PROVE  current_num_replicas'[leader[c]] = replicas
    <3>1. leader[c] \in Node /\ current_num_replicas[leader[c]] = replicas
      <4>1. leader[c] # 0 /\ current_num_replicas[leader[c]] = replicas
        BY <2>1, <2>4 DEF ProposalsAgree
      <4>2. leader[c] \in 0 .. MaxReplicas /\ MaxReplicas \in Nat
        BY <1>1, LastFacts
      <4> QED BY <4>1, <4>2 DEF Node
    <3> QED BY <1>5, <2>1, <3>1
  <2>5. ProposalsAgree'
    BY <1>2, <1>3, <2>1, <2>4 DEF ProposalsAgree
  <2> QED BY <2>2, <2>3, <2>5
<1>8. JoinersBuiltNew'
  <2>1. count = DefaultReplicas \/ (count = replicas /\ n > DefaultReplicas)
    BY <1>3, <1>4, <1>7
  <2> QED BY <1>2, <1>5, <2>1 DEF ScalingInv, JoinersBuiltNew
<1> QED BY <1>1, <1>2, <1>6, <1>7, <1>8 DEF ScalingInv

\* A server ends: the cluster was made smaller.
LEMMA LeaveKeeps ==
    ASSUME ScalingInv, OneScaling, NEW n \in Node, DeletePod(n) \/ LeaderPanics(n) \/ SwitchPanics(n)
    PROVE  ScalingInv'
<1>1. TypeOK'
  BY EnvironmentTypeOK, HeartbeatTypeOK, SwitchTypeOK DEF ScalingInv, Restart, Heartbeat
<1>2. ~(replicas >= DefaultReplicas)
  BY NobodyLeaves
<1>3. UNCHANGED <<replicas, changes>> /\ built' = [built EXCEPT ![n] = 0]
  BY DEF DeletePod, LeaderPanics, SwitchPanics, Leave
<1>4. changes # 0
  BY <1>2, ScalingNumbers DEF ScalingInv, DefaultInv
<1>5. JoinersBuiltNew'
  BY <1>3 DEF ScalingInv, JoinersBuiltNew, TypeOK
<1> QED BY <1>1, <1>2, <1>3, <1>4, <1>5 DEF ScalingInv, DefaultInv

\* OmniPaxos, and a server that moves to another configuration.
LEMMA MembershipKeeps ==
    ASSUME ScalingInv, OneScaling, NEW n \in Node, Join(n) \/ Switch(n)
    PROVE  ScalingInv'
<1>1. TypeOK'
  BY ConsensusTypeOK, SwitchTypeOK DEF ScalingInv
<1>2. /\ UNCHANGED <<replicas, configs, proposed, leader, pc, current_num_replicas, changes>>
      /\ built' = built \/ built' = [built EXCEPT ![n] = 0]
  BY DEF Join, Switch, consensus, bounds
<1>3. Last' = Last /\ JoinersBuiltNew'
  BY <1>2 DEF ScalingInv, JoinersBuiltNew, TypeOK, Last
<1> QED BY <1>1, <1>2, <1>3 DEF ScalingInv, DefaultInv, ServersStay, ProposalsAgree

LEMMA ElectKeeps ==
    ASSUME ScalingInv, OneScaling, NEW n \in Node, NEW keep \in BOOLEAN,
           Elect(n, keep) \/ ChangeLeader(n, keep)
    PROVE  ScalingInv'
<1>1. TypeOK' /\ TypeOK
  BY ConsensusTypeOK DEF ScalingInv
<1>2. ~ChangeLeader(n, keep)
  BY ScalingNumbers DEF ChangeLeader, OneScaling
<1>3. /\ leader[Last] = 0 /\ leader' = [leader EXCEPT ![Last] = n]
      /\ proposed' = [proposed EXCEPT ![Last] = IF keep THEN proposed[Last] ELSE 0]
      /\ UNCHANGED <<replicas, configs, pc, built, current_num_replicas, changes>>
  BY <1>2 DEF Elect, BecomeLeader, server
<1>4. Last' = Last /\ Last \in Nat
  BY <1>3, ScalingNumbers DEF Last
<1>5. \A c \in 1 .. Last : /\ proposed'[c] \in {0, proposed[c]}
                           /\ c < Last => proposed'[c] = proposed[c] /\ leader'[c] = leader[c]
  BY <1>1, <1>3, <1>4 DEF TypeOK
<1>6. DefaultInv'
  BY <1>3, <1>4, <1>5 DEF ScalingInv, DefaultInv
<1>7. ASSUME replicas >= DefaultReplicas PROVE ServersStay' /\ ProposalsAgree'
  <2>1. ServersStay /\ ProposalsAgree
    BY <1>7 DEF ScalingInv
  <2>2. proposed'[Last] = 0
    BY <1>3, <1>4, <1>5, <2>1, ScalingNumbers DEF ProposalsAgree
  <2>3. ASSUME NEW c \in 1 .. Last, c # Last PROVE c < Last
    BY <1>4, <2>3
  <2>4. ProposalsAgree'
    BY <1>3, <1>4, <1>5, <2>1, <2>2, <2>3 DEF ProposalsAgree
  <2> QED BY <1>3, <2>1, <2>4 DEF ServersStay
<1>8. JoinersBuiltNew'
  BY <1>3 DEF ScalingInv, JoinersBuiltNew
<1> QED BY <1>1, <1>3, <1>6, <1>7, <1>8 DEF ScalingInv

LEMMA DecideKeeps ==
    ASSUME ScalingInv, OneScaling, DecideStopSign
    PROVE  ScalingInv'
<1>1. TypeOK' /\ TypeOK
  BY ConsensusTypeOK DEF ScalingInv
<1>2. /\ proposed[Last] # 0 /\ leader[Last] # 0
      /\ configs' = Append(configs, proposed[Last])
      /\ proposed' = Append(proposed, 0) /\ leader' = Append(leader, 0)
      /\ UNCHANGED <<replicas, pc, built, current_num_replicas, changes>>
  BY DEF DecideStopSign, server, bounds
<1>3. Last' = Last + 1 /\ Last \in Nat \ {0}
  BY <1>1, <1>2, ScalingNumbers DEF TypeOK, Last
<1>4. /\ \A c \in 1 .. Last : proposed'[c] = proposed[c] /\ leader'[c] = leader[c]
      /\ proposed'[Last + 1] = 0
  BY <1>1, <1>2, <1>3 DEF TypeOK
<1>5. changes # 0
  BY <1>2, <1>3 DEF ScalingInv, DefaultInv
<1>6. ASSUME replicas >= DefaultReplicas PROVE ServersStay' /\ ProposalsAgree'
  <2>1. ServersStay /\ ProposalsAgree
    BY <1>6 DEF ScalingInv
  <2>2. ASSUME NEW c \in 1 .. Last'
        PROVE  /\ proposed'[c] \in {0, replicas}
               /\ c < Last' => proposed'[c] # 0
               /\ proposed'[c] # 0 => /\ leader'[c] # 0
                                      /\ current_num_replicas[leader'[c]] = replicas
    <3>1. CASE c = Last + 1
      BY <1>3, <1>4, <3>1
    <3>2. CASE c # Last + 1
      <4>1. c \in 1 .. Last /\ (c < Last \/ c = Last)
        BY <1>3, <3>2
      <4> QED BY <1>2, <1>4, <2>1, <4>1 DEF ProposalsAgree
    <3> QED BY <3>1, <3>2
  <2>3. ProposalsAgree'
    BY <1>2, <2>2 DEF ProposalsAgree
  <2> QED BY <1>2, <2>1, <2>3 DEF ServersStay
<1>7. JoinersBuiltNew'
  BY <1>2 DEF ScalingInv, JoinersBuiltNew
<1> QED BY <1>1, <1>2, <1>5, <1>6, <1>7 DEF ScalingInv, DefaultInv

\* The Debug arm, of a leader that proposes and of one that only records the count.
LEMMA HeartbeatKeeps ==
    ASSUME ScalingInv, OneScaling, NEW n \in Node, LeaderHeartbeat(n) \/ FollowerHeartbeat(n)
    PROVE  ScalingInv'
<1>1. TypeOK' /\ TypeOK
  BY HeartbeatTypeOK DEF ScalingInv, Heartbeat
<1>2. /\ UNCHANGED <<replicas, configs, leader, pc, built, changes>>
      /\ current_num_replicas[n] # replicas
      /\ current_num_replicas' = [current_num_replicas EXCEPT ![n] = replicas]
      /\ \/ UNCHANGED proposed
         \/ /\ serving[n] # 0 /\ leader[serving[n]] = n /\ proposed[serving[n]] = 0
            /\ proposed' = [proposed EXCEPT ![serving[n]] = replicas]
  <2>1. DebounceOver(n)
    BY <1>1 DEF DebounceOver, TypeOK
  <2>2. CASE LeaderHeartbeat(n)
    BY <2>1, <2>2 DEF LeaderHeartbeat, IsLeader, ChangeSeen, Accepts, bounds
  <2>3. CASE FollowerHeartbeat(n)
    BY <2>3 DEF FollowerHeartbeat, ChangeSeen, consensus, bounds
  <2> QED BY <2>2, <2>3
<1>3. changes # 0
  BY <1>2 DEF ScalingInv, DefaultInv
<1>4. Last' = Last /\ Last \in Nat
  BY <1>2, ScalingNumbers DEF Last
<1>5. \A m \in Node : current_num_replicas[m] = replicas => current_num_replicas'[m] = replicas
  BY <1>1, <1>2 DEF TypeOK
<1>6. current_num_replicas'[n] = replicas
  BY <1>1, <1>2 DEF TypeOK
<1>7. ASSUME replicas >= DefaultReplicas PROVE ServersStay' /\ ProposalsAgree'
  <2>1. ServersStay /\ ProposalsAgree
    BY <1>7 DEF ScalingInv
  <2>2. ASSUME NEW c \in 1 .. Last
        PROVE  \/ proposed'[c] = proposed[c]
               \/ proposed'[c] = replicas /\ leader[c] = n
    BY <1>1, <1>2 DEF TypeOK
  <2>3. ASSUME NEW c \in 1 .. Last
        PROVE  /\ proposed'[c] \in {0, replicas}
               /\ c < Last => proposed'[c] # 0
               /\ proposed'[c] # 0 => /\ leader[c] # 0
                                      /\ current_num_replicas'[leader[c]] = replicas
    <3>1. leader[c] # 0 => leader[c] \in Node
      BY <1>1, LastFacts DEF Node
    <3>2. replicas # 0 /\ n # 0
      BY ScalingNumbers
    <3>3. CASE proposed'[c] = proposed[c]
      BY <1>5, <2>1, <3>1, <3>3 DEF ProposalsAgree
    <3>4. CASE proposed'[c] = replicas /\ leader[c] = n
      BY <1>6, <3>2, <3>4
    <3> QED BY <2>2, <3>3, <3>4
  <2>4. ProposalsAgree'
    BY <1>2, <1>4, <2>3 DEF ProposalsAgree
  <2> QED BY <1>2, <2>1, <2>4 DEF ServersStay
<1>8. JoinersBuiltNew'
  BY <1>2 DEF ScalingInv, JoinersBuiltNew
<1> QED BY <1>1, <1>2, <1>3, <1>7, <1>8 DEF ScalingInv, DefaultInv

LEMMA NextScaling ==
    ASSUME ScalingInv, OneScaling, [Next]_vars
    PROVE  ScalingInv'
<1>1. ASSUME NEW n \in Node PROVE ~StartBlind(n) /\ ~Crash(n)
  BY ScalingNumbers DEF StartBlind, Crash, OneScaling
<1>2. CASE UNCHANGED vars
  <2>1. TypeOK' /\ Last' = Last
    BY <1>2, NextTypeOK DEF ScalingInv, vars, consensus, Last
  <2> QED BY <1>2, <2>1 DEF vars, consensus, server, bounds, ScalingInv, DefaultInv, ServersStay,
             ProposalsAgree, JoinersBuiltNew
<1>3. CASE \E n \in Node : Restart(n) \/ Heartbeat(n) \/ Reconfigure(n)
  BY <1>3, StartKeeps, LeaveKeeps, MembershipKeeps, HeartbeatKeeps
  DEF Restart, Heartbeat, Reconfigure
<1>4. CASE \E n \in Node, keep \in BOOLEAN : Elect(n, keep) \/ ChangeLeader(n, keep)
  BY <1>4, ElectKeeps
<1> QED BY <1>1, <1>2, <1>3, <1>4, ScaleKeeps, DecideKeeps DEF Next

\* The joiners of a cluster that at most doubles are no majority of it.
LEMMA ScalingQuorums ==
    ASSUME ScalingInv, OneScaling
    PROVE  QuorumsIntersect
<1> SUFFICES ASSUME NEW r \in DefaultReplicas .. MaxReplicas, NEW s \in DefaultReplicas .. MaxReplicas,
                    2 * Cardinality(BuiltWith(r)) > r, 2 * Cardinality(BuiltWith(s)) > s, r # s
             PROVE  FALSE
  BY DEF QuorumsIntersect
<1>1. /\ DefaultReplicas \in Nat \ {0} /\ MaxReplicas \in Nat /\ replicas \in Nat
      /\ replicas <= 2 * DefaultReplicas /\ JoinersBuiltNew
  BY ScalingNumbers DEF ScalingInv
<1>2. ASSUME NEW q \in DefaultReplicas .. MaxReplicas, 2 * Cardinality(BuiltWith(q)) > q
      PROVE  q \in {DefaultReplicas, replicas}
  <2>1. BuiltWith(q) # {}
    BY <1>1, <1>2, FS_EmptySet
  <2>2. PICK n \in 1 .. q : built[n] = q
    BY <2>1 DEF BuiltWith
  <2>3. n \in Node
    BY <1>1 DEF Node
  <2> QED BY <1>1, <2>2, <2>3 DEF JoinersBuiltNew
<1>3. replicas # DefaultReplicas /\ replicas \in DefaultReplicas .. MaxReplicas
      /\ 2 * Cardinality(BuiltWith(replicas)) > replicas
  BY <1>2
<1>4. BuiltWith(replicas) \subseteq DefaultReplicas + 1 .. replicas
  <2> SUFFICES ASSUME NEW n \in 1 .. replicas, built[n] = replicas
               PROVE  n \in DefaultReplicas + 1 .. replicas
    BY DEF BuiltWith
  <2>1. n \in Node
    BY <1>1, <1>3 DEF Node
  <2>2. n > DefaultReplicas
    BY <1>1, <1>3, <2>1 DEF JoinersBuiltNew
  <2> QED BY <1>1, <2>2
<1>5. Cardinality(DefaultReplicas + 1 .. replicas) = replicas - DefaultReplicas
      /\ IsFiniteSet(DefaultReplicas + 1 .. replicas)
  <2> DEFINE low == DefaultReplicas + 1
  <2>1. low \in Int /\ replicas \in Int /\ ~(low > replicas)
        /\ replicas - low + 1 = replicas - DefaultReplicas
    BY <1>1, <1>3
  <2> HIDE DEF low
  <2>2. IsFiniteSet(low .. replicas) /\ Cardinality(low .. replicas) = replicas - low + 1
    BY <2>1, FS_Interval
  <2> QED BY <2>1, <2>2 DEF low
<1>6. Cardinality(BuiltWith(replicas)) <= replicas - DefaultReplicas
      /\ Cardinality(BuiltWith(replicas)) \in Nat
  <2>1. IsFiniteSet(BuiltWith(replicas))
        /\ Cardinality(BuiltWith(replicas)) <= Cardinality(DefaultReplicas + 1 .. replicas)
    BY <1>4, <1>5, FS_Subset
  <2> QED BY <1>5, <2>1, FS_CardinalityType
<1> QED BY <1>1, <1>3, <1>6

\* When the replica count is changed once, to at most twice the default, and no server
\* fails, any two majorities of the servers that take part in configuration 1 were built
\* with the same nodes (main.rs:46-63).  With one restart this is false.
THEOREM QuorumsIntersectOnce ==
    ASSUME OneScaling
    PROVE  Spec => []QuorumsIntersect
<1>1. Init => ScalingInv
  BY InitScaling
<1>2. ScalingInv /\ [Next]_vars => ScalingInv'
  BY NextScaling
<1>3. ScalingInv => QuorumsIntersect
  BY ScalingQuorums
<1> QED BY <1>1, <1>2, <1>3, PTL DEF Spec
=============================================================================
