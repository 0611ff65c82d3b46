----------------------------- MODULE PeerLinks -----------------------------
(***************************************************************************)
(* The connections between the servers: the peer tasks of Network::new in  *)
(* every server (kv_store/src/network.rs), and the network actor that they *)
(* all connect to and that forwards their messages (network_actor's        *)
(* network.rs:105-263).  TCP is external.                                  *)
(*                                                                         *)
(* Port <<a, b>> is port 80ab of the actor: server a connects to it to     *)
(* talk to server b, whose own port is <<b, a>>.  The connections of a     *)
(* port are numbered.  A connection that breaks may lose what is on its    *)
(* way, and each end notices at some later point; data that has arrived    *)
(* may still be read before.  A line of which only a part arrives is a     *)
(* message with number 0.                                                  *)
(***************************************************************************)
EXTENDS Naturals, Sequences, FiniteSets

CONSTANTS
    Node,           \* the servers (NODES)
    Talkers,        \* the ports whose messages are looked at
    ChannelSize,    \* capacity of a broadcast channel (10000 in the code)
    QueueSize,      \* capacity of the central channel (10000 in the code)
    SocketSize,     \* messages that a TCP connection buffers in each direction
    MaxMessages,    \* bound: messages sent on each port
    MaxConnects,    \* bound: connections of each port
    MaxFaults,      \* bound: crashes and broken connections
    MaxTorn         \* bound: lines torn by a broken connection

\* PORT_MAPPINGS.
Port == {p \in Node \X Node : p[1] # p[2]}
MappedPort(p) == <<p[2], p[1]>>

ASSUME SizesAssumption ==
    /\ ChannelSize \in Nat \ {0} /\ QueueSize \in Nat \ {0} /\ SocketSize \in Nat \ {0}
    /\ Talkers \subseteq Port

ASSUME BoundsAssumption ==
    /\ MaxMessages \in Nat /\ MaxConnects \in Nat
    /\ MaxFaults \in Nat /\ MaxTorn \in Nat

Connection == 1 .. MaxConnects

VARIABLES
    sent,           \* sent[p]: messages sent on port p so far
    connects,       \* connects[p]: connections made to port p so far
    task,           \* task[p]: the peer task, "connecting", "reading" or "panicked"
    sockets,        \* sockets[p]: the connection whose writer is in the map, or 0
    inbox,          \* inbox[n]: incoming_msg_buf, and the batch being processed
    handled,        \* handled[p]: the messages of p that its receiver processed
    conn,           \* conn[p][c]: the connections and the actor's tasks for them
    accepted,       \* accepted[p]: the connections that are accepted or refused
    stage,          \* stage[p]: the port's task, "listening", "accepted", "serving"
    out_channels,   \* out_channels[p]: the connection whose channel is in the map
    queue,          \* the central channel
    holding,        \* the message the central actor is forwarding, if any
    faults,         \* crashes and broken connections so far
    torn            \* torn lines so far

servers == <<connects, task, sockets, inbox>>
actor   == <<accepted, stage, out_channels, queue, holding>>
history == <<sent, handled>>
bounds  == <<faults, torn>>
vars    == <<servers, conn, actor, history, bounds>>

-----------------------------------------------------------------------------
(***************************************************************************)
(* A connection: what is on its way to the actor (up) and to the server    *)
(* (down), whether it is broken, the sender task with the content of the   *)
(* broadcast channel that is still ahead of it, and the receiver task.     *)
(***************************************************************************)
NoConnection == [up |-> << >>, down |-> << >>, broken |-> FALSE,
                 sender |-> "none", channel |-> << >>, receiver |-> "none"]

Message == [port : Port, conn : Connection, num : Nat]

Fragment(p, c) == [port |-> p, conn |-> c, num |-> 0]
IsFragment(m) == m.num = 0

\* A fragment waits in the reader's buffer for the rest of its line.
Lines(s) == {i \in DOMAIN s : ~IsFragment(s[i])}
Full(s) == Cardinality(Lines(s)) >= SocketSize

\* The connection that the peer task of p reads from.
Own(p) == conn[p][connects[p]]
Reads(p) == task[p] = "reading"

\* Nobody reads what is still on its way to the server.
Abandoned(c) == [c EXCEPT !.broken = TRUE, !.down = << >>]

Init ==
    /\ sent = [p \in Port |-> 0]
    /\ connects = [p \in Port |-> 0]
    /\ task = [p \in Port |-> "connecting"]
    /\ sockets = [p \in Port |-> 0]
    /\ inbox = [n \in Node |-> << >>]
    /\ handled = [p \in Port |-> << >>]
    /\ conn = [p \in Port |-> [c \in Connection |-> NoConnection]]
    /\ accepted = [p \in Port |-> 0]
    /\ stage = [p \in Port |-> "listening"]
    \* The initial channel of a port, here 0, has no subscriber.
    /\ out_channels = [p \in Port |-> {0}]
    /\ queue = << >>
    /\ holding = << >>
    /\ faults = 0
    /\ torn = 0

-----------------------------------------------------------------------------
(***************************************************************************)
(* The servers.                                                            *)
(***************************************************************************)
\* TcpStream::connect; the listener's backlog takes the connection.
Connect(p) ==
    /\ task[p] = "connecting"
    /\ connects[p] < MaxConnects
    /\ connects' = [connects EXCEPT ![p] = @ + 1]
    /\ task' = [task EXCEPT ![p] = "reading"]
    /\ sockets' = [sockets EXCEPT ![p] = connects[p] + 1]
    /\ UNCHANGED <<inbox, conn, actor, history, bounds>>

\* Network::send; without a writer the message is dropped and nothing changes.
Send(p) ==
    LET c == sockets[p]
        m == [port |-> p, conn |-> c, num |-> sent[p] + 1]
    IN  /\ p \in Talkers
        /\ sent[p] < MaxMessages
        /\ c # 0
        /\ ~Full(conn[p][c].up)
        /\ sent' = [sent EXCEPT ![p] = @ + 1]
        /\ conn' = IF conn[p][c].broken
                   THEN conn
                   ELSE [conn EXCEPT ![p][c].up = Append(@, m)]
        /\ UNCHANGED <<servers, actor, handled, bounds>>

\* A complete line arrives.
ReadDown(p) ==
    /\ Reads(p)
    /\ Own(p).down # << >>
    /\ ~IsFragment(Head(Own(p).down))
    /\ inbox' = [inbox EXCEPT ![p[1]] = Append(@, Head(Own(p).down))]
    /\ conn' = [conn EXCEPT ![p][connects[p]].down = Tail(@)]
    /\ UNCHANGED <<connects, task, sockets, actor, history, bounds>>

\* The actor has closed or lost the connection.
Ended(p) ==
    \/ Own(p).broken
    \/ Own(p).sender = "done" /\ Own(p).down = << >>

\* End of file or an error: the writer is removed, and the task reconnects.
DownEnds(p) ==
    /\ Reads(p)
    /\ Ended(p)
    /\ task' = [task EXCEPT ![p] = "connecting"]
    /\ sockets' = [sockets EXCEPT ![p] = 0]
    /\ conn' = [conn EXCEPT ![p][connects[p]] = Abandoned(@)]
    /\ UNCHANGED <<connects, inbox, actor, history, bounds>>

\* expect ends the task, whose writer stays in the map.
Panics(p) ==
    /\ task' = [task EXCEPT ![p] = "panicked"]
    /\ conn' = [conn EXCEPT ![p][connects[p]].down = << >>]
    /\ UNCHANGED <<connects, sockets, inbox, actor, history, faults>>

\* A fragment is read together with the next line, or at the end of the connection.
ReadFragment(p) ==
    /\ Reads(p)
    /\ Own(p).down # << >>
    /\ IsFragment(Head(Own(p).down))
    /\ Len(Own(p).down) > 1 \/ Own(p).broken \/ Own(p).sender = "done"
    /\ Panics(p)
    /\ UNCHANGED torn

\* The connection breaks in the middle of a line to the server.
ReadTorn(p) ==
    /\ torn < MaxTorn
    /\ torn' = torn + 1
    /\ Reads(p)
    /\ Own(p).broken
    /\ Own(p).down # << >>
    /\ Panics(p)

\* get_received, and process_incoming_msgs with one message of the batch.
Process(n) ==
    /\ inbox[n] # << >>
    /\ inbox' = [inbox EXCEPT ![n] = Tail(@)]
    /\ handled' = [handled EXCEPT ![Head(inbox[n]).port] = Append(@, Head(inbox[n]))]
    /\ UNCHANGED <<connects, task, sockets, sent, conn, actor, bounds>>

-----------------------------------------------------------------------------
(***************************************************************************)
(* The network actor: the task of a port.                                  *)
(***************************************************************************)
Accept(p) ==
    /\ stage[p] = "listening"
    /\ accepted[p] < connects[p]
    /\ accepted' = [accepted EXCEPT ![p] = @ + 1]
    /\ stage' = [stage EXCEPT ![p] = "accepted"]
    /\ UNCHANGED <<servers, conn, out_channels, queue, holding, history, bounds>>

InsertChannel(p) ==
    /\ stage[p] = "accepted"
    /\ stage' = [stage EXCEPT ![p] = "serving"]
    /\ out_channels' = [out_channels EXCEPT ![p] = {accepted[p]}]
    /\ conn' = [conn EXCEPT ![p][accepted[p]].sender = "spawned",
                            ![p][accepted[p]].receiver = "reading"]
    /\ UNCHANGED <<servers, accepted, queue, holding, history, bounds>>

\* Mutant of ConnectionOver: the port waits for both of its tasks.
ConnectionOverBoth(p) ==
    conn[p][accepted[p]].sender = "done" /\ conn[p][accepted[p]].receiver = "done"

\* select: one of the two tasks has ended; the other one goes on, detached.
ConnectionOver(p) ==
    conn[p][accepted[p]].sender = "done" \/ conn[p][accepted[p]].receiver = "done"

(***************************************************************************)
(* The channel is removed, and the listener is dropped and bound again:    *)
(* the connections that wait in its backlog are refused.                   *)
(***************************************************************************)
Reset(p) ==
    /\ stage[p] = "serving"
    /\ ConnectionOver(p)
    /\ stage' = [stage EXCEPT ![p] = "listening"]
    /\ out_channels' = [out_channels EXCEPT ![p] = {}]
    /\ accepted' = [accepted EXCEPT ![p] = connects[p]]
    /\ conn' = [conn EXCEPT ![p] = [c \in Connection |->
                   IF c > accepted[p] /\ c <= connects[p]
                   THEN [conn[p][c] EXCEPT !.broken = TRUE, !.up = << >>]
                   ELSE conn[p][c]]]
    /\ UNCHANGED <<servers, queue, holding, history, bounds>>

-----------------------------------------------------------------------------
(***************************************************************************)
(* The network actor: the tasks of a connection.                           *)
(***************************************************************************)
Subscribe(p, c) ==
    /\ conn[p][c].sender = "spawned"
    /\ conn' = [conn EXCEPT ![p][c].sender = "subscribed"]
    /\ UNCHANGED <<servers, actor, history, bounds>>

\* A write to a broken connection may seem to succeed.
WriteDown(p, c) ==
    /\ conn[p][c].sender = "subscribed"
    /\ conn[p][c].channel # << >>
    /\ conn[p][c].broken \/ ~Full(conn[p][c].down)
    /\ conn' = [conn EXCEPT
           ![p][c].channel = Tail(@),
           ![p][c].down = IF conn[p][c].broken THEN @
                          ELSE Append(@, Head(conn[p][c].channel))]
    /\ UNCHANGED <<servers, actor, history, bounds>>

\* write_all fails, or recv reports that messages were overwritten.
SenderEnds(p, c) ==
    /\ \/ /\ conn[p][c].sender = "subscribed"
          /\ conn[p][c].channel # << >>
          /\ conn[p][c].broken
       \/ conn[p][c].sender = "lagged"
    /\ conn' = [conn EXCEPT ![p][c].sender = "done", ![p][c].channel = << >>]
    /\ UNCHANGED <<servers, actor, history, bounds>>

ReadUp(p, c) ==
    /\ conn[p][c].receiver = "reading"
    /\ conn[p][c].up # << >>
    /\ Len(queue) < QueueSize
    /\ queue' = Append(queue, Head(conn[p][c].up))
    /\ conn' = [conn EXCEPT ![p][c].up = Tail(@)]
    /\ UNCHANGED <<servers, accepted, stage, out_channels, holding, history, bounds>>

\* The connection breaks in the middle of a line to the actor, which forwards
\* the part that it has received.
ReadTornUp(p, c) ==
    /\ torn < MaxTorn
    /\ torn' = torn + 1
    /\ conn[p][c].receiver = "reading"
    /\ conn[p][c].broken
    /\ conn[p][c].up # << >>
    /\ Len(queue) < QueueSize
    /\ queue' = Append(queue, Fragment(p, c))
    /\ conn' = [conn EXCEPT ![p][c].up = << >>, ![p][c].receiver = "done"]
    /\ UNCHANGED <<servers, accepted, stage, out_channels, holding, history, faults>>

\* End of file or an error.
ReceiverEnds(p, c) ==
    /\ conn[p][c].receiver = "reading"
    /\ conn[p][c].broken
    /\ conn' = [conn EXCEPT ![p][c].up = << >>, ![p][c].receiver = "done"]
    /\ UNCHANGED <<servers, actor, history, bounds>>

-----------------------------------------------------------------------------
(***************************************************************************)
(* The central actor.                                                      *)
(***************************************************************************)
\* Mutant of NextInQueue: the newest message overtakes the others.
NewestInQueue == Len(queue)

NextInQueue == 1

\* A message for a port without a channel is skipped.
Receive ==
    LET m == queue[NextInQueue]
    IN  /\ holding = << >>
        /\ queue # << >>
        /\ queue' = SubSeq(queue, 1, NextInQueue - 1)
                        \o SubSeq(queue, NextInQueue + 1, Len(queue))
        /\ holding' = IF out_channels[MappedPort(m.port)] = {} THEN << >> ELSE <<m>>
        /\ UNCHANGED <<servers, conn, accepted, stage, out_channels, history, bounds>>

\* Mutant of Room: a broadcast channel grows without limit.
RoomAlways(c) == TRUE

Room(c) == Len(c.channel) < ChannelSize

\* Mutant of Published: what does not fit is dropped, and nobody is told.
PublishedOrDropped(c, m) ==
    IF c.sender = "subscribed" /\ Room(c) THEN [c EXCEPT !.channel = Append(@, m)] ELSE c

\* A message that nobody subscribed to is lost, and a sender task that is too far
\* behind finds out when it receives next.
Published(c, m) ==
    CASE c.sender = "subscribed" /\ Room(c)  -> [c EXCEPT !.channel = Append(@, m)]
      [] c.sender = "subscribed" /\ ~Room(c) -> [c EXCEPT !.channel = << >>,
                                                          !.sender = "lagged"]
      [] OTHER -> c

\* The sender of the port's channel is cloned, and the message sent to it.  What
\* happens in between is no different from what happens right afterwards.
Forward ==
    /\ holding # << >>
    /\ LET m == Head(holding)
           to == MappedPort(m.port)
       IN  \E c \in out_channels[to] :
               conn' = IF c = 0 THEN conn
                       ELSE [conn EXCEPT ![to][c] = Published(@, m)]
    /\ holding' = << >>
    /\ UNCHANGED <<servers, accepted, stage, out_channels, queue, history, bounds>>

\* The port has had no channel for five seconds.
GiveUp ==
    /\ holding # << >>
    /\ out_channels[MappedPort(Head(holding).port)] = {}
    /\ holding' = << >>
    /\ UNCHANGED <<servers, conn, accepted, stage, out_channels, queue, history, bounds>>

-----------------------------------------------------------------------------
(***************************************************************************)
(* Faults.                                                                 *)
(***************************************************************************)
Fault ==
    /\ faults < MaxFaults
    /\ faults' = faults + 1
    /\ UNCHANGED torn

Cut(p) ==
    /\ Fault
    /\ connects[p] > 0
    /\ ~Own(p).broken
    /\ conn' = [conn EXCEPT ![p][connects[p]].broken = TRUE]
    /\ UNCHANGED <<servers, actor, history>>

\* The process of n ends and is started again.
Crash(n) ==
    LET mine == {p \in Port : p[1] = n}
    IN  /\ Fault
        /\ task' = [p \in Port |-> IF p \in mine THEN "connecting" ELSE task[p]]
        /\ sockets' = [p \in Port |-> IF p \in mine THEN 0 ELSE sockets[p]]
        /\ inbox' = [inbox EXCEPT ![n] = << >>]
        /\ conn' = [p \in Port |-> [c \in Connection |->
                       IF p \in mine /\ c = connects[p] THEN Abandoned(conn[p][c])
                       ELSE conn[p][c]]]
        /\ UNCHANGED <<connects, actor, history>>

\* The network actor ends and is started again.
CrashActor ==
    /\ Fault
    /\ conn' = [p \in Port |-> [c \in Connection |->
                   IF c > connects[p] THEN conn[p][c]
                   ELSE [conn[p][c] EXCEPT !.broken = TRUE, !.up = << >>, !.channel = << >>,
                                           !.sender = "done", !.receiver = "done"]]]
    /\ accepted' = connects
    /\ stage' = [p \in Port |-> "listening"]
    /\ out_channels' = [p \in Port |-> {0}]
    /\ queue' = << >>
    /\ holding' = << >>
    /\ UNCHANGED <<servers, history>>

-----------------------------------------------------------------------------
PeerTask(p) == Connect(p) \/ ReadDown(p) \/ DownEnds(p) \/ ReadFragment(p)

PortTask(p) == Accept(p) \/ InsertChannel(p) \/ Reset(p)

ConnectionTasks(p, c) ==
    Subscribe(p, c) \/ WriteDown(p, c) \/ SenderEnds(p, c) \/ ReadUp(p, c) \/ ReceiverEnds(p, c)

Central == Receive \/ Forward \/ GiveUp

Next ==
    \/ \E p \in Port : Send(p) \/ PeerTask(p) \/ ReadTorn(p) \/ PortTask(p) \/ Cut(p)
    \/ \E p \in Port, c \in Connection : ConnectionTasks(p, c) \/ ReadTornUp(p, c)
    \/ \E n \in Node : Process(n) \/ Crash(n)
    \/ Central
    \/ CrashActor

Spec == Init /\ [][Next]_vars

(***************************************************************************)
(* The tasks of tokio run when they can.  Nothing is assumed of what the   *)
(* servers send, and of faults.                                            *)
(***************************************************************************)
FairSpec ==
    /\ Spec
    /\ \A p \in Port : WF_vars(PeerTask(p)) /\ WF_vars(PortTask(p))
    /\ \A p \in Port : WF_vars(\E c \in Connection : ConnectionTasks(p, c))
    /\ \A n \in Node : WF_vars(Process(n))
    /\ WF_vars(Central)

-----------------------------------------------------------------------------
TypeOK ==
    /\ sent \in [Port -> 0 .. MaxMessages]
    /\ connects \in [Port -> 0 .. MaxConnects]
    /\ task \in [Port -> {"connecting", "reading", "panicked"}]
    /\ sockets \in [Port -> 0 .. MaxConnects]
    /\ inbox \in [Node -> Seq(Message)]
    /\ handled \in [Port -> Seq(Message)]
    /\ conn \in [Port -> [Connection ->
           [up : Seq(Message), down : Seq(Message), broken : BOOLEAN,
            sender : {"none", "spawned", "subscribed", "lagged", "done"},
            channel : Seq(Message), receiver : {"none", "reading", "done"}]]]
    /\ \A p \in Port, c \in Connection :
           /\ Len(conn[p][c].up) <= SocketSize
           /\ Len(conn[p][c].down) <= SocketSize + torn
           /\ Len(conn[p][c].channel) <= ChannelSize
    /\ accepted \in [Port -> 0 .. MaxConnects]
    /\ \A p \in Port : accepted[p] <= connects[p] /\ sockets[p] \in {0, connects[p]}
    /\ stage \in [Port -> {"listening", "accepted", "serving"}]
    /\ out_channels \in [Port -> SUBSET (0 .. MaxConnects)]
    /\ \A p \in Port : out_channels[p] \subseteq {0, accepted[p]}
    /\ \A p \in Port : stage[p] = "serving" => out_channels[p] = {accepted[p]}
    /\ queue \in Seq(Message) /\ Len(queue) <= QueueSize
    /\ holding \in Seq(Message) /\ Len(holding) <= 1
    /\ faults \in 0 .. MaxFaults /\ torn \in 0 .. MaxTorn

-----------------------------------------------------------------------------
Content(s) == {s[i] : i \in DOMAIN s}

\* What can still arrive on port p, of the connection its server reads from.
Arriving(p) ==
    IF Reads(p) THEN Content(Own(p).down) \union Content(Own(p).channel) ELSE {}

Pending ==
    {m \in (UNION {Content(conn[p][c].up) : p \in Port, c \in Connection})
            \union Content(queue) \union Content(holding)
            \union (UNION {Arriving(p) : p \in Port})
            \union (UNION {Content(inbox[n]) : n \in Node}) : ~IsFragment(m)}

Links == INSTANCE LossyLinks WITH Link <- Port, pending <- Pending, received <- handled

\* Through reconnections of both sides, detached tasks, refused connections,
\* overwritten channels and torn lines, a message is delivered at most once, and
\* never after a later one of the same connection.
LinksAreLossyFifo == Links!Spec

\* Both ends agree on the current connection of p, and all its tasks work.
Established(p) ==
    /\ Reads(p)
    /\ ~Own(p).broken
    /\ sockets[p] = connects[p]
    /\ accepted[p] = connects[p] /\ stage[p] = "serving"
    /\ out_channels[p] = {connects[p]}
    /\ Own(p).sender = "subscribed" /\ Own(p).receiver = "reading"

\* When no more faults happen, every port gets a working connection again, unless
\* its peer task has panicked (network.rs:123-167, network_actor's network.rs:124-213).
LinksRecover == <>[](\A p \in Port : Established(p) \/ task[p] = "panicked")

\* A message on a working connection to a receiver with a working one is handled,
\* unless one of the two breaks or falls behind.
WorkingLinksDeliver ==
    \A p \in Talkers, k \in 1 .. MaxMessages :
        LET works == Established(p) /\ Established(MappedPort(p))
        IN  works /\ (\E m \in Content(Own(p).up) : m.num = k)
                ~> ~works \/ (\E m \in Content(handled[p]) : m.num = k)

\* network.rs:118: every peer task continuously attempts to connect and read.
PeerTasksContinue == <>[](\A p \in Port : Established(p))
=============================================================================
