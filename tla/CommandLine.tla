---------------------------- MODULE CommandLine ----------------------------
(***************************************************************************)
(* The operator's commands: the command line of the network actor and its  *)
(* client ports (network_actor's network.rs:18-103), and the API           *)
(* connection that every server opens when it boots and never again        *)
(* (kv_store/src/network.rs:80-114).  TCP is external.                     *)
(*                                                                         *)
(* Server n connects to client port 800n.  Its connections are numbered.   *)
(* A connection ends with an end of file ("closed"), or with an error      *)
(* ("reset") when the network fails or unread data is discarded.  All      *)
(* commands are Gets here, the ones that are answered.                     *)
(***************************************************************************)
EXTENDS Naturals, Sequences

CONSTANTS
    Servers,        \* the servers are 1 .. Servers, as are the CLIENT_PORTS
    MaxCommands,    \* bound: commands that the operator types
    MaxConnects,    \* bound: connections of each port
    MaxFaults       \* bound: crashes and broken connections

ASSUME BoundsAssumption ==
    Servers \in Nat \ {0} /\ MaxCommands \in Nat /\ MaxConnects \in Nat /\ MaxFaults \in Nat

Node == 1 .. Servers
Connection == 1 .. MaxConnects
NoPort == 0

VARIABLES
    typed,          \* typed[k]: the port of the k-th command, or NoPort
    cli,            \* the command line: "prompt", "routing" or "panicked"
    next_port,      \* the client port that is tried next
    api_sockets,    \* api_sockets[n]: the connection of the registered writer, or 0
    port,           \* port[n]: its task, "listening", "accepted", "reading", "panicked"
    accepted,       \* accepted[n]: the connections that are accepted or refused
    printed,        \* the responses that were printed
    conn,           \* conn[n][c]: the connections
    connects,       \* connects[n]: connections made to port n so far
    reader,         \* reader[n]: the API task of a server, "none", "reading", "ended"
    inbox,          \* inbox[n]: the commands the server has received
    executed,       \* executed[n]: the commands the server has processed, in order
    faults          \* crashes and broken connections so far

actor   == <<cli, next_port, api_sockets, port, accepted, printed>>
servers == <<connects, reader, inbox, executed>>
vars    == <<typed, actor, conn, servers, faults>>

-----------------------------------------------------------------------------
NoConnection == [state |-> "open", requests |-> << >>, responses |-> << >>]

\* The connection of server n, and the one its port serves.
Own(n) == conn[n][connects[n]]
Served(n) == conn[n][accepted[n]]

Up(n) == reader[n] # "none"
Current == Len(typed)

Init ==
    /\ typed = << >>
    /\ cli = "prompt"
    /\ next_port = 1
    /\ api_sockets = [n \in Node |-> 0]
    /\ port = [n \in Node |-> "listening"]
    /\ accepted = [n \in Node |-> 0]
    /\ printed = << >>
    /\ conn = [n \in Node |-> [c \in Connection |-> NoConnection]]
    /\ connects = [n \in Node |-> 0]
    /\ reader = [n \in Node |-> "none"]
    /\ inbox = [n \in Node |-> << >>]
    /\ executed = [n \in Node |-> << >>]
    /\ faults = 0

-----------------------------------------------------------------------------
(***************************************************************************)
(* The command line.                                                       *)
(***************************************************************************)
\* A command is typed and parsed; an invalid one is only answered with a message.
Type(p) ==
    /\ cli = "prompt"
    /\ Len(typed) < MaxCommands
    /\ typed' = Append(typed, p)
    /\ cli' = "routing"
    /\ next_port' = IF p = NoPort THEN 1 ELSE p
    /\ UNCHANGED <<api_sockets, port, accepted, printed, conn, servers, faults>>

\* The last word is no number: unwrap ends the task of the command line.
TypeBadPort ==
    /\ cli = "prompt"
    /\ cli' = "panicked"
    /\ UNCHANGED <<typed, next_port, api_sockets, port, accepted, printed, conn,
                   servers, faults>>

\* No other port is tried after next_port.
LastTry == typed[Current] # NoPort \/ next_port = Servers

NextTry ==
    /\ cli' = IF LastTry THEN "prompt" ELSE "routing"
    /\ next_port' = IF LastTry THEN 1 ELSE next_port + 1

\* The port has no writer, and its lock is free again.
TryNext ==
    /\ cli = "routing"
    /\ api_sockets[next_port] = 0
    /\ NextTry
    /\ UNCHANGED <<typed, api_sockets, port, accepted, printed, conn, servers, faults>>

\* Mutant of AfterWrite: no break, the next port gets the command as well.
AfterWriteGoOn == NextTry

\* break leaves the loop over the ports.
AfterWrite == cli' = "prompt" /\ next_port' = 1

\* The command is written, while the map is locked.  The first writes to a
\* connection that has ended seem to succeed.
Write ==
    LET c == api_sockets[next_port]
    IN  /\ cli = "routing"
        /\ c # 0
        /\ conn' = IF conn[next_port][c].state = "open"
                   THEN [conn EXCEPT ![next_port][c].requests = Append(@, Current)]
                   ELSE conn
        /\ AfterWrite
        /\ UNCHANGED <<typed, api_sockets, port, accepted, printed, servers, faults>>

\* write_all fails, and unwrap ends the task of the command line.
WritePanics ==
    /\ cli = "routing"
    /\ api_sockets[next_port] # 0
    /\ conn[next_port][api_sockets[next_port]].state # "open"
    /\ cli' = "panicked"
    /\ UNCHANGED <<typed, next_port, api_sockets, port, accepted, printed, conn,
                   servers, faults>>

-----------------------------------------------------------------------------
(***************************************************************************)
(* The task of a client port.                                              *)
(***************************************************************************)
Accept(n) ==
    /\ port[n] = "listening"
    /\ accepted[n] < connects[n]
    /\ accepted' = [accepted EXCEPT ![n] = @ + 1]
    /\ port' = [port EXCEPT ![n] = "accepted"]
    /\ UNCHANGED <<typed, cli, next_port, api_sockets, printed, conn, servers, faults>>

Register(n) ==
    /\ port[n] = "accepted"
    /\ port' = [port EXCEPT ![n] = "reading"]
    /\ api_sockets' = [api_sockets EXCEPT ![n] = accepted[n]]
    /\ UNCHANGED <<typed, cli, next_port, accepted, printed, conn, servers, faults>>

ReadResponse(n) ==
    /\ port[n] = "reading"
    /\ Served(n).responses # << >>
    /\ printed' = Append(printed, Head(Served(n).responses))
    /\ conn' = [conn EXCEPT ![n][accepted[n]].responses = Tail(@)]
    /\ UNCHANGED <<typed, cli, next_port, api_sockets, port, accepted, servers, faults>>

\* The listener of n is dropped: connections in its backlog are refused.
DropListener(n) ==
    /\ accepted' = [accepted EXCEPT ![n] = connects[n]]
    /\ conn' = [conn EXCEPT ![n] = [c \in Connection |->
                   IF c > accepted[n] /\ c <= connects[n]
                   THEN [conn[n][c] EXCEPT !.state = "reset"] ELSE conn[n][c]]]

\* Mutant of Unregistered: the writer of a closed connection stays in the map.
UnregisteredNot(n) == api_sockets

Unregistered(n) == [api_sockets EXCEPT ![n] = 0]

\* End of file: the port listens again.
ReadEof(n) ==
    /\ port[n] = "reading"
    /\ Served(n).state = "closed" /\ Served(n).responses = << >>
    /\ api_sockets' = Unregistered(n)
    /\ port' = [port EXCEPT ![n] = "listening"]
    /\ DropListener(n)
    /\ UNCHANGED <<typed, cli, next_port, printed, servers, faults>>

\* A read error: unwrap ends the reader, and with it the loop of the port.
ReadPanics(n) ==
    /\ port[n] = "reading"
    /\ Served(n).state = "reset"
    /\ port' = [port EXCEPT ![n] = "panicked"]
    /\ DropListener(n)
    /\ UNCHANGED <<typed, cli, next_port, api_sockets, printed, servers, faults>>

-----------------------------------------------------------------------------
(***************************************************************************)
(* The servers.                                                            *)
(***************************************************************************)
\* Network::new; without a listener expect ends the process, and it boots again.
Boot(n) ==
    /\ reader[n] = "none"
    /\ port[n] # "panicked"
    /\ connects[n] < MaxConnects
    /\ connects' = [connects EXCEPT ![n] = @ + 1]
    /\ reader' = [reader EXCEPT ![n] = "reading"]
    /\ UNCHANGED <<typed, actor, conn, inbox, executed, faults>>

ReadRequest(n) ==
    /\ reader[n] = "reading"
    /\ Own(n).requests # << >>
    /\ inbox' = [inbox EXCEPT ![n] = Append(@, Head(Own(n).requests))]
    /\ conn' = [conn EXCEPT ![n][connects[n]].requests = Tail(@)]
    /\ UNCHANGED <<typed, actor, connects, reader, executed, faults>>

\* Mutant of ConnectionEnded: an empty read is no end.
ConnectionEndedError(n) == Own(n).state = "reset"

ConnectionEnded(n) ==
    Own(n).state = "reset" \/ (Own(n).state = "closed" /\ Own(n).requests = << >>)

\* End of file, an error, or a torn line, on which expect panics: no reconnection.
ReaderEnds(n) ==
    /\ reader[n] = "reading"
    /\ ConnectionEnded(n)
    /\ reader' = [reader EXCEPT ![n] = "ended"]
    /\ UNCHANGED <<typed, actor, conn, connects, inbox, executed, faults>>

\* Mutant of Rest: get_received clears what was not handled yet.
RestCleared(n) == << >>

Rest(n) == Tail(inbox[n])

\* process_incoming_msgs answers a Get; the response to a lost connection is lost.
Execute(n) ==
    /\ inbox[n] # << >>
    /\ inbox' = [inbox EXCEPT ![n] = Rest(n)]
    /\ executed' = [executed EXCEPT ![n] = Append(@, Head(inbox[n]))]
    /\ conn' = IF Own(n).state = "open"
               THEN [conn EXCEPT ![n][connects[n]].responses = Append(@, Head(inbox[n]))]
               ELSE conn
    /\ UNCHANGED <<typed, actor, connects, reader, faults>>

-----------------------------------------------------------------------------
(***************************************************************************)
(* Faults.                                                                 *)
(***************************************************************************)
Fault == faults < MaxFaults /\ faults' = faults + 1

Ended(c, how) == [c EXCEPT !.state = IF @ = "open" THEN how ELSE @]

\* The process of n ends, and its connection with it.
Crash(n, how) ==
    /\ Fault
    /\ Up(n)
    /\ reader' = [reader EXCEPT ![n] = "none"]
    /\ inbox' = [inbox EXCEPT ![n] = << >>]
    /\ conn' = [conn EXCEPT ![n][connects[n]] = Ended(@, how)]
    /\ UNCHANGED <<typed, actor, connects, executed>>

Cut(n) ==
    /\ Fault
    /\ Up(n)
    /\ conn' = [conn EXCEPT ![n][connects[n]] = Ended(@, "reset")]
    /\ UNCHANGED <<typed, actor, servers>>

\* The network actor ends and is started again.
CrashActor ==
    /\ Fault
    /\ conn' = [n \in Node |-> [c \in Connection |->
                   IF c <= connects[n] THEN Ended(conn[n][c], "closed") ELSE conn[n][c]]]
    /\ cli' = "prompt"
    /\ next_port' = 1
    /\ api_sockets' = [n \in Node |-> 0]
    /\ port' = [n \in Node |-> "listening"]
    /\ accepted' = connects
    /\ UNCHANGED <<typed, printed, servers>>

-----------------------------------------------------------------------------
Cli == TryNext \/ Write \/ WritePanics

PortTask(n) ==
    Accept(n) \/ Register(n) \/ ReadResponse(n) \/ ReadEof(n) \/ ReadPanics(n)

Server(n) == Boot(n) \/ ReadRequest(n) \/ ReaderEnds(n) \/ Execute(n)

Next ==
    \/ \E p \in Node \union {NoPort} : Type(p)
    \/ TypeBadPort
    \/ Cli
    \/ \E n \in Node : PortTask(n) \/ Server(n) \/ Cut(n)
    \/ \E n \in Node, how \in {"closed", "reset"} : Crash(n, how)
    \/ CrashActor

Spec == Init /\ [][Next]_vars

\* The tasks of both processes run when they can, and Kubernetes starts a pod again.
FairSpec ==
    /\ Spec
    /\ WF_vars(Cli)
    /\ \A n \in Node : WF_vars(PortTask(n)) /\ WF_vars(Server(n))

-----------------------------------------------------------------------------
TypeOK ==
    /\ typed \in Seq(Node \union {NoPort}) /\ Len(typed) <= MaxCommands
    /\ cli \in {"prompt", "routing", "panicked"} /\ next_port \in Node
    /\ cli = "routing" => typed # << >>
    /\ port \in [Node -> {"listening", "accepted", "reading", "panicked"}]
    /\ reader \in [Node -> {"none", "reading", "ended"}]
    /\ connects \in [Node -> 0 .. MaxConnects]
    /\ accepted \in [Node -> 0 .. MaxConnects] /\ api_sockets \in [Node -> 0 .. MaxConnects]
    /\ \A n \in Node :
           /\ accepted[n] \in 0 .. connects[n]
           /\ port[n] \in {"listening", "accepted"} <=> api_sockets[n] = 0
           /\ api_sockets[n] \in 0 .. accepted[n]
           /\ port[n] = "reading" => api_sockets[n] = accepted[n]
    /\ conn \in [Node -> [Connection ->
           [state : {"open", "closed", "reset"}, requests : Seq(1 .. MaxCommands),
            responses : Seq(1 .. MaxCommands)]]]
    /\ inbox \in [Node -> Seq(1 .. MaxCommands)]
    /\ executed \in [Node -> Seq(1 .. MaxCommands)]
    /\ printed \in Seq(1 .. MaxCommands)
    /\ faults \in 0 .. MaxFaults

\* A command is processed by one server at most, and once; one with a port by no
\* other server; and a server processes commands in the order they were typed.
CommandsRoutedOnce ==
    /\ \A n \in Node : \A i \in DOMAIN executed[n] :
           /\ typed[executed[n][i]] \in {NoPort, n}
           /\ \A m \in Node : \A j \in DOMAIN executed[m] :
                  executed[n][i] = executed[m][j] => n = m /\ i = j
    /\ \A n \in Node : \A i, j \in DOMAIN executed[n] :
           i < j => executed[n][i] < executed[n][j]

\* When no more faults happen, a server that still reads from its API connection is
\* the one its port serves and has registered, unless the port's task has panicked
\* (a connection in the backlog of a port that resets is lost: network.rs:39-53).
ReadersRegistered ==
    <>[](\A n \in Node : reader[n] = "reading" =>
            port[n] = "panicked" \/ (port[n] = "reading" /\ api_sockets[n] = connects[n]))

Content(s) == {s[i] : i \in DOMAIN s}

\* The response to a command that was written to a connection is printed, unless
\* that connection ends, or the server with it.
GetsAnswered ==
    \A n \in Node, k \in 1 .. MaxCommands, c \in Connection :
        k \in Content(conn[n][c].requests) /\ conn[n][c].state = "open"
            ~> k \in Content(printed) \/ conn[n][c].state # "open"
=============================================================================
