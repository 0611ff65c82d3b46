------------------------- MODULE CommandLineProofs -------------------------
(***************************************************************************)
(* Proofs about the operator's commands, for every number of servers and   *)
(* all bounds.                                                             *)
(***************************************************************************)
EXTENDS CommandLine, SequenceTheorems, TLAPS

-----------------------------------------------------------------------------
(***************************************************************************)
(* The inductive invariant.  What server n executes has passed through its *)
(* current connection and its inbox; together they hold commands that are  *)
(* for n, in the order they were typed, that no other server has, and the  *)
(* one that is still being routed is not among them.                       *)
(***************************************************************************)
Increasing(s) == \A i, j \in DOMAIN s : i < j => s[i] < s[j]

Before(s, t) == \A x \in Content(s), y \in Content(t) : x < y

InOrder(a, b, c) ==
    /\ Increasing(a) /\ Increasing(b) /\ Increasing(c)
    /\ Before(a, b) /\ Before(a, c) /\ Before(b, c)

Requests(n) == IF connects[n] = 0 THEN << >> ELSE Own(n).requests

Taken(n) == Content(executed[n]) \union Content(inbox[n]) \union Content(Requests(n))

ConnectionsInv ==
    \A n \in Node :
        /\ port[n] = "accepted" => accepted[n] > 0
        /\ connects[n] = 0 => reader[n] = "none" /\ inbox[n] = << >>
        /\ \A c \in Connection : c > connects[n] => conn[n][c].requests = << >>

RoutingInv == cli = "routing" => typed[Current] \in {NoPort, next_port}

FlowInv ==
    \A n \in Node :
        /\ InOrder(executed[n], inbox[n], Requests(n))
        /\ \A k \in Taken(n) :
               /\ k \in 1 .. Len(typed) /\ typed[k] \in {NoPort, n}
               /\ cli = "routing" => k # Current
               /\ \A m \in Node \ {n} : k \notin Taken(m)

CommandInv == TypeOK /\ ConnectionsInv /\ RoutingInv /\ FlowInv

-----------------------------------------------------------------------------
(***************************************************************************)
(* Type correctness, part by part.                                         *)
(***************************************************************************)
Numbers == 1 .. MaxCommands

Record == [state : {"open", "closed", "reset"}, requests : Seq(Numbers), responses : Seq(Numbers)]

CliOK ==
    /\ typed \in Seq(Node \union {NoPort}) /\ Len(typed) <= MaxCommands
    /\ cli \in {"prompt", "routing", "panicked"} /\ next_port \in Node
    /\ cli = "routing" => typed # << >>

\* The port of server n, where it has made b connections.
PortOK(p, api, a, b) ==
    /\ p \in {"listening", "accepted", "reading", "panicked"}
    /\ a \in 0 .. b
    /\ p \in {"listening", "accepted"} <=> api = 0
    /\ api \in 0 .. a
    /\ p = "reading" => api = a
    /\ p = "accepted" => a > 0

PortsOK ==
    /\ connects \in [Node -> 0 .. MaxConnects]
    /\ port \in [Node -> {"listening", "accepted", "reading", "panicked"}]
    /\ accepted \in [Node -> 0 .. MaxConnects] /\ api_sockets \in [Node -> 0 .. MaxConnects]
    /\ \A n \in Node : PortOK(port[n], api_sockets[n], accepted[n], connects[n])

ServersOK ==
    /\ reader \in [Node -> {"none", "reading", "ended"}]
    /\ inbox \in [Node -> Seq(Numbers)]
    /\ executed \in [Node -> Seq(Numbers)]
    /\ \A n \in Node : connects[n] = 0 => reader[n] = "none" /\ inbox[n] = << >>

ConnOK == conn \in [Node -> [Connection -> Record]]

NoRequestsYet ==
    \A n \in Node, c \in Connection : c > connects[n] => conn[n][c].requests = << >>

TypeInv == TypeOK /\ ConnectionsInv

LEMMA Parts ==
    ASSUME TypeInv
    PROVE  /\ CliOK /\ PortsOK /\ ServersOK /\ ConnOK /\ NoRequestsYet
           /\ printed \in Seq(Numbers) /\ faults \in 0 .. MaxFaults
           /\ \A n \in Node : connects[n] \in Nat
BY DEF TypeInv, TypeOK, ConnectionsInv, CliOK, PortsOK, PortOK, ServersOK, ConnOK,
   NoRequestsYet, Record, Numbers

LEMMA Whole ==
    ASSUME CliOK, PortsOK, ServersOK, ConnOK, NoRequestsYet, printed \in Seq(Numbers),
           faults \in 0 .. MaxFaults
    PROVE  TypeInv
<1>1. TypeOK
  BY DEF TypeOK, CliOK, PortsOK, PortOK, ServersOK, ConnOK, Record, Numbers
<1>2. ConnectionsInv
  BY DEF ConnectionsInv, PortsOK, PortOK, ServersOK, NoRequestsYet
<1> QED BY <1>1, <1>2 DEF TypeInv

LEMMA WholeNext ==
    ASSUME CliOK', PortsOK', ServersOK', ConnOK', NoRequestsYet', printed' \in Seq(Numbers),
           faults' \in 0 .. MaxFaults
    PROVE  TypeInv'
<1>1. TypeOK'
  BY DEF TypeOK, CliOK, PortsOK, PortOK, ServersOK, ConnOK, Record, Numbers
<1>2. ConnectionsInv'
  BY DEF ConnectionsInv, PortsOK, PortOK, ServersOK, NoRequestsYet
<1> QED BY <1>1, <1>2 DEF TypeInv

LEMMA Constants ==
    /\ Servers \in Nat \ {0} /\ MaxCommands \in Nat /\ MaxConnects \in Nat
    /\ MaxFaults \in Nat /\ 1 \in Node /\ Node \subseteq Nat \ {0} /\ NoPort = 0
    /\ Connection = 1 .. MaxConnects
BY BoundsAssumption DEF Node, NoPort, Connection

LEMMA InitParts == Init => TypeInv
<1> SUFFICES ASSUME Init PROVE TypeInv
  OBVIOUS
<1>1. << >> \in Seq(Numbers) /\ << >> \in Seq(Node \union {NoPort}) /\ Len(<< >>) = 0
  OBVIOUS
<1>2. CliOK
  BY <1>1, Constants DEF Init, CliOK
<1>3. PortsOK
  BY Constants DEF Init, PortsOK, PortOK
<1>4. ServersOK
  BY <1>1, Constants DEF Init, ServersOK
<1>5. ConnOK /\ NoRequestsYet
  BY <1>1 DEF Init, ConnOK, NoRequestsYet, NoConnection, Record
<1>6. printed \in Seq(Numbers) /\ faults \in 0 .. MaxFaults
  BY <1>1, Constants DEF Init
<1> QED BY <1>2, <1>3, <1>4, <1>5, <1>6, Whole

-----------------------------------------------------------------------------
(***************************************************************************)
(* A step that changes one connection.                                     *)
(***************************************************************************)
LEMMA RecordFields ==
    ASSUME NEW r \in Record
    PROVE  /\ \A x \in {"open", "closed", "reset"} :
                  [r EXCEPT !.state = x] \in Record
                  /\ [r EXCEPT !.state = x].requests = r.requests
           /\ \A q \in Seq(Numbers) :
                  /\ [r EXCEPT !.requests = q] \in Record
                  /\ [r EXCEPT !.requests = q].requests = q
                  /\ [r EXCEPT !.responses = q] \in Record
                  /\ [r EXCEPT !.responses = q].requests = r.requests
           /\ r.requests \in Seq(Numbers) /\ r.responses \in Seq(Numbers)
BY DEF Record

LEMMA OneConnection ==
    ASSUME ConnOK, NEW n \in Node, NEW c \in Connection, NEW r \in Record,
           conn' = [conn EXCEPT ![n][c] = r]
    PROVE  /\ ConnOK' /\ conn'[n][c] = r
           /\ \A m \in Node, d \in Connection :
                  m # n \/ d # c => conn'[m][d] = conn[m][d]
BY DEF ConnOK

\* No command moves in or out of a connection.
SameRequests ==
    \A n \in Node, c \in Connection : conn'[n][c].requests = conn[n][c].requests

LEMMA SameRequestsOne ==
    ASSUME ConnOK, NEW n \in Node, NEW c \in Connection, NEW r \in Record,
           r.requests = conn[n][c].requests, conn' = [conn EXCEPT ![n][c] = r]
    PROVE  ConnOK' /\ SameRequests
<1>1. \A m \in Node, d \in Connection : conn'[m][d].requests = conn[m][d].requests
  <2> SUFFICES ASSUME NEW m \in Node, NEW d \in Connection
               PROVE  conn'[m][d].requests = conn[m][d].requests
    OBVIOUS
  <2>1. CASE m = n /\ d = c
    BY <2>1, OneConnection
  <2>2. CASE ~(m = n /\ d = c)
    BY <2>2, OneConnection
  <2> QED BY <2>1, <2>2
<1> QED BY <1>1, OneConnection DEF SameRequests

\* A queue after a command is put in or taken out.
LEMMA QueueTypes ==
    ASSUME NEW q \in Seq(Numbers)
    PROVE  /\ \A x \in Numbers : Append(q, x) \in Seq(Numbers)
           /\ q # << >> => Head(q) \in Numbers /\ Tail(q) \in Seq(Numbers)
BY AppendProperties, HeadTailProperties

\* Steps that move no command between a connection and a server.
LEMMA Framed ==
    ASSUME TypeInv, CliOK', PortsOK', ServersOK', ConnOK', SameRequests,
           \A n \in Node : connects'[n] >= connects[n],
           printed' \in Seq(Numbers), faults' \in 0 .. MaxFaults
    PROVE  TypeInv'
<1>1. connects \in [Node -> 0 .. MaxConnects] /\ connects' \in [Node -> 0 .. MaxConnects]
  BY Parts DEF PortsOK
<1>2. NoRequestsYet'
  <2> SUFFICES ASSUME NEW n \in Node, NEW c \in Connection, c > connects'[n]
               PROVE  conn'[n][c].requests = << >>
    BY DEF NoRequestsYet
  <2>1. c > connects[n]
    BY <1>1, Constants
  <2>2. conn[n][c].requests = << >>
    BY <2>1, Parts DEF NoRequestsYet
  <2> QED BY <2>2 DEF SameRequests
<1> QED BY <1>2, WholeNext

\* Where a server's connection and the one its port serves are.
LEMMA OwnConnection ==
    ASSUME TypeInv, NEW n \in Node
    PROVE  /\ connects[n] # 0 => connects[n] \in Connection /\ Own(n) \in Record
           /\ accepted[n] # 0 => accepted[n] \in Connection /\ Served(n) \in Record
           /\ Up(n) \/ inbox[n] # << >> => connects[n] # 0
<1>1. connects[n] \in 0 .. MaxConnects /\ accepted[n] \in 0 .. MaxConnects
  BY Parts DEF PortsOK
<1>2. \A c \in Connection : conn[n][c] \in Record
  BY Parts DEF ConnOK
<1>3. Up(n) \/ inbox[n] # << >> => connects[n] # 0
  BY Parts DEF ServersOK, Up
<1> QED BY <1>1, <1>2, <1>3, Constants DEF Own, Served

LEMMA SameConn == ASSUME UNCHANGED conn PROVE SameRequests /\ (ConnOK => ConnOK')
BY DEF SameRequests, ConnOK

-----------------------------------------------------------------------------
(***************************************************************************)
(* Type correctness: the command line.                                     *)
(***************************************************************************)
LEMMA CliTypes ==
    ASSUME TypeInv, (\E p \in Node \union {NoPort} : Type(p)) \/ TypeBadPort \/ TryNext \/ WritePanics
    PROVE  TypeInv' /\ SameRequests
<1>1. UNCHANGED <<api_sockets, port, accepted, printed, conn, servers, faults>>
  BY DEF Type, TypeBadPort, TryNext, WritePanics
<1>2. typed \in Seq(Node \union {NoPort}) /\ Len(typed) \in Nat /\ Len(typed) <= MaxCommands
      /\ cli \in {"prompt", "routing", "panicked"} /\ next_port \in Node
      /\ (cli = "routing" => typed # << >>)
  BY Parts, LenProperties DEF CliOK
<1>3. CliOK'
  <2>1. ASSUME NEW p \in Node \union {NoPort}, Type(p) PROVE CliOK'
    <3>1. /\ typed' = Append(typed, p) /\ cli' = "routing" /\ Len(typed) < MaxCommands
          /\ next_port' \in Node
      BY <2>1, Constants DEF Type
    <3>2. typed' \in Seq(Node \union {NoPort}) /\ typed' # << >> /\ Len(typed') = Len(typed) + 1
      BY <1>2, <3>1, AppendProperties
    <3> QED BY <1>2, <3>1, <3>2, Constants DEF CliOK
  <2>2. CASE TypeBadPort \/ WritePanics
    BY <1>2, <2>2 DEF TypeBadPort, WritePanics, CliOK
  <2>3. CASE TryNext
    <3>1. UNCHANGED typed /\ cli = "routing" /\ cli' \in {"prompt", "routing"}
      BY <2>3 DEF TryNext, NextTry
    <3>2. next_port' \in Node
      BY <1>2, <2>3, Constants DEF TryNext, NextTry, LastTry, Node
    <3> QED BY <1>2, <3>1, <3>2 DEF CliOK
  <2> QED BY <2>1, <2>2, <2>3
<1>4. PortsOK' /\ ServersOK' /\ connects' = connects
  BY <1>1, Parts DEF PortsOK, PortOK, ServersOK, servers
<1> QED BY <1>1, <1>3, <1>4, Parts, SameConn, Framed

\* The command is written to the connection of the registered writer.
LEMMA WriteTypes ==
    ASSUME TypeInv, Write
    PROVE  /\ TypeInv'
           /\ LET c == api_sockets[next_port]
              IN  /\ c \in Connection /\ c <= connects[next_port]
                  /\ \/ UNCHANGED conn
                     \/ /\ conn'[next_port][c].requests =
                               Append(conn[next_port][c].requests, Current)
                        /\ \A m \in Node, d \in Connection :
                               m # next_port \/ d # c => conn'[m][d] = conn[m][d]
<1> DEFINE n == next_port
           c == api_sockets[n]
           r == [conn[n][c] EXCEPT !.requests = Append(@, Current)]
<1>1. /\ UNCHANGED <<typed, api_sockets, port, accepted, printed, servers, faults>>
      /\ cli = "routing" /\ cli' = "prompt" /\ next_port' = 1 /\ c # 0
      /\ UNCHANGED conn \/ conn' = [conn EXCEPT ![n][c] = r]
  BY DEF Write, AfterWrite
<1>2. n \in Node /\ typed \in Seq(Node \union {NoPort}) /\ typed # << >> /\ Len(typed) <= MaxCommands
  BY <1>1, Parts DEF CliOK
<1>3. Current \in Numbers
  BY <1>2, Constants, LenProperties DEF Current, Numbers
<1>4. c \in Connection /\ c <= connects[n] /\ connects[n] \in 0 .. MaxConnects
  <2>1. PortOK(port[n], c, accepted[n], connects[n]) /\ connects[n] \in 0 .. MaxConnects
    BY <1>2, Parts DEF PortsOK
  <2> QED BY <1>1, <2>1, Constants DEF PortOK
<1>5. conn[n][c] \in Record /\ ConnOK
  BY <1>2, <1>4, Parts DEF ConnOK
<1>6. r \in Record /\ r.requests = Append(conn[n][c].requests, Current)
  BY <1>3, <1>5, RecordFields, QueueTypes
<1>7. CliOK' /\ PortsOK' /\ ServersOK' /\ connects' = connects
  <2>1. CliOK'
    BY <1>1, <1>2, Constants DEF CliOK
  <2> QED BY <1>1, <2>1, Parts DEF PortsOK, PortOK, ServersOK, servers
<1> HIDE DEF c, r
<1>8. \/ UNCHANGED conn
      \/ conn'[n][c].requests = Append(conn[n][c].requests, Current)
         /\ \A m \in Node, d \in Connection : m # n \/ d # c => conn'[m][d] = conn[m][d]
  BY <1>1, <1>2, <1>4, <1>5, <1>6, OneConnection
<1>9. ConnOK'
  BY <1>1, <1>2, <1>4, <1>5, <1>6, OneConnection, SameConn
<1>10. NoRequestsYet'
  <2> SUFFICES ASSUME NEW m \in Node, NEW d \in Connection, d > connects[m]
               PROVE  conn'[m][d].requests = << >>
    BY <1>7 DEF NoRequestsYet
  <2>1. m # n \/ d # c
    BY <1>4, Constants
  <2>2. conn'[m][d] = conn[m][d]
    BY <1>8, <2>1
  <2>3. conn[m][d].requests = << >>
    BY Parts DEF NoRequestsYet
  <2> QED BY <2>2, <2>3
<1>11. TypeInv'
  BY <1>1, <1>7, <1>9, <1>10, Parts, WholeNext
<1> QED BY <1>4, <1>8, <1>11 DEF c

-----------------------------------------------------------------------------
(***************************************************************************)
(* Type correctness: the client ports.                                     *)
(***************************************************************************)
\* A step of the task of one port.
LEMMA OnePort ==
    ASSUME PortsOK, NEW n \in Node, NEW p, NEW api, NEW a,
           port' = [port EXCEPT ![n] = p], api_sockets' = [api_sockets EXCEPT ![n] = api],
           accepted' = [accepted EXCEPT ![n] = a], connects' = connects,
           PortOK(p, api, a, connects[n])
    PROVE  PortsOK'
<1>1. /\ connects[n] \in 0 .. MaxConnects /\ a \in 0 .. connects[n] /\ api \in 0 .. a
      /\ p \in {"listening", "accepted", "reading", "panicked"}
  BY DEF PortsOK, PortOK
<1>2. a \in 0 .. MaxConnects /\ api \in 0 .. MaxConnects
  BY <1>1, Constants
<1>3. \A m \in Node : PortOK(port'[m], api_sockets'[m], accepted'[m], connects'[m])
  BY DEF PortsOK
<1>4. /\ port' \in [Node -> {"listening", "accepted", "reading", "panicked"}]
      /\ accepted' \in [Node -> 0 .. MaxConnects] /\ api_sockets' \in [Node -> 0 .. MaxConnects]
  BY <1>1, <1>2 DEF PortsOK
<1> QED BY <1>3, <1>4 DEF PortsOK

\* The connections that a dropped listener refuses.
LEMMA DropTypes ==
    ASSUME TypeInv, NEW n \in Node, DropListener(n)
    PROVE  ConnOK' /\ SameRequests
<1> DEFINE r(c) == IF c > accepted[n] /\ c <= connects[n]
                   THEN [conn[n][c] EXCEPT !.state = "reset"] ELSE conn[n][c]
<1>1. conn \in [Node -> [Connection -> Record]]
  BY Parts DEF ConnOK
<1>2. conn' = [conn EXCEPT ![n] = [c \in Connection |-> r(c)]]
  BY DEF DropListener
<1>3. ASSUME NEW c \in Connection
      PROVE  r(c) \in Record /\ r(c).requests = conn[n][c].requests
  <2>1. conn[n][c] \in Record
    BY <1>1
  <2>2. /\ [conn[n][c] EXCEPT !.state = "reset"] \in Record
        /\ [conn[n][c] EXCEPT !.state = "reset"].requests = conn[n][c].requests
    BY <2>1, RecordFields
  <2> QED BY <2>1, <2>2
<1> HIDE DEF r
<1>4. conn' \in [Node -> [Connection -> Record]]
  BY <1>1, <1>2, <1>3
<1>5. ASSUME NEW m \in Node, NEW c \in Connection
      PROVE  conn'[m][c].requests = conn[m][c].requests
  BY <1>1, <1>2, <1>3
<1> QED BY <1>4, <1>5 DEF ConnOK, SameRequests

LEMMA PortTaskTypes ==
    ASSUME TypeInv, NEW n \in Node, PortTask(n)
    PROVE  TypeInv' /\ SameRequests
<1>1. UNCHANGED <<typed, cli, next_port, servers, faults>>
  BY DEF PortTask, Accept, Register, ReadResponse, ReadEof, ReadPanics
<1>2. CliOK' /\ ServersOK' /\ connects' = connects
  BY <1>1, Parts DEF CliOK, ServersOK, servers
<1>3. /\ PortOK(port[n], api_sockets[n], accepted[n], connects[n]) /\ connects[n] \in Nat
      /\ port \in [Node -> {"listening", "accepted", "reading", "panicked"}]
      /\ accepted \in [Node -> 0 .. MaxConnects] /\ api_sockets \in [Node -> 0 .. MaxConnects]
  BY Parts DEF PortsOK
<1>4. CASE Accept(n)
  <2>1. /\ port' = [port EXCEPT ![n] = "accepted"] /\ accepted' = [accepted EXCEPT ![n] = accepted[n] + 1]
        /\ api_sockets' = [api_sockets EXCEPT ![n] = api_sockets[n]]
        /\ port[n] = "listening" /\ accepted[n] < connects[n] /\ UNCHANGED <<conn, printed>>
    BY <1>3, <1>4 DEF Accept
  <2>2. PortOK("accepted", api_sockets[n], accepted[n] + 1, connects[n])
    BY <1>3, <2>1 DEF PortOK
  <2>3. PortsOK'
    BY <1>2, <2>1, <2>2, Parts, OnePort
  <2> QED BY <1>1, <1>2, <2>1, <2>3, Parts, SameConn, Framed
<1>5. CASE Register(n)
  <2>1. /\ port' = [port EXCEPT ![n] = "reading"] /\ accepted' = [accepted EXCEPT ![n] = accepted[n]]
        /\ api_sockets' = [api_sockets EXCEPT ![n] = accepted[n]]
        /\ port[n] = "accepted" /\ UNCHANGED <<conn, printed>>
    BY <1>3, <1>5 DEF Register
  <2>2. PortOK("reading", accepted[n], accepted[n], connects[n])
    BY <1>3, <2>1 DEF PortOK
  <2>3. PortsOK'
    BY <1>2, <2>1, <2>2, Parts, OnePort
  <2> QED BY <1>1, <1>2, <2>1, <2>3, Parts, SameConn, Framed
<1>6. CASE ReadResponse(n)
  <2> DEFINE c == accepted[n]
             r == [conn[n][c] EXCEPT !.responses = Tail(@)]
  <2>1. /\ port[n] = "reading" /\ UNCHANGED <<port, accepted, api_sockets>>
        /\ printed' = Append(printed, Head(Served(n).responses))
        /\ conn' = [conn EXCEPT ![n][c] = r] /\ Served(n).responses # << >>
    BY <1>6 DEF ReadResponse
  <2>2. c # 0
    BY <1>3, <2>1 DEF PortOK
  <2>3. c \in Connection /\ conn[n][c] \in Record /\ Served(n) = conn[n][c]
    BY <2>2, OwnConnection DEF Served
  <2>4. conn[n][c].responses \in Seq(Numbers) /\ conn[n][c].responses # << >>
    BY <2>1, <2>3, RecordFields
  <2>5. r \in Record /\ r.requests = conn[n][c].requests
    BY <2>3, <2>4, RecordFields, QueueTypes
  <2>6. printed' \in Seq(Numbers)
    BY <2>1, <2>3, <2>4, Parts, QueueTypes
  <2>7. ConnOK' /\ SameRequests
    <3> HIDE DEF r
    <3> QED BY <2>1, <2>3, <2>5, Parts, SameRequestsOne
  <2>8. PortsOK'
    BY <1>2, <2>1, Parts DEF PortsOK
  <2> QED BY <1>1, <1>2, <2>6, <2>7, <2>8, Parts, Framed
<1>7. CASE ReadEof(n)
  <2>1. /\ port' = [port EXCEPT ![n] = "listening"]
        /\ accepted' = [accepted EXCEPT ![n] = connects[n]]
        /\ api_sockets' = [api_sockets EXCEPT ![n] = 0]
        /\ DropListener(n) /\ printed' = printed
    BY <1>7 DEF ReadEof, DropListener, Unregistered
  <2>2. PortOK("listening", 0, connects[n], connects[n])
    BY <1>3 DEF PortOK
  <2>3. PortsOK'
    BY <1>2, <2>1, <2>2, Parts, OnePort
  <2> QED BY <1>1, <1>2, <2>1, <2>3, Parts, DropTypes, Framed
<1>8. CASE ReadPanics(n)
  <2>1. /\ port' = [port EXCEPT ![n] = "panicked"]
        /\ accepted' = [accepted EXCEPT ![n] = connects[n]]
        /\ api_sockets' = [api_sockets EXCEPT ![n] = api_sockets[n]]
        /\ port[n] = "reading" /\ DropListener(n) /\ printed' = printed
    BY <1>3, <1>8 DEF ReadPanics, DropListener
  <2>2. PortOK("panicked", api_sockets[n], connects[n], connects[n])
    BY <1>3, <2>1 DEF PortOK
  <2>3. PortsOK'
    BY <1>2, <2>1, <2>2, Parts, OnePort
  <2> QED BY <1>1, <1>2, <2>1, <2>3, Parts, DropTypes, Framed
<1> QED BY <1>4, <1>5, <1>6, <1>7, <1>8 DEF PortTask

-----------------------------------------------------------------------------
(***************************************************************************)
(* Type correctness: the servers and the faults.                           *)
(***************************************************************************)
LEMMA BootTypes ==
    ASSUME TypeInv, NEW n \in Node, Boot(n)
    PROVE  TypeInv' /\ SameRequests
<1>1. /\ UNCHANGED <<typed, actor, conn, inbox, executed, faults>>
      /\ connects' = [connects EXCEPT ![n] = @ + 1] /\ connects[n] < MaxConnects
      /\ reader' = [reader EXCEPT ![n] = "reading"]
  BY DEF Boot
<1>2. connects \in [Node -> 0 .. MaxConnects]
  BY Parts DEF PortsOK
<1>3. /\ connects' \in [Node -> 0 .. MaxConnects]
      /\ \A m \in Node : connects'[m] >= connects[m] /\ connects[m] \in Nat /\ connects'[m] \in Nat
      /\ connects'[n] # 0 /\ \A m \in Node \ {n} : connects'[m] = connects[m]
  BY <1>1, <1>2, Constants
<1>4. PortsOK'
  <2>1. ASSUME NEW m \in Node PROVE PortOK(port[m], api_sockets[m], accepted[m], connects'[m])
    BY <1>3, Parts DEF PortsOK, PortOK
  <2> QED BY <1>1, <1>3, <2>1, Parts DEF PortsOK, actor
<1>5. ServersOK'
  BY <1>1, <1>3, Parts DEF ServersOK
<1>6. CliOK' /\ printed' = printed
  BY <1>1, Parts DEF CliOK, actor
<1> QED BY <1>1, <1>3, <1>4, <1>5, <1>6, Parts, SameConn, Framed

LEMMA ReaderEndsTypes ==
    ASSUME TypeInv, NEW n \in Node, ReaderEnds(n)
    PROVE  TypeInv' /\ SameRequests
<1>1. /\ UNCHANGED <<typed, actor, conn, connects, inbox, executed, faults>>
      /\ reader' = [reader EXCEPT ![n] = "ended"] /\ reader[n] = "reading"
  BY DEF ReaderEnds
<1>2. CliOK' /\ PortsOK' /\ printed' = printed
  BY <1>1, Parts DEF CliOK, PortsOK, PortOK, actor
<1>3. ServersOK'
  BY <1>1, Parts DEF ServersOK
<1> QED BY <1>1, <1>2, <1>3, Parts, SameConn, Framed

\* The server's reader takes the next command out of its connection.
LEMMA ReadRequestTypes ==
    ASSUME TypeInv, NEW n \in Node, ReadRequest(n)
    PROVE  /\ TypeInv'
           /\ Own(n).requests # << >> /\ connects[n] \in Connection /\ connects' = connects
           /\ inbox' = [inbox EXCEPT ![n] = Append(@, Head(Own(n).requests))]
           /\ conn'[n][connects[n]].requests = Tail(Own(n).requests)
           /\ \A m \in Node, d \in Connection :
                  m # n \/ d # connects[n] => conn'[m][d] = conn[m][d]
<1> DEFINE c == connects[n]
           r == [conn[n][c] EXCEPT !.requests = Tail(@)]
<1>1. /\ UNCHANGED <<typed, actor, connects, reader, executed, faults>>
      /\ reader[n] = "reading" /\ Own(n).requests # << >>
      /\ inbox' = [inbox EXCEPT ![n] = Append(@, Head(Own(n).requests))]
      /\ conn' = [conn EXCEPT ![n][c] = r]
  BY DEF ReadRequest
<1>2. c \in Connection /\ conn[n][c] \in Record /\ Own(n) = conn[n][c] /\ c # 0
  BY <1>1, OwnConnection DEF Up, Own
<1>3. Own(n).requests \in Seq(Numbers)
  BY <1>2, RecordFields
<1>4. r \in Record /\ r.requests = Tail(Own(n).requests)
  <2> DEFINE q == Tail(conn[n][c].requests)
  <2>1. q \in Seq(Numbers) /\ q = Tail(Own(n).requests)
    BY <1>1, <1>2, <1>3, QueueTypes
  <2> HIDE DEF q, c
  <2>2. [conn[n][c] EXCEPT !.requests = q] \in Record /\ [conn[n][c] EXCEPT !.requests = q].requests = q
    BY <1>2, <2>1, RecordFields
  <2> QED BY <2>1, <2>2 DEF q
<1>5. /\ ConnOK' /\ conn'[n][c] = r
      /\ \A m \in Node, d \in Connection : m # n \/ d # c => conn'[m][d] = conn[m][d]
  <2> HIDE DEF r, c
  <2> QED BY <1>1, <1>2, <1>4, Parts, OneConnection
<1>6. CliOK' /\ PortsOK' /\ printed' = printed
  BY <1>1, Parts DEF CliOK, PortsOK, PortOK, actor
<1>7. ServersOK'
  <2>1. inbox \in [Node -> Seq(Numbers)] /\ Head(Own(n).requests) \in Numbers
    BY <1>1, <1>3, Parts, QueueTypes DEF ServersOK
  <2>2. Append(inbox[n], Head(Own(n).requests)) \in Seq(Numbers)
    BY <2>1, QueueTypes
  <2> QED BY <1>1, <1>2, <2>1, <2>2, Parts DEF ServersOK
<1>8. NoRequestsYet'
  <2> SUFFICES ASSUME NEW m \in Node, NEW d \in Connection, d > connects[m]
               PROVE  conn'[m][d].requests = << >>
    BY <1>1 DEF NoRequestsYet
  <2>1. m # n \/ d # c
    BY <1>2, Constants
  <2>2. conn'[m][d] = conn[m][d]
    BY <1>5, <2>1
  <2>3. conn[m][d].requests = << >>
    BY Parts DEF NoRequestsYet
  <2> QED BY <2>2, <2>3
<1>9. TypeInv'
  BY <1>1, <1>5, <1>6, <1>7, <1>8, Parts, WholeNext
<1> QED BY <1>1, <1>2, <1>4, <1>5, <1>9

LEMMA ExecuteTypes ==
    ASSUME TypeInv, NEW n \in Node, Execute(n)
    PROVE  TypeInv' /\ SameRequests
<1> DEFINE c == connects[n]
           r == [conn[n][c] EXCEPT !.responses = Append(@, Head(inbox[n]))]
<1>1. /\ UNCHANGED <<typed, actor, connects, reader, faults>> /\ inbox[n] # << >>
      /\ inbox' = [inbox EXCEPT ![n] = Tail(inbox[n])]
      /\ executed' = [executed EXCEPT ![n] = Append(@, Head(inbox[n]))]
      /\ UNCHANGED conn \/ conn' = [conn EXCEPT ![n][c] = r]
  BY DEF Execute, Rest
<1>2. inbox \in [Node -> Seq(Numbers)] /\ executed \in [Node -> Seq(Numbers)]
  BY Parts DEF ServersOK
<1>3. Head(inbox[n]) \in Numbers /\ Tail(inbox[n]) \in Seq(Numbers)
  BY <1>1, <1>2, QueueTypes
<1>4. c \in Connection /\ conn[n][c] \in Record /\ c # 0
  BY <1>1, OwnConnection DEF Own
<1>5. r \in Record /\ r.requests = conn[n][c].requests
  BY <1>3, <1>4, RecordFields, QueueTypes
<1>6. ConnOK' /\ SameRequests
  <2> HIDE DEF r, c
  <2> QED BY <1>1, <1>4, <1>5, Parts, SameRequestsOne, SameConn
<1>7. CliOK' /\ PortsOK' /\ printed' = printed
  BY <1>1, Parts DEF CliOK, PortsOK, PortOK, actor
<1>8. ServersOK'
  <2>1. Append(executed[n], Head(inbox[n])) \in Seq(Numbers)
    BY <1>2, <1>3, QueueTypes
  <2>2. inbox' \in [Node -> Seq(Numbers)] /\ executed' \in [Node -> Seq(Numbers)]
    BY <1>1, <1>2, <1>3, <2>1
  <2>3. \A m \in Node : inbox[m] = << >> => inbox'[m] = << >>
    BY <1>1, <1>2
  <2> QED BY <1>1, <2>2, <2>3, Parts DEF ServersOK
<1> QED BY <1>1, <1>6, <1>7, <1>8, Parts, Framed

LEMMA FaultTypes ==
    ASSUME TypeInv, Fault
    PROVE  faults' \in 0 .. MaxFaults
BY Parts, Constants DEF Fault

\* A connection that ends keeps what was written to it.
LEMMA EndedTypes ==
    ASSUME NEW r \in Record, NEW how \in {"closed", "reset"}
    PROVE  Ended(r, how) \in Record /\ Ended(r, how).requests = r.requests
BY DEF Record, Ended

LEMMA BrokenTypes ==
    ASSUME TypeInv, NEW n \in Node, Cut(n) \/ \E how \in {"closed", "reset"} : Crash(n, how)
    PROVE  TypeInv' /\ SameRequests
<1> DEFINE c == connects[n]
<1>1. PICK how \in {"closed", "reset"} :
          /\ Fault /\ Up(n) /\ conn' = [conn EXCEPT ![n][c] = Ended(conn[n][c], how)]
          /\ UNCHANGED <<typed, actor, connects, executed>>
          /\ \/ UNCHANGED <<reader, inbox>>
             \/ /\ reader' = [reader EXCEPT ![n] = "none"]
                /\ inbox' = [inbox EXCEPT ![n] = << >>]
  BY DEF Cut, Crash, servers
<1>2. c \in Connection /\ conn[n][c] \in Record
  BY <1>1, OwnConnection DEF Own
<1>3. ConnOK' /\ SameRequests
  <2> HIDE DEF c
  <2> QED BY <1>1, <1>2, EndedTypes, Parts, SameRequestsOne
<1>4. CliOK' /\ PortsOK' /\ printed' = printed
  BY <1>1, Parts DEF CliOK, PortsOK, PortOK, actor
<1>5. ServersOK'
  <2>1. << >> \in Seq(Numbers)
    OBVIOUS
  <2> QED BY <1>1, <2>1, Parts DEF ServersOK
<1> QED BY <1>1, <1>3, <1>4, <1>5, FaultTypes, Parts, Framed

LEMMA CrashActorTypes ==
    ASSUME TypeInv, CrashActor
    PROVE  TypeInv' /\ SameRequests
<1> DEFINE r(n, c) == IF c <= connects[n] THEN Ended(conn[n][c], "closed") ELSE conn[n][c]
<1>1. conn' = [n \in Node |-> [c \in Connection |-> r(n, c)]]
  BY DEF CrashActor
<1>2. ASSUME NEW n \in Node, NEW c \in Connection
      PROVE  r(n, c) \in Record /\ r(n, c).requests = conn[n][c].requests
  <2>1. conn[n][c] \in Record
    BY Parts DEF ConnOK
  <2> QED BY <2>1, EndedTypes
<1>3. ConnOK' /\ SameRequests
  <2> HIDE DEF r
  <2> QED BY <1>1, <1>2 DEF ConnOK, SameRequests
<1>4. /\ UNCHANGED <<typed, printed, connects, reader, inbox, executed>> /\ Fault
      /\ cli' = "prompt" /\ next_port' = 1 /\ accepted' = connects
      /\ api_sockets' = [n \in Node |-> 0] /\ port' = [n \in Node |-> "listening"]
  BY DEF CrashActor, servers
<1>5. CliOK'
  BY <1>4, Parts, Constants DEF CliOK
<1>6. PortsOK'
  BY <1>4, Parts, Constants DEF PortsOK, PortOK
<1>7. ServersOK'
  BY <1>4, Parts DEF ServersOK
<1> QED BY <1>3, <1>4, <1>5, <1>6, <1>7, FaultTypes, Parts, Framed

LEMMA NextTypes ==
    ASSUME TypeInv, [Next]_vars
    PROVE  TypeInv'
<1>1. ASSUME NEW n \in Node, PortTask(n) \/ Server(n) \/ Cut(n)
                             \/ \E how \in {"closed", "reset"} : Crash(n, how)
      PROVE  TypeInv'
  BY <1>1, PortTaskTypes, BootTypes, ReadRequestTypes, ReaderEndsTypes, ExecuteTypes,
     BrokenTypes DEF Server
<1>2. ASSUME Cli \/ TypeBadPort \/ \E p \in Node \union {NoPort} : Type(p) PROVE TypeInv'
  BY <1>2, CliTypes, WriteTypes DEF Cli
<1>3. CASE UNCHANGED vars
  <2>1. UNCHANGED <<typed, actor, conn, connects, reader, inbox, executed, faults>>
    BY <1>3 DEF vars, servers
  <2>2. CliOK' /\ PortsOK' /\ ServersOK' /\ connects' = connects /\ printed' = printed
    BY <2>1, Parts DEF CliOK, PortsOK, PortOK, ServersOK, actor
  <2> QED BY <2>1, <2>2, Parts, SameConn, Framed
<1> QED BY <1>1, <1>2, <1>3, CrashActorTypes DEF Next

\* Every variable keeps its type (network_actor's network.rs:18-103,
\* kv_store/src/network.rs:80-114).
THEOREM TypeCorrect == Spec => []TypeOK
<1>1. Init => TypeInv
  BY InitParts
<1>2. TypeInv /\ [Next]_vars => TypeInv'
  BY NextTypes
<1>3. TypeInv => TypeOK
  BY DEF TypeInv
<1> QED BY <1>1, <1>2, <1>3, PTL DEF Spec

-----------------------------------------------------------------------------
(***************************************************************************)
(* Queues in order.                                                        *)
(***************************************************************************)
\* What a queue contains after a command is put in or taken out.
LEMMA QueueContent ==
    ASSUME NEW q \in Seq(Numbers)
    PROVE  /\ Content(q) \subseteq Numbers
           /\ \A x \in Numbers : Content(Append(q, x)) = Content(q) \union {x}
           /\ q # << >> => /\ Head(q) \in Content(q)
                           /\ Content(q) = Content(Tail(q)) \union {Head(q)}
<1>1. Len(q) \in Nat /\ DOMAIN q = 1 .. Len(q) /\ \A i \in 1 .. Len(q) : q[i] \in Numbers
  BY LenProperties
<1>2. ASSUME NEW x \in Numbers PROVE Content(Append(q, x)) = Content(q) \union {x}
  <2>1. /\ DOMAIN Append(q, x) = 1 .. Len(q) + 1 /\ Append(q, x)[Len(q) + 1] = x
        /\ \A i \in 1 .. Len(q) : Append(q, x)[i] = q[i]
    BY <1>1, AppendProperties, LenProperties
  <2> DEFINE s == Append(q, x)
  <2> HIDE DEF s
  <2> QED BY <1>1, <2>1 DEF Content, s
<1>3. ASSUME q # << >>
      PROVE  Head(q) \in Content(q) /\ Content(q) = Content(Tail(q)) \union {Head(q)}
  <2> DEFINE t == Tail(q)
  <2>1. /\ t \in Seq(Numbers) /\ Len(t) = Len(q) - 1 /\ Len(q) > 0 /\ DOMAIN t = 1 .. Len(q) - 1
        /\ \A i \in 1 .. Len(q) - 1 : t[i] = q[i + 1]
    <3>1. Len(q) > 0
      BY <1>3, EmptySeq
    <3> QED BY <1>1, <1>3, <3>1, HeadTailProperties, LenProperties
  <2>2. Head(q) = q[1] /\ 1 \in DOMAIN q
    BY <1>1, <1>3, <2>1
  <2> HIDE DEF t
  <2>3. Content(t) \subseteq Content(q)
    <3> SUFFICES ASSUME NEW i \in 1 .. Len(q) - 1 PROVE t[i] \in Content(q)
      BY <2>1 DEF Content
    <3>1. i + 1 \in DOMAIN q /\ t[i] = q[i + 1]
      BY <1>1, <2>1
    <3> QED BY <3>1 DEF Content
  <2>4. ASSUME NEW i \in 1 .. Len(q), i # 1 PROVE q[i] \in Content(t)
    <3>1. i - 1 \in DOMAIN t /\ t[i - 1] = q[i]
      BY <1>1, <2>1, <2>4
    <3> QED BY <3>1 DEF Content
  <2>5. Content(q) \subseteq Content(t) \union {q[1]}
    BY <1>1, <2>4 DEF Content
  <2>6. Head(q) \in Content(q)
    BY <2>2 DEF Content
  <2> QED BY <2>2, <2>3, <2>5, <2>6 DEF t
<1>4. Content(q) \subseteq Numbers
  BY <1>1 DEF Content
<1> QED BY <1>2, <1>3, <1>4

\* Increasing queues stay increasing.
LEMMA QueueIncreasing ==
    ASSUME NEW q \in Seq(Numbers), Increasing(q)
    PROVE  /\ \A x \in Numbers : (\A y \in Content(q) : y < x) => Increasing(Append(q, x))
           /\ q # << >> => Increasing(Tail(q)) /\ \A y \in Content(Tail(q)) : Head(q) < y
<1>1. Len(q) \in Nat /\ DOMAIN q = 1 .. Len(q)
  BY LenProperties
<1>2. ASSUME NEW x \in Numbers, \A y \in Content(q) : y < x
      PROVE  Increasing(Append(q, x))
  <2> DEFINE s == Append(q, x)
  <2>1. /\ DOMAIN s = 1 .. Len(q) + 1 /\ s[Len(q) + 1] = x
        /\ \A i \in 1 .. Len(q) : s[i] = q[i]
    BY <1>1, AppendProperties, LenProperties
  <2>2. \A i \in 1 .. Len(q) : q[i] < x
    BY <1>1, <1>2 DEF Content
  <2> HIDE DEF s
  <2>3. ASSUME NEW i \in DOMAIN s, NEW j \in DOMAIN s, i < j PROVE s[i] < s[j]
    <3>1. i \in 1 .. Len(q)
      BY <1>1, <2>1, <2>3
    <3>2. CASE j = Len(q) + 1
      BY <2>1, <2>2, <3>1, <3>2
    <3>3. CASE j # Len(q) + 1
      <4>1. j \in 1 .. Len(q)
        BY <1>1, <2>1, <3>3
      <4> QED BY <1>1, <2>1, <2>3, <3>1, <4>1 DEF Increasing
    <3> QED BY <3>2, <3>3
  <2> QED BY <2>3 DEF Increasing, s
<1>3. ASSUME q # << >>
      PROVE  Increasing(Tail(q)) /\ \A y \in Content(Tail(q)) : Head(q) < y
  <2> DEFINE t == Tail(q)
  <2>1. /\ t \in Seq(Numbers) /\ Len(t) = Len(q) - 1 /\ Len(q) > 0 /\ DOMAIN t = 1 .. Len(q) - 1
        /\ \A i \in 1 .. Len(q) - 1 : t[i] = q[i + 1]
    <3>1. Len(q) > 0
      BY <1>3, EmptySeq
    <3> QED BY <1>1, <1>3, <3>1, HeadTailProperties, LenProperties
  <2>2. Head(q) = q[1] /\ 1 \in DOMAIN q
    BY <1>1, <1>3, <2>1
  <2> HIDE DEF t
  <2>3. ASSUME NEW i \in DOMAIN t, NEW j \in DOMAIN t, i < j PROVE t[i] < t[j]
    <3>1. /\ i + 1 \in DOMAIN q /\ j + 1 \in DOMAIN q /\ i + 1 < j + 1
          /\ t[i] = q[i + 1] /\ t[j] = q[j + 1]
      BY <1>1, <2>1, <2>3
    <3> QED BY <3>1 DEF Increasing
  <2>4. ASSUME NEW i \in DOMAIN t PROVE q[1] < t[i]
    <3>1. i + 1 \in DOMAIN q /\ 1 < i + 1 /\ t[i] = q[i + 1]
      BY <1>1, <2>1, <2>4
    <3> QED BY <2>2, <3>1 DEF Increasing
  <2> QED BY <2>2, <2>3, <2>4 DEF Increasing, Content, t
<1> QED BY <1>2, <1>3

\* The first command of a queue moves to the end of the one before it.
LEMMA Moved ==
    ASSUME NEW s \in Seq(Numbers), NEW t \in Seq(Numbers), t # << >>,
           Increasing(s), Increasing(t), Before(s, t)
    PROVE  LET u == Append(s, Head(t))
           IN  /\ Increasing(u) /\ Increasing(Tail(t)) /\ Before(u, Tail(t))
               /\ Content(u) = Content(s) \union {Head(t)}
               /\ Content(t) = Content(Tail(t)) \union {Head(t)}
<1> DEFINE u == Append(s, Head(t))
<1>1. Head(t) \in Content(t) /\ Content(t) = Content(Tail(t)) \union {Head(t)}
      /\ Head(t) \in Numbers
  BY QueueContent, QueueTypes
<1>2. Content(u) = Content(s) \union {Head(t)}
  BY <1>1, QueueContent
<1>3. Increasing(Tail(t)) /\ \A y \in Content(Tail(t)) : Head(t) < y
  BY QueueIncreasing
<1>4. Increasing(u)
  <2>1. \A y \in Content(s) : y < Head(t)
    BY <1>1 DEF Before
  <2> QED BY <1>1, <2>1, QueueIncreasing
<1> HIDE DEF u
<1>5. Before(u, Tail(t))
  BY <1>1, <1>2, <1>3 DEF Before
<1> QED BY <1>1, <1>2, <1>3, <1>4, <1>5 DEF u

-----------------------------------------------------------------------------
(***************************************************************************)
(* The commands on their way to each server.                               *)
(***************************************************************************)
\* Commands only leave the servers' queues, or move on to the next one.
LEMMA FlowKept ==
    ASSUME FlowInv, UNCHANGED typed, cli' = "routing" => cli = "routing",
           \A n \in Node : /\ InOrder(executed'[n], inbox'[n], Requests(n)')
                           /\ Taken(n)' \subseteq Taken(n)
    PROVE  FlowInv'
<1> SUFFICES ASSUME NEW n \in Node, NEW k \in Taken(n)'
             PROVE  /\ k \in 1 .. Len(typed) /\ typed[k] \in {NoPort, n}
                    /\ cli' = "routing" => k # Current
                    /\ \A m \in Node \ {n} : k \notin Taken(m)'
  BY DEF FlowInv, Current
<1> QED BY DEF FlowInv

\* With the same requests in every connection, and the same connections.
LEMMA RequestsKept ==
    ASSUME SameRequests, TypeInv, NEW n \in Node, connects'[n] = connects[n]
    PROVE  Requests(n)' = Requests(n)
<1>1. connects[n] # 0 => conn'[n][connects[n]].requests = conn[n][connects[n]].requests
  BY OwnConnection DEF SameRequests
<1> QED BY <1>1 DEF Requests, Own

\* Nothing that holds a command changes.
LEMMA StillFlow ==
    ASSUME TypeInv, FlowInv, SameRequests, UNCHANGED <<typed, connects, inbox, executed>>,
           cli' = "routing" => cli = "routing"
    PROVE  FlowInv'
<1>1. ASSUME NEW n \in Node
      PROVE  InOrder(executed'[n], inbox'[n], Requests(n)') /\ Taken(n)' \subseteq Taken(n)
  <2>1. Requests(n)' = Requests(n)
    BY RequestsKept
  <2> QED BY <2>1 DEF FlowInv, Taken
<1> QED BY <1>1, FlowKept

LEMMA FlowTypes ==
    ASSUME TypeInv, NEW n \in Node
    PROVE  executed[n] \in Seq(Numbers) /\ inbox[n] \in Seq(Numbers) /\ Requests(n) \in Seq(Numbers)
<1>1. Requests(n) \in Seq(Numbers)
  <2>1. << >> \in Seq(Numbers)
    OBVIOUS
  <2>2. connects[n] # 0 => Own(n) \in Record
    BY OwnConnection
  <2>3. connects[n] # 0 => Own(n).requests \in Seq(Numbers)
    BY <2>2, RecordFields
  <2> QED BY <2>1, <2>3 DEF Requests
<1> QED BY <1>1, Parts DEF ServersOK

\* Only server n's queues change, and lose commands at most.
LEMMA OneFlow ==
    ASSUME TypeInv, FlowInv, NEW n \in Node, UNCHANGED typed, cli' = "routing" => cli = "routing",
           \A m \in Node \ {n} : /\ executed'[m] = executed[m] /\ inbox'[m] = inbox[m]
                                 /\ Requests(m)' = Requests(m),
           InOrder(executed'[n], inbox'[n], Requests(n)'),
           Content(executed'[n]) \union Content(inbox'[n]) \union Content(Requests(n)')
               \subseteq Taken(n)
    PROVE  FlowInv'
<1>1. ASSUME NEW m \in Node
      PROVE  InOrder(executed'[m], inbox'[m], Requests(m)') /\ Taken(m)' \subseteq Taken(m)
  <2>1. CASE m = n
    BY <2>1 DEF Taken
  <2>2. CASE m # n
    BY <2>2 DEF FlowInv, Taken
  <2> QED BY <2>1, <2>2
<1> QED BY <1>1, FlowKept

LEMMA NothingBefore ==
    /\ Content(<< >>) = {} /\ Increasing(<< >>)
    /\ \A q : Before(q, << >>) /\ Before(<< >>, q)
BY DEF Content, Increasing, Before

LEMMA BootFlow ==
    ASSUME TypeInv, FlowInv, NEW n \in Node, Boot(n)
    PROVE  FlowInv'
<1>1. SameRequests /\ TypeInv'
  BY BootTypes
<1>2. /\ UNCHANGED <<typed, cli, conn, inbox, executed>>
      /\ connects' = [connects EXCEPT ![n] = @ + 1] /\ connects[n] < MaxConnects
      /\ connects \in [Node -> 0 .. MaxConnects]
  BY Parts DEF Boot, actor, PortsOK
<1>3. \A m \in Node \ {n} : Requests(m)' = Requests(m)
  BY <1>1, <1>2, RequestsKept
<1>4. Requests(n)' = << >>
  <2>1. connects'[n] = connects[n] + 1 /\ connects[n] + 1 \in Connection /\ connects[n] + 1 > connects[n]
    BY <1>2, Constants
  <2>2. conn[n][connects[n] + 1].requests = << >>
    BY <2>1, Parts DEF NoRequestsYet
  <2> QED BY <1>2, <2>1, <2>2 DEF Requests, Own
<1>5. InOrder(executed[n], inbox[n], << >>)
  BY NothingBefore DEF FlowInv, InOrder
<1>6. Content(executed[n]) \union Content(inbox[n]) \union Content(<< >>) \subseteq Taken(n)
  BY NothingBefore DEF Taken
<1> QED BY <1>2, <1>3, <1>4, <1>5, <1>6, OneFlow

LEMMA ReadRequestFlow ==
    ASSUME TypeInv, FlowInv, NEW n \in Node, ReadRequest(n)
    PROVE  FlowInv'
<1> DEFINE a == executed[n]
           b == inbox[n]
           c == Requests(n)
<1>1. /\ UNCHANGED <<typed, cli, connects, executed>>
      /\ connects[n] \in Connection
      /\ \A m \in Node, d \in Connection :
             m # n \/ d # connects[n] => conn'[m][d] = conn[m][d]
  BY ReadRequestTypes DEF ReadRequest, actor
<1>2. connects[n] # 0 /\ c = Own(n).requests
  BY <1>1, Constants DEF Requests
<1>3. /\ c # << >> /\ inbox' = [inbox EXCEPT ![n] = Append(b, Head(c))]
      /\ Requests(n)' = Tail(c)
  BY <1>1, <1>2, ReadRequestTypes DEF Requests, Own
<1>4. a \in Seq(Numbers) /\ b \in Seq(Numbers) /\ c \in Seq(Numbers)
      /\ inbox \in [Node -> Seq(Numbers)]
  BY FlowTypes, Parts DEF ServersOK
<1>5. ASSUME NEW m \in Node \ {n}
      PROVE  executed'[m] = executed[m] /\ inbox'[m] = inbox[m] /\ Requests(m)' = Requests(m)
  <2>1. connects[m] # 0 => connects[m] \in Connection
    BY OwnConnection
  <2>2. connects[m] # 0 => conn'[m][connects[m]] = conn[m][connects[m]]
    BY <1>1, <2>1
  <2> QED BY <1>1, <1>3, <1>4, <2>2 DEF Requests, Own
<1>6. inbox'[n] = Append(b, Head(c)) /\ executed'[n] = a
  BY <1>1, <1>3, <1>4
<1>7. InOrder(a, b, c)
  BY DEF FlowInv
<1> HIDE DEF a, b, c
<1>8. /\ Increasing(Append(b, Head(c))) /\ Increasing(Tail(c)) /\ Before(Append(b, Head(c)), Tail(c))
      /\ Content(Append(b, Head(c))) = Content(b) \union {Head(c)}
      /\ Content(c) = Content(Tail(c)) \union {Head(c)}
  BY <1>3, <1>4, <1>7, Moved DEF InOrder
<1>9. InOrder(a, Append(b, Head(c)), Tail(c))
  BY <1>7, <1>8 DEF InOrder, Before
<1>10. Content(a) \union Content(Append(b, Head(c))) \union Content(Tail(c)) \subseteq Taken(n)
  BY <1>8 DEF Taken, a, b, c
<1> QED BY <1>1, <1>3, <1>5, <1>6, <1>9, <1>10, OneFlow

LEMMA ExecuteFlow ==
    ASSUME TypeInv, FlowInv, NEW n \in Node, Execute(n)
    PROVE  FlowInv'
<1> DEFINE a == executed[n]
           b == inbox[n]
           c == Requests(n)
<1>1. /\ UNCHANGED <<typed, cli, connects>> /\ b # << >>
      /\ inbox' = [inbox EXCEPT ![n] = Tail(b)]
      /\ executed' = [executed EXCEPT ![n] = Append(a, Head(b))]
  BY DEF Execute, Rest, actor
<1>2. a \in Seq(Numbers) /\ b \in Seq(Numbers) /\ c \in Seq(Numbers)
      /\ inbox \in [Node -> Seq(Numbers)] /\ executed \in [Node -> Seq(Numbers)]
  BY FlowTypes, Parts DEF ServersOK
<1>3. \A m \in Node : Requests(m)' = Requests(m)
  BY <1>1, ExecuteTypes, RequestsKept
<1>4. /\ \A m \in Node \ {n} : executed'[m] = executed[m] /\ inbox'[m] = inbox[m]
      /\ inbox'[n] = Tail(b) /\ executed'[n] = Append(a, Head(b))
  BY <1>1, <1>2
<1>5. InOrder(a, b, c)
  BY DEF FlowInv
<1>6. Requests(n)' = c
  BY <1>3
<1> HIDE DEF a, b, c
<1>7. /\ Increasing(Append(a, Head(b))) /\ Increasing(Tail(b)) /\ Before(Append(a, Head(b)), Tail(b))
      /\ Content(Append(a, Head(b))) = Content(a) \union {Head(b)}
      /\ Content(b) = Content(Tail(b)) \union {Head(b)}
  BY <1>1, <1>2, <1>5, Moved DEF InOrder
<1>8. InOrder(Append(a, Head(b)), Tail(b), c)
  BY <1>5, <1>7 DEF InOrder, Before
<1>9. Content(Append(a, Head(b))) \union Content(Tail(b)) \union Content(c) \subseteq Taken(n)
  BY <1>7 DEF Taken, a, b, c
<1> QED BY <1>1, <1>3, <1>4, <1>6, <1>8, <1>9, OneFlow

\* A crash loses what the server had received and not executed.
LEMMA CrashFlow ==
    ASSUME TypeInv, FlowInv, NEW n \in Node, NEW how \in {"closed", "reset"}, Crash(n, how)
    PROVE  FlowInv'
<1>1. /\ UNCHANGED <<typed, cli, connects, executed>> /\ inbox' = [inbox EXCEPT ![n] = << >>]
      /\ inbox \in [Node -> Seq(Numbers)]
  BY Parts DEF Crash, actor, ServersOK
<1>2. \A m \in Node : Requests(m)' = Requests(m)
  BY <1>1, BrokenTypes, RequestsKept
<1>3. inbox'[n] = << >> /\ \A m \in Node \ {n} : inbox'[m] = inbox[m]
  BY <1>1
<1>4. InOrder(executed[n], << >>, Requests(n))
  BY NothingBefore DEF FlowInv, InOrder
<1>5. Content(executed[n]) \union Content(<< >>) \union Content(Requests(n)) \subseteq Taken(n)
  BY NothingBefore DEF Taken
<1> QED BY <1>1, <1>2, <1>3, <1>4, <1>5, OneFlow

\* The command that is being routed goes to the end of one server's queues.
LEMMA WriteFlow ==
    ASSUME CommandInv, Write
    PROVE  FlowInv'
<1>0. PICK n \in Node : n = next_port
  BY Parts DEF CommandInv, TypeInv, CliOK
<1> DEFINE d == api_sockets[n]
           c == Requests(n)
<1>1. /\ TypeInv /\ FlowInv /\ cli = "routing" /\ typed[Current] \in {NoPort, n}
      /\ UNCHANGED <<typed, inbox, executed, connects>> /\ cli' = "prompt"
  BY <1>0 DEF CommandInv, TypeInv, RoutingInv, Write, AfterWrite, servers
<1>2. typed # << >> /\ typed \in Seq(Node \union {NoPort}) /\ Len(typed) <= MaxCommands
  BY <1>1, Parts DEF CliOK
<1>3. Current \in Numbers /\ Current \in 1 .. Len(typed) /\ Current = Len(typed)
  BY <1>2, LenProperties, Constants DEF Current, Numbers
<1>4. /\ d \in Connection /\ d <= connects[n]
      /\ \/ UNCHANGED conn
         \/ /\ conn'[n][d].requests = Append(conn[n][d].requests, Current)
            /\ \A m \in Node, e \in Connection :
                   m # n \/ e # d => conn'[m][e] = conn[m][e]
  BY <1>0, <1>1, WriteTypes
<1> HIDE DEF d
<1>5. ASSUME NEW m \in Node, m # n PROVE Requests(m)' = Requests(m)
  <2>1. connects[m] # 0 => connects[m] \in Connection
    BY <1>1, OwnConnection
  <2>2. connects[m] # 0 => conn'[m][connects[m]] = conn[m][connects[m]]
    BY <1>4, <1>5, <2>1
  <2> QED BY <1>1, <2>2 DEF Requests, Own
<1>6. Requests(n)' = c \/ Requests(n)' = Append(c, Current)
  <2>1. connects[n] # 0 => connects[n] \in Connection
    BY <1>1, <1>2, OwnConnection
  <2>2. CASE d = connects[n]
    <3>1. connects[n] # 0
      BY <1>4, <2>2, Constants
    <3> QED BY <1>1, <1>4, <2>2, <3>1 DEF Requests, Own
  <2>3. CASE d # connects[n]
    <3>1. connects[n] # 0 => conn'[n][connects[n]] = conn[n][connects[n]]
      BY <1>2, <1>4, <2>1, <2>3
    <3> QED BY <1>1, <3>1 DEF Requests, Own
  <2> QED BY <2>2, <2>3
<1>7. CASE \A m \in Node : Requests(m)' = Requests(m)
  BY <1>1, <1>7, FlowKept DEF FlowInv, Taken
<1>8. CASE Requests(n)' = Append(c, Current)
  <2>1. executed[n] \in Seq(Numbers) /\ inbox[n] \in Seq(Numbers) /\ c \in Seq(Numbers)
    BY <1>1, <1>2, FlowTypes
  <2>2. ASSUME NEW m \in Node, NEW k \in Taken(m)
        PROVE  /\ k \in 1 .. Len(typed) /\ k # Current /\ typed[k] \in {NoPort, m} /\ k < Current
               /\ \A o \in Node \ {m} : k \notin Taken(o)
    BY <1>1, <1>2, <1>3, LenProperties DEF FlowInv
  <2>3. Current \notin UNION {Taken(m) : m \in Node}
    BY <2>2
  <2>4. InOrder(executed[n], inbox[n], c) /\ Content(c) \subseteq Taken(n)
        /\ Content(executed[n]) \subseteq Taken(n) /\ Content(inbox[n]) \subseteq Taken(n)
    BY <1>1, <1>2 DEF FlowInv, Taken
  <2> HIDE DEF c
  <2>5. Content(Append(c, Current)) = Content(c) \union {Current} /\ Increasing(Append(c, Current))
    <3>1. Increasing(c) /\ \A y \in Content(c) : y < Current
      BY <1>2, <2>2, <2>4 DEF InOrder
    <3> QED BY <1>3, <2>1, <3>1, QueueContent, QueueIncreasing
  <2>6. InOrder(executed[n], inbox[n], Append(c, Current))
    <3>1. Before(executed[n], Append(c, Current)) /\ Before(inbox[n], Append(c, Current))
      BY <1>2, <2>2, <2>4, <2>5 DEF InOrder, Before
    <3> QED BY <2>4, <2>5, <3>1 DEF InOrder
  <2>7. Taken(n)' = Taken(n) \union {Current}
    BY <1>1, <1>8, <2>5 DEF Taken, c
  <2>8. \A m \in Node \ {n} : Taken(m)' = Taken(m)
    BY <1>1, <1>5 DEF Taken
  <2>9. ASSUME NEW m \in Node
        PROVE  InOrder(executed'[m], inbox'[m], Requests(m)')
    <3>1. CASE m = n
      BY <1>1, <1>8, <2>6, <3>1
    <3>2. CASE m # n
      BY <1>1, <1>5, <3>2 DEF FlowInv
    <3> QED BY <3>1, <3>2
  <2>10. ASSUME NEW m \in Node, NEW k \in Taken(m)'
         PROVE  k \in 1 .. Len(typed) /\ typed[k] \in {NoPort, m}
                /\ \A o \in Node \ {m} : k \notin Taken(o)'
    <3>1. CASE k = Current
      <4>1. m = n
        BY <2>3, <2>8, <3>1
      <4>2. \A o \in Node \ {m} : k \notin Taken(o)'
        BY <2>3, <2>8, <3>1, <4>1
      <4> QED BY <1>1, <1>3, <3>1, <4>1, <4>2
    <3>2. CASE k # Current
      <4>1. k \in Taken(m)
        BY <2>7, <2>8, <3>2
      <4>2. \A o \in Node \ {m} : k \notin Taken(o)'
        BY <2>2, <2>7, <2>8, <3>2, <4>1
      <4> QED BY <2>2, <4>1, <4>2
    <3> QED BY <3>1, <3>2
  <2> QED BY <1>1, <2>9, <2>10 DEF FlowInv
<1> QED BY <1>1, <1>5, <1>6, <1>7, <1>8

\* A new command gets a number that no server has seen.
LEMMA TypeFlow ==
    ASSUME TypeInv, FlowInv, NEW p \in Node \union {NoPort}, Type(p)
    PROVE  FlowInv' /\ RoutingInv'
<1>1. /\ typed' = Append(typed, p) /\ UNCHANGED <<conn, connects, inbox, executed>>
      /\ next_port' = IF p = NoPort THEN 1 ELSE p
  BY DEF Type, servers
<1>2. typed \in Seq(Node \union {NoPort})
  BY Parts DEF CliOK
<1>3. /\ Len(typed) \in Nat /\ Len(typed') = Len(typed) + 1 /\ typed'[Len(typed) + 1] = p
      /\ \A k \in 1 .. Len(typed) : typed'[k] = typed[k]
  BY <1>1, <1>2, AppendProperties, LenProperties
<1>4. RoutingInv'
  BY <1>1, <1>3 DEF RoutingInv, Current
<1>5. \A n \in Node : Taken(n)' = Taken(n) /\ Requests(n)' = Requests(n)
  BY <1>1 DEF Taken, Requests, Own
<1>6. ASSUME NEW n \in Node, NEW k \in Taken(n)
      PROVE  /\ k \in 1 .. Len(typed') /\ typed'[k] \in {NoPort, n} /\ k # Len(typed')
             /\ \A m \in Node \ {n} : k \notin Taken(m)
  <2>1. k \in 1 .. Len(typed) /\ typed[k] \in {NoPort, n} /\ \A m \in Node \ {n} : k \notin Taken(m)
    BY DEF FlowInv
  <2> QED BY <1>3, <2>1
<1>7. FlowInv'
  BY <1>1, <1>5, <1>6 DEF FlowInv, Current
<1> QED BY <1>4, <1>7

\* Without a command or with one for a single port, no other port is tried.
LEMMA RoutingKept ==
    ASSUME TypeInv, RoutingInv, [Next]_vars, ~ \E p \in Node \union {NoPort} : Type(p)
    PROVE  RoutingInv' /\ typed' = typed /\ (cli' = "routing" => cli = "routing")
<1>1. CASE UNCHANGED <<typed, cli, next_port>>
  BY <1>1 DEF RoutingInv, Current
<1>2. CASE UNCHANGED typed /\ cli' # "routing"
  BY <1>2 DEF RoutingInv
<1>3. CASE TryNext
  <2>1. UNCHANGED typed /\ cli = "routing"
    BY <1>3 DEF TryNext
  <2>2. CASE LastTry
    BY <1>3, <2>1, <2>2, <1>2 DEF TryNext, NextTry
  <2>3. CASE ~LastTry
    <3>1. typed[Current] = NoPort
      BY <2>3 DEF LastTry
    <3> QED BY <2>1, <3>1 DEF RoutingInv, Current
  <2> QED BY <2>2, <2>3
<1>4. Cli \/ TypeBadPort \/ CrashActor => TryNext \/ (UNCHANGED typed /\ cli' # "routing")
  BY DEF Cli, Write, AfterWrite, WritePanics, TypeBadPort, CrashActor
<1>5. ASSUME NEW n \in Node, PortTask(n) \/ Server(n) \/ Cut(n)
                             \/ \E how \in {"closed", "reset"} : Crash(n, how)
      PROVE  UNCHANGED <<typed, cli, next_port>>
  BY <1>5 DEF PortTask, Accept, Register, ReadResponse, ReadEof, ReadPanics, Server, Boot,
     ReadRequest, ReaderEnds, Execute, Cut, Crash, actor
<1>6. CASE UNCHANGED vars
  BY <1>1, <1>6 DEF vars, actor
<1> QED BY <1>1, <1>2, <1>3, <1>4, <1>5, <1>6 DEF Next

LEMMA NextCommands ==
    ASSUME CommandInv, [Next]_vars
    PROVE  CommandInv'
<1>1. TypeInv /\ TypeInv' /\ FlowInv /\ RoutingInv
  BY NextTypes DEF CommandInv, TypeInv
<1>2. ASSUME NEW p \in Node \union {NoPort}, Type(p) PROVE FlowInv' /\ RoutingInv'
  BY <1>1, <1>2, TypeFlow
<1>3. ASSUME ~ \E p \in Node \union {NoPort} : Type(p) PROVE FlowInv' /\ RoutingInv'
  <2>1. RoutingInv' /\ typed' = typed /\ (cli' = "routing" => cli = "routing")
    BY <1>1, <1>3, RoutingKept
  <2>2. CASE SameRequests /\ UNCHANGED <<connects, inbox, executed>>
    BY <1>1, <2>1, <2>2, StillFlow
  <2>3. ASSUME TypeBadPort \/ TryNext \/ WritePanics PROVE FlowInv'
    BY <1>1, <2>2, <2>3, CliTypes DEF TypeBadPort, TryNext, WritePanics, servers
  <2>4. ASSUME NEW n \in Node, PortTask(n) PROVE FlowInv'
    <3>1. UNCHANGED servers
      BY <2>4 DEF PortTask, Accept, Register, ReadResponse, ReadEof, ReadPanics
    <3> QED BY <1>1, <2>2, <2>4, <3>1, PortTaskTypes DEF servers
  <2>5. ASSUME NEW n \in Node, Server(n) PROVE FlowInv'
    <3>1. ASSUME ReaderEnds(n) PROVE FlowInv'
      BY <1>1, <2>2, <3>1, ReaderEndsTypes DEF ReaderEnds
    <3> QED BY <1>1, <2>5, <3>1, BootFlow, ReadRequestFlow, ExecuteFlow DEF Server
  <2>6. ASSUME NEW n \in Node, Cut(n) PROVE FlowInv'
    BY <1>1, <2>2, <2>6, BrokenTypes DEF Cut, servers
  <2>7. ASSUME NEW n \in Node, NEW how \in {"closed", "reset"}, Crash(n, how) PROVE FlowInv'
    BY <1>1, <2>7, CrashFlow
  <2>8. ASSUME CrashActor PROVE FlowInv'
    BY <1>1, <2>2, <2>8, CrashActorTypes DEF CrashActor, servers
  <2>9. CASE UNCHANGED vars
    <3>1. SameRequests
      BY <2>9, SameConn DEF vars
    <3> QED BY <2>2, <2>9, <3>1 DEF vars, servers
  <2> QED BY <1>3, <2>1, <2>3, <2>4, <2>5, <2>6, <2>7, <2>8, <2>9, WriteFlow DEF Next, Cli
<1> QED BY <1>1, <1>2, <1>3 DEF CommandInv, TypeInv

LEMMA InitCommands == Init => CommandInv
<1> SUFFICES ASSUME Init PROVE CommandInv
  OBVIOUS
<1>1. TypeInv
  BY InitParts
<1>2. RoutingInv
  BY DEF Init, RoutingInv
<1>3. ASSUME NEW n \in Node
      PROVE  executed[n] = << >> /\ inbox[n] = << >> /\ Requests(n) = << >>
  BY <1>3 DEF Init, Requests
<1>4. FlowInv
  <2>1. ASSUME NEW n \in Node PROVE Taken(n) = {} /\ InOrder(executed[n], inbox[n], Requests(n))
    BY <1>3, NothingBefore DEF Taken, InOrder
  <2> QED BY <2>1 DEF FlowInv
<1> QED BY <1>1, <1>2, <1>4 DEF CommandInv, TypeInv

\* A command is executed by one server at most, and once; one that names a port only by
\* the server of that port; and every server executes commands in the order they were
\* typed, whatever connections break (network_actor's network.rs:67-103,
\* kv_store/src/network.rs:80-114).
THEOREM CommandsAtMostOnce == Spec => []CommandsRoutedOnce
<1>1. Init => CommandInv
  BY InitCommands
<1>2. CommandInv /\ [Next]_vars => CommandInv'
  BY NextCommands
<1>3. CommandInv => CommandsRoutedOnce
  <2> SUFFICES ASSUME CommandInv PROVE CommandsRoutedOnce
    OBVIOUS
  <2>1. ASSUME NEW n \in Node
        PROVE  \A i, j \in DOMAIN executed[n] : i < j => executed[n][i] < executed[n][j]
    BY DEF CommandInv, FlowInv, InOrder, Increasing
  <2>2. ASSUME NEW n \in Node, NEW i \in DOMAIN executed[n]
        PROVE  executed[n][i] \in Taken(n) /\ typed[executed[n][i]] \in {NoPort, n}
    <3>1. executed[n][i] \in Taken(n)
      BY DEF Taken, Content
    <3> QED BY <3>1 DEF CommandInv, FlowInv
  <2>3. ASSUME NEW n \in Node, NEW i \in DOMAIN executed[n], NEW m \in Node,
               NEW j \in DOMAIN executed[m], executed[n][i] = executed[m][j]
        PROVE  n = m /\ i = j
    <3>1. n = m
      BY <2>2, <2>3 DEF CommandInv, FlowInv
    <3>2. /\ executed[n] \in Seq(Numbers)
          /\ i \in Nat /\ j \in Nat /\ executed[n][i] \in Nat
      <4>1. executed[n] \in Seq(Numbers)
        BY FlowTypes DEF CommandInv, TypeInv
      <4> DEFINE e == executed[n]
      <4>2. i \in DOMAIN e /\ j \in DOMAIN e
        BY <3>1
      <4> HIDE DEF e
      <4>3. e \in Seq(Numbers) => DOMAIN e = 1 .. Len(e) /\ \A x \in DOMAIN e : e[x] \in Nat
        BY LenProperties, ElementOfSeq, Constants DEF Numbers
      <4> QED BY <4>1, <4>2, <4>3 DEF e
    <3>3. ~ (i < j) /\ ~ (j < i)
      BY <2>1, <2>3, <3>1, <3>2
    <3> QED BY <3>1, <3>2, <3>3
  <2> QED BY <2>1, <2>2, <2>3 DEF CommandsRoutedOnce
<1> QED BY <1>1, <1>2, <1>3, PTL DEF Spec
=============================================================================
