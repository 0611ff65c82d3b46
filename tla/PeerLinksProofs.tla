-------------------------- MODULE PeerLinksProofs --------------------------
(***************************************************************************)
(* Proofs about the connections between the servers, for every set of      *)
(* nodes, all sizes of the buffers and all bounds.                         *)
(***************************************************************************)
EXTENDS PeerLinks, SequenceTheorems, FiniteSetTheorems, TLAPS

-----------------------------------------------------------------------------
(***************************************************************************)
(* The inductive invariant.  A message goes from the connection it was     *)
(* written to through the central channel and the central actor into the   *)
(* broadcast channel of one connection of its receiver, to the receiver's  *)
(* end of it, into the inbox.  Every one of these buffers keeps the order  *)
(* of the messages of a connection, and what is further along is earlier.  *)
(***************************************************************************)
\* A torn line is the last thing that is received from a connection.
Earlier(m, o) ==
    m.port = o.port /\ m.conn = o.conn =>
        ~IsFragment(m) /\ (IsFragment(o) \/ m.num < o.num)

Before(A, B) == \A m \in A, o \in B : Earlier(m, o)

Sorted(s) == \A i, j \in DOMAIN s : i < j => Earlier(s[i], s[j])

\* On the way to the central actor, before and behind its channel.
Rising == UNION {Content(conn[p][c].up) : p \in Port, c \in Connection}
Waiting == Rising \union Content(queue) \union Content(holding)

\* On the way to the server of p, in connection c.
Falling(p, c) == Content(conn[p][c].channel) \union Content(conn[p][c].down)

Everything ==
    Waiting \union (UNION {Falling(p, c) : p \in Port, c \in Connection})
            \union (UNION {Content(inbox[n]) : n \in Node})

Fragments == {m \in Everything : IsFragment(m)}

RisingInv(p, c) ==
    /\ Sorted(conn[p][c].up)
    /\ \A m \in Content(conn[p][c].up) : m.port = p /\ m.conn = c /\ ~IsFragment(m)

QueueInv ==
    /\ Sorted(queue)
    /\ Before(Content(holding), Content(queue))
    /\ Before(Content(holding) \union Content(queue), Rising)

FallingInv(p, c) ==
    /\ Sorted(conn[p][c].channel) /\ Sorted(conn[p][c].down)
    /\ Before(Content(conn[p][c].down), Content(conn[p][c].channel))
    /\ Before(Falling(p, c), Waiting)
    /\ \A m \in Falling(p, c) : m.port = MappedPort(p)

InboxInv(n) ==
    /\ Sorted(inbox[n])
    /\ \A m \in Content(inbox[n]) : m.port[2] = n /\ ~IsFragment(m)
    /\ Before(Content(inbox[n]), Waiting)
    /\ \A p \in Port : p[1] = n => Before(Content(inbox[n]), Arriving(p))

OrderInv ==
    /\ \A p \in Port, c \in Connection : RisingInv(p, c) /\ FallingInv(p, c)
    /\ QueueInv
    /\ \A n \in Node : InboxInv(n)
    /\ \A m \in Everything : m.num <= sent[m.port]

\* Nothing more is received from this connection.
Dead(r) == r.broken /\ r.up = << >> /\ r.receiver = "done"

\* Every fragment has a connection of its own, and cost one of the torn lines.
FragmentInv ==
    /\ \A m \in Fragments : Dead(conn[m.port][m.conn])
    /\ IsFiniteSet(Fragments) /\ Cardinality(Fragments) <= torn

-----------------------------------------------------------------------------
(***************************************************************************)
(* The types, and what the tasks of a port know of its connections.        *)
(***************************************************************************)
BuffersOK ==
    /\ sent \in [Port -> 0 .. MaxMessages]
    /\ inbox \in [Node -> Seq(Message)] /\ handled \in [Port -> Seq(Message)]
    /\ queue \in Seq(Message) /\ Len(queue) <= QueueSize
    /\ holding \in Seq(Message) /\ Len(holding) <= 1
    /\ faults \in 0 .. MaxFaults /\ torn \in 0 .. MaxTorn

Task == {"connecting", "reading", "panicked"}
Stage == {"listening", "accepted", "serving"}

\* A port with b connections, of which a are accepted or refused.
PortOK(t, s, st, oc, a, b) ==
    /\ s \in {0, b} /\ a \in 0 .. b
    /\ t # "connecting" => b > 0
    /\ st # "listening" => a > 0
    /\ IF st = "serving" THEN oc = {a} ELSE oc \subseteq {0}

PortsOK ==
    /\ connects \in [Port -> 0 .. MaxConnects] /\ accepted \in [Port -> 0 .. MaxConnects]
    /\ sockets \in [Port -> 0 .. MaxConnects]
    /\ task \in [Port -> Task] /\ stage \in [Port -> Stage]
    /\ out_channels \in [Port -> SUBSET (0 .. MaxConnects)]
    /\ \A p \in Port :
           PortOK(task[p], sockets[p], stage[p], out_channels[p], accepted[p], connects[p])

Record == [up : Seq(Message), down : Seq(Message), broken : BOOLEAN,
           sender : {"none", "spawned", "subscribed", "lagged", "done"},
           channel : Seq(Message), receiver : {"none", "reading", "done"}]

\* A connection buffers no more complete lines than it can.
Fits(r) ==
    /\ Cardinality(Lines(r.up)) <= SocketSize /\ Cardinality(Lines(r.down)) <= SocketSize
    /\ Len(r.channel) <= ChannelSize

ConnOK ==
    /\ conn \in [Port -> [Connection -> Record]]
    /\ \A p \in Port, c \in Connection : Fits(conn[p][c])

UsedInv ==
    \A p \in Port, c \in Connection :
        /\ c > accepted[p] \/ (stage[p] = "accepted" /\ c = accepted[p])
               => conn[p][c].receiver = "none"
        /\ c > connects[p] => conn[p][c] = NoConnection

TypeInv == BuffersOK /\ PortsOK /\ ConnOK /\ UsedInv

LinkInv == TypeInv /\ OrderInv /\ FragmentInv

-----------------------------------------------------------------------------
(***************************************************************************)
(* The constants.                                                          *)
(***************************************************************************)
LEMMA Constants ==
    /\ ChannelSize \in Nat \ {0} /\ QueueSize \in Nat \ {0} /\ SocketSize \in Nat \ {0}
    /\ MaxMessages \in Nat /\ MaxConnects \in Nat /\ MaxFaults \in Nat /\ MaxTorn \in Nat
    /\ Talkers \subseteq Port /\ Connection = 1 .. MaxConnects
BY SizesAssumption, BoundsAssumption DEF Connection

LEMMA Mapped ==
    ASSUME NEW p \in Port
    PROVE  /\ MappedPort(p) \in Port /\ MappedPort(MappedPort(p)) = p
           /\ MappedPort(p)[2] = p[1] /\ p[1] \in Node
           /\ \A q \in Port : MappedPort(q) = MappedPort(p) => q = p
BY DEF Port, MappedPort

LEMMA Messages ==
    /\ \A m \in Message : m.port \in Port /\ m.conn \in Connection /\ m.num \in Nat
    /\ \A p \in Port, c \in Connection :
           /\ Fragment(p, c) \in Message /\ IsFragment(Fragment(p, c))
           /\ Fragment(p, c).port = p /\ Fragment(p, c).conn = c /\ Fragment(p, c).num = 0
BY DEF Message, Fragment, IsFragment

-----------------------------------------------------------------------------
(***************************************************************************)
(* Queues of messages.                                                     *)
(***************************************************************************)
LEMMA Nothing ==
    /\ << >> \in Seq(Message) /\ Len(<< >>) = 0 /\ Content(<< >>) = {} /\ Sorted(<< >>)
    /\ Cardinality(Lines(<< >>)) = 0
<1>1. DOMAIN << >> = {}
  OBVIOUS
<1>2. Lines(<< >>) = {}
  BY <1>1 DEF Lines
<1>3. Cardinality(Lines(<< >>)) = 0
  BY <1>2, FS_EmptySet
<1> QED BY <1>1, <1>3 DEF Content, Sorted

\* What a queue contains after a message is put in.
LEMMA PutIn ==
    ASSUME NEW q \in Seq(Message), NEW x \in Message
    PROVE  LET s == Append(q, x)
           IN  /\ s \in Seq(Message) /\ Len(s) = Len(q) + 1 /\ Len(q) \in Nat
               /\ Content(s) = Content(q) \union {x}
               /\ Sorted(q) /\ Before(Content(q), {x}) => Sorted(s)
               /\ DOMAIN s = DOMAIN q \union {Len(q) + 1}
               /\ DOMAIN q = 1 .. Len(q) /\ \A i \in DOMAIN q : s[i] = q[i]
<1> DEFINE s == Append(q, x)
<1>1. Len(q) \in Nat /\ DOMAIN q = 1 .. Len(q) /\ \A i \in 1 .. Len(q) : q[i] \in Message
  BY LenProperties
<1>2. /\ s \in Seq(Message) /\ Len(s) = Len(q) + 1 /\ DOMAIN s = 1 .. Len(q) + 1
      /\ s[Len(q) + 1] = x /\ \A i \in 1 .. Len(q) : s[i] = q[i]
  BY <1>1, AppendProperties, LenProperties
<1> HIDE DEF s
<1>3. Content(s) = Content(q) \union {x}
  BY <1>1, <1>2 DEF Content
<1>4. ASSUME Sorted(q), Before(Content(q), {x}) PROVE Sorted(s)
  <2>1. \A i \in 1 .. Len(q) : Earlier(q[i], x)
    BY <1>1, <1>4 DEF Before, Content
  <2>2. ASSUME NEW i \in DOMAIN s, NEW j \in DOMAIN s, i < j PROVE Earlier(s[i], s[j])
    <3>1. i \in 1 .. Len(q)
      BY <1>1, <1>2, <2>2
    <3>2. CASE j = Len(q) + 1
      BY <1>2, <2>1, <3>1, <3>2
    <3>3. CASE j # Len(q) + 1
      <4>1. j \in 1 .. Len(q)
        BY <1>1, <1>2, <3>3
      <4> QED BY <1>1, <1>2, <1>4, <2>2, <3>1, <4>1 DEF Sorted
    <3> QED BY <3>2, <3>3
  <2> QED BY <2>2 DEF Sorted
<1>5. DOMAIN s = DOMAIN q \union {Len(q) + 1} /\ \A i \in DOMAIN q : s[i] = q[i]
  BY <1>1, <1>2
<1> QED BY <1>1, <1>2, <1>3, <1>4, <1>5 DEF s

\* What a queue contains after its first message is taken out.
LEMMA TakenOut ==
    ASSUME NEW q \in Seq(Message), q # << >>
    PROVE  LET t == Tail(q)
               m == Head(q)
           IN  /\ t \in Seq(Message) /\ Len(t) = Len(q) - 1 /\ Len(q) \in Nat \ {0}
               /\ m \in Message /\ m = q[1]
               /\ Content(q) = Content(t) \union {m}
               /\ Sorted(q) => Sorted(t) /\ Before({m}, Content(t))
               /\ DOMAIN t = 1 .. Len(q) - 1 /\ \A i \in DOMAIN t : t[i] = q[i + 1]
               /\ t = SubSeq(q, 1, 0) \o SubSeq(q, 2, Len(q))
<1> DEFINE t == Tail(q)
<1>1. /\ Len(q) \in Nat \ {0} /\ DOMAIN q = 1 .. Len(q)
      /\ \A i \in 1 .. Len(q) : q[i] \in Message
  BY LenProperties, EmptySeq
<1>2. /\ t \in Seq(Message) /\ Len(t) = Len(q) - 1 /\ DOMAIN t = 1 .. Len(q) - 1
      /\ \A i \in DOMAIN t : t[i] = q[i + 1]
  BY <1>1, HeadTailProperties, LenProperties
<1>3. Head(q) = q[1] /\ Head(q) \in Message
  BY <1>1
<1>4. t = SubSeq(q, 1, 0) \o SubSeq(q, 2, Len(q))
  <2>1. t = SubSeq(q, 2, Len(q)) /\ SubSeq(q, 1, 0) = << >>
    BY TailIsSubSeq, SubSeqEmpty
  <2> QED BY <1>2, <2>1, ConcatEmptySeq
<1> HIDE DEF t
<1>5. Content(t) \subseteq Content(q)
  <2> SUFFICES ASSUME NEW i \in DOMAIN t PROVE t[i] \in Content(q)
    BY DEF Content
  <2>1. i + 1 \in DOMAIN q /\ t[i] = q[i + 1]
    BY <1>1, <1>2
  <2> QED BY <2>1 DEF Content
<1>6. ASSUME NEW i \in 1 .. Len(q), i # 1 PROVE q[i] \in Content(t)
  <2>1. i - 1 \in DOMAIN t /\ t[i - 1] = q[i]
    BY <1>1, <1>2, <1>6
  <2> QED BY <2>1 DEF Content
<1>7. Content(q) = Content(t) \union {q[1]}
  <2>1. 1 \in DOMAIN q
    BY <1>1
  <2>2. q[1] \in Content(q)
    BY <2>1 DEF Content
  <2>3. Content(q) \subseteq Content(t) \union {q[1]}
    BY <1>1, <1>6 DEF Content
  <2> QED BY <1>5, <2>2, <2>3
<1>8. ASSUME Sorted(q) PROVE Sorted(t) /\ Before({q[1]}, Content(t))
  <2>1. ASSUME NEW i \in DOMAIN t, NEW j \in DOMAIN t, i < j PROVE Earlier(t[i], t[j])
    <3>1. /\ i + 1 \in DOMAIN q /\ j + 1 \in DOMAIN q /\ i + 1 < j + 1
          /\ t[i] = q[i + 1] /\ t[j] = q[j + 1]
      BY <1>1, <1>2, <2>1
    <3> QED BY <1>8, <3>1 DEF Sorted
  <2>2. ASSUME NEW i \in DOMAIN t PROVE Earlier(q[1], t[i])
    <3>1. i + 1 \in DOMAIN q /\ 1 \in DOMAIN q /\ 1 < i + 1 /\ t[i] = q[i + 1]
      BY <1>1, <1>2, <2>2
    <3> QED BY <1>8, <3>1 DEF Sorted
  <2> QED BY <2>1, <2>2 DEF Sorted, Before, Content
<1> QED BY <1>1, <1>2, <1>3, <1>4, <1>7, <1>8 DEF t

\* The lines that a connection counts.
LEMMA LinesFinite ==
    ASSUME NEW q \in Seq(Message)
    PROVE  IsFiniteSet(Lines(q)) /\ Cardinality(Lines(q)) \in Nat /\ Lines(q) \subseteq DOMAIN q
<1>1. Lines(q) \subseteq 1 .. Len(q) /\ Len(q) \in Nat
  BY LenProperties DEF Lines
<1>2. IsFiniteSet(1 .. Len(q))
  BY <1>1, FS_Interval
<1>3. IsFiniteSet(Lines(q))
  BY <1>1, <1>2, FS_Subset
<1> QED BY <1>3, FS_CardinalityType DEF Lines

LEMMA LinesPutIn ==
    ASSUME NEW q \in Seq(Message), NEW x \in Message
    PROVE  Cardinality(Lines(Append(q, x))) <= Cardinality(Lines(q)) + 1
<1> DEFINE s == Append(q, x)
           L == Lines(q) \union {Len(q) + 1}
<1>1. s \in Seq(Message) /\ DOMAIN s = DOMAIN q \union {Len(q) + 1}
      /\ \A i \in DOMAIN q : s[i] = q[i]
  BY PutIn
<1> HIDE DEF s
<1>2. Lines(s) \subseteq L
  BY <1>1 DEF Lines
<1>3. IsFiniteSet(L) /\ Cardinality(L) <= Cardinality(Lines(q)) + 1 /\ Cardinality(L) \in Nat
  <2>1. IsFiniteSet(Lines(q)) /\ Cardinality(Lines(q)) \in Nat
    BY LinesFinite
  <2>2. /\ IsFiniteSet(L)
        /\ Cardinality(L) = IF Len(q) + 1 \in Lines(q) THEN Cardinality(Lines(q))
                                                     ELSE Cardinality(Lines(q)) + 1
    BY <2>1, FS_AddElement
  <2> QED BY <2>1, <2>2
<1>4. Cardinality(Lines(s)) <= Cardinality(L)
  <2> HIDE DEF L
  <2> QED BY <1>2, <1>3, FS_Subset
<1>5. Cardinality(Lines(s)) \in Nat /\ Cardinality(Lines(q)) \in Nat
  BY <1>1, LinesFinite
<1>6. Cardinality(Lines(s)) <= Cardinality(Lines(q)) + 1
  <2> HIDE DEF L
  <2> QED BY <1>3, <1>4, <1>5
<1> QED BY <1>6 DEF s

LEMMA LinesTakenOut ==
    ASSUME NEW q \in Seq(Message), q # << >>
    PROVE  Cardinality(Lines(Tail(q))) <= Cardinality(Lines(q))
<1> DEFINE t == Tail(q)
           f == [i \in Lines(t) |-> i + 1]
<1>1. /\ Len(q) \in Nat \ {0} /\ DOMAIN t = 1 .. Len(q) - 1 /\ \A i \in DOMAIN t : t[i] = q[i + 1]
      /\ DOMAIN q = 1 .. Len(q)
  BY TakenOut, LenProperties
<1> HIDE DEF t
<1>2. ASSUME NEW i \in Lines(t) PROVE i \in Nat /\ i + 1 \in Lines(q)
  <2>1. i \in DOMAIN t /\ ~IsFragment(t[i])
    BY DEF Lines
  <2>2. i + 1 \in DOMAIN q /\ t[i] = q[i + 1] /\ i \in Nat
    BY <1>1, <2>1
  <2> QED BY <2>1, <2>2 DEF Lines
<1>3. f \in Injection(Lines(t), Lines(q))
  BY <1>2 DEF Injection, IsInjective
<1> HIDE DEF f
<1>4. Cardinality(Lines(t)) <= Cardinality(Lines(q))
  BY <1>3, LinesFinite, FS_Injection
<1> QED BY <1>4 DEF t

\* Without fragments, a connection counts everything it holds.
LEMMA LinesWhole ==
    ASSUME NEW q \in Seq(Message), \A m \in Content(q) : ~IsFragment(m)
    PROVE  Cardinality(Lines(q)) = Len(q)
<1>1. Lines(q) = 1 .. Len(q) /\ Len(q) \in Nat
  BY LenProperties DEF Lines, Content
<1> QED BY <1>1, FS_Interval

-----------------------------------------------------------------------------
(***************************************************************************)
(* Connections.                                                            *)
(***************************************************************************)
LEMMA Owns ==
    ASSUME TypeInv, NEW p \in Port
    PROVE  /\ connects[p] \in 0 .. MaxConnects /\ accepted[p] \in 0 .. connects[p]
           /\ sockets[p] \in {0, connects[p]} /\ sockets[p] \in 0 .. MaxConnects
           /\ task[p] \in Task /\ stage[p] \in Stage
           /\ PortOK(task[p], sockets[p], stage[p], out_channels[p], accepted[p], connects[p])
           /\ Reads(p) => connects[p] \in Connection
           /\ sockets[p] # 0 => sockets[p] = connects[p] /\ connects[p] \in Connection
           /\ stage[p] # "listening" => accepted[p] \in Connection
           /\ \A c \in Connection : conn[p][c] \in Record /\ Fits(conn[p][c])
<1>1. /\ connects[p] \in 0 .. MaxConnects /\ task[p] \in Task /\ stage[p] \in Stage
      /\ PortOK(task[p], sockets[p], stage[p], out_channels[p], accepted[p], connects[p])
      /\ sockets[p] \in 0 .. MaxConnects
  BY DEF TypeInv, PortsOK
<1>2. \A c \in Connection : conn[p][c] \in Record /\ Fits(conn[p][c])
  BY DEF TypeInv, ConnOK
<1> QED BY <1>1, <1>2, Constants DEF PortOK, Reads

\* A connection whose tasks are spawned has been made.
LEMMA Made ==
    ASSUME TypeInv, NEW p \in Port, NEW c \in Connection,
           conn[p][c].sender # "none" \/ conn[p][c].receiver # "none"
    PROVE  c <= connects[p]
<1>1. c > connects[p] => conn[p][c] = NoConnection
  BY DEF TypeInv, UsedInv
<1>2. connects[p] \in Nat /\ c \in Nat
  BY Owns, Constants
<1> QED BY <1>1, <1>2 DEF NoConnection

LEMMA Fields ==
    ASSUME NEW r \in Record
    PROVE  /\ r.up \in Seq(Message) /\ r.down \in Seq(Message) /\ r.channel \in Seq(Message)
           /\ r.broken \in BOOLEAN
BY DEF Record

Others(p, c) ==
    \A q \in Port, d \in Connection : q # p \/ d # c => conn'[q][d] = conn[q][d]

\* Connection c of p becomes r.
Becomes(p, c, r) ==
    /\ conn'[p][c] = r /\ Others(p, c)
    /\ Dead(conn[p][c]) => Dead(r)

\* A step that changes one connection.
LEMMA OneConnection ==
    ASSUME TypeInv, NEW p \in Port, NEW c \in Connection, NEW r \in Record, Fits(r),
           c <= connects[p], conn[p][c].receiver = "none" => r.receiver = "none",
           Dead(conn[p][c]) => Dead(r),
           conn' = [conn EXCEPT ![p][c] = r], UNCHANGED <<connects, accepted, stage>>
    PROVE  ConnOK' /\ UsedInv' /\ Becomes(p, c, r)
<1>1. conn \in [Port -> [Connection -> Record]]
  BY DEF TypeInv, ConnOK
<1>2. conn' \in [Port -> [Connection -> Record]] /\ conn'[p][c] = r
  BY <1>1
<1>3. Others(p, c)
  BY <1>1 DEF Others
<1>4. ConnOK'
  <2>1. ASSUME NEW q \in Port, NEW d \in Connection PROVE Fits(conn'[q][d])
    BY <1>2, <1>3 DEF Others, TypeInv, ConnOK
  <2> QED BY <1>2, <2>1 DEF ConnOK
<1>5. UsedInv'
  <2> SUFFICES ASSUME NEW q \in Port, NEW d \in Connection
               PROVE  /\ d > accepted[q] \/ (stage[q] = "accepted" /\ d = accepted[q])
                             => conn'[q][d].receiver = "none"
                      /\ d > connects[q] => conn'[q][d] = NoConnection
    BY DEF UsedInv
  <2>1. /\ d > accepted[q] \/ (stage[q] = "accepted" /\ d = accepted[q])
               => conn[q][d].receiver = "none"
        /\ d > connects[q] => conn[q][d] = NoConnection
    BY DEF TypeInv, UsedInv
  <2>2. CASE q = p /\ d = c
    <3>1. ~ d > connects[q]
      BY <2>2, Owns, Constants
    <3> QED BY <1>2, <2>1, <2>2, <3>1
  <2>3. CASE q # p \/ d # c
    BY <1>3, <2>1, <2>3 DEF Others
  <2> QED BY <2>2, <2>3
<1> QED BY <1>2, <1>3, <1>4, <1>5 DEF Becomes

LEMMA NoneTouched ==
    ASSUME TypeInv, UNCHANGED <<conn, connects, accepted, stage>>
    PROVE  ConnOK' /\ UsedInv'
BY DEF TypeInv, ConnOK, UsedInv

\* A step of the task of one port or of its server's peer task.
LEMMA OnePort ==
    ASSUME TypeInv, NEW p \in Port, NEW t \in Task, NEW s, NEW st \in Stage, NEW oc, NEW a, NEW b,
           b \in 0 .. MaxConnects, PortOK(t, s, st, oc, a, b),
           task' = [task EXCEPT ![p] = t], sockets' = [sockets EXCEPT ![p] = s],
           stage' = [stage EXCEPT ![p] = st], out_channels' = [out_channels EXCEPT ![p] = oc],
           accepted' = [accepted EXCEPT ![p] = a], connects' = [connects EXCEPT ![p] = b]
    PROVE  PortsOK'
<1>1. PortsOK
  BY DEF TypeInv
<1>2. s \in 0 .. MaxConnects /\ a \in 0 .. MaxConnects /\ oc \in SUBSET (0 .. MaxConnects)
  BY Constants DEF PortOK
<1>3. /\ connects' \in [Port -> 0 .. MaxConnects] /\ accepted' \in [Port -> 0 .. MaxConnects]
      /\ sockets' \in [Port -> 0 .. MaxConnects]
      /\ task' \in [Port -> Task] /\ stage' \in [Port -> Stage]
      /\ out_channels' \in [Port -> SUBSET (0 .. MaxConnects)]
  BY <1>1, <1>2 DEF PortsOK
<1>4. ASSUME NEW q \in Port
      PROVE  PortOK(task'[q], sockets'[q], stage'[q], out_channels'[q], accepted'[q], connects'[q])
  BY <1>1 DEF PortsOK
<1> QED BY <1>3, <1>4 DEF PortsOK

LEMMA SamePorts ==
    ASSUME TypeInv, UNCHANGED <<connects, accepted, sockets, task, stage, out_channels>>
    PROVE  PortsOK'
BY DEF TypeInv, PortsOK, PortOK

\* Only the server's end of the current connection of p changes.
LEMMA PeerTaskPorts ==
    ASSUME TypeInv, NEW p \in Port, NEW t \in Task, NEW s \in {0, connects[p]}, Reads(p),
           task' = [task EXCEPT ![p] = t], sockets' = [sockets EXCEPT ![p] = s],
           UNCHANGED <<stage, out_channels, accepted, connects>>
    PROVE  PortsOK'
<1>1. /\ PortOK(task[p], sockets[p], stage[p], out_channels[p], accepted[p], connects[p])
      /\ task[p] = "reading" /\ connects[p] \in 0 .. MaxConnects
  BY Owns DEF Reads
<1>2. PortOK(t, s, stage[p], out_channels[p], accepted[p], connects[p])
  BY <1>1 DEF PortOK
<1>3. PortsOK /\ s \in 0 .. MaxConnects
  BY <1>1, Constants DEF TypeInv
<1>4. ASSUME NEW q \in Port
      PROVE  PortOK(task'[q], sockets'[q], stage[q], out_channels[q], accepted[q], connects[q])
  BY <1>2, <1>3 DEF PortsOK
<1> QED BY <1>3, <1>4 DEF PortsOK

LEMMA SameBuffers ==
    ASSUME TypeInv, UNCHANGED <<sent, inbox, handled, queue, holding>>,
           faults' \in 0 .. MaxFaults, torn' \in 0 .. MaxTorn
    PROVE  BuffersOK'
BY DEF TypeInv, BuffersOK

LEMMA FaultTypes == ASSUME TypeInv, Fault PROVE faults' \in 0 .. MaxFaults /\ torn' = torn
BY Constants DEF Fault, TypeInv, BuffersOK

LEMMA Counters == ASSUME TypeInv PROVE faults \in 0 .. MaxFaults /\ torn \in 0 .. MaxTorn /\ torn \in Nat
BY Constants DEF TypeInv, BuffersOK

-----------------------------------------------------------------------------
(***************************************************************************)
(* Steps that lose messages at most, and move none.                        *)
(***************************************************************************)
Shrunk(r, s) ==
    /\ s.up \in {r.up, << >>} /\ s.channel \in {r.channel, << >>} /\ s.down \in {r.down, << >>}
    /\ Dead(r) => Dead(s)

Losing ==
    /\ \A p \in Port, c \in Connection : Shrunk(conn[p][c], conn'[p][c])
    /\ queue' \in {queue, << >>} /\ holding' \in {holding, << >>}
    /\ \A n \in Node : inbox'[n] \in {inbox[n], << >>}
    /\ \A p \in Port : Arriving(p)' \subseteq Arriving(p)
    /\ torn' >= torn /\ UNCHANGED <<sent, handled>>

LEMMA NotShrunk == \A r : Shrunk(r, r)
BY DEF Shrunk

\* What can arrive at a server that goes on to read the same connection.
LEMMA ArrivingLess ==
    ASSUME TypeInv, NEW p \in Port,
           Reads(p)' => Reads(p) /\ connects'[p] = connects[p],
           \A c \in Connection : Shrunk(conn[p][c], conn'[p][c])
    PROVE  Arriving(p)' \subseteq Arriving(p)
<1>1. CASE ~Reads(p)'
  BY <1>1 DEF Arriving
<1>2. CASE Reads(p)'
  <2> DEFINE c == connects[p]
  <2>1. Reads(p) /\ connects'[p] = c /\ c \in Connection
    BY <1>2, Owns
  <2>2. Shrunk(conn[p][c], conn'[p][c])
    BY <2>1
  <2>3. /\ Content(conn'[p][c].down) \subseteq Content(conn[p][c].down)
        /\ Content(conn'[p][c].channel) \subseteq Content(conn[p][c].channel)
    BY <2>2, Nothing DEF Shrunk
  <2> QED BY <1>2, <2>1, <2>3 DEF Arriving, Own
<1> QED BY <1>1, <1>2

LEMMA LosingOne ==
    ASSUME TypeInv, NEW p \in Port, NEW c \in Connection, NEW r, Becomes(p, c, r),
           Shrunk(conn[p][c], r),
           UNCHANGED <<connects, queue, holding, inbox, sent, handled>>,
           torn' \in Nat, torn' >= torn, \A q \in Port : Reads(q)' => Reads(q)
    PROVE  Losing
<1>1. ASSUME NEW q \in Port, NEW d \in Connection PROVE Shrunk(conn[q][d], conn'[q][d])
  <2>1. CASE q = p /\ d = c
    BY <2>1 DEF Becomes
  <2>2. CASE q # p \/ d # c
    BY <2>2, NotShrunk DEF Becomes, Others
  <2> QED BY <2>1, <2>2
<1>2. \A q \in Port : Arriving(q)' \subseteq Arriving(q)
  BY <1>1, ArrivingLess
<1> QED BY <1>1, <1>2 DEF Losing

LEMMA LosingNone ==
    ASSUME TypeInv, UNCHANGED <<conn, inbox, sent, handled, torn>>,
           queue' \in {queue, << >>}, holding' \in {holding, << >>},
           \A q \in Port : Reads(q)' => Reads(q) /\ connects'[q] = connects[q]
    PROVE  Losing
<1>1. \A q \in Port, d \in Connection : Shrunk(conn[q][d], conn'[q][d])
  BY NotShrunk
<1>2. \A q \in Port : Arriving(q)' \subseteq Arriving(q)
  BY <1>1, ArrivingLess
<1> QED BY <1>1, <1>2, Counters DEF Losing

LEMMA ShrunkFits ==
    ASSUME NEW r \in Record, NEW s \in Record, Fits(r), Shrunk(r, s)
    PROVE  Fits(s)
<1>1. Cardinality(Lines(<< >>)) <= SocketSize /\ Len(<< >>) <= ChannelSize
  BY Nothing, Constants
<1> QED BY <1>1 DEF Fits, Shrunk

\* A step of the task of port p or of its server loses messages of one connection.
LEMMA OneLoses ==
    ASSUME TypeInv, NEW p \in Port, NEW c \in Connection, NEW r \in Record,
           Shrunk(conn[p][c], r), c <= connects[p],
           conn[p][c].receiver = "none" => r.receiver = "none",
           conn' = [conn EXCEPT ![p][c] = r],
           UNCHANGED <<connects, accepted, stage, queue, holding, inbox, sent, handled>>,
           faults' \in 0 .. MaxFaults, torn' \in 0 .. MaxTorn, torn' >= torn,
           PortsOK', \A q \in Port : Reads(q)' => Reads(q)
    PROVE  TypeInv' /\ Losing
<1>1. conn[p][c] \in Record /\ Fits(conn[p][c])
  BY Owns
<1>2. Fits(r) /\ (Dead(conn[p][c]) => Dead(r))
  BY <1>1, ShrunkFits DEF Shrunk
<1>3. ConnOK' /\ UsedInv' /\ Becomes(p, c, r)
  BY <1>2, OneConnection
<1>4. Losing
  BY <1>3, Constants, LosingOne
<1>5. BuffersOK'
  BY SameBuffers
<1> QED BY <1>3, <1>4, <1>5 DEF TypeInv

LEMMA ConnectTypes ==
    ASSUME TypeInv, NEW p \in Port, Connect(p)
    PROVE  TypeInv' /\ Losing
<1>1. /\ task' = [task EXCEPT ![p] = "reading"] /\ connects' = [connects EXCEPT ![p] = connects[p] + 1]
      /\ sockets' = [sockets EXCEPT ![p] = connects[p] + 1] /\ connects[p] < MaxConnects
      /\ UNCHANGED <<inbox, conn, accepted, stage, out_channels, queue, holding, sent, handled, bounds>>
      /\ task[p] = "connecting"
  BY DEF Connect, actor, history
<1>2. PortOK(task[p], sockets[p], stage[p], out_channels[p], accepted[p], connects[p])
      /\ connects[p] \in 0 .. MaxConnects /\ stage[p] \in Stage
  BY Owns
<1>3. PortOK("reading", connects[p] + 1, stage[p], out_channels[p], accepted[p], connects[p] + 1)
      /\ connects[p] + 1 \in 0 .. MaxConnects /\ "reading" \in Task
  BY <1>1, <1>2, Constants DEF PortOK, Task
<1>4. /\ stage' = [stage EXCEPT ![p] = stage[p]] /\ accepted' = [accepted EXCEPT ![p] = accepted[p]]
      /\ out_channels' = [out_channels EXCEPT ![p] = out_channels[p]]
  BY <1>1 DEF TypeInv, PortsOK
<1>5. PortsOK'
  <2> DEFINE b == connects[p] + 1
             st == stage[p]
             oc == out_channels[p]
             a == accepted[p]
  <2>1. /\ task' = [task EXCEPT ![p] = "reading"] /\ connects' = [connects EXCEPT ![p] = b]
        /\ sockets' = [sockets EXCEPT ![p] = b] /\ stage' = [stage EXCEPT ![p] = st]
        /\ accepted' = [accepted EXCEPT ![p] = a] /\ out_channels' = [out_channels EXCEPT ![p] = oc]
        /\ PortOK("reading", b, st, oc, a, b) /\ b \in 0 .. MaxConnects /\ st \in Stage
        /\ "reading" \in Task
    BY <1>1, <1>2, <1>3, <1>4
  <2> HIDE DEF b, st, oc, a
  <2> QED BY <2>1, OnePort
<1>6. connects \in [Port -> 0 .. MaxConnects]
  BY DEF TypeInv, PortsOK
<1>7. \A q \in Port : connects'[q] \in Nat /\ connects'[q] >= connects[q] /\ connects[q] \in Nat
                      /\ (q # p => connects'[q] = connects[q] /\ (Reads(q)' => Reads(q)))
  BY <1>1, <1>6, Constants DEF Reads, TypeInv, PortsOK
<1>8. UsedInv' /\ ConnOK' /\ BuffersOK'
  <2>1. UsedInv'
    BY <1>1, <1>7, Constants DEF TypeInv, UsedInv
  <2> QED BY <1>1, <2>1, Counters, SameBuffers DEF TypeInv, ConnOK, bounds
<1>9. Losing
  <2>1. \A q \in Port, d \in Connection : Shrunk(conn[q][d], conn'[q][d])
    BY <1>1, NotShrunk
  <2>2. ASSUME NEW q \in Port, q # p PROVE Arriving(q)' \subseteq Arriving(q)
    BY <1>7, <2>1, <2>2, ArrivingLess
  <2>3. Arriving(p)' = {}
    <3> DEFINE b == connects[p] + 1
    <3>1. b \in Connection /\ b > connects[p] /\ connects'[p] = b
      BY <1>1, <1>2, <1>6, Constants
    <3>2. conn'[p][b] = NoConnection
      BY <1>1, <3>1 DEF TypeInv, UsedInv
    <3>3. Own(p)' = NoConnection
      BY <3>1, <3>2 DEF Own
    <3> QED BY <3>3, Nothing DEF Arriving, NoConnection
  <2>4. \A q \in Port : Arriving(q)' \subseteq Arriving(q)
    BY <2>2, <2>3
  <2> QED BY <1>1, <2>1, <2>4, Counters DEF Losing, bounds
<1> QED BY <1>5, <1>8, <1>9 DEF TypeInv

\* The server's end of the connection of p loses what is on its way to it.
LEMMA DownLost ==
    ASSUME TypeInv, NEW p \in Port, Reads(p), NEW t \in Task, t # "reading", NEW s \in {0, connects[p]},
           NEW b \in BOOLEAN, conn[p][connects[p]].broken => b,
           task' = [task EXCEPT ![p] = t], sockets' = [sockets EXCEPT ![p] = s],
           conn' = [conn EXCEPT ![p][connects[p]] = [@ EXCEPT !.broken = b, !.down = << >>]],
           UNCHANGED <<connects, inbox, actor, history, faults>>,
           torn' \in 0 .. MaxTorn, torn' >= torn
    PROVE  TypeInv' /\ Losing
<1> DEFINE c == connects[p]
           r == [conn[p][c] EXCEPT !.broken = b, !.down = << >>]
<1>1. c \in Connection /\ conn[p][c] \in Record /\ c \in Nat
  BY Owns, Constants
<1>2. r \in Record /\ Shrunk(conn[p][c], r) /\ r.receiver = conn[p][c].receiver
  BY <1>1, Nothing DEF Record, Shrunk, Dead
<1>3. conn' = [conn EXCEPT ![p][c] = r]
  OBVIOUS
<1>4. PortsOK'
  BY PeerTaskPorts DEF actor
<1>5. \A q \in Port : Reads(q)' => Reads(q)
  BY DEF Reads, TypeInv, PortsOK
<1>6. UNCHANGED <<connects, accepted, stage, queue, holding, inbox, sent, handled>>
      /\ faults' \in 0 .. MaxFaults
  BY Counters DEF actor, history
<1> HIDE DEF c, r
<1>7. c <= connects[p]
  BY <1>1 DEF c
<1> QED BY <1>1, <1>2, <1>3, <1>4, <1>5, <1>6, <1>7, OneLoses

LEMMA DownEndsTypes ==
    ASSUME TypeInv, NEW p \in Port, DownEnds(p) \/ ReadFragment(p) \/ ReadTorn(p)
    PROVE  TypeInv' /\ Losing
<1>1. connects[p] \in 0 .. MaxConnects /\ sockets[p] \in {0, connects[p]}
      /\ sockets' \in {[sockets EXCEPT ![p] = 0], [sockets EXCEPT ![p] = sockets[p]]}
  BY Owns DEF DownEnds, ReadFragment, ReadTorn, Panics, TypeInv, PortsOK
<1>2. Reads(p) /\ UNCHANGED <<connects, inbox, actor, history, faults>>
      /\ torn' \in 0 .. MaxTorn /\ torn' >= torn
  BY Counters, Constants DEF DownEnds, ReadFragment, ReadTorn, Panics, bounds
<1>3. CASE DownEnds(p)
  <2>1. conn' = [conn EXCEPT ![p][connects[p]] = [@ EXCEPT !.broken = TRUE, !.down = << >>]]
        /\ task' = [task EXCEPT ![p] = "connecting"] /\ sockets' = [sockets EXCEPT ![p] = 0]
    BY <1>3 DEF DownEnds, Abandoned
  <2> QED BY <1>2, <2>1, DownLost DEF Task
<1>4. CASE ReadFragment(p) \/ ReadTorn(p)
  <2> DEFINE b == conn[p][connects[p]].broken
             s == sockets[p]
  <2>1. conn' = [conn EXCEPT ![p][connects[p]].down = << >>]
        /\ task' = [task EXCEPT ![p] = "panicked"] /\ UNCHANGED sockets
    BY <1>4 DEF ReadFragment, ReadTorn, Panics
  <2>2. connects[p] \in Connection /\ conn[p][connects[p]] \in Record /\ b \in BOOLEAN
    BY <1>2, Owns, Fields
  <2>3. conn' = [conn EXCEPT ![p][connects[p]] = [@ EXCEPT !.broken = b, !.down = << >>]]
    <3>1. [conn[p][connects[p]] EXCEPT !.broken = b, !.down = << >>]
              = [conn[p][connects[p]] EXCEPT !.down = << >>]
      BY <2>2 DEF Record
    <3> HIDE DEF b
    <3> QED BY <2>1, <3>1
  <2>4. sockets' = [sockets EXCEPT ![p] = s] /\ s \in {0, connects[p]}
    BY <1>1, <2>1 DEF TypeInv, PortsOK
  <2> HIDE DEF s
  <2> QED BY <1>2, <2>1, <2>2, <2>3, <2>4, DownLost DEF Task
<1> QED BY <1>3, <1>4

\* The task of port p accepts, or starts to serve, a connection.
LEMMA AcceptTypes ==
    ASSUME TypeInv, NEW p \in Port, Accept(p)
    PROVE  TypeInv' /\ Losing
<1> DEFINE a == accepted[p] + 1
<1>1. /\ stage[p] = "listening" /\ accepted[p] < connects[p] /\ stage' = [stage EXCEPT ![p] = "accepted"]
      /\ accepted' = [accepted EXCEPT ![p] = a]
      /\ UNCHANGED <<connects, task, sockets, inbox, conn, out_channels, queue, holding, sent, handled>>
      /\ UNCHANGED bounds
  BY DEF Accept, servers, history
<1>2. PortOK(task[p], sockets[p], stage[p], out_channels[p], accepted[p], connects[p])
      /\ connects[p] \in 0 .. MaxConnects /\ accepted[p] \in Nat
  BY Owns DEF PortOK
<1>3. PortOK(task[p], sockets[p], "accepted", out_channels[p], a, connects[p])
      /\ a \in 0 .. MaxConnects
  BY <1>1, <1>2, Constants DEF PortOK
<1>4. PortsOK
  BY DEF TypeInv
<1>5. PortsOK'
  <2> HIDE DEF a
  <2>1. ASSUME NEW q \in Port
        PROVE  PortOK(task[q], sockets[q], stage'[q], out_channels[q], accepted'[q], connects[q])
    BY <1>1, <1>3, <1>4 DEF PortsOK
  <2> QED BY <1>1, <1>3, <1>4, <2>1 DEF PortsOK, Stage
<1>6. UsedInv'
  <2>1. accepted \in [Port -> 0 .. MaxConnects] /\ stage \in [Port -> Stage]
    BY <1>4 DEF PortsOK
  <2> SUFFICES ASSUME NEW q \in Port, NEW c \in Connection
               PROVE  /\ c > accepted'[q] \/ (stage'[q] = "accepted" /\ c = accepted'[q])
                             => conn[q][c].receiver = "none"
                      /\ c > connects[q] => conn[q][c] = NoConnection
    BY <1>1 DEF UsedInv
  <2>2. q = p => accepted'[q] = accepted[q] + 1
    BY <1>1, <2>1
  <2>3. q # p => accepted'[q] = accepted[q] /\ stage'[q] = stage[q]
    BY <1>1, <2>1
  <2>4. accepted[q] \in Nat /\ c \in Nat
    BY <2>1, Constants
  <2> QED BY <2>2, <2>3, <2>4 DEF TypeInv, UsedInv
<1>7. ConnOK' /\ BuffersOK'
  BY <1>1, Counters, SameBuffers DEF TypeInv, ConnOK, bounds
<1>8. Losing
  BY <1>1, LosingNone DEF Reads, bounds
<1> QED BY <1>5, <1>6, <1>7, <1>8 DEF TypeInv

LEMMA InsertChannelTypes ==
    ASSUME TypeInv, NEW p \in Port, InsertChannel(p)
    PROVE  TypeInv' /\ Losing
<1> DEFINE c == accepted[p]
           r == [conn[p][c] EXCEPT !.sender = "spawned", !.receiver = "reading"]
<1>1. /\ stage[p] = "accepted" /\ stage' = [stage EXCEPT ![p] = "serving"]
      /\ out_channels' = [out_channels EXCEPT ![p] = {c}]
      /\ conn' = [conn EXCEPT ![p][accepted[p]].sender = "spawned",
                              ![p][accepted[p]].receiver = "reading"]
      /\ UNCHANGED <<connects, task, sockets, inbox, accepted, queue, holding, sent, handled>>
      /\ UNCHANGED bounds
  BY DEF InsertChannel, servers, history
<1>2. /\ PortOK(task[p], sockets[p], stage[p], out_channels[p], c, connects[p])
      /\ c \in Connection /\ c \in 0 .. connects[p] /\ connects[p] \in 0 .. MaxConnects
  BY <1>1, Owns
<1>3. conn \in [Port -> [Connection -> Record]] /\ conn[p][c] \in Record /\ Fits(conn[p][c])
  BY <1>2, Owns DEF TypeInv, ConnOK
<1>4. conn' = [conn EXCEPT ![p][c] = r]
  BY <1>1, <1>2, <1>3
<1>5. r \in Record /\ Shrunk(conn[p][c], r)
  <2>1. conn[p][c].receiver = "none"
    BY <1>1, <1>2 DEF TypeInv, UsedInv
  <2> QED BY <1>3, <2>1 DEF Record, Shrunk, Dead
<1>6. Fits(r)
  BY <1>3, <1>5, ShrunkFits
<1> HIDE DEF r
<1>7. conn'[p][c] = r /\ Others(p, c) /\ conn' \in [Port -> [Connection -> Record]]
  BY <1>2, <1>3, <1>4, <1>5 DEF Others
<1>8. PortsOK
  BY DEF TypeInv
<1>9. PortsOK'
  <2>1. PortOK(task[p], sockets[p], "serving", {c}, c, connects[p]) /\ c \in 0 .. MaxConnects
    BY <1>1, <1>2, Constants DEF PortOK
  <2> HIDE DEF c
  <2>2. ASSUME NEW q \in Port
        PROVE  PortOK(task[q], sockets[q], stage'[q], out_channels'[q], accepted[q], connects[q])
    <3>1. q = p => stage'[q] = "serving" /\ out_channels'[q] = {c}
      BY <1>1, <1>8 DEF PortsOK
    <3>2. q # p => stage'[q] = stage[q] /\ out_channels'[q] = out_channels[q]
      BY <1>1, <1>8 DEF PortsOK
    <3>3. q = p => PortOK(task[q], sockets[q], "serving", {c}, accepted[q], connects[q])
      BY <2>1 DEF c
    <3> QED BY <1>8, <3>1, <3>2, <3>3 DEF PortsOK
  <2>3. stage' \in [Port -> Stage] /\ out_channels' \in [Port -> SUBSET (0 .. MaxConnects)]
    BY <1>1, <1>8, <2>1 DEF PortsOK, Stage
  <2> QED BY <1>1, <1>8, <2>2, <2>3 DEF PortsOK
<1>10. ConnOK'
  <2>1. ASSUME NEW q \in Port, NEW d \in Connection PROVE Fits(conn'[q][d])
    BY <1>6, <1>7 DEF Others, TypeInv, ConnOK
  <2> QED BY <1>7, <2>1 DEF ConnOK
<1>11. UsedInv'
  <2> SUFFICES ASSUME NEW q \in Port, NEW d \in Connection
               PROVE  /\ d > accepted[q] \/ (stage'[q] = "accepted" /\ d = accepted[q])
                             => conn'[q][d].receiver = "none"
                      /\ d > connects[q] => conn'[q][d] = NoConnection
    BY <1>1 DEF UsedInv
  <2>1. stage'[p] = "serving" /\ \A o \in Port : o # p => stage'[o] = stage[o]
    BY <1>1, <1>8 DEF PortsOK
  <2>2. CASE q = p /\ d = c
    BY <1>2, <2>1, <2>2, Constants
  <2>3. CASE q # p \/ d # c
    <3>1. conn'[q][d] = conn[q][d]
      BY <1>7, <2>3 DEF Others
    <3> QED BY <2>1, <3>1 DEF TypeInv, UsedInv
  <2> QED BY <2>2, <2>3
<1>12. BuffersOK'
  BY <1>1, Counters, SameBuffers DEF bounds
<1>13. Losing
  <2>1. Becomes(p, c, r)
    BY <1>5, <1>7 DEF Becomes, Shrunk
  <2> HIDE DEF c
  <2>2. c \in Connection /\ Shrunk(conn[p][c], r)
    BY <1>2, <1>5 DEF c
  <2> QED BY <1>1, <2>1, <2>2, Counters, LosingOne DEF Reads, bounds
<1> QED BY <1>9, <1>10, <1>11, <1>12, <1>13 DEF TypeInv

LEMMA ResetTypes ==
    ASSUME TypeInv, NEW p \in Port, Reset(p)
    PROVE  TypeInv' /\ Losing
<1> DEFINE lost(c) == c > accepted[p] /\ c <= connects[p]
           r(c) == IF lost(c) THEN [conn[p][c] EXCEPT !.broken = TRUE, !.up = << >>] ELSE conn[p][c]
<1>1. /\ stage' = [stage EXCEPT ![p] = "listening"] /\ out_channels' = [out_channels EXCEPT ![p] = {}]
      /\ accepted' = [accepted EXCEPT ![p] = connects[p]]
      /\ conn' = [conn EXCEPT ![p] = [c \in Connection |-> r(c)]]
      /\ UNCHANGED <<connects, task, sockets, inbox, queue, holding, sent, handled>>
      /\ UNCHANGED bounds
  BY DEF Reset, servers, history
<1>2. /\ PortOK(task[p], sockets[p], stage[p], out_channels[p], accepted[p], connects[p])
      /\ connects[p] \in 0 .. MaxConnects /\ conn \in [Port -> [Connection -> Record]] /\ PortsOK
  BY Owns DEF TypeInv, ConnOK
<1>3. ASSUME NEW c \in Connection
      PROVE  r(c) \in Record /\ Shrunk(conn[p][c], r(c)) /\ r(c).receiver = conn[p][c].receiver
             /\ (c > connects[p] => r(c) = conn[p][c])
  <2>1. conn[p][c] \in Record
    BY <1>2
  <2>2. LET s == [conn[p][c] EXCEPT !.broken = TRUE, !.up = << >>]
        IN  s \in Record /\ Shrunk(conn[p][c], s) /\ s.receiver = conn[p][c].receiver
    BY <2>1, Nothing DEF Record, Shrunk, Dead
  <2>3. c > connects[p] => ~lost(c)
    BY <1>2, Constants
  <2> QED BY <2>1, <2>2, <2>3, NotShrunk
<1> HIDE DEF r, lost
<1>4. conn' \in [Port -> [Connection -> Record]] /\ \A c \in Connection : conn'[p][c] = r(c)
      /\ \A q \in Port : q # p => conn'[q] = conn[q]
  BY <1>1, <1>2, <1>3
<1>5. ASSUME NEW q \in Port, NEW c \in Connection
      PROVE  Shrunk(conn[q][c], conn'[q][c]) /\ conn'[q][c].receiver = conn[q][c].receiver
             /\ (c > connects[q] => conn'[q][c] = conn[q][c])
  BY <1>3, <1>4, NotShrunk
<1>6. ConnOK'
  <2>1. ASSUME NEW q \in Port, NEW c \in Connection PROVE Fits(conn'[q][c])
    <3>1. Fits(conn[q][c]) /\ conn[q][c] \in Record /\ conn'[q][c] \in Record
      BY <1>4, Owns
    <3> QED BY <1>5, <3>1, ShrunkFits
  <2> QED BY <1>4, <2>1 DEF ConnOK
<1>7. PortsOK'
  <2>1. PortOK(task[p], sockets[p], "listening", {}, connects[p], connects[p])
    BY <1>2, Constants DEF PortOK
  <2>2. ASSUME NEW q \in Port
        PROVE  PortOK(task[q], sockets[q], stage'[q], out_channels'[q], accepted'[q], connects[q])
    BY <1>1, <1>2, <2>1 DEF PortsOK
  <2> QED BY <1>1, <1>2, <2>2 DEF PortsOK, Stage
<1>8. UsedInv'
  <2> SUFFICES ASSUME NEW q \in Port, NEW c \in Connection
               PROVE  /\ c > accepted'[q] \/ (stage'[q] = "accepted" /\ c = accepted'[q])
                             => conn'[q][c].receiver = "none"
                      /\ c > connects[q] => conn'[q][c] = NoConnection
    BY <1>1 DEF UsedInv
  <2>1. /\ c > accepted[q] \/ (stage[q] = "accepted" /\ c = accepted[q])
               => conn[q][c].receiver = "none"
        /\ c > connects[q] => conn[q][c] = NoConnection
    BY DEF TypeInv, UsedInv
  <2>2. q = p => accepted'[q] = connects[q] /\ stage'[q] = "listening"
    BY <1>1, <1>2 DEF PortsOK
  <2>3. q # p => accepted'[q] = accepted[q] /\ stage'[q] = stage[q]
    BY <1>1, <1>2 DEF PortsOK
  <2> QED BY <1>5, <2>1, <2>2, <2>3 DEF NoConnection
<1>9. BuffersOK'
  BY <1>1, Counters, SameBuffers DEF bounds
<1>10. \A q \in Port : Arriving(q)' \subseteq Arriving(q)
  BY <1>1, <1>5, ArrivingLess DEF Reads
<1>11. Losing
  BY <1>1, <1>5, <1>10, Counters DEF Losing, bounds
<1> QED BY <1>6, <1>7, <1>8, <1>9, <1>11 DEF TypeInv

\* The tasks of a connection, and a broken connection.
LEMMA TasksTypes ==
    ASSUME TypeInv, NEW p \in Port, NEW c \in Connection,
           Subscribe(p, c) \/ SenderEnds(p, c) \/ ReceiverEnds(p, c)
    PROVE  TypeInv' /\ Losing
<1>1. UNCHANGED <<servers, actor, history, bounds>>
  BY DEF Subscribe, SenderEnds, ReceiverEnds
<1>2. conn[p][c] \in Record /\ c <= connects[p]
  <2>1. conn[p][c].sender # "none" \/ conn[p][c].receiver # "none"
    BY DEF Subscribe, SenderEnds, ReceiverEnds
  <2> QED BY <2>1, Made, Owns
<1>3. PICK r \in Record :
          /\ conn' = [conn EXCEPT ![p][c] = r] /\ Shrunk(conn[p][c], r)
          /\ conn[p][c].receiver = "none" => r.receiver = "none"
  <2>0. conn \in [Port -> [Connection -> Record]]
    BY DEF TypeInv, ConnOK
  <2>1. CASE Subscribe(p, c)
    <3> DEFINE r == [conn[p][c] EXCEPT !.sender = "subscribed"]
    <3>1. r \in Record /\ Shrunk(conn[p][c], r) /\ r.receiver = conn[p][c].receiver
      BY <1>2 DEF Record, Shrunk, Dead
    <3>2. conn' = [conn EXCEPT ![p][c] = r]
      BY <2>1 DEF Subscribe
    <3> QED BY <3>1, <3>2
  <2>2. CASE SenderEnds(p, c)
    <3> DEFINE r == [conn[p][c] EXCEPT !.sender = "done", !.channel = << >>]
    <3>1. r \in Record /\ Shrunk(conn[p][c], r) /\ r.receiver = conn[p][c].receiver
      BY <1>2, Nothing DEF Record, Shrunk, Dead
    <3>2. conn' = [conn EXCEPT ![p][c].sender = "done", ![p][c].channel = << >>]
      BY <2>2 DEF SenderEnds
    <3>3. conn' = [conn EXCEPT ![p][c] = r]
      BY <1>2, <2>0, <3>2
    <3> QED BY <3>1, <3>3
  <2>3. CASE ReceiverEnds(p, c)
    <3> DEFINE r == [conn[p][c] EXCEPT !.up = << >>, !.receiver = "done"]
    <3>1. r \in Record /\ Shrunk(conn[p][c], r) /\ conn[p][c].receiver # "none"
      BY <1>2, <2>3, Nothing DEF Record, Shrunk, Dead, ReceiverEnds
    <3>2. conn' = [conn EXCEPT ![p][c].up = << >>, ![p][c].receiver = "done"]
      BY <2>3 DEF ReceiverEnds
    <3>3. conn' = [conn EXCEPT ![p][c] = r]
      BY <1>2, <2>0, <3>2
    <3> QED BY <3>1, <3>3
  <2> QED BY <2>1, <2>2, <2>3
<1>4. /\ UNCHANGED <<connects, accepted, stage, queue, holding, inbox, sent, handled>>
      /\ UNCHANGED <<task, sockets, out_channels>> /\ UNCHANGED bounds
  BY <1>1 DEF servers, actor, history
<1>5. PortsOK' /\ faults' \in 0 .. MaxFaults /\ torn' \in 0 .. MaxTorn /\ torn' >= torn
  BY <1>4, SamePorts, Counters DEF bounds
<1> QED BY <1>2, <1>3, <1>4, <1>5, OneLoses DEF Reads

LEMMA CutTypes ==
    ASSUME TypeInv, NEW p \in Port, Cut(p)
    PROVE  TypeInv' /\ Losing
<1> DEFINE c == connects[p]
           r == [conn[p][c] EXCEPT !.broken = TRUE]
<1>1. c \in Connection /\ conn[p][c] \in Record /\ c <= connects[p]
  BY Owns, Constants DEF Cut
<1>2. r \in Record /\ Shrunk(conn[p][c], r) /\ r.receiver = conn[p][c].receiver
  BY <1>1 DEF Record, Shrunk, Dead
<1>3. conn' = [conn EXCEPT ![p][c] = r]
  BY DEF Cut
<1>4. /\ UNCHANGED <<connects, accepted, stage, queue, holding, inbox, sent, handled>>
      /\ UNCHANGED <<task, sockets, out_channels>>
  BY DEF Cut, servers, actor, history
<1>5. PortsOK' /\ faults' \in 0 .. MaxFaults /\ torn' \in 0 .. MaxTorn /\ torn' >= torn
  BY <1>4, SamePorts, FaultTypes, Counters DEF Cut
<1> HIDE DEF c, r
<1> QED BY <1>1, <1>2, <1>3, <1>4, <1>5, OneLoses DEF Reads

LEMMA GiveUpTypes ==
    ASSUME TypeInv, GiveUp
    PROVE  TypeInv' /\ Losing
<1>1. /\ UNCHANGED <<servers, conn, accepted, stage, out_channels, queue, history, bounds>>
      /\ holding' = << >>
  BY DEF GiveUp
<1>2. PortsOK' /\ ConnOK' /\ UsedInv'
  BY <1>1, SamePorts, NoneTouched DEF servers
<1>3. BuffersOK'
  BY <1>1, Nothing DEF TypeInv, BuffersOK, servers, history, bounds
<1>4. Losing
  BY <1>1, LosingNone DEF servers, history, bounds, Reads
<1> QED BY <1>2, <1>3, <1>4 DEF TypeInv

LEMMA CrashTypes ==
    ASSUME TypeInv, NEW n \in Node, Crash(n)
    PROVE  TypeInv' /\ Losing
<1> DEFINE mine == {p \in Port : p[1] = n}
           r(p, c) == IF p \in mine /\ c = connects[p] THEN Abandoned(conn[p][c]) ELSE conn[p][c]
<1>1. /\ Fault /\ inbox' = [inbox EXCEPT ![n] = << >>]
      /\ task' = [p \in Port |-> IF p \in mine THEN "connecting" ELSE task[p]]
      /\ sockets' = [p \in Port |-> IF p \in mine THEN 0 ELSE sockets[p]]
      /\ conn' = [p \in Port |-> [c \in Connection |-> r(p, c)]]
      /\ UNCHANGED <<connects, accepted, stage, out_channels, queue, holding, sent, handled>>
  BY DEF Crash, actor, history
<1>2. ASSUME NEW p \in Port, NEW c \in Connection
      PROVE  /\ r(p, c) \in Record /\ Fits(r(p, c)) /\ Shrunk(conn[p][c], r(p, c))
             /\ r(p, c).receiver = conn[p][c].receiver
             /\ c > connects[p] => r(p, c) = conn[p][c]
  <2>1. conn[p][c] \in Record /\ Fits(conn[p][c]) /\ connects[p] \in Nat
    BY Owns
  <2> DEFINE s == Abandoned(conn[p][c])
  <2>2. s \in Record /\ Shrunk(conn[p][c], s) /\ s.receiver = conn[p][c].receiver
    BY <2>1, Nothing DEF Record, Shrunk, Dead, Abandoned
  <2>3. Fits(s)
    BY <2>1, <2>2, ShrunkFits
  <2>4. c > connects[p] => c # connects[p]
    BY <2>1, Constants
  <2> HIDE DEF s
  <2> QED BY <2>1, <2>2, <2>3, <2>4, NotShrunk DEF s
<1> HIDE DEF r
<1>3. ConnOK' /\ \A p \in Port, c \in Connection : conn'[p][c] = r(p, c)
  BY <1>1, <1>2 DEF ConnOK
<1>4. UsedInv'
  BY <1>1, <1>2, <1>3 DEF TypeInv, UsedInv
<1>5. PortsOK'
  <2>1. PortsOK
    BY DEF TypeInv
  <2>2. ASSUME NEW p \in Port
        PROVE  PortOK(task'[p], sockets'[p], stage[p], out_channels[p], accepted[p], connects[p])
    BY <1>1, <2>1 DEF PortsOK, PortOK
  <2>3. task' \in [Port -> Task] /\ sockets' \in [Port -> 0 .. MaxConnects]
    BY <1>1, <2>1, Constants DEF PortsOK, Task
  <2> QED BY <1>1, <2>1, <2>2, <2>3 DEF PortsOK
<1>6. BuffersOK'
  BY <1>1, Nothing, FaultTypes DEF TypeInv, BuffersOK
<1>7. Losing
  <2>1. \A p \in Port, c \in Connection : Shrunk(conn[p][c], conn'[p][c])
    BY <1>2, <1>3
  <2>2. \A p \in Port : Reads(p)' => Reads(p)
    BY <1>1 DEF Reads
  <2>3. \A p \in Port : Arriving(p)' \subseteq Arriving(p)
    BY <1>1, <2>1, <2>2, ArrivingLess
  <2>4. \A m \in Node : inbox'[m] \in {inbox[m], << >>}
    BY <1>1 DEF TypeInv, BuffersOK
  <2> QED BY <1>1, <2>1, <2>3, <2>4, FaultTypes, Counters DEF Losing
<1> QED BY <1>3, <1>4, <1>5, <1>6, <1>7 DEF TypeInv

LEMMA CrashActorTypes ==
    ASSUME TypeInv, CrashActor
    PROVE  TypeInv' /\ Losing
<1> DEFINE r(p, c) == IF c > connects[p] THEN conn[p][c]
                      ELSE [conn[p][c] EXCEPT !.broken = TRUE, !.up = << >>, !.channel = << >>,
                                              !.sender = "done", !.receiver = "done"]
<1>1. /\ Fault /\ conn' = [p \in Port |-> [c \in Connection |-> r(p, c)]]
      /\ accepted' = connects /\ stage' = [p \in Port |-> "listening"]
      /\ out_channels' = [p \in Port |-> {0}] /\ queue' = << >> /\ holding' = << >>
      /\ UNCHANGED <<connects, task, sockets, inbox, sent, handled>>
  BY DEF CrashActor, servers, history
<1>2. ASSUME NEW p \in Port, NEW c \in Connection
      PROVE  /\ r(p, c) \in Record /\ Fits(r(p, c)) /\ Shrunk(conn[p][c], r(p, c))
             /\ c > connects[p] => r(p, c) = conn[p][c]
  <2>1. conn[p][c] \in Record /\ Fits(conn[p][c])
    BY Owns
  <2> DEFINE s == [conn[p][c] EXCEPT !.broken = TRUE, !.up = << >>, !.channel = << >>,
                                     !.sender = "done", !.receiver = "done"]
  <2>2. s \in Record /\ Shrunk(conn[p][c], s)
    BY <2>1, Nothing DEF Record, Shrunk, Dead
  <2>3. Fits(s)
    BY <2>1, <2>2, ShrunkFits
  <2> HIDE DEF s
  <2> QED BY <2>1, <2>2, <2>3, NotShrunk DEF s
<1> HIDE DEF r
<1>3. ConnOK' /\ \A p \in Port, c \in Connection : conn'[p][c] = r(p, c)
  BY <1>1, <1>2 DEF ConnOK
<1>4. UsedInv'
  <2> SUFFICES ASSUME NEW p \in Port, NEW c \in Connection
               PROVE  /\ c > connects[p] => conn'[p][c].receiver = "none"
                      /\ c > connects[p] => conn'[p][c] = NoConnection
    BY <1>1 DEF UsedInv
  <2>1. c > connects[p] => conn[p][c] = NoConnection
    BY DEF TypeInv, UsedInv
  <2> QED BY <1>2, <1>3, <2>1 DEF NoConnection
<1>5. PortsOK'
  <2>1. PortsOK
    BY DEF TypeInv
  <2>2. ASSUME NEW p \in Port
        PROVE  PortOK(task[p], sockets[p], "listening", {0}, connects[p], connects[p])
    BY <2>1, Constants DEF PortsOK, PortOK
  <2> QED BY <1>1, <2>1, <2>2, Constants DEF PortsOK, Stage
<1>6. BuffersOK'
  BY <1>1, Nothing, Constants, FaultTypes DEF TypeInv, BuffersOK
<1>7. Losing
  <2>1. \A p \in Port, c \in Connection : Shrunk(conn[p][c], conn'[p][c])
    BY <1>2, <1>3
  <2>2. \A p \in Port : Arriving(p)' \subseteq Arriving(p)
    BY <1>1, <2>1, ArrivingLess DEF Reads
  <2> QED BY <1>1, <2>1, <2>2, FaultTypes, Counters DEF Losing
<1> QED BY <1>3, <1>4, <1>5, <1>6, <1>7 DEF TypeInv

-----------------------------------------------------------------------------
(***************************************************************************)
(* Steps that move a message.                                              *)
(***************************************************************************)
\* What connection c of p buffers after the step.
Moves(p, c, up, channel, down) ==
    /\ conn'[p][c].up = up /\ conn'[p][c].channel = channel /\ conn'[p][c].down = down
    /\ Others(p, c)
    /\ Dead(conn[p][c]) => Dead(conn'[p][c])

SameTasks == UNCHANGED <<connects, accepted, sockets, task, stage, out_channels>>

LEMMA OneMoves ==
    ASSUME TypeInv, NEW p \in Port, NEW c \in Connection, NEW r \in Record, Fits(r),
           c <= connects[p], conn[p][c].receiver = "none" => r.receiver = "none",
           Dead(conn[p][c]) => Dead(r),
           conn' = [conn EXCEPT ![p][c] = r], SameTasks
    PROVE  PortsOK' /\ ConnOK' /\ UsedInv' /\ Moves(p, c, r.up, r.channel, r.down)
<1>1. PortsOK'
  BY SamePorts DEF SameTasks
<1>2. ConnOK' /\ UsedInv' /\ Becomes(p, c, r)
  BY OneConnection DEF SameTasks
<1> QED BY <1>1, <1>2 DEF Becomes, Moves

LEMMA NoMoves ==
    ASSUME TypeInv, UNCHANGED conn, SameTasks
    PROVE  PortsOK' /\ ConnOK' /\ UsedInv'
BY SamePorts, NoneTouched DEF SameTasks

LEMMA LinesKeptFit ==
    ASSUME NEW q \in Seq(Message), q # << >>, Cardinality(Lines(q)) <= SocketSize
    PROVE  Cardinality(Lines(Tail(q))) <= SocketSize
<1>1. Cardinality(Lines(Tail(q))) <= Cardinality(Lines(q))
  BY LinesTakenOut
<1>2. Tail(q) \in Seq(Message)
  BY TakenOut
<1>3. Cardinality(Lines(Tail(q))) \in Nat /\ Cardinality(Lines(q)) \in Nat
  BY <1>2, LinesFinite
<1> QED BY <1>1, <1>3, Constants

LEMMA LinesAddedFit ==
    ASSUME NEW q \in Seq(Message), NEW m \in Message, ~Full(q)
    PROVE  Cardinality(Lines(Append(q, m))) <= SocketSize
<1>1. Cardinality(Lines(Append(q, m))) <= Cardinality(Lines(q)) + 1
  BY LinesPutIn
<1>2. Append(q, m) \in Seq(Message)
  BY PutIn
<1>3. Cardinality(Lines(Append(q, m))) \in Nat /\ Cardinality(Lines(q)) \in Nat
  BY <1>2, LinesFinite
<1> QED BY <1>1, <1>3, Constants DEF Full

LEMMA SendTypes ==
    ASSUME TypeInv, NEW p \in Port, Send(p)
    PROVE  /\ TypeInv' /\ SameTasks
           /\ UNCHANGED <<inbox, handled, queue, holding, torn>>
           /\ sent[p] \in Nat /\ sent' = [sent EXCEPT ![p] = sent[p] + 1]
           /\ LET c == sockets[p]
                  r == conn[p][c]
                  m == [port |-> p, conn |-> c, num |-> sent[p] + 1]
              IN  /\ c \in Connection /\ m \in Message
                  /\ \/ UNCHANGED conn
                     \/ ~r.broken /\ Moves(p, c, Append(r.up, m), r.channel, r.down)
<1> DEFINE c == sockets[p]
           m == [port |-> p, conn |-> c, num |-> sent[p] + 1]
           r == [conn[p][c] EXCEPT !.up = Append(@, m)]
<1>1. /\ SameTasks /\ UNCHANGED <<inbox, handled, queue, holding, torn, faults>>
      /\ sent' = [sent EXCEPT ![p] = sent[p] + 1] /\ sent[p] < MaxMessages
      /\ c # 0 /\ ~Full(conn[p][c].up)
      /\ UNCHANGED conn \/ (~conn[p][c].broken /\ conn' = [conn EXCEPT ![p][c] = r])
  BY DEF Send, servers, actor, bounds, SameTasks
<1>2. c \in Connection /\ c = connects[p] /\ c \in Nat /\ conn[p][c] \in Record /\ Fits(conn[p][c])
  BY <1>1, Owns, Constants
<1>3. sent \in [Port -> 0 .. MaxMessages] /\ sent[p] \in Nat /\ sent[p] + 1 \in 0 .. MaxMessages
  BY <1>1, Constants DEF TypeInv, BuffersOK
<1>4. m \in Message
  BY <1>2, <1>3 DEF Message
<1> HIDE DEF m
<1>5. Append(conn[p][c].up, m) \in Seq(Message)
      /\ Cardinality(Lines(Append(conn[p][c].up, m))) <= SocketSize
  <2>1. conn[p][c].up \in Seq(Message)
    BY <1>2, Fields
  <2> QED BY <1>1, <1>4, <2>1, PutIn, LinesAddedFit
<1>6. /\ r \in Record /\ r.up = Append(conn[p][c].up, m) /\ r.channel = conn[p][c].channel
      /\ r.down = conn[p][c].down /\ r.receiver = conn[p][c].receiver
      /\ r.broken = conn[p][c].broken
  BY <1>2, <1>5 DEF Record
<1>7. Fits(r)
  BY <1>2, <1>5, <1>6 DEF Fits
<1>8. BuffersOK'
  BY <1>1, <1>3 DEF TypeInv, BuffersOK
<1> HIDE DEF r
<1>9. ASSUME ~conn[p][c].broken, conn' = [conn EXCEPT ![p][c] = r]
      PROVE  PortsOK' /\ ConnOK' /\ UsedInv' /\ Moves(p, c, r.up, r.channel, r.down)
  <2>1. c <= connects[p] /\ ~Dead(conn[p][c])
    BY <1>2, <1>9 DEF Dead
  <2> HIDE DEF c
  <2> QED BY <1>1, <1>2, <1>6, <1>7, <1>9, <2>1, OneMoves
<1>10. PortsOK' /\ ConnOK' /\ UsedInv'
  BY <1>1, <1>9, NoMoves
<1> QED BY <1>1, <1>2, <1>3, <1>4, <1>6, <1>8, <1>9, <1>10 DEF TypeInv, m

LEMMA ReadDownTypes ==
    ASSUME TypeInv, NEW p \in Port, ReadDown(p)
    PROVE  /\ TypeInv' /\ SameTasks
           /\ UNCHANGED <<sent, handled, queue, holding, torn>>
           /\ Reads(p) /\ connects[p] \in Connection
           /\ LET c == connects[p]
                  r == conn[p][c]
              IN  /\ r.down # << >> /\ ~IsFragment(Head(r.down))
                  /\ inbox' = [inbox EXCEPT ![p[1]] = Append(inbox[p[1]], Head(r.down))]
                  /\ Moves(p, c, r.up, r.channel, Tail(r.down))
<1> DEFINE c == connects[p]
           r == [conn[p][c] EXCEPT !.down = Tail(@)]
<1>1. /\ SameTasks /\ UNCHANGED <<sent, handled, queue, holding, torn, faults>>
      /\ Reads(p) /\ conn[p][c].down # << >> /\ ~IsFragment(Head(conn[p][c].down))
      /\ inbox' = [inbox EXCEPT ![p[1]] = Append(inbox[p[1]], Head(conn[p][c].down))]
      /\ conn' = [conn EXCEPT ![p][c] = r]
  BY DEF ReadDown, Own, actor, history, bounds, SameTasks
<1>2. c \in Connection /\ c <= connects[p] /\ conn[p][c] \in Record /\ Fits(conn[p][c])
  BY <1>1, Owns, Constants
<1>3. conn[p][c].down \in Seq(Message)
  BY <1>2, Fields
<1>4. /\ Head(conn[p][c].down) \in Message /\ Tail(conn[p][c].down) \in Seq(Message)
      /\ Cardinality(Lines(Tail(conn[p][c].down))) <= SocketSize
  <2> DEFINE q == conn[p][c].down
  <2>1. q \in Seq(Message) /\ q # << >> /\ Cardinality(Lines(q)) <= SocketSize
    BY <1>1, <1>2, <1>3 DEF Fits
  <2> HIDE DEF q, c
  <2>2. Tail(q) \in Seq(Message) /\ Head(q) \in Message
    BY <2>1, TakenOut
  <2>3. Cardinality(Lines(Tail(q))) <= SocketSize
    BY <2>1, LinesKeptFit
  <2> QED BY <2>2, <2>3 DEF q
<1>5. /\ r \in Record /\ r.up = conn[p][c].up /\ r.channel = conn[p][c].channel
      /\ r.down = Tail(conn[p][c].down) /\ r.receiver = conn[p][c].receiver
      /\ r.broken = conn[p][c].broken
  BY <1>2, <1>4 DEF Record
<1>6. Fits(r) /\ (Dead(conn[p][c]) => Dead(r))
  BY <1>2, <1>4, <1>5 DEF Fits, Dead
<1>7. PortsOK' /\ ConnOK' /\ UsedInv' /\ Moves(p, c, r.up, r.channel, r.down)
  <2> HIDE DEF c, r
  <2> QED BY <1>1, <1>2, <1>5, <1>6, OneMoves
<1>8. BuffersOK'
  <2>1. p[1] \in Node /\ inbox \in [Node -> Seq(Message)]
    BY Mapped DEF TypeInv, BuffersOK
  <2>2. Append(inbox[p[1]], Head(conn[p][c].down)) \in Seq(Message)
    BY <1>4, <2>1, PutIn
  <2>3. inbox' \in [Node -> Seq(Message)]
    BY <1>1, <2>1, <2>2
  <2> QED BY <1>1, <2>3 DEF TypeInv, BuffersOK
<1> HIDE DEF r
<1> QED BY <1>1, <1>2, <1>5, <1>7, <1>8 DEF TypeInv

LEMMA ProcessTypes ==
    ASSUME TypeInv, NEW n \in Node, Process(n)
    PROVE  /\ TypeInv' /\ SameTasks
           /\ UNCHANGED <<sent, conn, queue, holding, torn>>
           /\ inbox \in [Node -> Seq(Message)] /\ inbox[n] # << >>
           /\ inbox' = [inbox EXCEPT ![n] = Tail(inbox[n])]
           /\ handled' = [handled EXCEPT ![Head(inbox[n]).port] = Append(@, Head(inbox[n]))]
<1>1. /\ SameTasks /\ UNCHANGED <<sent, conn, queue, holding, torn, faults>>
      /\ inbox[n] # << >> /\ inbox' = [inbox EXCEPT ![n] = Tail(inbox[n])]
      /\ handled' = [handled EXCEPT ![Head(inbox[n]).port] = Append(@, Head(inbox[n]))]
  BY DEF Process, actor, bounds, SameTasks
<1>2. inbox \in [Node -> Seq(Message)] /\ handled \in [Port -> Seq(Message)]
  BY DEF TypeInv, BuffersOK
<1>3. Head(inbox[n]) \in Message /\ Tail(inbox[n]) \in Seq(Message)
  BY <1>1, <1>2, TakenOut
<1>4. inbox' \in [Node -> Seq(Message)] /\ handled' \in [Port -> Seq(Message)]
  <2> DEFINE m == Head(inbox[n])
  <2>1. m.port \in Port /\ m \in Message
    BY <1>3, Messages
  <2>2. Append(handled[m.port], m) \in Seq(Message)
    BY <1>2, <2>1, PutIn
  <2> QED BY <1>1, <1>2, <1>3, <2>1, <2>2
<1>5. BuffersOK'
  BY <1>1, <1>4 DEF TypeInv, BuffersOK
<1> QED BY <1>1, <1>2, <1>5, NoMoves DEF TypeInv

\* The receiver task of connection c of p reads a line.
LEMMA ReadUpTypes ==
    ASSUME TypeInv, NEW p \in Port, NEW c \in Connection, ReadUp(p, c)
    PROVE  /\ TypeInv' /\ SameTasks
           /\ UNCHANGED <<sent, inbox, handled, holding, torn>>
           /\ LET r == conn[p][c]
              IN  /\ r.up # << >>
                  /\ queue' = Append(queue, Head(r.up))
                  /\ Moves(p, c, Tail(r.up), r.channel, r.down)
<1> DEFINE r == [conn[p][c] EXCEPT !.up = Tail(@)]
<1>1. /\ SameTasks /\ UNCHANGED <<sent, inbox, handled, holding, torn, faults>>
      /\ conn[p][c].receiver = "reading" /\ conn[p][c].up # << >> /\ Len(queue) < QueueSize
      /\ queue' = Append(queue, Head(conn[p][c].up)) /\ conn' = [conn EXCEPT ![p][c] = r]
  BY DEF ReadUp, servers, history, bounds, SameTasks
<1>2. c <= connects[p] /\ conn[p][c] \in Record /\ Fits(conn[p][c])
  BY <1>1, Owns, Made
<1>3. conn[p][c].up \in Seq(Message)
  BY <1>2, Fields
<1>4. /\ Head(conn[p][c].up) \in Message /\ Tail(conn[p][c].up) \in Seq(Message)
      /\ Cardinality(Lines(Tail(conn[p][c].up))) <= SocketSize
  BY <1>1, <1>2, <1>3, TakenOut, LinesKeptFit DEF Fits
<1>5. /\ r \in Record /\ r.up = Tail(conn[p][c].up) /\ r.channel = conn[p][c].channel
      /\ r.down = conn[p][c].down /\ r.receiver = conn[p][c].receiver
  BY <1>2, <1>4 DEF Record
<1>6. Fits(r) /\ ~Dead(conn[p][c])
  BY <1>1, <1>2, <1>4, <1>5 DEF Fits, Dead
<1> HIDE DEF r
<1>7. PortsOK' /\ ConnOK' /\ UsedInv' /\ Moves(p, c, r.up, r.channel, r.down)
  BY <1>1, <1>2, <1>5, <1>6, OneMoves
<1>8. BuffersOK'
  <2>1. queue \in Seq(Message) /\ Len(queue) <= QueueSize
    BY DEF TypeInv, BuffersOK
  <2>2. queue' \in Seq(Message) /\ Len(queue') = Len(queue) + 1 /\ Len(queue) \in Nat
    BY <1>1, <1>4, <2>1, PutIn
  <2>3. Len(queue') <= QueueSize
    BY <1>1, <2>2, Constants
  <2> QED BY <1>1, <2>2, <2>3 DEF TypeInv, BuffersOK
<1> QED BY <1>1, <1>5, <1>7, <1>8 DEF TypeInv

LEMMA ReadTornUpTypes ==
    ASSUME TypeInv, NEW p \in Port, NEW c \in Connection, ReadTornUp(p, c)
    PROVE  /\ TypeInv' /\ SameTasks /\ torn' = torn + 1
           /\ UNCHANGED <<sent, inbox, handled, holding>>
           /\ LET r == conn[p][c]
              IN  /\ ~Dead(r) /\ Dead(conn'[p][c])
                  /\ queue' = Append(queue, Fragment(p, c))
                  /\ Moves(p, c, << >>, r.channel, r.down)
<1> DEFINE r == [conn[p][c] EXCEPT !.up = << >>, !.receiver = "done"]
<1>1. /\ SameTasks /\ UNCHANGED <<sent, inbox, handled, holding, faults>>
      /\ torn < MaxTorn /\ torn' = torn + 1
      /\ conn[p][c].receiver = "reading" /\ conn[p][c].broken /\ Len(queue) < QueueSize
      /\ queue' = Append(queue, Fragment(p, c))
      /\ conn' = [conn EXCEPT ![p][c].up = << >>, ![p][c].receiver = "done"]
  BY DEF ReadTornUp, servers, history, SameTasks
<1>2. /\ c <= connects[p] /\ conn[p][c] \in Record /\ Fits(conn[p][c])
      /\ conn \in [Port -> [Connection -> Record]]
  BY <1>1, Owns, Made DEF TypeInv, ConnOK
<1>3. conn' = [conn EXCEPT ![p][c] = r]
  BY <1>1, <1>2
<1>4. /\ r \in Record /\ r.up = << >> /\ r.channel = conn[p][c].channel
      /\ r.down = conn[p][c].down /\ r.receiver = "done" /\ r.broken
  BY <1>1, <1>2, Nothing DEF Record
<1>5. Fits(r) /\ ~Dead(conn[p][c]) /\ Dead(r)
  BY <1>1, <1>2, <1>4, Nothing, Constants DEF Fits, Dead
<1> HIDE DEF r
<1>6. PortsOK' /\ ConnOK' /\ UsedInv' /\ Moves(p, c, r.up, r.channel, r.down)
  BY <1>1, <1>2, <1>3, <1>4, <1>5, OneMoves
<1>7. conn'[p][c] = r
  BY <1>2, <1>3
<1>8. BuffersOK'
  <2>1. queue \in Seq(Message) /\ Len(queue) <= QueueSize /\ torn' \in 0 .. MaxTorn
    BY <1>1, Constants DEF TypeInv, BuffersOK
  <2>2. queue' \in Seq(Message) /\ Len(queue') = Len(queue) + 1 /\ Len(queue) \in Nat
    BY <1>1, <2>1, Messages, PutIn
  <2>3. Len(queue') <= QueueSize
    BY <1>1, <2>2, Constants
  <2> QED BY <1>1, <2>1, <2>2, <2>3 DEF TypeInv, BuffersOK
<1> QED BY <1>1, <1>4, <1>5, <1>6, <1>7, <1>8 DEF TypeInv

LEMMA WriteDownTypes ==
    ASSUME TypeInv, NEW p \in Port, NEW c \in Connection, WriteDown(p, c)
    PROVE  /\ TypeInv' /\ SameTasks
           /\ UNCHANGED <<sent, inbox, handled, queue, holding, torn>>
           /\ LET r == conn[p][c]
              IN  /\ r.channel # << >>
                  /\ \/ Moves(p, c, r.up, Tail(r.channel), r.down)
                     \/ Moves(p, c, r.up, Tail(r.channel), Append(r.down, Head(r.channel)))
<1> DEFINE d == IF conn[p][c].broken THEN conn[p][c].down
                ELSE Append(conn[p][c].down, Head(conn[p][c].channel))
           r == [conn[p][c] EXCEPT !.channel = Tail(@), !.down = d]
<1>1. /\ SameTasks /\ UNCHANGED <<sent, inbox, handled, queue, holding, torn, faults>>
      /\ conn[p][c].sender = "subscribed" /\ conn[p][c].channel # << >>
      /\ conn[p][c].broken \/ ~Full(conn[p][c].down)
      /\ conn' = [conn EXCEPT
           ![p][c].channel = Tail(@),
           ![p][c].down = IF conn[p][c].broken THEN @
                          ELSE Append(@, Head(conn[p][c].channel))]
  BY DEF WriteDown, servers, actor, history, bounds, SameTasks
<1>2. /\ c <= connects[p] /\ conn[p][c] \in Record /\ Fits(conn[p][c])
      /\ conn \in [Port -> [Connection -> Record]]
  BY <1>1, Owns, Made DEF TypeInv, ConnOK
<1>3. conn' = [conn EXCEPT ![p][c] = r]
  BY <1>1, <1>2
<1>4. conn[p][c].channel \in Seq(Message) /\ conn[p][c].down \in Seq(Message)
  BY <1>2, Fields
<1>5. /\ Head(conn[p][c].channel) \in Message /\ Tail(conn[p][c].channel) \in Seq(Message)
      /\ Len(Tail(conn[p][c].channel)) <= ChannelSize
  <2>1. /\ Head(conn[p][c].channel) \in Message /\ Tail(conn[p][c].channel) \in Seq(Message)
        /\ Len(Tail(conn[p][c].channel)) = Len(conn[p][c].channel) - 1
        /\ Len(conn[p][c].channel) \in Nat
    BY <1>1, <1>4, TakenOut
  <2> QED BY <1>2, <2>1, Constants DEF Fits
<1>6. d \in Seq(Message) /\ Cardinality(Lines(d)) <= SocketSize
  BY <1>1, <1>2, <1>4, <1>5, PutIn, LinesAddedFit DEF Fits
<1> HIDE DEF d
<1>7. /\ r \in Record /\ r.up = conn[p][c].up /\ r.channel = Tail(conn[p][c].channel)
      /\ r.down = d /\ r.receiver = conn[p][c].receiver /\ r.broken = conn[p][c].broken
  BY <1>2, <1>5, <1>6 DEF Record
<1>8. Fits(r) /\ (Dead(conn[p][c]) => Dead(r))
  BY <1>2, <1>5, <1>6, <1>7 DEF Fits, Dead
<1> HIDE DEF r
<1>9. PortsOK' /\ ConnOK' /\ UsedInv' /\ Moves(p, c, r.up, r.channel, r.down)
  BY <1>1, <1>2, <1>3, <1>7, <1>8, OneMoves
<1>10. BuffersOK'
  BY <1>1 DEF TypeInv, BuffersOK
<1> QED BY <1>1, <1>7, <1>9, <1>10 DEF TypeInv, d

\* The central actor.
LEMMA ReceiveTypes ==
    ASSUME TypeInv, Receive
    PROVE  /\ TypeInv' /\ SameTasks /\ UNCHANGED <<sent, inbox, handled, conn, torn>>
           /\ holding = << >> /\ queue # << >> /\ queue \in Seq(Message)
           /\ queue' = Tail(queue) /\ holding' \in {<< >>, <<Head(queue)>>}
<1>1. queue \in Seq(Message) /\ Len(queue) <= QueueSize
  BY DEF TypeInv, BuffersOK
<1>2. /\ SameTasks /\ UNCHANGED <<sent, inbox, handled, conn, torn, faults>>
      /\ holding = << >> /\ queue # << >>
      /\ queue' = SubSeq(queue, 1, 1 - 1) \o SubSeq(queue, 1 + 1, Len(queue))
      /\ holding' \in {<< >>, <<queue[1]>>}
  BY DEF Receive, NextInQueue, servers, history, bounds, SameTasks
<1>3. /\ Tail(queue) = SubSeq(queue, 1, 0) \o SubSeq(queue, 2, Len(queue))
      /\ Head(queue) = queue[1] /\ Head(queue) \in Message /\ Tail(queue) \in Seq(Message)
      /\ Len(Tail(queue)) = Len(queue) - 1 /\ Len(queue) \in Nat
  BY <1>1, <1>2, TakenOut
<1>4. queue' = Tail(queue) /\ Len(queue') <= QueueSize
  <2>1. 1 - 1 = 0 /\ 1 + 1 = 2
    OBVIOUS
  <2>2. queue' = Tail(queue)
    BY <1>2, <1>3, <2>1
  <2> QED BY <1>1, <1>3, <2>2, Constants
<1>5. holding' \in {<< >>, <<Head(queue)>>} /\ holding' \in Seq(Message) /\ Len(holding') <= 1
  <2>1. holding' = << >> \/ holding' = <<Head(queue)>>
    BY <1>2, <1>3
  <2>2. CASE holding' = << >>
    BY <2>2, Nothing
  <2>3. CASE holding' = <<Head(queue)>>
    BY <1>3, <2>3
  <2> QED BY <2>1, <2>2, <2>3
<1>6. BuffersOK'
  BY <1>2, <1>3, <1>4, <1>5 DEF TypeInv, BuffersOK
<1> QED BY <1>1, <1>2, <1>4, <1>5, <1>6, NoMoves DEF TypeInv

LEMMA ForwardTypes ==
    ASSUME TypeInv, Forward
    PROVE  /\ TypeInv' /\ SameTasks /\ UNCHANGED <<sent, inbox, handled, queue, torn>>
           /\ holding # << >> /\ holding \in Seq(Message) /\ holding' = << >>
           /\ LET m == Head(holding)
                  to == MappedPort(m.port)
              IN  /\ m \in Message
                  /\ \/ UNCHANGED conn
                     \/ \E c \in Connection :
                            LET r == conn[to][c]
                            IN  \E ch \in {Append(r.channel, m), << >>} :
                                    Moves(to, c, r.up, ch, r.down)
<1> DEFINE m == Head(holding)
           to == MappedPort(m.port)
<1>1. /\ SameTasks /\ UNCHANGED <<sent, inbox, handled, queue, torn, faults>>
      /\ holding # << >> /\ holding' = << >>
      /\ \E c \in out_channels[to] :
             conn' = IF c = 0 THEN conn ELSE [conn EXCEPT ![to][c] = Published(@, m)]
  BY DEF Forward, servers, history, bounds, SameTasks
<1>2. holding \in Seq(Message)
  BY DEF TypeInv, BuffersOK
<1>3. m \in Message
  BY <1>1, <1>2, TakenOut
<1>4. to \in Port
  BY <1>3, Messages, Mapped
<1> HIDE DEF m, to
<1>5. BuffersOK'
  BY <1>1, Nothing DEF TypeInv, BuffersOK
<1>6. ASSUME NEW c \in Connection, c <= connects[to], conn' = [conn EXCEPT ![to][c] = Published(@, m)]
      PROVE  /\ PortsOK' /\ ConnOK' /\ UsedInv'
             /\ \/ UNCHANGED conn
                \/ \E ch \in {Append(conn[to][c].channel, m), << >>} :
                       Moves(to, c, conn[to][c].up, ch, conn[to][c].down)
  <2> DEFINE q == conn[to][c]
             r == Published(q, m)
  <2>1. q \in Record /\ Fits(q) /\ conn \in [Port -> [Connection -> Record]]
    BY <1>4, Owns DEF TypeInv, ConnOK
  <2>2. q.channel \in Seq(Message)
    BY <2>1, Fields
  <2>3. Append(q.channel, m) \in Seq(Message) /\ Len(Append(q.channel, m)) = Len(q.channel) + 1
        /\ Len(q.channel) \in Nat
    BY <1>3, <2>2, PutIn
  <2> HIDE DEF q
  <2>4. \/ r = q
        \/ /\ r \in Record /\ r.channel \in {Append(q.channel, m), << >>}
           /\ Len(r.channel) <= ChannelSize
           /\ r.up = q.up /\ r.down = q.down /\ r.receiver = q.receiver /\ r.broken = q.broken
    <3>1. CASE q.sender = "subscribed" /\ Room(q)
      <4>1. r = [q EXCEPT !.channel = Append(@, m)]
        BY <3>1 DEF Published
      <4>2. Len(q.channel) + 1 <= ChannelSize
        BY <2>3, <3>1, Constants DEF Room
      <4> HIDE DEF r
      <4> QED BY <2>1, <2>3, <4>1, <4>2 DEF Record
    <3>2. CASE q.sender = "subscribed" /\ ~Room(q)
      <4>1. r = [q EXCEPT !.channel = << >>, !.sender = "lagged"]
        BY <3>2 DEF Published
      <4> HIDE DEF r
      <4>2. r.channel = << >> /\ Len(r.channel) <= ChannelSize
        BY <2>1, <4>1, Nothing, Constants DEF Record
      <4>3. /\ r \in Record /\ r.up = q.up /\ r.down = q.down
            /\ r.receiver = q.receiver /\ r.broken = q.broken
        BY <2>1, <4>1, Nothing DEF Record
      <4> QED BY <4>2, <4>3
    <3>3. CASE q.sender # "subscribed"
      BY <3>3 DEF Published
    <3> QED BY <3>1, <3>2, <3>3
  <2>5. r \in Record /\ Fits(r) /\ r.receiver = q.receiver /\ (Dead(q) => Dead(r))
    BY <2>1, <2>4 DEF Fits, Dead
  <2>6. conn' = [conn EXCEPT ![to][c] = r]
    BY <1>6 DEF q
  <2>7. r = q => UNCHANGED conn
    <3> HIDE DEF r
    <3> QED BY <1>4, <2>1, <2>6 DEF q
  <2>8. PortsOK' /\ ConnOK' /\ UsedInv' /\ Moves(to, c, r.up, r.channel, r.down)
    <3> HIDE DEF r
    <3> QED BY <1>1, <1>4, <1>6, <2>5, <2>6, OneMoves DEF q
  <2> HIDE DEF r
  <2> QED BY <2>4, <2>7, <2>8 DEF q
<1>7. PICK c \in out_channels[to] :
          conn' = IF c = 0 THEN conn ELSE [conn EXCEPT ![to][c] = Published(@, m)]
  BY <1>1
<1>8. c = 0 \/ (c \in Connection /\ c <= connects[to])
  <2>1. /\ PortOK(task[to], sockets[to], stage[to], out_channels[to], accepted[to], connects[to])
        /\ accepted[to] \in 0 .. connects[to] /\ connects[to] \in 0 .. MaxConnects
    BY <1>4, Owns
  <2>2. c \in {0, accepted[to]}
    BY <1>7, <2>1 DEF PortOK
  <2> QED BY <2>1, <2>2, Constants
<1>9. CASE c = 0
  <2>1. UNCHANGED conn
    BY <1>7, <1>9
  <2> QED BY <1>1, <1>2, <1>3, <1>5, <2>1, NoMoves DEF TypeInv, m
<1>10. CASE c # 0
  <2>1. c \in Connection /\ c <= connects[to] /\ conn' = [conn EXCEPT ![to][c] = Published(@, m)]
    BY <1>7, <1>8, <1>10
  <2> QED BY <1>1, <1>2, <1>3, <1>5, <1>6, <2>1 DEF TypeInv, m, to
<1> QED BY <1>9, <1>10

-----------------------------------------------------------------------------
(***************************************************************************)
(* Where messages are.                                                     *)
(***************************************************************************)
LEMMA ContentTyped == ASSUME NEW q \in Seq(Message) PROVE Content(q) \subseteq Message
BY LenProperties DEF Content

LEMMA Places ==
    /\ Waiting \subseteq Everything
    /\ Rising \subseteq Waiting /\ Content(queue) \subseteq Waiting /\ Content(holding) \subseteq Waiting
    /\ \A p \in Port, c \in Connection :
           /\ Content(conn[p][c].up) \subseteq Rising
           /\ Falling(p, c) \subseteq Everything
    /\ \A n \in Node : Content(inbox[n]) \subseteq Everything
BY DEF Everything, Waiting, Rising

LEMMA ArrivingFalls ==
    ASSUME TypeInv, NEW p \in Port
    PROVE  /\ Arriving(p) \subseteq Everything
           /\ \A m \in Arriving(p) : Reads(p) /\ connects[p] \in Connection
                                     /\ m \in Falling(p, connects[p])
<1>1. Reads(p) => connects[p] \in Connection
  BY Owns
<1>2. Reads(p) => Arriving(p) = Falling(p, connects[p])
  BY DEF Arriving, Falling, Own
<1>3. ~Reads(p) => Arriving(p) = {}
  BY DEF Arriving
<1> QED BY <1>1, <1>2, <1>3, Places

LEMMA EverythingTyped == TypeInv => Everything \subseteq Message
<1> SUFFICES ASSUME TypeInv PROVE Everything \subseteq Message
  OBVIOUS
<1>1. \A p \in Port, c \in Connection :
          /\ Content(conn[p][c].up) \subseteq Message
          /\ Content(conn[p][c].down) \subseteq Message
          /\ Content(conn[p][c].channel) \subseteq Message
  BY Owns, Fields, ContentTyped
<1>2. Content(queue) \subseteq Message /\ Content(holding) \subseteq Message
      /\ \A n \in Node : Content(inbox[n]) \subseteq Message
  BY ContentTyped DEF TypeInv, BuffersOK
<1>3. Rising \subseteq Message
  BY <1>1 DEF Rising
<1>4. \A p \in Port, c \in Connection : Falling(p, c) \subseteq Message
  BY <1>1 DEF Falling
<1> QED BY <1>2, <1>3, <1>4 DEF Everything, Waiting

LEMMA RisingLess ==
    ASSUME \A p \in Port, c \in Connection : Content(conn'[p][c].up) \subseteq Content(conn[p][c].up)
    PROVE  Rising' \subseteq Rising
BY DEF Rising

LEMMA WaitingMore ==
    ASSUME NEW N, Rising' \subseteq Waiting \union N, Content(queue') \subseteq Waiting \union N,
           Content(holding') \subseteq Waiting \union N
    PROVE  Waiting' \subseteq Waiting \union N
BY DEF Waiting

LEMMA EverythingMore ==
    ASSUME NEW N, Waiting' \subseteq Waiting \union N,
           \A p \in Port, c \in Connection : Falling(p, c)' \subseteq Everything \union N,
           \A n \in Node : Content(inbox'[n]) \subseteq Everything \union N
    PROVE  Everything' \subseteq Everything \union N
<1>1. Waiting' \subseteq Everything \union N
  BY Places
<1>2. (UNION {Falling(p, c)' : p \in Port, c \in Connection}) \subseteq Everything \union N
  OBVIOUS
<1>3. (UNION {Content(inbox'[n]) : n \in Node}) \subseteq Everything \union N
  OBVIOUS
<1>4. Everything' = Waiting' \union (UNION {Falling(p, c)' : p \in Port, c \in Connection})
                             \union (UNION {Content(inbox'[n]) : n \in Node})
  BY DEF Everything
<1> QED BY <1>1, <1>2, <1>3, <1>4

-----------------------------------------------------------------------------
(***************************************************************************)
(* Parts of the invariant, after a step that lets the messages N wait that *)
(* are later than everything else.                                         *)
(***************************************************************************)
LEMMA RisingKept ==
    ASSUME NEW p \in Port, NEW c \in Connection, RisingInv(p, c),
           Sorted(conn'[p][c].up), Content(conn'[p][c].up) \subseteq Content(conn[p][c].up)
    PROVE  RisingInv(p, c)'
BY DEF RisingInv

LEMMA QueueKept ==
    ASSUME QueueInv, Sorted(queue'), Content(queue') \subseteq Content(queue),
           Content(holding') \subseteq Content(holding), Rising' \subseteq Rising
    PROVE  QueueInv'
BY DEF QueueInv, Before

LEMMA FallingKept ==
    ASSUME NEW p \in Port, NEW c \in Connection, NEW N, FallingInv(p, c), Before(Falling(p, c), N),
           Waiting' \subseteq Waiting \union N, Falling(p, c)' \subseteq Falling(p, c),
           Sorted(conn'[p][c].channel), Sorted(conn'[p][c].down),
           Before(Content(conn'[p][c].down), Content(conn'[p][c].channel))
    PROVE  FallingInv(p, c)'
<1>1. Before(Falling(p, c)', Waiting')
  BY DEF FallingInv, Before
<1>2. \A m \in Falling(p, c)' : m.port = MappedPort(p)
  BY DEF FallingInv
<1> QED BY <1>1, <1>2 DEF FallingInv

LEMMA FallingSame ==
    ASSUME NEW p \in Port, NEW c \in Connection, NEW N, FallingInv(p, c), Before(Falling(p, c), N),
           Waiting' \subseteq Waiting \union N,
           conn'[p][c].channel = conn[p][c].channel, conn'[p][c].down = conn[p][c].down
    PROVE  FallingInv(p, c)' /\ Falling(p, c)' = Falling(p, c)
<1>1. Falling(p, c)' = Falling(p, c)
  BY DEF Falling
<1>2. /\ Sorted(conn'[p][c].channel) /\ Sorted(conn'[p][c].down)
      /\ Before(Content(conn'[p][c].down), Content(conn'[p][c].channel))
  BY DEF FallingInv
<1> QED BY <1>1, <1>2, FallingKept

LEMMA InboxKept ==
    ASSUME NEW n \in Node, NEW N, InboxInv(n), Before(Content(inbox[n]), N),
           Waiting' \subseteq Waiting \union N,
           \A p \in Port : Arriving(p)' \subseteq Arriving(p) \union Waiting,
           Sorted(inbox'[n]), Content(inbox'[n]) \subseteq Content(inbox[n])
    PROVE  InboxInv(n)'
<1>1. \A m \in Content(inbox'[n]) : m.port[2] = n /\ ~IsFragment(m)
  BY DEF InboxInv
<1>2. Before(Content(inbox'[n]), Waiting')
  BY DEF InboxInv, Before
<1>3. ASSUME NEW p \in Port, p[1] = n PROVE Before(Content(inbox'[n]), Arriving(p)')
  BY <1>3 DEF InboxInv, Before
<1> QED BY <1>1, <1>2, <1>3 DEF InboxInv

\* Nothing reaches a server that goes on to read the same connection.
LEMMA ArrivingMore ==
    ASSUME TypeInv, SameTasks, NEW p \in Port, NEW N,
           \A c \in Connection : Falling(p, c)' \subseteq Falling(p, c) \union N
    PROVE  Arriving(p)' \subseteq Arriving(p) \union N
<1>1. Reads(p)' <=> Reads(p)
  BY DEF Reads, SameTasks
<1>2. CASE ~Reads(p)
  BY <1>1, <1>2 DEF Arriving
<1>3. CASE Reads(p)
  <2> DEFINE c == connects[p]
  <2>1. c \in Connection /\ connects'[p] = c
    BY <1>3, Owns DEF SameTasks
  <2>2. Arriving(p) = Falling(p, c)
    BY <1>3 DEF Arriving, Falling, Own
  <2>3. Arriving(p)' = Content(conn'[p][c].down) \union Content(conn'[p][c].channel)
    BY <1>1, <1>3, <2>1 DEF Arriving, Own
  <2>4. Falling(p, c)' \subseteq Falling(p, c) \union N
    BY <2>1
  <2>5. Falling(p, connects[p])' = Content(conn'[p][connects'[p]].channel)
                                       \union Content(conn'[p][connects'[p]].down)
    BY DEF Falling
  <2>6. Arriving(p)' \subseteq Falling(p, c) \union N
    <3>1. PICK d \in Connection : d = connects[p]
      BY <2>1
    <3>2. Falling(p, d)' = Content(conn'[p][d].channel) \union Content(conn'[p][d].down)
      BY DEF Falling
    <3>3. Falling(p, d)' \subseteq Falling(p, d) \union N
      OBVIOUS
    <3> QED BY <2>3, <3>1, <3>2, <3>3
  <2> QED BY <2>2, <2>6
<1> QED BY <1>2, <1>3

LEMMA NumKept ==
    ASSUME TypeInv, OrderInv, Everything' \subseteq Everything, UNCHANGED sent
    PROVE  \A m \in Everything' : m.num <= sent'[m.port]
BY DEF OrderInv

LEMMA FragmentsKept ==
    ASSUME TypeInv, FragmentInv, Fragments' \subseteq Fragments,
           \A p \in Port, c \in Connection : Dead(conn[p][c]) => Dead(conn'[p][c]),
           torn' >= torn, torn' \in Nat
    PROVE  FragmentInv'
<1>1. IsFiniteSet(Fragments') /\ Cardinality(Fragments') <= Cardinality(Fragments)
      /\ Cardinality(Fragments') \in Nat /\ Cardinality(Fragments) \in Nat
  BY FS_Subset, FS_CardinalityType DEF FragmentInv
<1>2. Cardinality(Fragments') <= torn'
  BY <1>1, Counters DEF FragmentInv
<1>3. ASSUME NEW m \in Fragments' PROVE Dead(conn'[m.port][m.conn])
  <2>1. m \in Fragments /\ m \in Message
    BY EverythingTyped DEF Fragments
  <2>2. Dead(conn[m.port][m.conn]) /\ m.port \in Port /\ m.conn \in Connection
    BY <2>1, Messages DEF FragmentInv
  <2> QED BY <2>2
<1> QED BY <1>1, <1>2, <1>3 DEF FragmentInv

LEMMA NoneNew == /\ \A A : Before(A, {}) /\ Before({}, A)
BY DEF Before

-----------------------------------------------------------------------------
(***************************************************************************)
(* Every step keeps the order of the messages.                             *)
(***************************************************************************)
\* At most some of the messages on their way are lost.
Flowing == Pending' \subseteq Pending /\ UNCHANGED <<sent, handled>>

LEMMA PendingMore ==
    ASSUME NEW N, Waiting' \subseteq Waiting \union N,
           \A p \in Port : Arriving(p)' \subseteq Arriving(p) \union Waiting,
           \A n \in Node : \/ Content(inbox'[n]) \subseteq Content(inbox[n])
                          \/ \E p \in Port :
                                 Content(inbox'[n]) \subseteq Content(inbox[n]) \union Arriving(p)
    PROVE  /\ Pending' \subseteq Pending \union N
           /\ \A m \in Pending' : ~IsFragment(m)
<1> DEFINE A == UNION {Arriving(p) : p \in Port}
           I == UNION {Content(inbox[n]) : n \in Node}
<1>1. Pending = {m \in Waiting \union A \union I : ~IsFragment(m)}
  <2>1. (UNION {Content(conn[p][c].up) : p \in Port, c \in Connection}) \union Content(queue)
            \union Content(holding) = Waiting
    BY DEF Waiting, Rising
  <2> QED BY <2>1 DEF Pending
<1>2. Pending' = {m \in Waiting' \union A' \union I' : ~IsFragment(m)}
  <2>1. (UNION {Content(conn'[p][c].up) : p \in Port, c \in Connection}) \union Content(queue')
            \union Content(holding') = Waiting'
    BY DEF Waiting, Rising
  <2> QED BY <2>1 DEF Pending
<1>3. A' \subseteq A \union Waiting
  OBVIOUS
<1>4. I' \subseteq I \union A
  OBVIOUS
<1> HIDE DEF A, I
<1> QED BY <1>1, <1>2, <1>3, <1>4

LEMMA PendingLess ==
    ASSUME Waiting' \subseteq Waiting,
           \A p \in Port : Arriving(p)' \subseteq Arriving(p) \union Waiting,
           \A n \in Node : \/ Content(inbox'[n]) \subseteq Content(inbox[n])
                          \/ \E p \in Port :
                                 Content(inbox'[n]) \subseteq Content(inbox[n]) \union Arriving(p)
    PROVE  Pending' \subseteq Pending
<1>1. Waiting' \subseteq Waiting \union {}
  OBVIOUS
<1>2. Pending' \subseteq Pending \union {}
  BY <1>1, PendingMore
<1> QED BY <1>2

LEMMA LosingOrder ==
    ASSUME LinkInv, TypeInv', Losing
    PROVE  OrderInv' /\ FragmentInv' /\ Flowing
<1>1. \A p \in Port, c \in Connection :
          /\ conn'[p][c].up \in {conn[p][c].up, << >>}
          /\ conn'[p][c].channel \in {conn[p][c].channel, << >>}
          /\ conn'[p][c].down \in {conn[p][c].down, << >>}
          /\ Dead(conn[p][c]) => Dead(conn'[p][c])
  BY DEF Losing, Shrunk
<1>2. \A p \in Port, c \in Connection :
          /\ Content(conn'[p][c].up) \subseteq Content(conn[p][c].up)
          /\ Content(conn'[p][c].channel) \subseteq Content(conn[p][c].channel)
          /\ Content(conn'[p][c].down) \subseteq Content(conn[p][c].down)
          /\ Falling(p, c)' \subseteq Falling(p, c)
  <2> SUFFICES ASSUME NEW p \in Port, NEW c \in Connection
               PROVE  /\ Content(conn'[p][c].up) \subseteq Content(conn[p][c].up)
                      /\ Content(conn'[p][c].channel) \subseteq Content(conn[p][c].channel)
                      /\ Content(conn'[p][c].down) \subseteq Content(conn[p][c].down)
                      /\ Falling(p, c)' \subseteq Falling(p, c)
    OBVIOUS
  <2>1. /\ Content(conn'[p][c].up) \subseteq Content(conn[p][c].up)
        /\ Content(conn'[p][c].channel) \subseteq Content(conn[p][c].channel)
        /\ Content(conn'[p][c].down) \subseteq Content(conn[p][c].down)
    BY <1>1, Nothing
  <2> QED BY <2>1 DEF Falling
<1>3. Rising' \subseteq Rising
  BY <1>2, RisingLess
<1>4. /\ Sorted(queue') /\ Content(queue') \subseteq Content(queue)
      /\ Content(holding') \subseteq Content(holding)
  BY Nothing DEF LinkInv, OrderInv, QueueInv, Losing
<1>5. Waiting' \subseteq Waiting \union {}
  BY <1>3, <1>4, Places, WaitingMore
<1>6. \A n \in Node : Sorted(inbox'[n]) /\ Content(inbox'[n]) \subseteq Content(inbox[n])
  BY Nothing DEF LinkInv, OrderInv, InboxInv, Losing
<1>7. Everything' \subseteq Everything \union {}
  BY <1>2, <1>5, <1>6, Places, EverythingMore
<1>8. ASSUME NEW p \in Port, NEW c \in Connection PROVE RisingInv(p, c)' /\ FallingInv(p, c)'
  <2>1. RisingInv(p, c) /\ FallingInv(p, c)
    BY DEF LinkInv, OrderInv
  <2>2. Sorted(conn'[p][c].up) /\ Sorted(conn'[p][c].channel) /\ Sorted(conn'[p][c].down)
    BY <1>1, <2>1, Nothing DEF RisingInv, FallingInv
  <2>3. Before(Content(conn'[p][c].down), Content(conn'[p][c].channel))
    BY <1>2, <2>1 DEF FallingInv, Before
  <2> QED BY <1>2, <1>5, <2>1, <2>2, <2>3, NoneNew, RisingKept, FallingKept
<1>9. QueueInv'
  BY <1>3, <1>4, QueueKept DEF LinkInv, OrderInv
<1>10. ASSUME NEW n \in Node PROVE InboxInv(n)'
  <2>1. InboxInv(n) /\ \A p \in Port : Arriving(p)' \subseteq Arriving(p)
    BY DEF LinkInv, OrderInv, Losing
  <2> QED BY <1>5, <1>6, <2>1, NoneNew, InboxKept
<1>11. Everything' \subseteq Everything
  BY <1>7
<1>12. \A m \in Everything' : m.num <= sent'[m.port]
  BY <1>11, NumKept DEF LinkInv, Losing
<1>13. FragmentInv'
  <2>1. torn' \in Nat /\ torn' >= torn
    BY Constants DEF Losing, TypeInv, BuffersOK
  <2>2. Fragments' \subseteq Fragments
    BY <1>11 DEF Fragments
  <2> QED BY <1>1, <2>1, <2>2, FragmentsKept DEF LinkInv
<1>14. Flowing
  <2>1. /\ UNCHANGED <<sent, handled>> /\ Waiting' \subseteq Waiting
        /\ \A p \in Port : Arriving(p)' \subseteq Arriving(p) \union Waiting
    BY <1>5 DEF Losing
  <2> QED BY <1>6, <2>1, PendingLess DEF Flowing
<1> QED BY <1>8, <1>9, <1>10, <1>12, <1>13, <1>14 DEF OrderInv

\* A step that moves a message and lets no new one wait.
LEMMA MovingOrder ==
    ASSUME LinkInv, TypeInv', SameTasks, UNCHANGED <<sent, torn>>,
           \A p \in Port, c \in Connection :
               /\ RisingInv(p, c)' /\ FallingInv(p, c)'
               /\ Falling(p, c)' \subseteq Everything
               /\ Dead(conn[p][c]) => Dead(conn'[p][c]),
           QueueInv', Waiting' \subseteq Waiting,
           \A n \in Node : InboxInv(n)' /\ Content(inbox'[n]) \subseteq Everything
    PROVE  OrderInv' /\ FragmentInv'
<1>1. Everything' \subseteq Everything \union {}
  BY EverythingMore
<1>2. Everything' \subseteq Everything
  BY <1>1
<1>3. \A m \in Everything' : m.num <= sent'[m.port]
  BY <1>2, NumKept DEF LinkInv
<1>4. FragmentInv'
  <2>1. torn' \in Nat /\ torn' >= torn
    BY Counters DEF LinkInv
  <2>2. Fragments' \subseteq Fragments
    BY <1>2 DEF Fragments
  <2> QED BY <2>1, <2>2, FragmentsKept DEF LinkInv
<1> QED BY <1>3, <1>4 DEF OrderInv

\* The parts that a step of one connection leaves alone.
LEMMA OthersKept ==
    ASSUME LinkInv, NEW p \in Port, NEW c \in Connection, Others(p, c), Waiting' \subseteq Waiting,
           NEW q \in Port, NEW d \in Connection, q # p \/ d # c
    PROVE  /\ RisingInv(q, d)' /\ FallingInv(q, d)'
           /\ Falling(q, d)' = Falling(q, d) /\ Falling(q, d)' \subseteq Everything
           /\ Dead(conn[q][d]) => Dead(conn'[q][d])
           /\ conn'[q][d].up = conn[q][d].up
<1>1. conn'[q][d] = conn[q][d]
  BY DEF Others
<1>2. RisingInv(q, d) /\ FallingInv(q, d)
  BY DEF LinkInv, OrderInv
<1>3. RisingInv(q, d)'
  BY <1>1, <1>2 DEF RisingInv
<1>4. FallingInv(q, d)' /\ Falling(q, d)' = Falling(q, d)
  <2>1. Waiting' \subseteq Waiting \union {}
    OBVIOUS
  <2> QED BY <1>1, <1>2, <2>1, NoneNew, FallingSame
<1> QED BY <1>1, <1>3, <1>4, Places

\* The inboxes stay, and nothing reaches a server that was not waiting.
LEMMA InboxesKept ==
    ASSUME LinkInv, Waiting' \subseteq Waiting, UNCHANGED inbox,
           \A p \in Port : Arriving(p)' \subseteq Arriving(p) \union Waiting, NEW n \in Node
    PROVE  InboxInv(n)' /\ Content(inbox'[n]) \subseteq Everything
<1>1. InboxInv(n) /\ Waiting' \subseteq Waiting \union {}
  BY DEF LinkInv, OrderInv
<1>2. Sorted(inbox'[n]) /\ Content(inbox'[n]) \subseteq Content(inbox[n])
  BY <1>1 DEF InboxInv
<1>3. InboxInv(n)'
  BY <1>1, <1>2, NoneNew, InboxKept
<1> QED BY <1>2, <1>3, Places

LEMMA WriteDownOrder ==
    ASSUME LinkInv, NEW p \in Port, NEW c \in Connection, WriteDown(p, c)
    PROVE  OrderInv' /\ FragmentInv' /\ Flowing
<1> DEFINE up == conn[p][c].up
           ch == conn[p][c].channel
           dn == conn[p][c].down
           m == Head(ch)
<1>1. /\ TypeInv /\ TypeInv' /\ SameTasks /\ UNCHANGED <<sent, inbox, handled, queue, holding, torn>>
      /\ ch # << >>
      /\ Moves(p, c, up, Tail(ch), dn) \/ Moves(p, c, up, Tail(ch), Append(dn, m))
  BY WriteDownTypes DEF LinkInv
<1>2. PICK d \in {dn, Append(dn, m)} : Moves(p, c, up, Tail(ch), d)
  BY <1>1
<1>3. ch \in Seq(Message) /\ dn \in Seq(Message)
  BY <1>1, Owns, Fields
<1>4. /\ RisingInv(p, c) /\ FallingInv(p, c) /\ Falling(p, c) = Content(ch) \union Content(dn)
      /\ Sorted(ch) /\ Sorted(dn) /\ Before(Content(dn), Content(ch))
  BY DEF LinkInv, OrderInv, FallingInv, Falling
<1>5. /\ conn'[p][c].up = up /\ conn'[p][c].channel = Tail(ch) /\ conn'[p][c].down = d
      /\ Others(p, c) /\ (Dead(conn[p][c]) => Dead(conn'[p][c]))
  BY <1>2 DEF Moves
<1>6. Falling(p, c)' = Content(Tail(ch)) \union Content(d)
  BY <1>5 DEF Falling
<1> HIDE DEF ch, dn, up
<1>7. /\ m \in Message /\ Content(ch) = Content(Tail(ch)) \union {m}
      /\ Sorted(Tail(ch)) /\ Before({m}, Content(Tail(ch)))
  BY <1>1, <1>3, <1>4, TakenOut
<1> HIDE DEF m
<1>8. Sorted(d) /\ Content(d) \subseteq Content(dn) \union {m} /\ Before(Content(d), Content(Tail(ch)))
  <2>1. Before(Content(dn), {m}) /\ Before(Content(dn), Content(Tail(ch)))
    BY <1>4, <1>7 DEF Before
  <2>2. Sorted(Append(dn, m)) /\ Content(Append(dn, m)) = Content(dn) \union {m}
    BY <1>3, <1>4, <1>7, <2>1, PutIn
  <2>3. Before(Content(dn) \union {m}, Content(Tail(ch)))
    BY <1>7, <2>1 DEF Before
  <2> QED BY <1>4, <2>1, <2>2, <2>3
<1>9. Falling(p, c)' \subseteq Falling(p, c)
  BY <1>4, <1>6, <1>7, <1>8
<1>10. \A q \in Port, e \in Connection : conn'[q][e].up = conn[q][e].up
  BY <1>5 DEF Others, up
<1>11. Rising' \subseteq Rising
  BY <1>10, RisingLess
<1>12. Waiting' \subseteq Waiting
  BY <1>1, <1>11 DEF Waiting
<1>13. RisingInv(p, c)' /\ FallingInv(p, c)'
  <2>1. RisingInv(p, c)'
    BY <1>4, <1>5 DEF RisingInv, up
  <2>2. Waiting' \subseteq Waiting \union {} /\ Before(Falling(p, c), {})
    BY <1>12, NoneNew
  <2> QED BY <1>4, <1>5, <1>7, <1>8, <1>9, <2>1, <2>2, FallingKept
<1>14. ASSUME NEW q \in Port, NEW e \in Connection
       PROVE  /\ RisingInv(q, e)' /\ FallingInv(q, e)' /\ Falling(q, e)' \subseteq Everything
              /\ Falling(q, e)' \subseteq Falling(q, e) /\ (Dead(conn[q][e]) => Dead(conn'[q][e]))
  <2>1. CASE q = p /\ e = c
    BY <1>5, <1>9, <1>13, <2>1, Places
  <2>2. CASE q # p \/ e # c
    BY <1>5, <1>12, <2>2, OthersKept
  <2> QED BY <2>1, <2>2
<1>15. \A q \in Port : Arriving(q)' \subseteq Arriving(q)
  <2>1. \A q \in Port : Arriving(q)' \subseteq Arriving(q) \union {}
    BY <1>1, <1>14, ArrivingMore
  <2> QED BY <2>1
<1>16. \A n \in Node : InboxInv(n)' /\ Content(inbox'[n]) \subseteq Everything
  BY <1>1, <1>12, <1>15, InboxesKept
<1>17. QueueInv'
  BY <1>1, <1>11, QueueKept DEF LinkInv, OrderInv, QueueInv
<1>18. Flowing
  <2>1. \A n \in Node : Content(inbox'[n]) \subseteq Content(inbox[n])
    BY <1>1
  <2>2. \A q \in Port : Arriving(q)' \subseteq Arriving(q) \union Waiting
    BY <1>15
  <2> QED BY <1>1, <1>12, <2>1, <2>2, PendingLess DEF Flowing
<1> QED BY <1>1, <1>12, <1>14, <1>16, <1>17, <1>18, MovingOrder

\* The messages that still rise are of other connections, or later.
LEMMA ReadUpOrder ==
    ASSUME LinkInv, NEW p \in Port, NEW c \in Connection, ReadUp(p, c)
    PROVE  OrderInv' /\ FragmentInv' /\ Flowing
<1> DEFINE up == conn[p][c].up
           m == Head(up)
<1>1. /\ TypeInv /\ TypeInv' /\ SameTasks /\ UNCHANGED <<sent, inbox, handled, holding, torn>>
      /\ up # << >> /\ queue' = Append(queue, m)
      /\ Moves(p, c, Tail(up), conn[p][c].channel, conn[p][c].down)
  BY ReadUpTypes DEF LinkInv
<1>2. up \in Seq(Message) /\ queue \in Seq(Message)
  BY <1>1, Owns, Fields DEF TypeInv, BuffersOK
<1>3. /\ conn'[p][c].up = Tail(up) /\ conn'[p][c].channel = conn[p][c].channel
      /\ conn'[p][c].down = conn[p][c].down
      /\ Others(p, c) /\ (Dead(conn[p][c]) => Dead(conn'[p][c]))
  BY <1>1 DEF Moves
<1>4. /\ Sorted(up) /\ \A o \in Content(up) : o.port = p /\ o.conn = c /\ ~IsFragment(o)
      /\ FallingInv(p, c) /\ QueueInv /\ RisingInv(p, c)
  BY DEF LinkInv, OrderInv, RisingInv
<1>5. Content(up) \subseteq Rising
  BY Places
<1> HIDE DEF up
<1>6. /\ m \in Message /\ Content(up) = Content(Tail(up)) \union {m}
      /\ Sorted(Tail(up)) /\ Before({m}, Content(Tail(up)))
  BY <1>1, <1>2, <1>4, TakenOut
<1> HIDE DEF m
<1>7. \A q \in Port, d \in Connection : q # p \/ d # c => conn'[q][d].up = conn[q][d].up
  BY <1>3 DEF Others
<1>8. \A q \in Port, d \in Connection : Content(conn'[q][d].up) \subseteq Content(conn[q][d].up)
  BY <1>3, <1>6, <1>7 DEF up
<1>9. Rising' \subseteq Rising
  BY <1>8, RisingLess
<1>10. m \in Rising /\ m.port = p /\ m.conn = c
  BY <1>4, <1>5, <1>6
<1>11. Sorted(queue') /\ Content(queue') = Content(queue) \union {m}
  <2>1. Before(Content(queue), {m}) /\ Sorted(queue)
    BY <1>4, <1>10 DEF QueueInv, Before
  <2> QED BY <1>1, <1>2, <1>6, <2>1, PutIn
<1>12. Waiting' \subseteq Waiting
  BY <1>1, <1>9, <1>10, <1>11 DEF Waiting
<1>13. Before({m}, Rising')
  <2>1. ASSUME NEW q \in Port, NEW d \in Connection, NEW o \in Content(conn'[q][d].up)
        PROVE  Earlier(m, o)
    <3>1. CASE q = p /\ d = c
      BY <1>3, <1>6, <2>1, <3>1 DEF Before
    <3>2. CASE q # p \/ d # c
      <4>1. o \in Content(conn[q][d].up)
        BY <1>7, <2>1, <3>2
      <4>2. o.port = q /\ o.conn = d
        BY <4>1 DEF LinkInv, OrderInv, RisingInv
      <4> QED BY <1>10, <3>2, <4>2 DEF Earlier
    <3> QED BY <3>1, <3>2
  <2> QED BY <2>1 DEF Before, Rising
<1>14. QueueInv'
  <2>1. Before(Content(holding), Content(queue')) /\ Before(Content(holding) \union Content(queue'), Rising')
    BY <1>4, <1>9, <1>10, <1>11, <1>13 DEF QueueInv, Before
  <2> QED BY <1>1, <1>11, <2>1 DEF QueueInv
<1>15. RisingInv(p, c)' /\ FallingInv(p, c)' /\ Falling(p, c)' = Falling(p, c)
  <2>1. RisingInv(p, c)'
    BY <1>3, <1>4, <1>6, <1>8, RisingKept
  <2>2. Waiting' \subseteq Waiting \union {} /\ Before(Falling(p, c), {})
    BY <1>12, NoneNew
  <2> QED BY <1>3, <1>4, <2>1, <2>2, FallingSame
<1>16. ASSUME NEW q \in Port, NEW d \in Connection
       PROVE  /\ RisingInv(q, d)' /\ FallingInv(q, d)' /\ Falling(q, d)' \subseteq Everything
              /\ Falling(q, d)' \subseteq Falling(q, d) /\ (Dead(conn[q][d]) => Dead(conn'[q][d]))
  <2>1. CASE q = p /\ d = c
    BY <1>3, <1>15, <2>1, Places
  <2>2. CASE q # p \/ d # c
    BY <1>3, <1>12, <2>2, OthersKept
  <2> QED BY <2>1, <2>2
<1>17. \A q \in Port : Arriving(q)' \subseteq Arriving(q) \union Waiting
  BY <1>1, <1>16, ArrivingMore
<1>18. \A n \in Node : /\ InboxInv(n)' /\ Content(inbox'[n]) \subseteq Everything
                       /\ Content(inbox'[n]) \subseteq Content(inbox[n])
  BY <1>1, <1>12, <1>17, InboxesKept
<1>19. Flowing
  BY <1>1, <1>12, <1>17, <1>18, PendingLess DEF Flowing
<1> QED BY <1>1, <1>12, <1>14, <1>16, <1>18, <1>19, MovingOrder

\* No connection and no inbox changes.
LEMMA CentralOrder ==
    ASSUME LinkInv, TypeInv', SameTasks, UNCHANGED <<sent, inbox, handled, conn, torn>>,
           Waiting' \subseteq Waiting, QueueInv'
    PROVE  OrderInv' /\ FragmentInv' /\ Flowing
<1>1. ASSUME NEW p \in Port, NEW c \in Connection
      PROVE  /\ RisingInv(p, c)' /\ FallingInv(p, c)' /\ Falling(p, c)' \subseteq Everything
             /\ Falling(p, c)' \subseteq Falling(p, c) /\ (Dead(conn[p][c]) => Dead(conn'[p][c]))
  <2>1. RisingInv(p, c) /\ FallingInv(p, c) /\ Waiting' \subseteq Waiting \union {}
    BY DEF LinkInv, OrderInv
  <2>2. RisingInv(p, c)'
    BY <2>1 DEF RisingInv
  <2>3. FallingInv(p, c)' /\ Falling(p, c)' = Falling(p, c)
    BY <2>1, NoneNew, FallingSame
  <2> QED BY <2>2, <2>3, Places
<1>2. \A p \in Port : Arriving(p)' \subseteq Arriving(p) \union Waiting
  BY <1>1, ArrivingMore DEF LinkInv
<1>3. \A n \in Node : InboxInv(n)' /\ Content(inbox'[n]) \subseteq Everything
  BY <1>2, InboxesKept
<1>4. Flowing
  BY <1>2, PendingLess DEF Flowing
<1> QED BY <1>1, <1>3, <1>4, MovingOrder

LEMMA ReceiveOrder ==
    ASSUME LinkInv, Receive
    PROVE  OrderInv' /\ FragmentInv' /\ Flowing
<1> DEFINE m == Head(queue)
<1>1. /\ TypeInv' /\ SameTasks /\ UNCHANGED <<sent, inbox, handled, conn, torn>>
      /\ holding = << >> /\ queue # << >> /\ queue \in Seq(Message)
      /\ queue' = Tail(queue) /\ holding' \in {<< >>, <<m>>}
  BY ReceiveTypes DEF LinkInv
<1>2. QueueInv
  BY DEF LinkInv, OrderInv
<1>3. /\ m \in Message /\ Content(queue) = Content(Tail(queue)) \union {m}
      /\ Sorted(Tail(queue)) /\ Before({m}, Content(Tail(queue)))
  BY <1>1, <1>2, TakenOut DEF QueueInv
<1> HIDE DEF m
<1>4. Content(holding') \subseteq {m}
  <2>1. CASE holding' = << >>
    BY <2>1, Nothing
  <2>2. CASE holding' = <<m>>
    BY <2>2 DEF Content
  <2> QED BY <1>1, <2>1, <2>2
<1>5. Rising' = Rising
  BY <1>1 DEF Rising
<1>6. Waiting' \subseteq Waiting
  BY <1>1, <1>3, <1>4, <1>5 DEF Waiting
<1>7. QueueInv'
  <2>1. Sorted(queue') /\ Before(Content(holding'), Content(queue'))
    BY <1>1, <1>3, <1>4 DEF Before
  <2>2. Before(Content(holding') \union Content(queue'), Rising)
    BY <1>1, <1>2, <1>3, <1>4 DEF QueueInv, Before
  <2> QED BY <1>5, <2>1, <2>2 DEF QueueInv
<1> QED BY <1>1, <1>6, <1>7, CentralOrder

\* The message that the central actor holds is later than what its receiver gets first.
LEMMA PublishOrder ==
    ASSUME LinkInv, TypeInv', SameTasks, UNCHANGED <<sent, inbox, handled, queue, torn>>,
           holding' = << >>, NEW m \in Message, m \in Content(holding),
           NEW to \in Port, MappedPort(to) = m.port,
           NEW c \in Connection, NEW ch \in {Append(conn[to][c].channel, m), << >>},
           Moves(to, c, conn[to][c].up, ch, conn[to][c].down)
    PROVE  OrderInv' /\ FragmentInv' /\ Flowing
<1> DEFINE q == conn[to][c].channel
           dn == conn[to][c].down
<1>1. /\ conn'[to][c].up = conn[to][c].up /\ conn'[to][c].channel = ch /\ conn'[to][c].down = dn
      /\ Others(to, c) /\ (Dead(conn[to][c]) => Dead(conn'[to][c]))
  BY DEF Moves
<1>2. \A p \in Port, d \in Connection : conn'[p][d].up = conn[p][d].up
  BY <1>1 DEF Others
<1>3. Rising' = Rising /\ Content(holding') = {}
  BY <1>2, Nothing DEF Rising
<1>4. Waiting' = Rising \union Content(queue) /\ QueueInv
  BY <1>3 DEF Waiting, LinkInv, OrderInv
<1>5. Waiting' \subseteq Waiting /\ m \in Waiting
  BY <1>4, Places DEF Waiting
<1>6. Before({m}, Waiting')
  BY <1>4 DEF QueueInv, Before
<1>7. QueueInv'
  BY <1>3, <1>4 DEF QueueInv, Before
<1>8. RisingInv(to, c) /\ FallingInv(to, c)
  BY DEF LinkInv, OrderInv
<1>9. /\ Sorted(q) /\ Sorted(dn) /\ Before(Content(dn), Content(q)) /\ Before(Falling(to, c), {m})
      /\ Falling(to, c) = Content(q) \union Content(dn)
  BY <1>5, <1>8 DEF FallingInv, Before, Falling
<1>10. q \in Seq(Message)
  BY Owns, Fields DEF LinkInv
<1>11. Falling(to, c)' = Content(ch) \union Content(dn)
  BY <1>1 DEF Falling
<1>12. ch \in {Append(q, m), << >>}
  OBVIOUS
<1> HIDE DEF q, dn
<1>13. Sorted(ch) /\ Content(ch) \subseteq Content(q) \union {m}
  <2>1. Before(Content(q), {m})
    BY <1>9 DEF Before
  <2>2. Sorted(Append(q, m)) /\ Content(Append(q, m)) = Content(q) \union {m}
    BY <1>9, <1>10, <2>1, PutIn
  <2> QED BY <1>12, <2>2, Nothing
<1>14. Falling(to, c)' \subseteq Falling(to, c) \union {m}
  BY <1>9, <1>11, <1>13
<1>15. FallingInv(to, c)'
  <2>1. Before(Content(dn), Content(ch))
    BY <1>9, <1>13 DEF Before
  <2>2. Before(Falling(to, c)', Waiting')
    BY <1>5, <1>6, <1>8, <1>14 DEF FallingInv, Before
  <2>3. \A o \in Falling(to, c)' : o.port = MappedPort(to)
    BY <1>8, <1>14 DEF FallingInv
  <2> QED BY <1>1, <1>9, <1>13, <2>1, <2>2, <2>3 DEF FallingInv
<1>16. RisingInv(to, c)'
  BY <1>1, <1>8 DEF RisingInv
<1>17. ASSUME NEW p \in Port, NEW d \in Connection
       PROVE  /\ RisingInv(p, d)' /\ FallingInv(p, d)' /\ Falling(p, d)' \subseteq Everything
              /\ Falling(p, d)' \subseteq Falling(p, d) \union {m}
              /\ Dead(conn[p][d]) => Dead(conn'[p][d])
  <2>1. CASE p = to /\ d = c
    BY <1>1, <1>5, <1>14, <1>15, <1>16, <2>1, Places
  <2>2. CASE p # to \/ d # c
    BY <1>1, <1>5, <2>2, OthersKept
  <2> QED BY <2>1, <2>2
<1>18. \A p \in Port : Arriving(p)' \subseteq Arriving(p) \union Waiting
  <2>1. \A p \in Port : Arriving(p)' \subseteq Arriving(p) \union {m}
    BY <1>17, ArrivingMore DEF LinkInv
  <2> QED BY <1>5, <2>1
<1>19. \A n \in Node : /\ InboxInv(n)' /\ Content(inbox'[n]) \subseteq Everything
                       /\ Content(inbox'[n]) \subseteq Content(inbox[n])
  BY <1>5, <1>18, InboxesKept
<1>20. Flowing
  BY <1>5, <1>18, <1>19, PendingLess DEF Flowing
<1> QED BY <1>5, <1>7, <1>17, <1>19, <1>20, MovingOrder

LEMMA ForwardOrder ==
    ASSUME LinkInv, Forward
    PROVE  OrderInv' /\ FragmentInv' /\ Flowing
<1>1. PICK m \in Message : m = Head(holding)
  BY ForwardTypes DEF LinkInv
<1>2. PICK to \in Port : to = MappedPort(m.port)
  BY Messages, Mapped
<1>3. /\ TypeInv' /\ SameTasks /\ UNCHANGED <<sent, inbox, handled, queue, torn>>
      /\ holding # << >> /\ holding \in Seq(Message) /\ holding' = << >>
      /\ \/ UNCHANGED conn
         \/ \E c \in Connection :
                \E ch \in {Append(conn[to][c].channel, m), << >>} :
                    Moves(to, c, conn[to][c].up, ch, conn[to][c].down)
  BY <1>1, <1>2, ForwardTypes DEF LinkInv
<1>4. m \in Content(holding) /\ MappedPort(to) = m.port
  BY <1>1, <1>2, <1>3, TakenOut, Messages, Mapped
<1>5. CASE UNCHANGED conn
  <2>1. QueueInv /\ Content(holding') = {} /\ Rising' = Rising
    BY <1>3, <1>5, Nothing DEF Rising, LinkInv, OrderInv
  <2>2. Waiting' \subseteq Waiting
    BY <1>3, <2>1 DEF Waiting
  <2>3. QueueInv'
    BY <1>3, <2>1 DEF QueueInv, Before
  <2> QED BY <1>3, <1>5, <2>2, <2>3, CentralOrder
<1> QED BY <1>3, <1>4, <1>5, PublishOrder

\* What a server reads is later than its inbox, and earlier than what can still arrive.
LEMMA ReadDownOrder ==
    ASSUME LinkInv, NEW p \in Port, ReadDown(p)
    PROVE  OrderInv' /\ FragmentInv' /\ Flowing
<1>1. PICK c \in Connection : c = connects[p]
  BY ReadDownTypes DEF LinkInv
<1>2. PICK n \in Node : n = p[1]
  BY Mapped
<1> DEFINE dn == conn[p][c].down
           ch == conn[p][c].channel
           m == Head(dn)
<1>3. /\ TypeInv /\ TypeInv' /\ SameTasks /\ UNCHANGED <<sent, handled, queue, holding, torn>>
      /\ Reads(p) /\ dn # << >> /\ ~IsFragment(m)
      /\ inbox' = [inbox EXCEPT ![n] = Append(inbox[n], m)]
      /\ Moves(p, c, conn[p][c].up, ch, Tail(dn))
  BY <1>1, <1>2, ReadDownTypes DEF LinkInv
<1>4. dn \in Seq(Message) /\ inbox \in [Node -> Seq(Message)]
  BY <1>3, Owns, Fields DEF TypeInv, BuffersOK
<1>5. /\ conn'[p][c].up = conn[p][c].up /\ conn'[p][c].channel = ch /\ conn'[p][c].down = Tail(dn)
      /\ Others(p, c) /\ (Dead(conn[p][c]) => Dead(conn'[p][c]))
  BY <1>3 DEF Moves
<1>6. RisingInv(p, c) /\ FallingInv(p, c) /\ InboxInv(n) /\ QueueInv
  BY DEF LinkInv, OrderInv
<1>7. /\ Sorted(dn) /\ Sorted(ch) /\ Before(Content(dn), Content(ch))
      /\ Falling(p, c) = Content(ch) \union Content(dn)
      /\ Falling(p, c)' = Content(ch) \union Content(Tail(dn))
  BY <1>5, <1>6 DEF FallingInv, Falling
<1>8. Arriving(p) = Falling(p, c)
  BY <1>1, <1>3 DEF Arriving, Falling, Own
<1>9. Arriving(p)' = Falling(p, c)'
  <2>1. Reads(p)' /\ connects'[p] = c
    BY <1>1, <1>3 DEF SameTasks, Reads
  <2> QED BY <1>5, <1>7, <2>1 DEF Arriving, Own
<1> HIDE DEF dn, ch
<1>10. /\ m \in Message /\ Content(dn) = Content(Tail(dn)) \union {m}
       /\ Sorted(Tail(dn)) /\ Before({m}, Content(Tail(dn)))
  BY <1>3, <1>4, <1>7, TakenOut
<1> HIDE DEF m
<1>11. Falling(p, c)' \subseteq Falling(p, c) /\ m \in Falling(p, c) /\ Before({m}, Falling(p, c)')
       /\ Before(Content(Tail(dn)), Content(ch))
  BY <1>7, <1>10 DEF Before
<1>12. \A q \in Port, d \in Connection : conn'[q][d].up = conn[q][d].up
  BY <1>5 DEF Others
<1>13. Rising' = Rising
  BY <1>12 DEF Rising
<1>14. Waiting' = Waiting /\ QueueInv'
  BY <1>3, <1>6, <1>13 DEF Waiting, QueueInv
<1>15. RisingInv(p, c)' /\ FallingInv(p, c)'
  <2>1. RisingInv(p, c)'
    BY <1>5, <1>6 DEF RisingInv
  <2>2. Waiting' \subseteq Waiting \union {} /\ Before(Falling(p, c), {})
    BY <1>14, NoneNew
  <2> QED BY <1>5, <1>6, <1>7, <1>10, <1>11, <2>1, <2>2, FallingKept
<1>16. ASSUME NEW q \in Port, NEW d \in Connection
       PROVE  /\ RisingInv(q, d)' /\ FallingInv(q, d)' /\ Falling(q, d)' \subseteq Everything
              /\ Falling(q, d)' \subseteq Falling(q, d)
              /\ Dead(conn[q][d]) => Dead(conn'[q][d])
  <2>1. CASE q = p /\ d = c
    BY <1>5, <1>11, <1>15, <2>1, Places
  <2>2. CASE q # p \/ d # c
    BY <1>5, <1>14, <2>2, OthersKept
  <2> QED BY <2>1, <2>2
<1>17. \A q \in Port : Arriving(q)' \subseteq Arriving(q)
  <2>1. \A q \in Port : Arriving(q)' \subseteq Arriving(q) \union {}
    BY <1>3, <1>16, ArrivingMore
  <2> QED BY <2>1
<1>18. /\ inbox'[n] = Append(inbox[n], m) /\ \A k \in Node : k # n => inbox'[k] = inbox[k]
       /\ inbox[n] \in Seq(Message)
  BY <1>3, <1>4
<1>19. m \in Arriving(p) /\ m.port = MappedPort(p) /\ m.port[2] = n
  BY <1>2, <1>6, <1>8, <1>11, Mapped DEF FallingInv
<1>20. Sorted(inbox'[n]) /\ Content(inbox'[n]) = Content(inbox[n]) \union {m}
  <2>1. Before(Content(inbox[n]), {m}) /\ Sorted(inbox[n])
    BY <1>2, <1>6, <1>19 DEF InboxInv, Before
  <2> QED BY <1>10, <1>18, <2>1, PutIn
<1>21. InboxInv(n)'
  <2>1. \A o \in Content(inbox'[n]) : o.port[2] = n /\ ~IsFragment(o)
    BY <1>3, <1>6, <1>19, <1>20 DEF InboxInv
  <2>2. Before(Content(inbox'[n]), Waiting')
    BY <1>6, <1>11, <1>14, <1>20 DEF InboxInv, FallingInv, Before
  <2>3. ASSUME NEW q \in Port, q[1] = n PROVE Before(Content(inbox'[n]), Arriving(q)')
    <3>1. Before(Content(inbox[n]), Arriving(q)')
      BY <1>6, <1>17, <2>3 DEF InboxInv, Before
    <3>2. Before({m}, Arriving(q)')
      <4>1. CASE q = p
        BY <1>9, <1>11, <4>1
      <4>2. CASE q # p
        <5>1. ASSUME NEW o \in Arriving(q)' PROVE Earlier(m, o)
          <6>1. o \in Arriving(q)
            BY <1>17, <5>1
          <6>2. connects[q] \in Connection /\ o \in Falling(q, connects[q])
            BY <1>3, <6>1, ArrivingFalls
          <6>3. o.port = MappedPort(q)
            BY <6>2 DEF LinkInv, OrderInv, FallingInv
          <6>4. o.port # m.port
            BY <1>19, <4>2, <6>3, Mapped
          <6> QED BY <6>4 DEF Earlier
        <5> QED BY <5>1 DEF Before
      <4> QED BY <4>1, <4>2
    <3> QED BY <1>20, <3>1, <3>2 DEF Before
  <2> QED BY <1>20, <2>1, <2>2, <2>3 DEF InboxInv
<1>22. Arriving(p) \subseteq Everything
  BY <1>8, Places
<1>23. ASSUME NEW k \in Node
       PROVE  /\ InboxInv(k)' /\ Content(inbox'[k]) \subseteq Everything
              /\ Content(inbox'[k]) \subseteq Content(inbox[k]) \union Arriving(p)
  <2>1. CASE k = n
    BY <1>19, <1>20, <1>21, <1>22, <2>1, Places
  <2>2. CASE k # n
    <3>1. inbox'[k] = inbox[k] /\ InboxInv(k) /\ Waiting' \subseteq Waiting \union {}
          /\ Before(Content(inbox[k]), {})
      BY <1>14, <1>18, <2>2, NoneNew DEF LinkInv, OrderInv
    <3>2. InboxInv(k)'
      <4>1. Sorted(inbox'[k]) /\ Content(inbox'[k]) \subseteq Content(inbox[k])
        BY <3>1 DEF InboxInv
      <4>2. \A q \in Port : Arriving(q)' \subseteq Arriving(q) \union Waiting
        BY <1>17
      <4> QED BY <3>1, <4>1, <4>2, InboxKept
    <3> QED BY <3>1, <3>2, Places
  <2> QED BY <2>1, <2>2
<1>24. Flowing
  <2>1. \A q \in Port : Arriving(q)' \subseteq Arriving(q) \union Waiting
    BY <1>17
  <2>2. Waiting' \subseteq Waiting
    BY <1>14
  <2> QED BY <1>3, <1>23, <2>1, <2>2, PendingLess DEF Flowing
<1>25. Waiting' \subseteq Waiting
  BY <1>14
<1> QED BY <1>3, <1>14, <1>16, <1>23, <1>24, <1>25, MovingOrder

\* The first message of an inbox is earlier than all others that are on their way.
LEMMA ProcessOrder ==
    ASSUME LinkInv, NEW n \in Node, Process(n)
    PROVE  /\ OrderInv' /\ FragmentInv'
           /\ \E m \in Message :
                  /\ m = Head(inbox[n]) /\ m \in Pending /\ Pending' = Pending \ {m}
                  /\ \A o \in Pending' : o.port = m.port /\ o.conn = m.conn => o.num > m.num
           /\ UNCHANGED sent
<1> DEFINE q == inbox[n]
<1>1. /\ TypeInv /\ TypeInv' /\ SameTasks /\ UNCHANGED <<sent, conn, queue, holding, torn>>
      /\ inbox \in [Node -> Seq(Message)] /\ q # << >>
      /\ inbox' = [inbox EXCEPT ![n] = Tail(q)]
  BY ProcessTypes DEF LinkInv
<1>2. inbox'[n] = Tail(q) /\ q \in Seq(Message) /\ \A k \in Node : k # n => inbox'[k] = inbox[k]
  BY <1>1
<1>3. InboxInv(n) /\ QueueInv
  BY DEF LinkInv, OrderInv
<1>4. PICK m \in Message : m = Head(q)
  BY <1>1, <1>2, TakenOut
<1>5. /\ Content(q) = Content(Tail(q)) \union {m}
      /\ Sorted(Tail(q)) /\ Before({m}, Content(Tail(q)))
  BY <1>1, <1>2, <1>3, <1>4, TakenOut DEF InboxInv
<1>6. Rising' = Rising
  BY <1>1 DEF Rising
<1>7. Waiting' = Waiting /\ QueueInv'
  BY <1>1, <1>3, <1>6 DEF Waiting, QueueInv
<1>8. ASSUME NEW p \in Port, NEW c \in Connection
      PROVE  /\ RisingInv(p, c)' /\ FallingInv(p, c)' /\ Falling(p, c)' \subseteq Everything
             /\ Falling(p, c)' \subseteq Falling(p, c) /\ (Dead(conn[p][c]) => Dead(conn'[p][c]))
  <2>1. RisingInv(p, c) /\ FallingInv(p, c) /\ Waiting' \subseteq Waiting \union {}
    BY <1>7 DEF LinkInv, OrderInv
  <2>2. RisingInv(p, c)'
    BY <1>1, <2>1 DEF RisingInv
  <2>3. FallingInv(p, c)' /\ Falling(p, c)' = Falling(p, c)
    BY <1>1, <2>1, NoneNew, FallingSame
  <2> QED BY <1>1, <2>2, <2>3, Places
<1>9. \A p \in Port : Arriving(p)' = Arriving(p)
  BY <1>1 DEF Arriving, Reads, Own, SameTasks
<1>10. ASSUME NEW k \in Node
       PROVE  InboxInv(k)' /\ Content(inbox'[k]) \subseteq Content(inbox[k])
  <2>1. Sorted(inbox'[k]) /\ Content(inbox'[k]) \subseteq Content(inbox[k])
    BY <1>2, <1>5 DEF LinkInv, OrderInv, InboxInv
  <2>2. InboxInv(k) /\ Waiting' \subseteq Waiting \union {} /\ Before(Content(inbox[k]), {})
    BY <1>7, NoneNew DEF LinkInv, OrderInv
  <2>3. \A p \in Port : Arriving(p)' \subseteq Arriving(p) \union Waiting
    BY <1>9
  <2> QED BY <2>1, <2>2, <2>3, InboxKept
<1>11. OrderInv' /\ FragmentInv'
  <2>1. \A k \in Node : Content(inbox'[k]) \subseteq Everything
    BY <1>10, Places
  <2>2. Waiting' \subseteq Waiting
    BY <1>7
  <2> QED BY <1>1, <1>7, <1>8, <1>10, <2>1, <2>2, MovingOrder
<1> DEFINE A == UNION {Arriving(p) : p \in Port}
           I == UNION {Content(inbox[k]) : k \in Node}
<1>12. Pending = {o \in Waiting \union A \union I : ~IsFragment(o)}
       /\ Pending' = {o \in Waiting' \union A' \union I' : ~IsFragment(o)}
  <2>1. (UNION {Content(conn[p][c].up) : p \in Port, c \in Connection}) \union Content(queue)
            \union Content(holding) = Waiting
    BY DEF Waiting, Rising
  <2>2. (UNION {Content(conn'[p][c].up) : p \in Port, c \in Connection}) \union Content(queue')
            \union Content(holding') = Waiting'
    BY DEF Waiting, Rising
  <2> QED BY <2>1, <2>2 DEF Pending
<1>13. A' = A
  BY <1>9
<1>14. I = I' \union {m}
  <2>1. \A k \in Node : k # n => Content(inbox'[k]) = Content(inbox[k])
    BY <1>2
  <2>2. Content(inbox[n]) = Content(inbox'[n]) \union {m}
    BY <1>2, <1>5
  <2> QED BY <2>1, <2>2
<1>15. m.port[2] = n /\ ~IsFragment(m)
  BY <1>3, <1>5 DEF InboxInv
<1>16. ASSUME NEW o \in Pending' PROVE Earlier(m, o) /\ ~IsFragment(o)
  <2>1. CASE o \in Waiting
    BY <1>3, <1>5, <1>12, <1>16, <2>1 DEF InboxInv, Before
  <2>2. ASSUME NEW p \in Port, o \in Arriving(p) PROVE Earlier(m, o)
    <3>1. CASE p[1] = n
      BY <1>3, <1>5, <2>2, <3>1 DEF InboxInv, Before
    <3>2. CASE p[1] # n
      <4>1. connects[p] \in Connection /\ o \in Falling(p, connects[p])
        BY <1>1, <2>2, ArrivingFalls
      <4>2. o.port = MappedPort(p)
        BY <4>1 DEF LinkInv, OrderInv, FallingInv
      <4>3. o.port # m.port
        BY <1>15, <3>2, <4>2, Mapped
      <4> QED BY <4>3 DEF Earlier
    <3> QED BY <3>1, <3>2
  <2>3. ASSUME NEW k \in Node, o \in Content(inbox'[k]) PROVE Earlier(m, o)
    <3>1. CASE k = n
      BY <1>2, <1>5, <2>3, <3>1 DEF Before
    <3>2. CASE k # n
      <4>1. o.port[2] = k
        BY <1>10, <2>3 DEF InboxInv
      <4> QED BY <1>15, <3>2, <4>1 DEF Earlier
    <3> QED BY <3>1, <3>2
  <2>4. o \in Waiting \/ (\E p \in Port : o \in Arriving(p)) \/ (\E k \in Node : o \in Content(inbox'[k]))
    BY <1>7, <1>12, <1>13, <1>16
  <2> QED BY <1>12, <1>16, <2>1, <2>2, <2>3, <2>4
<1>17. Pending \subseteq Message /\ Pending' \subseteq Pending
  <2>1. Pending \subseteq Everything
    <3>1. A \subseteq Everything
      BY <1>1, ArrivingFalls
    <3>2. I \subseteq Everything
      BY Places
    <3> HIDE DEF A, I
    <3> QED BY <1>12, <3>1, <3>2, Places
  <2>2. Pending' \subseteq Pending
    <3> HIDE DEF A, I
    <3> QED BY <1>7, <1>12, <1>13, <1>14
  <2> QED BY <1>1, <2>1, <2>2, EverythingTyped
<1>18. \A o \in Pending' : o.port = m.port /\ o.conn = m.conn => o.num > m.num
  <2> SUFFICES ASSUME NEW o \in Pending', o.port = m.port, o.conn = m.conn PROVE o.num > m.num
    OBVIOUS
  <2>1. m.num < o.num
    BY <1>16 DEF Earlier
  <2>2. m.num \in Nat /\ o.num \in Nat
    BY <1>17, Messages
  <2> QED BY <2>1, <2>2
<1>19. m \in Pending /\ m \notin Pending'
  <2>1. m \in Pending
    <3> HIDE DEF A, I
    <3> QED BY <1>12, <1>14, <1>15
  <2>2. m \notin Pending'
    <3>1. m.num \in Nat
      BY Messages
    <3> QED BY <1>18, <3>1
  <2> QED BY <2>1, <2>2
<1>20. Pending' = Pending \ {m}
  <2>1. Pending \subseteq Pending' \union {m}
    <3> HIDE DEF A, I
    <3> QED BY <1>7, <1>12, <1>13, <1>14
  <2> QED BY <1>17, <1>19, <2>1
<1> QED BY <1>1, <1>4, <1>11, <1>18, <1>19, <1>20

\* A new message is later than everything, and no line of its connection is torn yet.
LEMMA SendOrder ==
    ASSUME LinkInv, NEW p \in Port, Send(p)
    PROVE  /\ OrderInv' /\ FragmentInv' /\ UNCHANGED handled
           /\ sent' = [sent EXCEPT ![p] = sent[p] + 1]
           /\ \/ Pending' = Pending
              \/ \E c \in Connection :
                     Pending' = Pending \union {[port |-> p, conn |-> c, num |-> sent[p] + 1]}
<1>1. PICK c \in Connection : c = sockets[p]
  BY SendTypes DEF LinkInv
<1>2. PICK m \in Message : m = [port |-> p, conn |-> c, num |-> sent[p] + 1]
  BY <1>1, SendTypes DEF LinkInv
<1> DEFINE up == conn[p][c].up
<1>3. /\ TypeInv /\ TypeInv' /\ SameTasks /\ UNCHANGED <<inbox, handled, queue, holding, torn>>
      /\ sent[p] \in Nat /\ sent' = [sent EXCEPT ![p] = sent[p] + 1]
      /\ \/ UNCHANGED conn
         \/ ~conn[p][c].broken /\ Moves(p, c, Append(up, m), conn[p][c].channel, conn[p][c].down)
  BY <1>1, <1>2, SendTypes DEF LinkInv
<1>4. m.port = p /\ m.conn = c /\ m.num = sent[p] + 1 /\ ~IsFragment(m)
  BY <1>2, <1>3 DEF IsFragment
<1>5. \A q \in Port : sent[q] \in Nat /\ sent'[q] \in Nat /\ sent'[q] >= sent[q]
  BY <1>3, Constants DEF TypeInv, BuffersOK
<1>6. sent'[p] = sent[p] + 1
  BY <1>3 DEF TypeInv, BuffersOK
<1>7. Everything \subseteq Message /\ \A o \in Everything : o.num <= sent[o.port]
  BY <1>3, EverythingTyped DEF LinkInv, OrderInv
<1>8. CASE UNCHANGED conn
  <2>1. Rising' = Rising
    BY <1>8 DEF Rising
  <2>2. Waiting' = Waiting
    BY <1>3, <2>1 DEF Waiting
  <2>3. \A q \in Port, d \in Connection : Falling(q, d)' = Falling(q, d)
    BY <1>8 DEF Falling
  <2>4. \A q \in Port : Arriving(q)' = Arriving(q)
    BY <1>3, <1>8 DEF Arriving, Reads, Own, SameTasks
  <2>5. Everything' = Everything
    BY <1>3, <2>2, <2>3 DEF Everything
  <2>6. \A q \in Port, d \in Connection : RisingInv(q, d)' /\ FallingInv(q, d)'
    BY <1>8, <2>2, <2>3 DEF LinkInv, OrderInv, RisingInv, FallingInv
  <2>7. QueueInv' /\ \A n \in Node : InboxInv(n)'
    BY <1>3, <2>1, <2>2, <2>4 DEF LinkInv, OrderInv, QueueInv, InboxInv
  <2>8. \A o \in Everything' : o.num <= sent'[o.port]
    <3> SUFFICES ASSUME NEW o \in Everything PROVE o.num <= sent'[o.port]
      BY <2>5
    <3>1. o.port \in Port /\ o.num \in Nat /\ o.num <= sent[o.port]
      BY <1>7, Messages
    <3> QED BY <1>5, <3>1
  <2>9. FragmentInv'
    BY <1>3, <1>8, <2>5 DEF LinkInv, FragmentInv, Fragments
  <2>10. Pending' = Pending
    BY <1>3, <1>8, <2>4 DEF Pending
  <2> QED BY <1>3, <2>6, <2>7, <2>8, <2>9, <2>10 DEF OrderInv
<1>9. CASE ~conn[p][c].broken /\ Moves(p, c, Append(up, m), conn[p][c].channel, conn[p][c].down)
  <2>1. /\ conn'[p][c].up = Append(up, m) /\ conn'[p][c].channel = conn[p][c].channel
        /\ conn'[p][c].down = conn[p][c].down /\ Others(p, c) /\ ~Dead(conn[p][c])
    BY <1>9 DEF Moves, Dead
  <2>2. up \in Seq(Message) /\ Content(up) \subseteq Rising /\ RisingInv(p, c) /\ Sorted(up)
    BY <1>3, Owns, Fields, Places DEF LinkInv, OrderInv, RisingInv
  <2>3. Before(Everything, {m})
    <3> SUFFICES ASSUME NEW o \in Everything, o.port = p, o.conn = c
                 PROVE  ~IsFragment(o) /\ o.num < m.num
      BY <1>4 DEF Before, Earlier
    <3>1. ~IsFragment(o)
      <4>1. o \in Fragments => Dead(conn[p][c])
        BY DEF LinkInv, FragmentInv
      <4> QED BY <2>1, <4>1 DEF Fragments
    <3>2. o.num <= sent[p] /\ o.num \in Nat
      BY <1>7, Messages
    <3> QED BY <1>3, <1>4, <3>1, <3>2
  <2> HIDE DEF up
  <2>4. Before(Content(up), {m})
    BY <2>2, <2>3, Places DEF Before
  <2>5. Sorted(Append(up, m)) /\ Content(Append(up, m)) = Content(up) \union {m}
    BY <2>2, <2>4, PutIn
  <2>6. \A q \in Port, d \in Connection : q # p \/ d # c => conn'[q][d] = conn[q][d]
    BY <2>1 DEF Others
  <2>7. Rising' = Rising \union {m}
    <3>1. ASSUME NEW q \in Port, NEW d \in Connection, NEW o
          PROVE  o \in Content(conn'[q][d].up) <=> o \in Content(conn[q][d].up) \/ (q = p /\ d = c /\ o = m)
      <4>1. CASE q = p /\ d = c
        BY <2>1, <2>5, <4>1 DEF up
      <4>2. CASE q # p \/ d # c
        BY <2>6, <4>2
      <4> QED BY <4>1, <4>2
    <3>2. Rising' \subseteq Rising \union {m}
      <4>1. \A q \in Port, d \in Connection : Content(conn'[q][d].up) \subseteq Rising \union {m}
        BY <3>1, Places
      <4>2. Rising' = UNION {Content(conn'[q][d].up) : q \in Port, d \in Connection}
        BY DEF Rising
      <4> QED BY <4>1, <4>2
    <3>3. m \in Rising'
      <4>1. m \in Content(conn'[p][c].up)
        BY <3>1
      <4> QED BY <4>1 DEF Rising
    <3>4. Rising \subseteq Rising'
      BY <3>1 DEF Rising
    <3> QED BY <3>2, <3>3, <3>4
  <2>8. Waiting' = Waiting \union {m}
    BY <1>3, <2>7 DEF Waiting
  <2>9. Before(Falling(p, c), {m}) /\ \A q \in Port, d \in Connection : Before(Falling(q, d), {m})
    BY <2>3, Places DEF Before
  <2>10. ASSUME NEW q \in Port, NEW d \in Connection
         PROVE  RisingInv(q, d)' /\ FallingInv(q, d)' /\ Falling(q, d)' = Falling(q, d)
                /\ (Dead(conn[q][d]) => Dead(conn'[q][d]))
    <3>1. RisingInv(q, d) /\ FallingInv(q, d) /\ Before(Falling(q, d), {m})
          /\ Waiting' \subseteq Waiting \union {m}
      BY <2>8, <2>9 DEF LinkInv, OrderInv
    <3>2. conn'[q][d].channel = conn[q][d].channel /\ conn'[q][d].down = conn[q][d].down
      BY <2>1, <2>6
    <3>3. FallingInv(q, d)' /\ Falling(q, d)' = Falling(q, d)
      BY <3>1, <3>2, FallingSame
    <3>4. CASE q = p /\ d = c
      <4>1. RisingInv(p, c)'
        BY <1>4, <2>1, <2>2, <2>5 DEF RisingInv, up
      <4> QED BY <2>1, <3>3, <3>4, <4>1
    <3>5. CASE q # p \/ d # c
      <4>1. RisingInv(q, d)'
        BY <2>6, <3>1, <3>5 DEF RisingInv
      <4> QED BY <2>6, <3>3, <3>5, <4>1
    <3> QED BY <3>4, <3>5
  <2>11. \A q \in Port : Arriving(q)' = Arriving(q)
    <3>1. ASSUME NEW q \in Port PROVE Arriving(q)' = Arriving(q)
      <4>1. Reads(q) => connects[q] \in Connection
        BY <1>3, Owns
      <4>2. \A d \in Connection : conn'[q][d].down = conn[q][d].down /\ conn'[q][d].channel = conn[q][d].channel
        BY <2>1, <2>6
      <4> QED BY <1>3, <4>1, <4>2 DEF Arriving, Reads, Own, SameTasks
    <3> QED BY <3>1
  <2>12. QueueInv'
    <3>1. QueueInv /\ Before(Content(holding) \union Content(queue), {m})
      BY <2>3, Places DEF LinkInv, OrderInv, Before
    <3> QED BY <1>3, <2>7, <3>1 DEF QueueInv, Before
  <2>13. ASSUME NEW n \in Node PROVE InboxInv(n)'
    <3>1. InboxInv(n) /\ Before(Content(inbox[n]), {m}) /\ Waiting' \subseteq Waiting \union {m}
      BY <2>3, <2>8, Places DEF LinkInv, OrderInv, Before
    <3>2. Sorted(inbox'[n]) /\ Content(inbox'[n]) \subseteq Content(inbox[n])
      BY <1>3, <3>1 DEF InboxInv
    <3> QED BY <2>11, <3>1, <3>2, InboxKept
  <2>14. Everything' \subseteq Everything \union {m}
    BY <1>3, <2>8, <2>10, Places, EverythingMore
  <2>15. \A o \in Everything' : o.num <= sent'[o.port]
    <3> SUFFICES ASSUME NEW o \in Everything' PROVE o.num <= sent'[o.port]
      OBVIOUS
    <3>1. CASE o = m
      BY <1>3, <1>4, <1>6, <3>1
    <3>2. CASE o # m
      <4>1. o \in Everything
        BY <2>14, <3>2
      <4>2. o.port \in Port /\ o.num \in Nat /\ o.num <= sent[o.port]
        BY <1>7, <4>1, Messages
      <4> QED BY <1>5, <4>2
    <3> QED BY <3>1, <3>2
  <2>16. FragmentInv'
    <3>1. torn' \in Nat /\ torn' >= torn
      BY <1>3, Counters
    <3>2. Fragments' \subseteq Fragments
      BY <1>4, <2>14 DEF Fragments
    <3> QED BY <1>3, <2>10, <3>1, <3>2, FragmentsKept DEF LinkInv
  <2>17. Pending' = Pending \union {m}
    <3>1. (UNION {Content(conn[q][d].up) : q \in Port, d \in Connection}) \union Content(queue)
              \union Content(holding) = Waiting
      BY DEF Waiting, Rising
    <3>2. (UNION {Content(conn'[q][d].up) : q \in Port, d \in Connection}) \union Content(queue')
              \union Content(holding') = Waiting'
      BY DEF Waiting, Rising
    <3>3. (UNION {Arriving(q)' : q \in Port}) = UNION {Arriving(q) : q \in Port}
      BY <2>11
    <3> QED BY <1>3, <1>4, <2>8, <3>1, <3>2, <3>3 DEF Pending
  <2> QED BY <1>2, <1>3, <2>10, <2>12, <2>13, <2>15, <2>16, <2>17 DEF OrderInv
<1> QED BY <1>3, <1>8, <1>9

\* A torn line is the last that the receiver task reads from its connection.
LEMMA ReadTornUpOrder ==
    ASSUME LinkInv, NEW p \in Port, NEW c \in Connection, ReadTornUp(p, c)
    PROVE  OrderInv' /\ FragmentInv' /\ Flowing
<1>1. PICK f \in Message : f = Fragment(p, c)
  BY Messages
<1>2. f.port = p /\ f.conn = c /\ f.num = 0 /\ IsFragment(f)
  BY <1>1, Messages
<1>3. /\ TypeInv /\ TypeInv' /\ SameTasks /\ torn' = torn + 1
      /\ UNCHANGED <<sent, inbox, handled, holding>>
      /\ ~Dead(conn[p][c]) /\ Dead(conn'[p][c]) /\ queue' = Append(queue, f)
      /\ Moves(p, c, << >>, conn[p][c].channel, conn[p][c].down)
  BY <1>1, ReadTornUpTypes DEF LinkInv
<1>4. /\ conn'[p][c].up = << >> /\ conn'[p][c].channel = conn[p][c].channel
      /\ conn'[p][c].down = conn[p][c].down
      /\ \A q \in Port, d \in Connection : q # p \/ d # c => conn'[q][d] = conn[q][d]
  BY <1>3 DEF Moves, Others
<1>5. Before(Everything, {f})
  <2> SUFFICES ASSUME NEW o \in Everything, o.port = p, o.conn = c PROVE ~IsFragment(o)
    BY <1>2 DEF Before, Earlier
  <2>1. o \in Fragments => Dead(conn[p][c])
    BY DEF LinkInv, FragmentInv
  <2> QED BY <1>3, <2>1 DEF Fragments
<1>6. QueueInv /\ queue \in Seq(Message)
  BY <1>3 DEF LinkInv, OrderInv, TypeInv, BuffersOK
<1>7. Sorted(queue') /\ Content(queue') = Content(queue) \union {f}
  <2>1. Before(Content(queue), {f}) /\ Sorted(queue)
    BY <1>5, <1>6, Places DEF Before, QueueInv
  <2> QED BY <1>3, <1>6, <2>1, PutIn
<1>8. \A q \in Port, d \in Connection : Content(conn'[q][d].up) \subseteq Content(conn[q][d].up)
  BY <1>4, Nothing
<1>9. Rising' \subseteq Rising
  BY <1>8, RisingLess
<1>10. Waiting' \subseteq Waiting \union {f}
  BY <1>3, <1>7, <1>9 DEF Waiting
<1>11. Before({f}, Rising')
  <2>1. ASSUME NEW q \in Port, NEW d \in Connection, NEW o \in Content(conn'[q][d].up)
        PROVE  Earlier(f, o)
    <3>1. q # p \/ d # c
      BY <1>4, <2>1, Nothing
    <3>2. o \in Content(conn[q][d].up)
      BY <1>8, <2>1
    <3>3. o.port = q /\ o.conn = d
      BY <3>2 DEF LinkInv, OrderInv, RisingInv
    <3> QED BY <1>2, <3>1, <3>3 DEF Earlier
  <2> QED BY <2>1 DEF Before, Rising
<1>12. QueueInv'
  <2>1. Before(Content(holding), {f})
    BY <1>5, Places DEF Before
  <2> QED BY <1>3, <1>6, <1>7, <1>9, <1>11, <2>1 DEF QueueInv, Before
<1>13. ASSUME NEW q \in Port, NEW d \in Connection
       PROVE  RisingInv(q, d)' /\ FallingInv(q, d)' /\ Falling(q, d)' = Falling(q, d)
              /\ (Dead(conn[q][d]) => Dead(conn'[q][d]))
  <2>1. RisingInv(q, d) /\ FallingInv(q, d) /\ Before(Falling(q, d), {f})
    BY <1>5, Places DEF LinkInv, OrderInv, Before
  <2>2. conn'[q][d].channel = conn[q][d].channel /\ conn'[q][d].down = conn[q][d].down
    BY <1>4
  <2>3. FallingInv(q, d)' /\ Falling(q, d)' = Falling(q, d)
    BY <1>10, <2>1, <2>2, FallingSame
  <2>4. Sorted(conn'[q][d].up)
    BY <1>4, <2>1, Nothing DEF RisingInv
  <2>5. RisingInv(q, d)'
    BY <1>8, <2>1, <2>4, RisingKept
  <2> QED BY <1>3, <1>4, <2>3, <2>5
<1>14. \A q \in Port : Arriving(q)' \subseteq Arriving(q) \union {}
  BY <1>3, <1>13, ArrivingMore
<1>15. \A q \in Port : Arriving(q)' \subseteq Arriving(q) \union Waiting
  BY <1>14
<1>16. ASSUME NEW n \in Node PROVE InboxInv(n)'
  <2>1. InboxInv(n) /\ Before(Content(inbox[n]), {f})
    BY <1>5, Places DEF LinkInv, OrderInv, Before
  <2>2. Sorted(inbox'[n]) /\ Content(inbox'[n]) \subseteq Content(inbox[n])
    BY <1>3, <2>1 DEF InboxInv
  <2> QED BY <1>10, <1>15, <2>1, <2>2, InboxKept
<1>17. Everything' \subseteq Everything \union {f}
  BY <1>3, <1>10, <1>13, Places, EverythingMore
<1>18. \A o \in Everything' : o.num <= sent'[o.port]
  <2>1. sent[p] \in Nat
    BY <1>3, Constants DEF TypeInv, BuffersOK
  <2>2. \A o \in Everything : o.num <= sent[o.port]
    BY DEF LinkInv, OrderInv
  <2> QED BY <1>2, <1>3, <1>17, <2>1, <2>2
<1>19. FragmentInv'
  <2>1. Fragments' \subseteq Fragments \union {f}
    BY <1>17 DEF Fragments
  <2> DEFINE G == Fragments \union {f}
  <2>2. IsFiniteSet(Fragments) /\ Cardinality(Fragments) <= torn /\ Cardinality(Fragments) \in Nat
    BY FS_CardinalityType DEF LinkInv, FragmentInv
  <2>3. IsFiniteSet(G) /\ Cardinality(G) <= Cardinality(Fragments) + 1 /\ Cardinality(G) \in Nat
    <3>1. IsFiniteSet(G) /\ Cardinality(G) = IF f \in Fragments THEN Cardinality(Fragments)
                                                              ELSE Cardinality(Fragments) + 1
      BY <2>2, FS_AddElement
    <3> QED BY <2>2, <3>1
  <2>4. IsFiniteSet(Fragments') /\ Cardinality(Fragments') <= Cardinality(G)
        /\ Cardinality(Fragments') \in Nat
    <3>1. IsFiniteSet(Fragments') /\ Cardinality(Fragments') <= Cardinality(G)
      <4> HIDE DEF G
      <4>1. Fragments' \in SUBSET G
        BY <2>1 DEF G
      <4> QED BY <2>3, <4>1, FS_Subset
    <3> QED BY <3>1, FS_CardinalityType
  <2>5. Cardinality(Fragments') <= torn'
    <3> HIDE DEF G
    <3> QED BY <1>3, <2>2, <2>3, <2>4, Counters
  <2>6. ASSUME NEW m \in Fragments' PROVE Dead(conn'[m.port][m.conn])
    <3>1. CASE m = f
      BY <1>2, <1>3, <3>1
    <3>2. CASE m # f
      <4>1. m \in Fragments /\ m \in Message
        BY <1>3, <2>1, <3>2, EverythingTyped DEF Fragments
      <4>2. Dead(conn[m.port][m.conn]) /\ m.port \in Port /\ m.conn \in Connection
        BY <4>1, Messages DEF LinkInv, FragmentInv
      <4> QED BY <1>13, <4>2
    <3> QED BY <3>1, <3>2
  <2> QED BY <2>4, <2>5, <2>6 DEF FragmentInv
<1>20. Flowing
  <2>1. \A n \in Node : Content(inbox'[n]) \subseteq Content(inbox[n])
    BY <1>3
  <2>2. Pending' \subseteq Pending \union {f} /\ \A m \in Pending' : ~IsFragment(m)
    BY <1>10, <1>15, <2>1, PendingMore
  <2> QED BY <1>2, <1>3, <2>2 DEF Flowing
<1> QED BY <1>12, <1>13, <1>16, <1>18, <1>19, <1>20 DEF OrderInv


-----------------------------------------------------------------------------
(***************************************************************************)
(* The invariant, and the abstract links.                                  *)
(***************************************************************************)
LEMMA LosingStep ==
    ASSUME LinkInv, TypeInv', Losing
    PROVE  LinkInv' /\ [Links!Next]_(Links!vars)
<1>1. OrderInv' /\ FragmentInv' /\ Flowing
  BY LosingOrder
<1>2. Links!Lose
  BY <1>1 DEF Flowing, Links!Lose
<1> QED BY <1>1, <1>2 DEF LinkInv, Links!Next

LEMMA MovingStep ==
    ASSUME TypeInv', OrderInv', FragmentInv', Flowing
    PROVE  LinkInv' /\ [Links!Next]_(Links!vars)
<1>1. Links!Lose
  BY DEF Flowing, Links!Lose
<1> QED BY <1>1 DEF LinkInv, Links!Next

LEMMA SendStep ==
    ASSUME LinkInv, NEW p \in Port, Send(p)
    PROVE  LinkInv' /\ [Links!Next]_(Links!vars)
<1>1. LinkInv'
  BY SendTypes, SendOrder DEF LinkInv
<1>2. CASE Pending' = Pending
  <2>1. Links!SendInVain(p)
    BY <1>2, SendOrder DEF Links!SendInVain
  <2> QED BY <1>1, <2>1 DEF Links!Next
<1>3. ASSUME NEW c \in Connection,
             Pending' = Pending \union {[port |-> p, conn |-> c, num |-> sent[p] + 1]}
      PROVE  Links!Next
  <2>1. Links!Send(p, c)
    BY <1>3, SendOrder DEF Links!Send
  <2> QED BY <2>1 DEF Links!Next
<1> QED BY <1>1, <1>2, <1>3, SendOrder

LEMMA ProcessStep ==
    ASSUME LinkInv, NEW n \in Node, Process(n)
    PROVE  LinkInv' /\ [Links!Next]_(Links!vars)
<1>1. LinkInv'
  BY ProcessTypes, ProcessOrder DEF LinkInv
<1>2. PICK m \in Message :
          /\ m = Head(inbox[n]) /\ m \in Pending /\ Pending' = Pending \ {m}
          /\ \A o \in Pending' : o.port = m.port /\ o.conn = m.conn => o.num > m.num
  BY ProcessOrder
<1>3. handled' = [handled EXCEPT ![m.port] = Append(@, m)] /\ UNCHANGED sent
  BY <1>2, ProcessTypes DEF LinkInv
<1>4. Links!Deliver(m)
  BY <1>2, <1>3 DEF Links!Deliver
<1> QED BY <1>1, <1>2, <1>4 DEF Links!Next

LEMMA IdleStep ==
    ASSUME LinkInv, UNCHANGED vars
    PROVE  LinkInv' /\ [Links!Next]_(Links!vars)
<1>1. UNCHANGED <<conn, queue, holding, inbox, sent, handled, torn, faults>> /\ SameTasks
  BY DEF vars, servers, actor, history, bounds, SameTasks
<1>2. TypeInv'
  <2>1. PortsOK' /\ ConnOK' /\ UsedInv'
    BY <1>1, NoMoves DEF LinkInv
  <2>2. BuffersOK'
    BY <1>1 DEF LinkInv, TypeInv, BuffersOK
  <2> QED BY <2>1, <2>2 DEF TypeInv
<1>3. Losing
  BY <1>1, LosingNone DEF LinkInv, SameTasks, Reads
<1> QED BY <1>2, <1>3, LosingStep

LEMMA NextLinks ==
    ASSUME LinkInv, [Next]_vars
    PROVE  LinkInv' /\ [Links!Next]_(Links!vars)
<1> USE DEF LinkInv
<1>1. ASSUME NEW p \in Port,
             Connect(p) \/ DownEnds(p) \/ ReadFragment(p) \/ ReadTorn(p) \/ Accept(p)
                 \/ InsertChannel(p) \/ Reset(p) \/ Cut(p)
      PROVE  TypeInv' /\ Losing
  BY <1>1, ConnectTypes, DownEndsTypes, AcceptTypes, InsertChannelTypes, ResetTypes, CutTypes
<1>2. ASSUME NEW p \in Port, NEW c \in Connection,
             Subscribe(p, c) \/ SenderEnds(p, c) \/ ReceiverEnds(p, c)
      PROVE  TypeInv' /\ Losing
  BY <1>2, TasksTypes
<1>3. ASSUME (\E n \in Node : Crash(n)) \/ GiveUp \/ CrashActor
      PROVE  TypeInv' /\ Losing
  BY <1>3, CrashTypes, GiveUpTypes, CrashActorTypes
<1>4. ASSUME NEW p \in Port, ReadDown(p)
      PROVE  TypeInv' /\ OrderInv' /\ FragmentInv' /\ Flowing
  BY <1>4, ReadDownTypes, ReadDownOrder
<1>5. ASSUME NEW p \in Port, NEW c \in Connection,
             WriteDown(p, c) \/ ReadUp(p, c) \/ ReadTornUp(p, c)
      PROVE  TypeInv' /\ OrderInv' /\ FragmentInv' /\ Flowing
  BY <1>5, WriteDownTypes, WriteDownOrder, ReadUpTypes, ReadUpOrder, ReadTornUpTypes,
     ReadTornUpOrder
<1>6. ASSUME Receive \/ Forward
      PROVE  TypeInv' /\ OrderInv' /\ FragmentInv' /\ Flowing
  BY <1>6, ReceiveTypes, ReceiveOrder, ForwardTypes, ForwardOrder
<1>7. \/ UNCHANGED vars
      \/ \E p \in Port : Send(p)
      \/ \E n \in Node : Process(n)
      \/ \E p \in Port :
             Connect(p) \/ DownEnds(p) \/ ReadFragment(p) \/ ReadTorn(p) \/ Accept(p)
                 \/ InsertChannel(p) \/ Reset(p) \/ Cut(p)
      \/ \E p \in Port, c \in Connection : Subscribe(p, c) \/ SenderEnds(p, c) \/ ReceiverEnds(p, c)
      \/ (\E n \in Node : Crash(n)) \/ GiveUp \/ CrashActor
      \/ \E p \in Port : ReadDown(p)
      \/ \E p \in Port, c \in Connection : WriteDown(p, c) \/ ReadUp(p, c) \/ ReadTornUp(p, c)
      \/ Receive \/ Forward
  BY DEF Next, PeerTask, PortTask, ConnectionTasks, Central
<1> QED BY <1>1, <1>2, <1>3, <1>4, <1>5, <1>6, <1>7, LosingStep, MovingStep, SendStep,
           ProcessStep, IdleStep

LEMMA InitLinks == Init => LinkInv /\ Links!Init
<1> SUFFICES ASSUME Init PROVE LinkInv /\ Links!Init
  OBVIOUS
<1>1. /\ \A p \in Port, c \in Connection :
             /\ conn[p][c] = NoConnection /\ conn[p][c].up = << >> /\ conn[p][c].down = << >>
             /\ conn[p][c].channel = << >> /\ conn[p][c].receiver = "none"
      /\ queue = << >> /\ holding = << >> /\ \A n \in Node : inbox[n] = << >>
      /\ \A p \in Port : task[p] = "connecting"
  BY DEF Init, NoConnection
<1>2. Rising = {}
  BY <1>1, Nothing DEF Rising
<1>3. Waiting = {}
  BY <1>1, <1>2, Nothing DEF Waiting
<1>4. \A p \in Port, c \in Connection : Falling(p, c) = {}
  BY <1>1, Nothing DEF Falling
<1>5. \A p \in Port : Arriving(p) = {}
  BY <1>1 DEF Arriving, Reads
<1>6. \A n \in Node : Content(inbox[n]) = {}
  BY <1>1, Nothing
<1>7. Everything = {}
  BY <1>3, <1>4, <1>6 DEF Everything
<1>8. OrderInv
  <2>1. \A p \in Port, c \in Connection : RisingInv(p, c) /\ FallingInv(p, c)
    BY <1>1, <1>4, Nothing, NoneNew DEF RisingInv, FallingInv
  <2>2. QueueInv
    BY <1>1, <1>2, Nothing, NoneNew DEF QueueInv
  <2>3. \A n \in Node : InboxInv(n)
    BY <1>1, <1>3, <1>5, Nothing, NoneNew DEF InboxInv
  <2> QED BY <1>7, <2>1, <2>2, <2>3 DEF OrderInv
<1>9. FragmentInv
  <2>1. Fragments = {}
    BY <1>7 DEF Fragments
  <2>2. torn = 0
    BY DEF Init
  <2> QED BY <2>1, <2>2, FS_EmptySet DEF FragmentInv
<1>10. BuffersOK
  BY Constants, Nothing DEF Init, BuffersOK
<1>11. PortsOK
  BY Constants DEF Init, PortsOK, PortOK, Task, Stage
<1>12. ConnOK
  <2>1. NoConnection \in Record /\ Fits(NoConnection)
    BY Constants, Nothing DEF NoConnection, Record, Fits
  <2> QED BY <2>1 DEF Init, ConnOK
<1>13. UsedInv
  BY <1>1 DEF UsedInv
<1>14. Links!Init
  <2>1. Pending = {}
    <3>1. (UNION {Content(conn[p][c].up) : p \in Port, c \in Connection}) = {}
      BY <1>2 DEF Rising
    <3>2. (UNION {Arriving(p) : p \in Port}) = {} /\ (UNION {Content(inbox[n]) : n \in Node}) = {}
      BY <1>5, <1>6
    <3> QED BY <1>1, <3>1, <3>2, Nothing DEF Pending
  <2> QED BY <2>1 DEF Init, Links!Init
<1> QED BY <1>8, <1>9, <1>10, <1>11, <1>12, <1>13, <1>14 DEF LinkInv, TypeInv

\* The fragments in front of a server are different ones, and each is one of the torn lines.
LEMMA DownLength ==
    ASSUME LinkInv, NEW p \in Port, NEW c \in Connection
    PROVE  Len(conn[p][c].down) <= SocketSize + torn
<1> DEFINE q == conn[p][c].down
           F == {i \in DOMAIN q : IsFragment(q[i])}
           f == [i \in F |-> q[i]]
<1>1. q \in Seq(Message) /\ Cardinality(Lines(q)) <= SocketSize
  BY Owns, Fields DEF LinkInv, Fits
<1>2. Sorted(q) /\ Content(q) \subseteq Everything
  BY Places DEF LinkInv, OrderInv, FallingInv, Falling
<1>3. Len(q) \in Nat /\ DOMAIN q = 1 .. Len(q)
  BY <1>1, LenProperties
<1> HIDE DEF q
<1>4. \A i \in F : q[i] \in Fragments
  BY <1>2 DEF Content, Fragments
<1>5. ASSUME NEW i \in F, NEW j \in F, q[i] = q[j] PROVE i = j
  <2>1. ASSUME NEW k \in F, NEW l \in F, k < l PROVE q[k] # q[l]
    BY <1>2, <2>1 DEF Sorted, Earlier
  <2>2. i \in Nat /\ j \in Nat
    BY <1>3
  <2>3. ~ i < j /\ ~ j < i
    BY <1>5, <2>1
  <2> QED BY <2>2, <2>3
<1>6. f \in Injection(F, Fragments)
  BY <1>4, <1>5 DEF Injection, IsInjective
<1>7. IsFiniteSet(Fragments) /\ Cardinality(Fragments) <= torn /\ torn \in Nat
  BY Counters DEF LinkInv, FragmentInv
<1>8. Cardinality(F) <= Cardinality(Fragments) /\ IsFiniteSet(F)
  <2> HIDE DEF F, f
  <2> QED BY <1>6, <1>7, FS_Injection
<1>9. Lines(q) \union F = 1 .. Len(q)
  BY <1>3 DEF Lines
<1>10. IsFiniteSet(Lines(q)) /\ Cardinality(Lines(q)) \in Nat
  BY <1>1, LinesFinite
<1>11. Lines(q) \intersect F = {}
  BY DEF Lines
<1> HIDE DEF F, f
<1>12. Cardinality(Lines(q) \union F)
           = Cardinality(Lines(q)) + Cardinality(F) - Cardinality(Lines(q) \intersect F)
  BY <1>8, <1>10, FS_Union
<1>13. Len(q) = Cardinality(Lines(q)) + Cardinality(F)
  <2>1. Cardinality(Lines(q) \union F) = Len(q)
    <3>1. \A k \in Nat : Cardinality(1 .. k) = k
      BY FS_Interval
    <3> QED BY <1>3, <1>9, <3>1
  <2>2. Cardinality(Lines(q) \intersect F) = 0 /\ Cardinality(F) \in Nat
    BY <1>8, <1>11, FS_EmptySet, FS_CardinalityType
  <2> QED BY <1>10, <1>12, <2>1, <2>2
<1>14. Cardinality(Fragments) \in Nat /\ Cardinality(F) \in Nat /\ SocketSize \in Nat
  BY <1>7, <1>8, FS_CardinalityType, Constants
<1>15. Len(q) <= SocketSize + torn
  BY <1>1, <1>3, <1>7, <1>8, <1>10, <1>13, <1>14
<1> QED BY <1>15 DEF q

LEMMA LinkTypes == LinkInv => TypeOK
<1> SUFFICES ASSUME LinkInv PROVE TypeOK
  OBVIOUS
<1>1. BuffersOK /\ PortsOK /\ ConnOK
  BY DEF LinkInv, TypeInv
<1>2. \A p \in Port, c \in Connection :
          /\ Len(conn[p][c].up) <= SocketSize
          /\ Len(conn[p][c].down) <= SocketSize + torn
          /\ Len(conn[p][c].channel) <= ChannelSize
  <2> SUFFICES ASSUME NEW p \in Port, NEW c \in Connection
               PROVE  /\ Len(conn[p][c].up) <= SocketSize
                      /\ Len(conn[p][c].channel) <= ChannelSize
    BY DownLength
  <2>1. conn[p][c].up \in Seq(Message) /\ Fits(conn[p][c])
    BY Owns, Fields DEF LinkInv
  <2>2. \A m \in Content(conn[p][c].up) : ~IsFragment(m)
    BY DEF LinkInv, OrderInv, RisingInv
  <2>3. Cardinality(Lines(conn[p][c].up)) = Len(conn[p][c].up)
    BY <2>1, <2>2, LinesWhole
  <2> QED BY <2>1, <2>3 DEF Fits
<1>3. ASSUME NEW p \in Port
      PROVE  /\ accepted[p] <= connects[p] /\ sockets[p] \in {0, connects[p]}
             /\ out_channels[p] \subseteq {0, accepted[p]}
             /\ stage[p] = "serving" => out_channels[p] = {accepted[p]}
  BY Owns DEF LinkInv, PortOK
<1>4. conn \in [Port -> [Connection ->
          [up : Seq(Message), down : Seq(Message), broken : BOOLEAN,
           sender : {"none", "spawned", "subscribed", "lagged", "done"},
           channel : Seq(Message), receiver : {"none", "reading", "done"}]]]
  BY <1>1 DEF ConnOK, Record
<1> QED BY <1>1, <1>2, <1>3, <1>4 DEF TypeOK, BuffersOK, PortsOK, Task, Stage

-----------------------------------------------------------------------------
(***************************************************************************)
(* The theorems.                                                           *)
(***************************************************************************)
LEMMA LinksInvariant == Spec => []LinkInv
<1>1. Init => LinkInv
  BY InitLinks
<1>2. LinkInv /\ [Next]_vars => LinkInv'
  BY NextLinks
<1> QED BY <1>1, <1>2, PTL DEF Spec

\* The state of the connections is well formed.  No socket, central channel or
\* broadcast channel ever holds more than its capacity, torn lines aside, and what the
\* maps of writers and of channels hold belongs to the connection of their port that
\* its tasks are at (kv_store/src/network.rs:118-167, network_actor's network.rs:105-263).
THEOREM TypeCorrect == Spec => []TypeOK
<1>1. LinkInv => TypeOK
  BY LinkTypes
<1> QED BY <1>1, LinksInvariant, PTL

\* The peer tasks and the network actor implement lossy FIFO connections: through
\* reconnections of both sides, detached tasks, refused connections, overwritten
\* channels, torn lines and crashes, no message is delivered twice, and none after a
\* later one of its connection (network.rs:118-167, network_actor's network.rs:105-263).
THEOREM LinksLossyFifo == Spec => LinksAreLossyFifo
<1>1. Init => Links!Init
  BY InitLinks
<1>2. LinkInv /\ [Next]_vars => [Links!Next]_(Links!vars)
  BY NextLinks
<1> QED BY <1>1, <1>2, LinksInvariant, PTL DEF Spec, LinksAreLossyFifo, Links!Spec
=============================================================================
