----------------------------- MODULE LossyLinks -----------------------------
(***************************************************************************)
(* What the connections between the servers promise to the instances that  *)
(* use them: messages may be lost, but none is duplicated, and those that  *)
(* were written to one connection arrive in the order they were written.   *)
(* Nothing is promised about messages of different connections.            *)
(***************************************************************************)
EXTENDS Naturals, Sequences

CONSTANTS
    Link,           \* the directed links
    Connection      \* the connections a link is made of, one after another

VARIABLES
    sent,           \* sent[l]: number of messages sent on l
    pending,        \* the messages on their way
    received        \* received[l]: the messages of l that were handled, in order

vars == <<sent, pending, received>>

\* Message num of its link was written to connection conn.
Message == [port : Link, conn : Connection, num : Nat \ {0}]

Init ==
    /\ sent = [l \in Link |-> 0]
    /\ pending = {}
    /\ received = [l \in Link |-> << >>]

Send(l, c) ==
    /\ sent' = [sent EXCEPT ![l] = @ + 1]
    /\ pending' = pending \union {[port |-> l, conn |-> c, num |-> sent[l] + 1]}
    /\ UNCHANGED received

\* A message that cannot be sent any more is lost at once.
SendInVain(l) ==
    /\ sent' = [sent EXCEPT ![l] = @ + 1]
    /\ UNCHANGED <<pending, received>>

Lose ==
    /\ pending' \subseteq pending
    /\ UNCHANGED <<sent, received>>

\* After m is delivered, nothing that was written before it can follow.
Deliver(m) ==
    /\ received' = [received EXCEPT ![m.port] = Append(@, m)]
    /\ pending' = pending \ {m}
    /\ \A o \in pending' : o.port = m.port /\ o.conn = m.conn => o.num > m.num
    /\ UNCHANGED sent

Next ==
    \/ \E l \in Link, c \in Connection : Send(l, c)
    \/ \E l \in Link : SendInVain(l)
    \/ Lose
    \/ \E m \in pending : Deliver(m)

Spec == Init /\ [][Next]_vars
=============================================================================
