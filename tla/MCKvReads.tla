----------------------------- MODULE MCKvReads -----------------------------
(***************************************************************************)
(* An instance of KvReads for TLC.                                         *)
(***************************************************************************)
EXTENDS KvReads

CONSTANTS n1, n2

\* One configuration, as when the number of replicas never changes.  Its nodes do
\* not talk to each other, so that two show what any number of them does.
StaticConfig == << {n1, n2} >>

\* How many commands are decided.
Two == << 2 >>
=============================================================================
