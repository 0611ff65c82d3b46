----------------------------- MODULE MCKvServer -----------------------------
(***************************************************************************)
(* Instances of KvServer for TLC.                                          *)
(***************************************************************************)
EXTENDS KvServer

CONSTANTS n1, n2, n3

\* kubectl scale: from one replica to two, from two to three and from three to two.
FirstScaleUp == << {n1}, {n1, n2} >>
ScaleUp == << {n1, n2}, {n1, n2, n3} >>
ScaleDown == << {n1, n2, n3}, {n1, n2} >>

\* How many commands are decided in each configuration.
OneThenOne == << 1, 1 >>
TwoThenOne == << 2, 1 >>
OneThenTwo == << 1, 2 >>
ZeroThenTwo == << 0, 2 >>
=============================================================================
