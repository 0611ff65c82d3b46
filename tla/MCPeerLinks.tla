---------------------------- MODULE MCPeerLinks ----------------------------
(***************************************************************************)
(* Instances of PeerLinks for TLC.                                         *)
(***************************************************************************)
EXTENDS PeerLinks

\* Two servers, one of which sends.
TwoNodes == {1, 2}
OneTalks == {<<1, 2>>}
=============================================================================
