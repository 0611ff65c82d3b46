--------------------------- MODULE MCSnapshotLog ---------------------------
(***************************************************************************)
(* An instance of SnapshotLog for TLC.                                     *)
(***************************************************************************)
EXTENDS SnapshotLog, TLC

\* Keys are interchangeable, and so are values.
Symmetry == Permutations(Key) \union Permutations(Value)
=============================================================================
