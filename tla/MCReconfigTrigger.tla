------------------------- MODULE MCReconfigTrigger -------------------------
(***************************************************************************)
(* Instances of ReconfigTrigger for TLC.                                   *)
(***************************************************************************)
EXTENDS ReconfigTrigger

\* From two replicas up to three and back.
TwoOrThree == {2, 3}

\* From the three replicas of the deployment up to five.
ThreeOrFive == {3, 5}
=============================================================================
