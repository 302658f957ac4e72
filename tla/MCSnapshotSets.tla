--------------------------- MODULE MCSnapshotSets ---------------------------
(***************************************************************************)
(* Two guests in one deployment, two sets and three operations, with one   *)
(* edit of the deployment, one API restart and a retention of one set.     *)
(***************************************************************************)
EXTENDS SnapshotSets

CONSTANTS g1, g2

SomeManifests == {{g1}, {g1, g2}}
=============================================================================
