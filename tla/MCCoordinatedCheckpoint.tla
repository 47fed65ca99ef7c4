---------------------- MODULE MCCoordinatedCheckpoint ----------------------
(***************************************************************************)
(* Instances of CoordinatedCheckpoint for TLC: the names of the processes. *)
(***************************************************************************)
EXTENDS CoordinatedCheckpoint

CONSTANTS p1, p2, p3
=============================================================================
