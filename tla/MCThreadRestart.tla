-------------------------- MODULE MCThreadRestart --------------------------
(***************************************************************************)
(* Instances of ThreadRestart for TLC.  The threads are interchangeable;   *)
(* the runs that check no liveness use it.                                 *)
(***************************************************************************)
EXTENDS ThreadRestart, TLC

CONSTANTS t1, t2

Symm == Permutations({t1, t2})

=============================================================================
