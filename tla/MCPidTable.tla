----------------------------- MODULE MCPidTable -----------------------------
(* Instances of PidTable for TLC.  Nothing but __getpgid_hook compares a    *)
(* real pid with a virtual one, so the real pids are model values and       *)
(* interchangeable, except where a configuration makes them overlap.        *)
EXTENDS PidTable, TLC

RealSymmetry == Permutations(Reals)
=============================================================================
