------------------------- MODULE MCThreadSuspension -------------------------
(***************************************************************************)
(* Instances of ThreadSuspension for TLC: what the programs of the threads *)
(* do.                                                                     *)
(***************************************************************************)
EXTENDS ThreadSuspension

CONSTANTS t1, t2

\* Threads that may make every call.
AnyOps == [t \in Threads |-> {"hook", "wait4", "create", "join", "exit"}]

HookOps == [t \in Threads |-> {"hook", "create"}]
NoOps == [t \in Threads |-> {}]
ExitOps == [t \in Threads |-> {"exit"}]
JoinOps == [t \in Threads |-> IF t = t1 THEN {"join"} ELSE {}]
=============================================================================
