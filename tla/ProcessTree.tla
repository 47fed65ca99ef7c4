----------------------------- MODULE ProcessTree -----------------------------
(***************************************************************************)
(* What a restart promises about the processes of a checkpoint: every one  *)
(* is created exactly once, under a new pid, and stands in the relations   *)
(* it was saved in: the same parent, the same process group, the same      *)
(* session.  Nothing is said about the order.  RestartTree implements it.  *)
(***************************************************************************)
EXTENDS Integers, FiniteSets

CONSTANTS
  Procs,   \* the processes a computation can have
  Pids     \* the pids a restart can give

Outside == 0   \* a parent, group leader or session leader that was not saved

VARIABLES
  saved,   \* for every saved process its parent, group and session
  made     \* the processes that were created for each saved one

vars == <<saved, made>>

Relations == [parent : Procs \cup {Outside}, group : Procs \cup {Outside},
              session : Procs \cup {Outside}]

Init == saved = <<>> /\ made = [t \in Procs |-> {}]

\* The checkpoint: any set of processes, each in some relations to the rest.
Save ==
  /\ saved = <<>>
  /\ \E T \in SUBSET Procs : T # {} /\ saved' \in [T -> Relations]
  /\ UNCHANGED made

\* A saved process is created again.
Make(t) ==
  /\ t \in DOMAIN saved /\ made[t] = {}
  /\ \E i \in Pids :
       /\ \A u \in Procs : \A m \in made[u] : m.pid # i
       /\ made' = [made EXCEPT ![t] = {[pid |-> i, as |-> saved[t]]}]
  /\ UNCHANGED saved

Next == Save \/ \E t \in Procs : Make(t)

Spec == Init /\ [][Next]_vars
=============================================================================
