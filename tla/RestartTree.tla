----------------------------- MODULE RestartTree -----------------------------
(***************************************************************************)
(* The process tree of a computation and how xnd_restart builds it again   *)
(* (xnd_restart.cpp, xnd_restart.h, coord_determine_roots).                *)
(*                                                                         *)
(* First the computation: processes fork, start groups and sessions, and   *)
(* exit, so that the images hold any family the kernel allows.  A          *)
(* checkpoint writes a header for every process.  Then the processes of    *)
(* the restart, each of which forks those it is responsible for, before or *)
(* after it becomes a leader, and turns into the restored process; they    *)
(* run concurrently.                                                       *)
(***************************************************************************)
EXTENDS Integers, Sequences, FiniteSets, FiniteSetsExt

CONSTANTS
  NProcs,    \* how many processes the computation creates
  NInsts,    \* a bound on the processes of the restart
  Ops        \* what the programs do besides fork; "late": a process may
             \* become a leader after it has forked

Procs == 1 .. NProcs
Insts == 1 .. NInsts

Outside == 0        \* the shell or xnd_restart, its group and its session
Launchd == -1       \* the parent of an orphan

ASSUME ConstantsAssumption ==
  /\ NProcs \in Nat \ {0} /\ NInsts \in Nat /\ NInsts >= NProcs
  /\ Ops \subseteq {"setsid", "setpgid", "late", "join", "exit"}

VARIABLES
  \* --- the computation ---
  alive,     \* its processes
  forker,    \* who forked each one: real_ppid and xnd_ppid in the coordinator
  ppid,      \* getppid
  pgid, sid, \* getpgrp and getsid
  \* --- the checkpoint ---
  header,    \* the header of each image; empty before the checkpoint
  \* --- the restart ---
  inst       \* its processes, numbered in the order they were forked

treeVars == <<alive, forker, ppid, pgid, sid>>
vars == <<treeVars, header, inst>>

Init ==
  /\ alive  = {1}
  /\ forker = [p \in Procs |-> Outside]
  /\ ppid   = [p \in Procs |-> Outside]
  /\ pgid   = [p \in Procs |-> p]      \* the shell makes a job its own group
  /\ sid    = [p \in Procs |-> Outside]
  /\ header = <<>>
  /\ inst   = <<>>

-----------------------------------------------------------------------------
(* The computation                                                         *)

Running == header = <<>>

\* Ids of processes, groups and sessions are handed out in order.
Fork(p) ==
  /\ Running /\ p \in alive
  /\ \E c \in Procs :
       /\ c # 1 /\ forker[c] = Outside
       /\ \A q \in 2 .. c - 1 : forker[q] # Outside
       /\ alive'  = alive \cup {c}
       /\ forker' = [forker EXCEPT ![c] = p]
       /\ ppid'   = [ppid EXCEPT ![c] = p]
       /\ pgid'   = [pgid EXCEPT ![c] = pgid[p]]
       /\ sid'    = [sid EXCEPT ![c] = sid[p]]
  /\ UNCHANGED <<header, inst>>

MayLead(p) == "late" \in Ops \/ \A q \in Procs : forker[q] # p

SetSid(p) ==
  /\ Running /\ p \in alive /\ "setsid" \in Ops
  /\ pgid[p] # p /\ MayLead(p)
  /\ sid'  = [sid EXCEPT ![p] = p]
  /\ pgid' = [pgid EXCEPT ![p] = p]
  /\ UNCHANGED <<alive, forker, ppid, header, inst>>

\* setpgid(0, 0), and joining a group of the same session.
SetPgid(p) ==
  /\ Running /\ p \in alive /\ sid[p] # p
  /\ \E g \in Procs :
       /\ g # pgid[p]
       /\ \/ g = p /\ "setpgid" \in Ops /\ MayLead(p)
          \/ /\ "join" \in Ops
             /\ \E q \in alive \ {p} : pgid[q] = g /\ sid[q] = sid[p]
       /\ pgid' = [pgid EXCEPT ![p] = g]
  /\ UNCHANGED <<alive, forker, ppid, sid, header, inst>>

Exit(p) ==
  /\ Running /\ p \in alive /\ alive # {p} /\ "exit" \in Ops
  /\ alive' = alive \ {p}
  /\ ppid'  = [q \in Procs |-> IF ppid[q] = p THEN Launchd ELSE ppid[q]]
  /\ UNCHANGED <<forker, pgid, sid, header, inst>>

-----------------------------------------------------------------------------
(* The checkpoint                                                          *)

\* A root is a process whose parent is not in the process list.
coord_determine_roots(p) == forker[p] \notin alive

xnd_ckptfile_write_header(p) ==
  [ppid |-> ppid[p], pgid |-> pgid[p], sid |-> sid[p],
   xnd_ppid |-> forker[p], is_root_of_tree |-> coord_determine_roots(p)]

Checkpoint ==
  /\ Running
  /\ header' = [p \in alive |-> xnd_ckptfile_write_header(p)]
  /\ UNCHANGED <<treeVars, inst>>

-----------------------------------------------------------------------------
(* xnd_restart_target and xnd_restart_dag                                  *)

targets == DOMAIN header

was_orphan(t)              == header[t].ppid = Launchd
was_root_of_tree(t)        == header[t].is_root_of_tree
was_group_leader(t)        == header[t].pgid = t
was_group_leader_of(s, t)  == header[t].pgid = s
was_session_leader(t)      == header[t].sid = t
was_session_leader_of(s, t) == header[t].sid = s
was_parent_of(s, t)        == header[t].xnd_ppid = s

children_of(s) == {t \in targets \ {s} : was_parent_of(s, t)}

indegree_of(t) == Cardinality({s \in targets \ {t} : was_parent_of(s, t)})

\* Mutant of independent_roots: a session leader depends on itself.
independent_roots_self ==
  {t \in targets : indegree_of(t) = 0 /\ \A s \in targets : ~was_session_leader_of(s, t)}

\* The roots that no other target has to create in its session.
independent_roots ==
  {t \in targets : /\ indegree_of(t) = 0
                   /\ \A s \in targets \ {t} : ~was_session_leader_of(s, t)}

-----------------------------------------------------------------------------
(* create_process.  A process of the restart creates other roots and       *)
(* children, becomes a leader, creates those that it was the leader of,    *)
(* and executes xnd_restart_internal.                                      *)

\* Mutant of Before: all children are created before the process is a leader.
BeforeAll(s) == children_of(s)

\* The children that have to be there before it is a leader.
Before(s) == {t \in children_of(s) : ~was_session_leader_of(s, t) /\ ~was_group_leader_of(s, t)}

\* Mutants of After: everyone in the group or session is created; roots are
\* not.
AfterAll(s) == {t \in targets \ {s} : was_session_leader_of(s, t) \/ was_group_leader_of(s, t)}

AfterChildren(s) == {t \in children_of(s) : was_session_leader_of(s, t) \/ was_group_leader_of(s, t)}

\* Those it creates as a leader: children, and the roots of other trees.
After(s) == {t \in targets \ {s} : /\ was_session_leader_of(s, t) \/ was_group_leader_of(s, t)
                                   /\ was_parent_of(s, t) \/ was_root_of_tree(t)}

\* A process at the start of create_process for t.
create_process(t, parent, group, session, create_roots) ==
  [t |-> t, parent |-> parent, group |-> group, session |-> session,
   pc |-> IF create_roots THEN "roots" ELSE "before",
   todo |-> IF create_roots THEN independent_roots \ {t} ELSE Before(t)]

\* process_targets: with the first independent root that is no orphan, as the
\* child of xnd_restart, or else with the first one as an orphan.
process_targets ==
  /\ ~Running /\ inst = <<>>
  /\ independent_roots # {}
  /\ LET here  == {t \in independent_roots : ~was_orphan(t)}
         first == Min(IF here # {} THEN here ELSE independent_roots)
     IN inst' = <<create_process(first, IF here # {} THEN Outside ELSE Launchd,
                                 Outside, Outside, TRUE)>>
  /\ UNCHANGED <<treeVars, header>>

\* create_child and create_orphan: fork once or twice, in whatever group and
\* session the creator is in by now.
Create(i) ==
  /\ i \in DOMAIN inst /\ inst[i].todo # {}
  /\ Len(inst) < NInsts
  /\ LET p == inst[i]
         t == Min(p.todo)
         child == p.pc = "before" \/ (p.pc = "after" /\ was_parent_of(p.t, t))
     IN inst' = Append([inst EXCEPT ![i].todo = @ \ {t}],
                       create_process(t, IF child THEN i ELSE Launchd,
                                      p.group, p.session, FALSE))
  /\ UNCHANGED <<treeVars, header>>

\* The other roots are created; now the children.
RootsDone(i) ==
  /\ i \in DOMAIN inst /\ inst[i].pc = "roots" /\ inst[i].todo = {}
  /\ inst' = [inst EXCEPT ![i].pc = "before", ![i].todo = Before(inst[i].t)]
  /\ UNCHANGED <<treeVars, header>>

\* Mutant of Lead: only a session leader becomes one.
LeadSession(i) ==
  /\ i \in DOMAIN inst /\ inst[i].pc = "before" /\ inst[i].todo = {}
  /\ LET t == inst[i].t
     IN inst' = [inst EXCEPT ![i].pc = "after", ![i].todo = After(t),
                   ![i].session = IF was_session_leader(t) THEN i ELSE @,
                   ![i].group   = IF was_session_leader(t) THEN i ELSE @]
  /\ UNCHANGED <<treeVars, header>>

\* setsid or setpgid, where the process was a leader.
Lead(i) ==
  /\ i \in DOMAIN inst /\ inst[i].pc = "before" /\ inst[i].todo = {}
  /\ LET t == inst[i].t
     IN inst' = [inst EXCEPT ![i].pc = "after", ![i].todo = After(t),
                   ![i].session = IF was_session_leader(t) THEN i ELSE @,
                   ![i].group   = IF was_session_leader(t) \/ was_group_leader(t)
                                  THEN i ELSE @]
  /\ UNCHANGED <<treeVars, header>>

exec_restart(i) ==
  /\ i \in DOMAIN inst /\ inst[i].pc = "after" /\ inst[i].todo = {}
  /\ inst' = [inst EXCEPT ![i].pc = "restored"]
  /\ UNCHANGED <<treeVars, header>>

RestartStep(i) == Create(i) \/ RootsDone(i) \/ Lead(i) \/ exec_restart(i)

Next ==
  \/ \E p \in Procs : Fork(p) \/ SetSid(p) \/ SetPgid(p) \/ Exit(p)
  \/ Checkpoint
  \/ process_targets
  \/ \E i \in Insts : RestartStep(i)

Spec == Init /\ [][Next]_vars

\* A restart that has begun goes on.
FairSpec ==
  /\ Spec
  /\ WF_vars(process_targets)
  /\ \A i \in Insts : WF_vars(RestartStep(i))

-----------------------------------------------------------------------------
(* Properties                                                              *)

\* Every variable has its type, and the assertions of process_targets hold: the
\* roots the coordinator found by real pids are those the headers show by ids,
\* there is one to begin with, and no process creates itself.
TypeOK ==
  /\ alive \subseteq Procs
  /\ forker \in [Procs -> Procs \cup {Outside}]
  /\ ppid \in [Procs -> Procs \cup {Outside, Launchd}]
  /\ pgid \in [Procs -> Procs]
  /\ sid \in [Procs -> Procs \cup {Outside}]
  /\ targets \subseteq Procs
  /\ \A t \in targets : was_root_of_tree(t) \in BOOLEAN
  /\ DOMAIN inst \subseteq Insts
  /\ \A i \in DOMAIN inst :
       /\ inst[i].t \in targets /\ inst[i].todo \subseteq targets \ {inst[i].t}
       /\ inst[i].parent \in Insts \cup {Outside, Launchd}
       /\ inst[i].group \in Insts \cup {Outside}
       /\ inst[i].session \in Insts \cup {Outside}
       /\ inst[i].pc \in {"roots", "before", "after", "restored"}
  /\ ~Running =>
       /\ \A t \in targets : was_root_of_tree(t) <=> indegree_of(t) = 0
       /\ independent_roots # {}

\* A process of the restart has the parent it had: the restored parent, or
\* launchd, or xnd_restart in the place of the shell.
ParentsRestored ==
  \A i \in DOMAIN inst :
    LET t == inst[i].t
    IN IF was_root_of_tree(t)
       THEN inst[i].parent = IF was_orphan(t) THEN Launchd ELSE Outside
       ELSE inst[i].parent \in DOMAIN inst /\ was_parent_of(inst[inst[i].parent].t, t)

\* A restored process leads a group or a session if and only if it did.
LeadersRestored ==
  \A i \in DOMAIN inst : inst[i].pc = "restored" =>
    /\ inst[i].group = i <=> was_group_leader(inst[i].t)
    /\ inst[i].session = i <=> was_session_leader(inst[i].t)

\* xnd_restart creates every process of the checkpoint once.
CreatedOnce ==
  \A i, j \in DOMAIN inst : inst[i].t = inst[j].t => i = j

\* What a pid of the restart means to the saved computation.
TargetOf(i) == IF i \in DOMAIN inst THEN inst[i].t ELSE Outside

SavedAs(p) == IF p \in targets THEN p ELSE Outside

\* A restored process is in the group and the session it was saved in, where
\* their leader was saved too.
GroupsRestored ==
  \A i \in DOMAIN inst : inst[i].pc = "restored" =>
    /\ SavedAs(header[inst[i].t].pgid) \in {Outside, TargetOf(inst[i].group)}
    /\ SavedAs(header[inst[i].t].sid) \in {Outside, TargetOf(inst[i].session)}

\* Every process that was saved comes back.
AllRestored ==
  \A t \in Procs : (~Running /\ t \in targets)
    ~> \E i \in DOMAIN inst : inst[i].t = t /\ inst[i].pc = "restored"

\* A family xnd_restart can rebuild as it was: no orphans, and every process
\* is in the group and the session of its parent or leads its own.
Plain ==
  \A t \in targets :
    /\ ~was_orphan(t)
    /\ \A s \in targets : was_parent_of(s, t) =>
         /\ header[t].pgid \in {t, header[s].pgid}
         /\ header[t].sid \in {t, header[s].sid}

\* The relations such a family was saved in.
SavedTree ==
  IF Plain THEN [t \in targets |-> [parent  |-> SavedAs(header[t].xnd_ppid),
                                    group   |-> SavedAs(header[t].pgid),
                                    session |-> SavedAs(header[t].sid)]]
  ELSE <<>>

\* The processes of the restart that have become target t, and the relations a
\* process of the restart is in.
BecameTarget(t) ==
  {i \in DOMAIN inst : Plain /\ inst[i].pc = "restored" /\ inst[i].t = t}

RelationsOf(i) ==
  [parent |-> TargetOf(inst[i].parent), group |-> TargetOf(inst[i].group),
   session |-> TargetOf(inst[i].session)]

MadeTree ==
  [t \in Procs |-> {[pid |-> i, as |-> RelationsOf(i)] : i \in BecameTarget(t)}]

\* The restart of such a family implements the abstract one: a target is made
\* when its process executes xnd_restart_internal.
Promise == INSTANCE ProcessTree WITH Pids <- Insts, saved <- SavedTree, made <- MadeTree

\* Every target of a plain family is created exactly once, in the relations it
\* was saved in (create_process, independent_roots).
RestoresTree == Promise!Spec
=============================================================================
