------------------------------ MODULE PidTable ------------------------------
(***************************************************************************)
(* Virtual process ids (xnd/pid/, xnd/virtual_id_table.h and the tables of *)
(* the coordinator).  A program sees virtual pids, which the coordinator   *)
(* hands out and which survive a restart; the kernel knows real pids,      *)
(* which do not.  Every process keeps a table from virtual to real pids    *)
(* under a mutex and asks the coordinator, over an out-of-band connection  *)
(* under a second mutex, for what is not in it.                            *)
(*                                                                         *)
(* A process has an identity in Procs that nothing in the code can see:    *)
(* the properties compare what a hook answered with it.                    *)
(***************************************************************************)
EXTENDS Integers, FiniteSets, Functions

CONSTANTS
  NProcs,       \* how many processes the computation creates in all
  Reals,        \* the real pids the kernel can give to them
  Launchd,      \* real pid of the process that adopts orphans
  Shell,        \* real pid of the process that ran xnd_launch or xnd_restart
  MaxVirt,      \* virtual pids are 1 .. MaxVirt
  Threads,      \* the threads of the first process; a forked child has one, 1
  Forkers,      \* those that call fork
  Waiters,      \* those that call wait, waitpid, wait3, wait4
  Ops,          \* the other calls the program makes
  Callers,      \* the processes that make them (any process may exit)
  MaxRestarts,  \* how often the computation is restarted from an image
  Reuse         \* may the kernel hand out a real pid again in one incarnation?

Procs == 1 .. NProcs
Virts == 1 .. MaxVirt
Pids  == Reals \cup {Launchd, Shell}
None  == -1

Calls == {"exit", "sigkill", "kill", "pidinfo", "query", "dirty", "list",
          "getpgrp", "getpgid", "setpgid", "exec", "forkfail"}

ASSUME ConstantsAssumption ==
  /\ NProcs \in Nat \ {0}
  /\ MaxVirt \in Nat /\ MaxVirt >= 2
  /\ {Launchd, Shell} \cap Reals = {} /\ None \notin Pids
  /\ IsFiniteSet(Reals)
  /\ 1 \in Threads /\ Forkers \subseteq Threads /\ Waiters \subseteq Threads
  /\ Ops \subseteq Calls /\ Callers \subseteq Procs
  /\ MaxRestarts \in Nat
  /\ Reuse \in BOOLEAN

VARIABLES
  \* --- the kernel ---
  st,      \* "none", "forked" (atfork_child not done), "run", "zombie",
           \* "gone", and on the way back from an image "restoring",
           \* "barrier", "released", "fix"
  real,    \* the real pid of a process, kept after its death
  par,     \* the process that created it; 0 for the launched one
  pgid,    \* its process group, a real pid
  how,     \* how a zombie ended: "exit" or "signal"
  used,    \* the real pids handed out since the last start
  \* --- the memory of a process ---
  mem,     \* _virt_pid, _virt_ppid, _real_pid, _real_ppid, XND_VIRTUAL_PID
           \* of the environment, and the table
  tlock,   \* the thread that holds the table's mutex, or None
  olock,   \* the thread that holds oob_mutex, or None
  oob,     \* oob_fd is open
  th,      \* where each thread is: [pc, op, arg, list]
  todo,    \* the entries pid_table_postrestart has still to ask for
  \* --- the coordinator ---
  coord,   \* "up" or "dead"
  next,    \* coord_info.next_virt_pid
  ctab,    \* its table
  plist,   \* its process list
  busy,    \* the fork coord_atfork is blocked on, or NoFork
  \* --- checkpoints and history ---
  image,   \* what the last checkpoint saved; nothing if procs is empty
  restarts,
  vid,     \* the virtual pid the coordinator reserved for each process
  wrong    \* which kinds of calls have answered about the wrong process

kernelVars == <<st, real, par, pgid, how, used>>
procVars   == <<mem, tlock, olock, oob, th, todo>>
coordVars  == <<coord, next, ctab, plist, busy>>
histVars   == <<image, restarts, vid>>
vars == <<kernelVars, procVars, coordVars, histVars, wrong>>

EmptyTable == [v \in Virts |-> None]

Idle == [pc |-> "user", op |-> "none", arg |-> None, list |-> {}]

NoFork == [parent |-> 0, virt |-> None]

EmptyMem == [virt |-> None, vppid |-> None, rpid |-> None, rppid |-> None,
             env |-> None, tab |-> EmptyTable]

Init ==
  /\ st    = [p \in Procs |-> "none"]
  /\ real  = [p \in Procs |-> None]
  /\ par   = [p \in Procs |-> 0]
  /\ pgid  = [p \in Procs |-> None]
  /\ how   = [p \in Procs |-> "exit"]
  /\ used  = {}
  /\ mem   = [p \in Procs |-> EmptyMem]
  /\ tlock = [p \in Procs |-> None]
  /\ olock = [p \in Procs |-> None]
  /\ oob   = [p \in Procs |-> FALSE]
  /\ th    = [p \in Procs |-> [t \in Threads |-> Idle]]
  /\ todo  = [p \in Procs |-> {}]
  /\ coord = "up"
  /\ next  = 1
  /\ ctab  = EmptyTable
  /\ plist = {}
  /\ busy  = NoFork
  /\ image = [procs |-> {}, mem |-> mem, real |-> real, pgid |-> pgid]
  /\ restarts = 0
  /\ vid   = [p \in Procs |-> None]
  /\ wrong = {}

-----------------------------------------------------------------------------
(* The kernel, and the tables                                              *)

Alive(p) == st[p] \in {"forked", "run", "restoring", "barrier", "released", "fix"}
Dead(p)  == st[p] \in {"zombie", "gone"}
ThreadsOf(p) == IF p = 1 THEN Threads ELSE {1}

\* The coordinator serves a request: it is not blocked in coord_atfork.
Serving == coord = "up" /\ busy = NoFork

\* getppid of the kernel: a process whose parent died belongs to launchd.
RealPpid(p) == IF par[p] = 0 THEN Shell
               ELSE IF Alive(par[p]) THEN real[par[p]] ELSE Launchd

\* A pid the kernel can give to a new process.
FreshReals == {r \in Reals : /\ Reuse \/ r \notin used
                             /\ \A q \in Procs : real[q] = r => st[q] \in {"none", "gone"}}

\* The process with a real pid, if there is one (a zombie is one).
At(r) == {q \in Procs : real[q] = r /\ (Alive(q) \/ st[q] = "zombie")}

update(tab, v, r) == [tab EXCEPT ![v] = r]

erase(tab, v) == IF v = None THEN tab ELSE [tab EXCEPT ![v] = None]

virtual_to_real(tab, v) == IF v \in Virts THEN tab[v] ELSE None

\* The first match of an iteration over an unordered_map: any of them.
real_to_virtual(tab, r) == LET m == {v \in Virts : tab[v] = r}
                           IN IF m = {} THEN {None} ELSE m

proc_list_virt_to_real(v) == LET m == {q \in plist : mem[q].virt = v}
                             IN IF m = {} THEN {None} ELSE {real[q] : q \in m}

proc_list_real_to_virt(r) == LET m == {q \in plist : real[q] = r}
                             IN IF m = {} THEN {None} ELSE {mem[q].virt : q \in m}

\* The coordinator's table, then its process list.
coord_send_virt_to_real(v) ==
  IF virtual_to_real(ctab, v) # None THEN {virtual_to_real(ctab, v)}
  ELSE proc_list_virt_to_real(v)

coord_send_real_to_virt(r) ==
  IF real_to_virtual(ctab, r) # {None} THEN real_to_virtual(ctab, r)
  ELSE proc_list_real_to_virt(r)

env_set_pid_info(m, virt) == [m EXCEPT !.env = virt]

env_get_pid_info(m) == m.env

getpid_hook(p) == IF mem[p].virt # None THEN mem[p].virt ELSE real[p]

getppid_hook(p) == IF mem[p].vppid # None THEN mem[p].vppid ELSE RealPpid(p)

-----------------------------------------------------------------------------
(* Registration                                                            *)

\* coord_connect_with_process_on_launch for a process whose parent it does
\* not know, and pid_table_init_pid_info in the process.
Launch ==
  /\ st[1] = "none" /\ restarts = 0
  /\ \E r \in Reals :
       LET m == [virt |-> 2, vppid |-> 1, rpid |-> r, rppid |-> Shell,
                 env |-> None,
                 tab |-> update(update(EmptyTable, 2, r), 1, Shell)]
       IN /\ real' = [real EXCEPT ![1] = r]
          /\ pgid' = [pgid EXCEPT ![1] = r]
          /\ used' = {r}
          /\ mem' = [mem EXCEPT ![1] = m]
          /\ ctab' = m.tab
  /\ st' = [st EXCEPT ![1] = "run"]
  /\ next' = 3
  /\ plist' = {1}
  /\ vid' = [vid EXCEPT ![1] = 2]
  /\ UNCHANGED <<par, how, tlock, olock, oob, th, todo, coord, busy,
                 image, restarts, wrong>>

\* exec: the new image registers again under the same real pid and gets the
\* same virtual pids; its table holds only its own entry and its parent's.
Exec(p) ==
  /\ "exec" \in Ops /\ p \in Callers
  /\ st[p] = "run" /\ Serving
  /\ th[p] = [t \in Threads |-> Idle]
  /\ p \in plist
  /\ mem' = [mem EXCEPT ![p].rppid = RealPpid(p),
                        ![p].tab = update(update(EmptyTable, mem[p].virt, real[p]),
                                          mem[p].vppid, RealPpid(p))]
  /\ oob' = [oob EXCEPT ![p] = FALSE]
  /\ UNCHANGED <<kernelVars, tlock, olock, th, todo, coordVars, histVars, wrong>>

-----------------------------------------------------------------------------
(* __fork_hook                                                             *)

\* Without a coordinator only a restart is modelled.
At_(p, t, pc) == coord = "up" /\ st[p] = "run" /\ t \in ThreadsOf(p) /\ th[p][t].pc = pc

\* A thread outside the hooks that makes a call of this kind.
Makes(p, t, op) == At_(p, t, "user") /\ p \in Callers /\ op \in Ops

Goto(p, t, pc) == th' = [th EXCEPT ![p][t] = [pc |-> pc, op |-> @.op, arg |-> @.arg,
                                               list |-> @.list]]

\* coord_client_atfork_prepare: take oob_mutex ...
ForkPrepare(p, t) ==
  /\ At_(p, t, "user") /\ t \in Forkers
  /\ olock[p] = None
  /\ olock' = [olock EXCEPT ![p] = t]
  /\ Goto(p, t, "prepare")
  /\ UNCHANGED <<kernelVars, mem, tlock, oob, todo, coordVars, histVars, wrong>>

\* Mutant of coord_atfork: env_set_virt_pid is left out in the parent.
coord_atfork_no_env(p, t) ==
  /\ At_(p, t, "prepare")
  /\ Serving
  /\ next \in Virts
  /\ ctab[next] = None /\ p \in plist
  /\ busy' = [parent |-> p, virt |-> next]
  /\ next' = next + 1
  /\ Goto(p, t, "prepared")
  /\ UNCHANGED <<coord, mem>>
  /\ UNCHANGED <<kernelVars, tlock, olock, oob, todo, ctab, plist, histVars, wrong>>

\* ... and ask for the child's virtual pid, which goes to the environment.
\* The coordinator stays in coord_atfork until the child has registered.
coord_atfork(p, t) ==
  /\ At_(p, t, "prepare")
  /\ Serving
  /\ next \in Virts
  /\ IF ctab[next] # None \/ p \notin plist
     THEN /\ coord' = "dead"
          /\ UNCHANGED <<next, busy, mem, th>>
     ELSE /\ busy' = [parent |-> p, virt |-> next]
          /\ next' = next + 1
          /\ mem' = [mem EXCEPT ![p] = env_set_pid_info(@, next)]
          /\ Goto(p, t, "prepared")
          /\ UNCHANGED coord
  /\ UNCHANGED <<kernelVars, tlock, olock, oob, todo, ctab, plist, histVars, wrong>>

\* pid_table_atfork_prepare takes the table's mutex; then fork itself.
Fork(p, t) ==
  /\ At_(p, t, "prepared")
  /\ tlock[p] = None
  /\ \E r \in FreshReals : \E c \in Procs :
       /\ st[c] = "none" /\ vid[c] = None
       /\ \A q \in Procs : q < c => vid[q] # None
       /\ st' = [st EXCEPT ![c] = "forked"]
       /\ real' = [real EXCEPT ![c] = r]
       /\ par' = [par EXCEPT ![c] = p]
       /\ pgid' = [pgid EXCEPT ![c] = pgid[p]]
       /\ used' = used \cup {r}
       /\ mem' = [mem EXCEPT ![c] = mem[p]]
       /\ oob' = [oob EXCEPT ![c] = oob[p]]
       /\ vid' = [vid EXCEPT ![c] = busy.virt]
       /\ th' = [th EXCEPT ![p][t] = [pc |-> "forked", op |-> @.op, arg |-> c,
                                         list |-> @.list]]
  /\ tlock' = [tlock EXCEPT ![p] = t]
  /\ UNCHANGED <<how, olock, todo, coordVars, image, restarts, wrong>>

\* fork fails: xnd_atfork_failed.
ForkFails(p, t) ==
  /\ "forkfail" \in Ops
  /\ At_(p, t, "prepared")
  /\ tlock[p] = None
  /\ olock' = [olock EXCEPT ![p] = None]
  /\ th' = [th EXCEPT ![p][t] = Idle]
  /\ UNCHANGED <<kernelVars, mem, tlock, oob, todo, coordVars, histVars, wrong>>

\* Mutant of AtforkChild: the child keeps the virtual pids of its parent.
AtforkChildInherit(c) ==
  /\ st[c] = "forked" /\ coord = "up"
  /\ RealPpid(c) = real[par[c]]
  /\ ctab' = update(ctab, busy.virt, real[c])
  /\ plist' = plist \cup {c}
  /\ busy' = NoFork
  /\ mem' = [mem EXCEPT ![c].rpid = real[c], ![c].rppid = real[par[c]]]
  /\ oob' = [oob EXCEPT ![c] = FALSE]
  /\ st' = [st EXCEPT ![c] = "run"]
  /\ UNCHANGED <<real, par, pgid, how, used, tlock, olock, th, todo, coord, next,
                 histVars, wrong>>

\* coord_client_atfork_child and pid_table_atfork_child in the child, the end
\* of coord_atfork in the coordinator.  The two assertions that the parent is
\* still the parent end the coordinator, the first to evaluate one.
AtforkChild(c) ==
  /\ st[c] = "forked" /\ coord = "up"
  /\ IF RealPpid(c) # real[par[c]]
     THEN /\ coord' = "dead"
          /\ UNCHANGED <<st, mem, oob, ctab, plist, busy>>
     ELSE LET v  == busy.virt
              vp == mem[par[c]].virt
          IN /\ ctab' = update(update(ctab, v, real[c]), vp, real[par[c]])
             /\ plist' = plist \cup {c}
             /\ busy' = NoFork
             /\ mem' = [mem EXCEPT ![c].virt = v, ![c].vppid = vp,
                                   ![c].rpid = real[c], ![c].rppid = real[par[c]],
                                   ![c].tab = update(mem[c].tab, v, real[c])]
             /\ oob' = [oob EXCEPT ![c] = FALSE]
             /\ st' = [st EXCEPT ![c] = "run"]
             /\ UNCHANGED coord
  /\ UNCHANGED <<real, par, pgid, how, used, tlock, olock, th, todo, next,
                 histVars, wrong>>

\* coord_client_atfork_parent and pid_table_atfork_parent.
AtforkParent(p, t) ==
  /\ At_(p, t, "forked")
  /\ olock' = [olock EXCEPT ![p] = None]
  /\ tlock' = [tlock EXCEPT ![p] = None]
  /\ Goto(p, t, "update")
  /\ UNCHANGED <<kernelVars, mem, oob, todo, coordVars, histVars, wrong>>

\* Mutant of ForkUpdate: the child's virtual pid is entered as its real one.
ForkUpdateSame(p, t) ==
  /\ At_(p, t, "update")
  /\ tlock[p] = None
  /\ mem' = [mem EXCEPT ![p].tab = update(@, mem[p].env, mem[p].env)]
  /\ th' = [th EXCEPT ![p][t] = Idle]
  /\ UNCHANGED <<kernelVars, tlock, olock, oob, todo, coordVars, histVars, wrong>>

\* The rest of __fork_hook in the parent: env_get_pid_info, pid_table_update.
ForkUpdate(p, t) ==
  /\ At_(p, t, "update")
  /\ tlock[p] = None
  /\ LET virt_ret == env_get_pid_info(mem[p])
         c        == th[p][t].arg
     IN /\ mem' = [mem EXCEPT ![p].tab = update(@, virt_ret, real[c])]
        /\ wrong' = wrong \cup (IF virt_ret # vid[c] THEN {"fork"} ELSE {})
  /\ th' = [th EXCEPT ![p][t] = Idle]
  /\ UNCHANGED <<kernelVars, tlock, olock, oob, todo, coordVars, histVars>>

-----------------------------------------------------------------------------
(* Death, and what the coordinator makes of it                             *)

\* A process ends; it stays a zombie while its parent is there, and its own
\* zombies go to launchd, which waits for them.
Death(p, h) ==
  /\ st' = [q \in Procs |->
              IF q = p THEN IF par[p] # 0 /\ Alive(par[p]) THEN "zombie" ELSE "gone"
              ELSE IF par[q] = p /\ st[q] = "zombie" THEN "gone" ELSE st[q]]
  /\ how' = [how EXCEPT ![p] = h]

Exit(p, t) ==
  /\ "exit" \in Ops
  /\ At_(p, t, "user")
  /\ Death(p, "exit")
  /\ UNCHANGED <<real, par, pgid, used, procVars, coordVars, histVars, wrong>>

\* XND_EXIT or EOF on the connection: proc_list_remove and its callback.
proc_exit_callback(q) ==
  /\ Serving
  /\ q \in plist /\ Dead(q)
  /\ plist' = plist \ {q}
  /\ ctab' = erase(ctab, mem[q].virt)
  /\ UNCHANGED <<kernelVars, procVars, coord, next, busy, histVars, wrong>>

\* Nobody has the connection of the child any more, because the parent died
\* or its fork failed: EOF in coord_atfork, coord_exit.
CoordAtforkLost ==
  /\ coord = "up" /\ busy # NoFork
  /\ \/ Dead(busy.parent)
     \/ \A t \in Threads : th[busy.parent][t].pc \notin {"prepared", "forked"}
  /\ \A c \in Procs : par[c] = busy.parent => st[c] # "forked"
  /\ coord' = "dead"
  /\ UNCHANGED <<kernelVars, procVars, next, ctab, plist, busy, histVars, wrong>>

-----------------------------------------------------------------------------
(* The hooks that translate a virtual pid: virtual_to_real_pid looks in the *)
(* table under its mutex, then asks the coordinator under both mutexes.     *)
(* RealKnown is what the hook does with the answer.                         *)

\* A process that every other one should be able to name.
Named(q) == st[q] = "run" /\ q \in plist

\* The answer r is the pid of a process other than the one called v.
Misses(v, r) == \E q \in At(r) : vid[q] # v

Flag(cond, kind) == IF cond THEN {kind} ELSE {}

Return(p, t) == th' = [th EXCEPT ![p][t] = Idle]

Continue(p, t, pc, arg, list) ==
  th' = [th EXCEPT ![p][t] = [pc |-> pc, op |-> @.op, arg |-> arg, list |-> list]]

\* __kill_hook and __killpg_hook: -1, or kill(real_pid, sig) where sig may be
\* one that ends the process.
kill_hook(p, t, v, r) ==
  /\ wrong' = wrong \cup Flag(Misses(v, r), "kill")
  /\ Return(p, t)
  /\ \/ UNCHANGED <<st, how>>
     \/ /\ "sigkill" \in Ops
        /\ \E q \in At(r) : Alive(q) /\ Death(q, "signal")

\* __wait4_hook for one pid: the assertion, then wait4 with WNOHANG, which
\* collects the child, says that it still runs, or fails.
wait4_hook(p, t, v, r) ==
  \/ /\ r = None
     /\ Death(p, "signal")
     /\ wrong' = wrong \cup {"assert"}
     /\ UNCHANGED th
  \/ /\ r # None
     /\ \E c \in Procs : /\ par[c] = p /\ st[c] = "zombie" /\ real[c] = r
                         /\ st' = [st EXCEPT ![c] = "gone"]
                         /\ Continue(p, t, "reap", c, {})
     /\ UNCHANGED <<how, wrong>>
  \/ /\ r # None
     /\ \A c \in Procs : ~(par[c] = p /\ st[c] = "zombie" /\ real[c] = r)
     /\ Return(p, t)
     /\ UNCHANGED <<st, how, wrong>>

\* __proc_pidfdinfo_hook ... __proc_pid_rusage_hook: ESRCH, or the call.
proc_query_hook(p, t, v, r) ==
  /\ wrong' = wrong \cup Flag(Misses(v, r), "query")
  /\ Return(p, t)
  /\ UNCHANGED <<st, how>>

\* __proc_track_dirty_hook ... __proc_udata_info_hook: the same, but
\* proc_terminate ends the process.
proc_dirty_hook(p, t, v, r) ==
  /\ wrong' = wrong \cup Flag(Misses(v, r), "query")
  /\ Return(p, t)
  /\ \/ UNCHANGED <<st, how>>
     \/ /\ "sigkill" \in Ops
        /\ \E q \in At(r) : Alive(q) /\ Death(q, "signal")

\* __proc_pidinfo_hook: the ids in the answer are translated back
\* (bsdinfo_real_to_virt, bsdshortinfo_real_to_virt).
proc_pidinfo_hook(p, t, v, r) ==
  /\ wrong' = wrong \cup Flag(Misses(v, r), "query")
  /\ \/ /\ At(r) = {}
        /\ Return(p, t)
     \/ \E q \in At(r) : Continue(p, t, "xlate", None, {r, RealPpid(q), pgid[q]})
  /\ UNCHANGED <<st, how>>

\* __proc_listpgrppids_hook, __proc_listchildpids_hook, __proc_listpids_hook.
proc_list_hook(p, t, v, r) ==
  /\ wrong' = wrong \cup Flag(Misses(v, r), "query")
  /\ \E list \in { {real[q] : q \in {x \in Procs : Alive(x) /\ pgid[x] = r}},
                   {real[q] : q \in {x \in Procs : Alive(x) /\ RealPpid(x) = r}} } :
       IF r = None \/ list = {} THEN Return(p, t)
       ELSE Continue(p, t, "xlate", None, list)
  /\ UNCHANGED <<st, how>>

\* __getpgid_hook: the group of that process, to be translated back.
getpgid_hook(p, t, v, r) ==
  /\ wrong' = wrong \cup Flag(Misses(v, r), "query")
  /\ \/ /\ At(r) = {}
        /\ Return(p, t)
     \/ \E q \in At(r) : Continue(p, t, "pgid", pgid[q], {})
  /\ UNCHANGED <<st, how>>

RealKnown(p, t, op, v, r) ==
  \/ op = "kill"    /\ kill_hook(p, t, v, r)
  \/ op = "wait"    /\ wait4_hook(p, t, v, r)
  \/ op = "query"   /\ proc_query_hook(p, t, v, r)
  \/ op = "dirty"   /\ proc_dirty_hook(p, t, v, r)
  \/ op = "pidinfo" /\ proc_pidinfo_hook(p, t, v, r)
  \/ op = "list"    /\ proc_list_hook(p, t, v, r)
  \/ op = "getpgid" /\ getpgid_hook(p, t, v, r)

\* virtual_to_real_pid, the table: the hook goes on, or keeps the mutex.
VirtualToReal(p, t, op, v) ==
  /\ tlock[p] = None
  /\ LET r == virtual_to_real(mem[p].tab, v)
     IN IF r # None
        THEN RealKnown(p, t, op, v, r) /\ UNCHANGED tlock
        ELSE /\ th' = [th EXCEPT ![p][t] = [pc |-> "ask_real", op |-> op,
                                            arg |-> v, list |-> {}]]
             /\ tlock' = [tlock EXCEPT ![p] = t]
             /\ UNCHANGED <<st, how, wrong>>
  /\ UNCHANGED <<real, par, pgid, used, mem, olock, oob, todo, coordVars, histVars>>

\* Mutant of virt_to_real_pid_from_coord: the table's mutex is not released.
virt_to_real_pid_from_coord_keep(p, t) ==
  /\ At_(p, t, "ask_real")
  /\ olock[p] = None /\ Serving
  /\ \E r \in coord_send_virt_to_real(th[p][t].arg) :
       RealKnown(p, t, th[p][t].op, th[p][t].arg, r)
  /\ oob' = [oob EXCEPT ![p] = TRUE]
  /\ UNCHANGED <<tlock, real, par, pgid, used, mem, olock, todo, coordVars, histVars>>

\* virt_to_real_pid_from_coord, with the table's mutex held.
virt_to_real_pid_from_coord(p, t) ==
  /\ At_(p, t, "ask_real")
  /\ olock[p] = None /\ Serving
  /\ \E r \in coord_send_virt_to_real(th[p][t].arg) :
       RealKnown(p, t, th[p][t].op, th[p][t].arg, r)
  /\ oob' = [oob EXCEPT ![p] = TRUE]
  /\ tlock' = [tlock EXCEPT ![p] = None]
  /\ UNCHANGED <<real, par, pgid, used, mem, olock, todo, coordVars, histVars>>

\* The calls of the program that name a process.
HookCall(p, t) ==
  \/ \E op \in {"kill", "query", "dirty", "pidinfo", "list"} : \E v \in Virts :
       Makes(p, t, op) /\ v < next /\ VirtualToReal(p, t, op, v)
  \/ /\ At_(p, t, "user") /\ t \in Waiters
     /\ \E c \in Procs : /\ par[c] = p /\ vid[c] # None /\ st[c] # "forked"
                         /\ VirtualToReal(p, t, "wait", vid[c])

\* waitpid(-1) and wait: any child that has ended.
WaitAny(p, t) ==
  /\ At_(p, t, "user") /\ t \in Waiters
  /\ \E c \in Procs : /\ par[c] = p /\ st[c] = "zombie"
                      /\ st' = [st EXCEPT ![c] = "gone"]
                      /\ Continue(p, t, "reap", c, {})
  /\ UNCHANGED <<real, par, pgid, how, used, mem, tlock, olock, oob, todo,
                 coordVars, histVars, wrong>>

\* __proc_listallpids_hook: no translation on the way in.
ListAll(p, t) ==
  /\ Makes(p, t, "list")
  /\ Continue(p, t, "xlate", None, {real[q] : q \in {x \in Procs : Alive(x)}})
  /\ UNCHANGED <<kernelVars, mem, tlock, olock, oob, todo, coordVars, histVars, wrong>>

\* __getpgrp_hook, and __getpgid_hook for 0 or what it takes for the caller.
GetPgrp(p, t) ==
  /\ \/ /\ Makes(p, t, "getpgrp")
        /\ UNCHANGED wrong
     \/ /\ Makes(p, t, "getpgid") /\ mem[p].rpid \in Virts
        /\ wrong' = wrong \cup Flag(\E q \in Procs : /\ Named(q) /\ vid[q] = mem[p].rpid
                                                     /\ pgid[q] # pgid[p], "pgid")
  /\ Continue(p, t, "pgrp", pgid[p], {})
  /\ UNCHANGED <<kernelVars, mem, tlock, olock, oob, todo, coordVars, histVars>>

GetPgid(p, t) ==
  /\ Makes(p, t, "getpgid")
  /\ \E v \in Virts : v < next /\ v # mem[p].rpid /\ VirtualToReal(p, t, "getpgid", v)

\* setpgid(0, 0), which is not hooked.
SetPgid(p, t) ==
  /\ Makes(p, t, "setpgid")
  /\ pgid[p] # real[p]
  /\ pgid' = [pgid EXCEPT ![p] = real[p]]
  /\ UNCHANGED <<st, real, par, how, used, procVars, coordVars, histVars, wrong>>

-----------------------------------------------------------------------------
(* real_to_virtual_pid: the same two places in the same order.             *)

\* A named process is reported under another pid than its own.
Misnamed(r, virt) == \E q \in At(r) : Named(q) /\ vid[q] # virt

\* The end of __wait4_hook, where pid is the child that was collected:
\* the entry goes; a child that a signal ended is reported to the
\* coordinator, which takes XND_EXIT as the first message of a connection
\* for a protocol error (coord_wait_for_connection).
ReapDone(p, t, c, virt, open) ==
  /\ wrong' = wrong \cup Flag(virt \notin {None, vid[c]}, "wait")
  /\ mem' = [mem EXCEPT ![p].tab = erase(@, virt)]
  /\ coord' = IF how[c] = "signal" /\ ~open THEN "dead" ELSE coord
  /\ oob' = [oob EXCEPT ![p] = open \/ how[c] = "signal"]
  /\ Return(p, t)

\* pid_list_real_to_virt and the struct translations: one id of the list; an
\* id that nobody knows stays as it is.
pid_list_real_to_virt(p, t, r, virt, open) ==
  /\ wrong' = wrong \cup Flag(Misnamed(r, virt), "list")
  /\ LET rest == th[p][t].list \ {r}
     IN IF rest = {} THEN Return(p, t) ELSE Continue(p, t, "xlate", None, rest)
  /\ oob' = [oob EXCEPT ![p] = open]
  /\ UNCHANGED <<mem, coord>>

\* The end of __getpgrp_hook and __getpgid_hook.
GroupDone(p, t, r, virt, open) ==
  /\ wrong' = wrong \cup Flag(Misnamed(r, virt), "pgrp")
  /\ Return(p, t)
  /\ oob' = [oob EXCEPT ![p] = open]
  /\ UNCHANGED <<mem, coord>>

VirtKnown(p, t, op, r, virt, open) ==
  \/ op = "reap"  /\ ReapDone(p, t, th[p][t].arg, virt, open)
  \/ op = "xlate" /\ pid_list_real_to_virt(p, t, r, virt, open)
  \/ op \in {"pgrp", "pgid"} /\ GroupDone(p, t, r, virt, open)

\* The real pids a thread has to translate; one at a time.
RealArgs(p, t, op) == IF op = "reap" THEN {real[th[p][t].arg]}
                      ELSE IF op = "xlate" THEN th[p][t].list
                      ELSE {th[p][t].arg}

\* What is known without the coordinator: __getpgrp_hook compares with the
\* process itself and its parent first; then the table.
KnownHere(p, op, r) == IF op = "pgrp" /\ r = mem[p].rpid THEN {mem[p].virt}
                       ELSE IF op = "pgrp" /\ r = mem[p].rppid THEN {mem[p].vppid}
                       ELSE real_to_virtual(mem[p].tab, r)

RealToVirtual(p, t) ==
  /\ \E op \in {"reap", "xlate", "pgrp", "pgid"} :
       /\ At_(p, t, op)
       /\ tlock[p] = None
       /\ \E r \in RealArgs(p, t, op) : \E virt \in KnownHere(p, op, r) :
            IF virt # None
            THEN VirtKnown(p, t, op, r, virt, oob[p]) /\ UNCHANGED tlock
            ELSE /\ th' = [th EXCEPT ![p][t] =
                              [pc |-> "ask_virt", op |-> op,
                               arg |-> IF op = "xlate" THEN r ELSE @.arg, list |-> @.list]]
                 /\ tlock' = [tlock EXCEPT ![p] = t]
                 /\ UNCHANGED <<mem, coord, oob, wrong>>
  /\ UNCHANGED <<kernelVars, olock, todo, next, ctab, plist, busy, histVars>>

real_to_virt_pid_from_coord(p, t) ==
  /\ At_(p, t, "ask_virt")
  /\ olock[p] = None /\ Serving
  /\ LET op == th[p][t].op
         r  == IF op = "reap" THEN real[th[p][t].arg] ELSE th[p][t].arg
     IN \E virt \in coord_send_real_to_virt(r) : VirtKnown(p, t, op, r, virt, TRUE)
  /\ tlock' = [tlock EXCEPT ![p] = None]
  /\ UNCHANGED <<kernelVars, olock, todo, next, ctab, plist, busy, histVars>>

-----------------------------------------------------------------------------
(* Checkpoint and restart                                                  *)

\* Every process is stopped outside the hooks (they run in unsafe regions).
Checkpoint ==
  /\ restarts < MaxRestarts
  /\ Serving /\ plist # {}
  /\ \A p \in Procs : Alive(p) => st[p] = "run" /\ p \in plist
  /\ \A p \in plist : st[p] = "run" /\ th[p] = [t \in Threads |-> Idle]
  /\ image' = [procs |-> plist, mem |-> mem, real |-> real, pgid |-> pgid]
  /\ UNCHANGED <<kernelVars, procVars, coordVars, restarts, vid, wrong>>

\* Nothing is left of the computation; xnd_restart starts a coordinator and
\* creates the processes of the image under whatever pids the kernel gives.
\* A group whose leader is not among them cannot come back.
Restart ==
  /\ image.procs # {} /\ restarts < MaxRestarts
  /\ \E f \in [image.procs -> Reals] :
       /\ IsInjective(f)
       /\ real' = [p \in Procs |-> IF p \in image.procs THEN f[p] ELSE real[p]]
       /\ pgid' = [p \in Procs |->
                     IF p \notin image.procs THEN pgid[p]
                     ELSE LET leader == {q \in image.procs : image.real[q] = image.pgid[p]}
                          IN IF leader = {} THEN Shell ELSE f[CHOOSE q \in leader : TRUE]]
       /\ used' = {f[p] : p \in image.procs}
  /\ st' = [p \in Procs |-> IF p \in image.procs THEN "restoring"
                            ELSE IF st[p] = "none" THEN "none" ELSE "gone"]
  /\ mem' = [p \in Procs |-> IF p \in image.procs THEN image.mem[p] ELSE mem[p]]
  /\ tlock' = [p \in Procs |-> None]
  /\ olock' = [p \in Procs |-> None]
  /\ oob'   = [p \in Procs |-> FALSE]
  /\ th'    = [p \in Procs |-> [t \in Threads |-> Idle]]
  /\ todo'  = [p \in Procs |-> {}]
  /\ coord' = "up"
  /\ next'  = 1
  /\ ctab'  = EmptyTable
  /\ plist' = {}
  /\ busy'  = NoFork
  /\ restarts' = restarts + 1
  /\ UNCHANGED <<par, how, image, vid, wrong>>

\* The process sends the virtual pids it was saved with, and its new pids.
coord_connect_with_process_on_restart(p) ==
  /\ st[p] = "restoring" /\ coord = "up"
  /\ plist' = plist \cup {p}
  /\ ctab' = update(update(ctab, mem[p].virt, real[p]), mem[p].vppid, RealPpid(p))
  /\ next' = IF mem[p].virt >= next THEN mem[p].virt + 1 ELSE next
  /\ st' = [st EXCEPT ![p] = "barrier"]
  /\ UNCHANGED <<real, par, pgid, how, used, procVars, coord, busy, histVars, wrong>>

\* XND_RESUME_AFTER_RESTART, once all peers are connected.
ReleasePostrestart ==
  /\ coord = "up"
  /\ \E p \in Procs : st[p] = "barrier"
  /\ \A p \in Procs : st[p] # "restoring"
  /\ st' = [p \in Procs |-> IF st[p] = "barrier" THEN "released" ELSE st[p]]
  /\ UNCHANGED <<real, par, pgid, how, used, procVars, coordVars, histVars, wrong>>

\* Mutant of PostrestartOwn: the loop over the other entries is left out.
PostrestartOwnOnly(p) ==
  /\ st[p] = "released" /\ coord = "up"
  /\ LET m == mem[p]
     IN mem' = [mem EXCEPT ![p].rpid = real[p], ![p].rppid = RealPpid(p),
                           ![p].tab = update(update(m.tab, m.virt, real[p]),
                                             m.vppid, RealPpid(p))]
  /\ st' = [st EXCEPT ![p] = "run"]
  /\ UNCHANGED <<real, par, pgid, how, used, tlock, olock, oob, th, todo, coordVars,
                 histVars, wrong>>

\* pid_table_postrestart: its own entry and its parent's ...
PostrestartOwn(p) ==
  /\ st[p] = "released" /\ coord = "up"
  /\ LET m == mem[p]
         left == {v \in Virts : m.tab[v] # None} \ {m.virt, m.vppid}
     IN /\ mem' = [mem EXCEPT ![p].rpid = real[p], ![p].rppid = RealPpid(p),
                              ![p].tab = update(update(m.tab, m.virt, real[p]),
                                                m.vppid, RealPpid(p))]
        /\ todo' = [todo EXCEPT ![p] = left]
        /\ st' = [st EXCEPT ![p] = IF left = {} THEN "run" ELSE "fix"]
  /\ UNCHANGED <<real, par, pgid, how, used, tlock, olock, oob, th, coordVars,
                 histVars, wrong>>

\* Mutant of PostrestartEntry: an entry the coordinator does not know is kept.
PostrestartEntryKeep(p) ==
  /\ st[p] = "fix" /\ Serving
  /\ \E v \in todo[p] : \E r \in coord_send_virt_to_real(v) :
       /\ mem' = [mem EXCEPT ![p].tab = IF r = None THEN @ ELSE update(@, v, r)]
       /\ todo' = [todo EXCEPT ![p] = @ \ {v}]
       /\ st' = IF todo[p] = {v} THEN [st EXCEPT ![p] = "run"] ELSE st
  /\ oob' = [oob EXCEPT ![p] = TRUE]
  /\ UNCHANGED <<real, par, pgid, how, used, tlock, olock, th, coordVars, histVars, wrong>>

\* ... then one of the others: the coordinator's answer, or it is erased.
PostrestartEntry(p) ==
  /\ st[p] = "fix" /\ Serving
  /\ \E v \in todo[p] : \E r \in coord_send_virt_to_real(v) :
       /\ mem' = [mem EXCEPT ![p].tab = IF r = None THEN erase(@, v) ELSE update(@, v, r)]
       /\ todo' = [todo EXCEPT ![p] = @ \ {v}]
       /\ st' = IF todo[p] = {v} THEN [st EXCEPT ![p] = "run"] ELSE st
  /\ oob' = [oob EXCEPT ![p] = TRUE]
  /\ UNCHANGED <<real, par, pgid, how, used, tlock, olock, th, coordVars, histVars, wrong>>

-----------------------------------------------------------------------------

\* A thread in a hook goes on.
HookStep(p, t) ==
  \/ coord_atfork(p, t)
  \/ Fork(p, t)
  \/ ForkFails(p, t)
  \/ AtforkParent(p, t)
  \/ ForkUpdate(p, t)
  \/ virt_to_real_pid_from_coord(p, t)
  \/ RealToVirtual(p, t)
  \/ real_to_virt_pid_from_coord(p, t)

\* The program makes a call.
UserCall(p, t) ==
  \/ ForkPrepare(p, t)
  \/ HookCall(p, t)
  \/ WaitAny(p, t)
  \/ ListAll(p, t)
  \/ GetPgrp(p, t)
  \/ GetPgid(p, t)
  \/ SetPgid(p, t)
  \/ Exit(p, t)

ProcStep(p) ==
  \/ Exec(p)
  \/ AtforkChild(p)
  \/ proc_exit_callback(p)
  \/ coord_connect_with_process_on_restart(p)
  \/ PostrestartOwn(p)
  \/ PostrestartEntry(p)

Next ==
  \/ Launch
  \/ CoordAtforkLost
  \/ Checkpoint
  \/ ReleasePostrestart
  \/ Restart
  \/ \E p \in Procs : ProcStep(p)
  \/ \E p \in Procs, t \in Threads : HookStep(p, t) \/ UserCall(p, t)

Spec == Init /\ [][Next]_vars

\* The coordinator serves, a process in a hook goes on, and a lock that is
\* free again and again is got (strong fairness); the program itself need do
\* nothing.
FairSpec ==
  /\ Spec
  /\ WF_vars(CoordAtforkLost)
  /\ \A p \in Procs : WF_vars(AtforkChild(p))
  /\ \A p \in Procs, t \in Threads : SF_vars(HookStep(p, t))

-----------------------------------------------------------------------------
(* Properties                                                              *)

ThreadState == [pc : {"user", "prepare", "prepared", "forked", "update", "ask_real",
                      "reap", "xlate", "pgrp", "pgid", "ask_virt"},
                op : {"none", "kill", "wait", "query", "dirty", "pidinfo", "list",
                      "getpgid", "reap", "xlate", "pgrp", "pgid"},
                arg : Procs \cup Virts \cup Pids \cup {None}, list : SUBSET Pids]

TypeOK ==
  /\ st \in [Procs -> {"none", "forked", "run", "zombie", "gone", "restoring",
                       "barrier", "released", "fix"}]
  /\ real \in [Procs -> Reals \cup {None}]
  /\ par \in [Procs -> 0 .. NProcs]
  /\ pgid \in [Procs -> Pids \cup {None}]
  /\ how \in [Procs -> {"exit", "signal"}]
  /\ used \subseteq Reals
  /\ mem \in [Procs -> [virt : Virts \cup {None}, vppid : Virts \cup {None},
                        rpid : Pids \cup {None}, rppid : Pids \cup {None},
                        env : Virts \cup {None},
                        tab : [Virts -> Pids \cup {None}]]]
  /\ tlock \in [Procs -> Threads \cup {None}]
  /\ olock \in [Procs -> Threads \cup {None}]
  /\ oob \in [Procs -> BOOLEAN]
  /\ th \in [Procs -> [Threads -> ThreadState]]
  /\ todo \in [Procs -> SUBSET Virts]
  /\ coord \in {"up", "dead"}
  /\ next \in 1 .. MaxVirt + 1
  /\ ctab \in [Virts -> Pids \cup {None}]
  /\ plist \subseteq Procs
  /\ busy \in [parent : 0 .. NProcs, virt : Virts \cup {None}]
  /\ image.procs \subseteq Procs
  /\ restarts \in 0 .. MaxRestarts
  /\ vid \in [Procs -> Virts \cup {None}]
  /\ wrong \subseteq {"fork", "kill", "query", "wait", "list", "pgrp", "pgid",
                  "assert"}

\* In a process whose user threads run, no entry for a living process of the
\* computation is out of date: it holds the pid of this incarnation, although
\* the table came out of an image full of old pids, some of which now belong
\* to other processes (pid_table_postrestart, __fork_hook).
EntriesCurrent ==
  \A p, q \in Procs :
    st[p] = "run" /\ Named(q) /\ virtual_to_real(mem[p].tab, vid[q]) # None
      => mem[p].tab[vid[q]] = real[q]

\* getpid answers the same number for the life of a process, over any restart,
\* and no two processes that run have the same one; getppid answers that of
\* the process that forked it.
PidsStable ==
  \A p \in Procs : st[p] = "run" =>
    /\ getpid_hook(p) = vid[p]
    /\ par[p] # 0 => getppid_hook(p) = vid[par[p]]
    /\ \A q \in Procs \ {p} : st[q] = "run" => getpid_hook(q) # getpid_hook(p)

\* kill, killpg, getpgid and the proc_ calls act on the process that was
\* named, or on none: the pid they pass to the kernel is never another's.
\* And wait does not return the virtual pid of another process than the child
\* whose status it returns.
CallsReachTarget == {"kill", "query", "wait"} \cap wrong = {}

\* Where the system reports a process that runs (lists, struct proc_bsdinfo,
\* the group a leader of which runs), the program sees its virtual pid; and
\* fork returns the virtual pid of the child that it created.
AnswersAreVirtual == {"list", "pgrp", "fork"} \cap wrong = {}

\* getpgid answers about the process that was asked for.
PgidOfTarget == "pgid" \notin wrong

\* No call of a program brings the coordinator down.
CoordinatorSurvives == coord = "up"

\* The coordinator does not stay blocked in coord_atfork: the child of the
\* fork registers, or an assertion or an EOF ends the coordinator.
HandshakeArrives == busy # NoFork ~> busy = NoFork \/ coord = "dead"

====
