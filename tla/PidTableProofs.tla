--------------------------- MODULE PidTableProofs ---------------------------
(***************************************************************************)
(* Proofs about PidTable, for any number of processes, threads, pids and   *)
(* restarts.                                                               *)
(*                                                                         *)
(* A pid, real or virtual, means one process among those that are still    *)
(* referred to (Known): the ones that run or wait to be collected, those   *)
(* on the coordinator's list, and those a hook is in the middle of dealing *)
(* with.  Virtual pids are handed out in order, and a reserved one is not  *)
(* in use by anybody (BusyInv, VidInv).  From this the tables are right:   *)
(* what the coordinator and a process have under a virtual pid is the real *)
(* pid of the process that is called so (CtabInv, TabInv) and, if the      *)
(* system does not hand out a pid twice, of no other (Owners).             *)
(*                                                                         *)
(* The invariant has three layers, proved one after the other: Base needs  *)
(* no hypothesis, Tables that one thread of each process forks, Owners     *)
(* that real pids are not used again.                                      *)
(***************************************************************************)
EXTENDS PidTable, TLAPS

-----------------------------------------------------------------------------
(* Kinds of values *)

Mems == [virt : Virts \cup {None}, vppid : Virts \cup {None}, rpid : Pids \cup {None},
         rppid : Pids \cup {None}, env : Virts \cup {None}, tab : [Virts -> Pids \cup {None}]]

AllIdle == [t \in Threads |-> Idle]

States == {"none", "forked", "run", "zombie", "gone", "restoring", "barrier",
           "released", "fix"}

KernelType ==
  /\ st \in [Procs -> States]
  /\ real \in [Procs -> Reals \cup {None}]
  /\ par \in [Procs -> 0 .. NProcs]
  /\ pgid \in [Procs -> Pids \cup {None}]
  /\ how \in [Procs -> {"exit", "signal"}]
  /\ used \subseteq Reals

ProcType ==
  /\ mem \in [Procs -> Mems]
  /\ tlock \in [Procs -> Threads \cup {None}]
  /\ olock \in [Procs -> Threads \cup {None}]
  /\ oob \in [Procs -> BOOLEAN]
  /\ th \in [Procs -> [Threads -> ThreadState]]
  /\ todo \in [Procs -> SUBSET Virts]

CoordType ==
  /\ coord \in {"up", "dead"}
  /\ next \in 1 .. MaxVirt + 1
  /\ ctab \in [Virts -> Pids \cup {None}]
  /\ plist \subseteq Procs
  /\ busy \in [parent : 0 .. NProcs, virt : Virts \cup {None}]

HistType ==
  /\ image \in [procs : SUBSET Procs, mem : [Procs -> Mems],
                real : [Procs -> Reals \cup {None}], pgid : [Procs -> Pids \cup {None}]]
  /\ restarts \in 0 .. MaxRestarts
  /\ vid \in [Procs -> Virts \cup {None}]
  /\ wrong \subseteq {"fork", "kill", "query", "wait", "list", "pgrp", "pgid", "assert"}

Kinds == KernelType /\ ProcType /\ CoordType /\ HistType

-----------------------------------------------------------------------------
(* Processes and virtual pids *)

\* A thread of __fork_hook that has got its child, or one of __wait4_hook that has
\* collected one.
Holds(r) == r.pc \in {"forked", "update", "reap"} \/ (r.pc = "ask_virt" /\ r.op = "reap")

\* The processes that something still refers to.
Known == {q \in Procs : \/ Alive(q) \/ st[q] = "zombie" \/ q \in plist
                        \/ \E p \in Procs, t \in Threads :
                             st[p] = "run" /\ Holds(th[p][t]) /\ th[p][t].arg = q}

\* Where a process is, and what it has there.
LifeInv(p) ==
  /\ st[p] = "none" <=> vid[p] = None
  /\ st[p] = "none" <=> real[p] = None
  /\ st[p] = "none" => par[p] = 0
  /\ st[p] # "none" => pgid[p] \in Pids
  /\ par[p] # 0 => st[par[p]] # "none" /\ par[p] # p
  /\ st[1] = "none" => st[p] = "none" /\ image.procs = {}
  /\ st[p] \notin {"run", "zombie", "gone"} => th[p] = AllIdle
  /\ st[p] \in {"none", "forked", "restoring"} => p \notin plist
  /\ st[p] \in {"run", "barrier", "released", "fix"} => p \in plist
  /\ st[p] \in {"restoring", "barrier"} =>
       /\ \A q \in Procs : st[q] \notin {"forked", "run", "released", "fix", "zombie"}
       /\ \A q \in plist : Alive(q)

\* What a thread inside a hook has in hand.
ThreadInv(p, t) ==
  /\ th[p][t].pc \in {"prepare", "prepared", "forked", "update"} => t \in Forkers
  /\ Holds(th[p][t]) => th[p][t].arg \in Procs /\ st[th[p][t].arg] # "none"
  /\ th[p][t].pc = "ask_real" => th[p][t].arg \in Virts

\* Own ids.
VidInv(p) ==
  /\ p \in Known /\ st[p] # "restoring" => vid[p] < next
  /\ p \in plist \/ st[p] = "restoring" =>
       /\ mem[p].virt = vid[p]
       /\ mem[p].vppid = IF par[p] = 0 THEN 1 ELSE vid[par[p]]
  /\ par[p] # 0 => vid[par[p]] < vid[p]
  /\ vid[p] # 1

\* Nobody else goes under the virtual pid of a process or of its parent.
UniqueInv(p, q) ==
  /\ vid[q] = vid[p] => q = p
  /\ Alive(p) /\ par[p] # 0 /\ vid[q] = vid[par[p]] => q = par[p]

\* The fork that coord_atfork serves: first the thread, then the child has the
\* reserved pid.
BusyInv ==
  coord = "up" =>
    /\ \A p \in Procs, t \in Threads : st[p] = "run" /\ th[p][t].pc = "prepared" =>
         /\ busy.parent = p /\ busy.virt \in Virts /\ busy.virt < next
         /\ \A q \in Known : vid[q] < busy.virt
         /\ \A q \in Procs : st[q] # "forked"
         /\ \A s \in Threads : th[p][s].pc = "prepared" => s = t
    /\ \A c \in Procs : st[c] = "forked" =>
         /\ busy.parent = par[c] /\ busy.virt = vid[c] /\ par[c] # 0
         /\ st[par[c]] \in {"run", "zombie", "gone"}

\* The image holds processes that ran.
ImageInv ==
  /\ \A p \in image.procs :
       /\ vid[p] # None
       /\ image.mem[p].virt = vid[p]
       /\ image.mem[p].vppid = IF par[p] = 0 THEN 1 ELSE vid[par[p]]
  /\ \A p, q \in image.procs :
       /\ vid[q] = vid[p] => q = p
       /\ par[p] # 0 /\ vid[q] = vid[par[p]] => q = par[p]

Base ==
  /\ Kinds
  /\ \A p \in Procs : LifeInv(p) /\ VidInv(p)
  /\ \A p \in Procs, t \in Threads : ThreadInv(p, t)
  /\ \A p, q \in Known : UniqueInv(p, q)
  /\ BusyInv /\ ImageInv

-----------------------------------------------------------------------------
(* The tables: if one thread of each process forks *)

OneForker == \A s, t \in Forkers : s = t

\* The entry under v is of this incarnation.
Fresh(p, v) == st[p] \in {"run", "forked"} \/ (st[p] = "fix" /\ v \notin todo[p])

CtabInv ==
  /\ \A v \in Virts : ctab[v] # None => v < next
  /\ \A q \in plist : ctab[vid[q]] = real[q]

TabInv(p, v) ==
  Fresh(p, v) /\ mem[p].tab[v] # None =>
    /\ v < next
    /\ \A q \in Procs : Alive(q) /\ vid[q] = v => mem[p].tab[v] = real[q]

EnvInv(p, t) ==
  st[p] = "run" =>
    /\ th[p][t].pc = "prepared" /\ coord = "up" =>
         /\ mem[p].env = busy.virt
         /\ \A q \in Procs : Fresh(q, busy.virt) => mem[q].tab[busy.virt] = None
    /\ th[p][t].pc \in {"forked", "update"} => mem[p].env = vid[th[p][t].arg]

Tables ==
  /\ CtabInv
  /\ \A p \in Procs, v \in Virts : TabInv(p, v)
  /\ \A p \in Procs, t \in Threads : EnvInv(p, t)

-----------------------------------------------------------------------------
(* The owners of real pids: if the system does not use them again *)

System == {Launchd, Shell}

\* r is the pid of nobody but the process called v.
Owned(r, v) == r \in used \cup System /\ \A q \in Known : real[q] = r => vid[q] = v

OwnInv(p) ==
  st[p] \in {"run", "fix"} => mem[p].rpid = real[p] /\ Owned(mem[p].rppid, mem[p].vppid)

Owners ==
  /\ \A q \in Known : real[q] \in used
  /\ \A p, q \in Known : real[p] = real[q] => p = q
  /\ \A v \in Virts : ctab[v] # None => Owned(ctab[v], v)
  /\ \A p \in Procs, v \in Virts : Fresh(p, v) /\ mem[p].tab[v] # None => Owned(mem[p].tab[v], v)
  /\ \A p \in Procs : OwnInv(p)
  /\ CallsReachTarget /\ AnswersAreVirtual

-----------------------------------------------------------------------------
(* Constants and records *)

LEMMA Constants ==
  /\ None \notin Virts /\ None \notin Pids /\ None \notin Reals /\ None \notin Procs
  /\ Reals \subseteq Pids /\ Launchd \in Pids /\ Shell \in Pids
  /\ Launchd \notin Reals /\ Shell \notin Reals
  /\ Procs \subseteq Nat /\ 0 \notin Procs /\ 1 \in Procs /\ Procs \subseteq 0 .. NProcs
  /\ (0 .. NProcs) \ {0} = Procs
  /\ Virts \subseteq Nat /\ 1 \in Virts /\ 2 \in Virts
  /\ 1 \in Threads /\ Forkers \subseteq Threads
  /\ MaxVirt \in Nat /\ NProcs \in Nat /\ MaxRestarts \in Nat
BY ConstantsAssumption DEF None, Virts, Pids, Procs

LEMMA IdleIs ==
  /\ Idle \in ThreadState /\ Idle.pc = "user" /\ ~Holds(Idle)
  /\ Idle.op = "none" /\ Idle.arg = None /\ Idle.list = {}
BY DEF Idle, ThreadState, Holds

\* A thread of a process goes on: the others stay where they are.
LEMMA OneThread ==
  ASSUME Kinds, NEW p \in Procs, NEW t \in Threads, NEW x \in ThreadState,
         th' = [th EXCEPT ![p][t] = x]
  PROVE  /\ th' \in [Procs -> [Threads -> ThreadState]]
         /\ th'[p][t] = x
         /\ \A q \in Procs, s \in Threads : q # p \/ s # t => th'[q][s] = th[q][s]
         /\ \A q \in Procs : q # p => th'[q] = th[q]
BY DEF Kinds, ProcType

LEMMA ContinueIs ==
  ASSUME NEW p \in Procs, NEW t \in Threads, NEW at, NEW arg, NEW list,
         Continue(p, t, at, arg, list), Kinds
  PROVE  th' = [th EXCEPT ![p][t] = [pc |-> at, op |-> th[p][t].op, arg |-> arg, list |-> list]]
BY DEF Continue, Kinds, ProcType

LEMMA GotoIs ==
  ASSUME NEW p \in Procs, NEW t \in Threads, NEW at, Goto(p, t, at), Kinds
  PROVE  th' = [th EXCEPT ![p][t] = [pc |-> at, op |-> th[p][t].op, arg |-> th[p][t].arg,
                                     list |-> th[p][t].list]]
BY DEF Goto, Kinds, ProcType

LEMMA RecordIn ==
  ASSUME NEW at \in {"user", "prepare", "prepared", "forked", "update", "ask_real",
                     "reap", "xlate", "pgrp", "pgid", "ask_virt"},
         NEW op \in {"none", "kill", "wait", "query", "dirty", "pidinfo", "list",
                     "getpgid", "reap", "xlate", "pgrp", "pgid"},
         NEW arg \in Procs \cup Virts \cup Pids \cup {None},
         NEW list \in SUBSET Pids
  PROVE  [pc |-> at, op |-> op, arg |-> arg, list |-> list] \in ThreadState
BY DEF ThreadState

-----------------------------------------------------------------------------
(* Steps inside a hook *)

\* Processes end, or are collected.
Waning == \A q \in Procs :
            \/ st'[q] = st[q]
            \/ st[q] \notin {"none", "gone"} /\ st'[q] \in {"zombie", "gone"}

\* The own ids of a process stay as they are.
IdsKept == \A q \in Procs : /\ mem'[q].virt = mem[q].virt /\ mem'[q].vppid = mem[q].vppid
                            /\ mem'[q].rpid = mem[q].rpid /\ mem'[q].rppid = mem[q].rppid
                            /\ mem'[q].env = mem[q].env

\* What thread t of p may have in hand next.
Proper(p, t, x) ==
  /\ x \in ThreadState
  /\ x.pc \notin {"prepared", "forked"}
  /\ x.pc \in {"prepare", "update"} => t \in Forkers
  /\ x.pc = "update" => th[p][t].pc = "forked" /\ x.arg = th[p][t].arg
  /\ Holds(x) => x.arg \in Known
  /\ x.pc = "ask_real" => x.arg \in Virts

\* A step of a hook of thread t in process p, other than the first half of a fork.
HookMove(p, t, x) ==
  /\ st[p] = "run" /\ coord = "up"
  /\ th' = [th EXCEPT ![p][t] = x] /\ Proper(p, t, x)
  /\ st' \in [Procs -> States] /\ Waning
  /\ pgid' \in [Procs -> Pids \cup {None}] /\ \A q \in Procs : pgid[q] \in Pids => pgid'[q] \in Pids
  /\ how' \in [Procs -> {"exit", "signal"}]
  /\ mem' \in [Procs -> Mems] /\ IdsKept
  /\ tlock' \in [Procs -> Threads \cup {None}] /\ olock' \in [Procs -> Threads \cup {None}]
  /\ oob' \in [Procs -> BOOLEAN]
  /\ coord' \in {"up", "dead"}
  /\ wrong' \subseteq {"fork", "kill", "query", "wait", "list", "pgrp", "pgid", "assert"}
  /\ UNCHANGED <<real, par, used, todo, next, ctab, plist, busy, image, restarts, vid>>

LEMMA KnownWanes ==
  ASSUME Kinds, NEW p \in Procs, NEW t \in Threads, NEW x, HookMove(p, t, x)
  PROVE  Known' \subseteq Known
<1> SUFFICES ASSUME NEW q \in Procs, q \in Known' PROVE q \in Known
  BY DEF Known
<1>1. /\ x \in ThreadState /\ plist' = plist /\ th' = [th EXCEPT ![p][t] = x]
      /\ Holds(x) => x.arg \in Known
      /\ Waning
  BY DEF HookMove, Proper
<1>2. CASE Alive(q)' \/ st'[q] = "zombie" \/ q \in plist'
  <2>1. st[q] \in States
    BY DEF Kinds, KernelType
  <2> QED
    BY <1>1, <1>2, <2>1 DEF Known, Alive, States, Waning
<1>3. ASSUME NEW r \in Procs, NEW s \in Threads, st'[r] = "run", Holds(th'[r][s]),
             th'[r][s].arg = q
      PROVE  q \in Known
  <2>1. st[r] = "run"
    BY <1>1, <1>3 DEF Waning
  <2>2. /\ th' \in [Procs -> [Threads -> ThreadState]]
        /\ th'[p][t] = x
        /\ \A a \in Procs, b \in Threads : a # p \/ b # t => th'[a][b] = th[a][b]
        /\ \A a \in Procs : a # p => th'[a] = th[a]
    BY <1>1, OneThread
  <2>3. CASE r = p /\ s = t
    <3>1. Holds(x) /\ x.arg = q
      BY <1>3, <2>2, <2>3
    <3> QED
      BY <1>1, <3>1
  <2>4. CASE r # p \/ s # t
    BY <1>3, <2>1, <2>2, <2>4 DEF Known
  <2> QED
    BY <2>3, <2>4
<1> QED
  BY <1>2, <1>3 DEF Known

LEMMA KnownKinds ==
  ASSUME Base
  PROVE  Known \subseteq Procs /\ \A q \in Known : st[q] # "none" /\ vid[q] \in Virts
<1>1. ASSUME NEW q \in Known, st[q] = "none" PROVE FALSE
  <2>1. q \in Procs /\ LifeInv(q) /\ \A a \in Procs, b \in Threads : ThreadInv(a, b)
    BY DEF Base, Known
  <2> QED
    BY <1>1, <2>1 DEF Known, Alive, LifeInv, ThreadInv
<1>2. \A q \in Procs : LifeInv(q) /\ vid[q] \in Virts \cup {None}
  BY DEF Base, Kinds, HistType
<1> QED
  BY <1>1, <1>2 DEF Known, LifeInv

LEMMA HookMoveKeeps ==
  ASSUME Base, NEW p \in Procs, NEW t \in Threads, NEW x, HookMove(p, t, x)
  PROVE  Base'
<1>1. Kinds /\ x \in ThreadState /\ th' = [th EXCEPT ![p][t] = x]
  BY DEF Base, HookMove, Proper
<1>2. /\ th' \in [Procs -> [Threads -> ThreadState]]
      /\ th'[p][t] = x
      /\ \A q \in Procs, s \in Threads : q # p \/ s # t => th'[q][s] = th[q][s]
      /\ \A q \in Procs : q # p => th'[q] = th[q]
  BY <1>1, OneThread, Zenon
<1>3. Kinds'
  BY <1>1, <1>2 DEF HookMove, Kinds, KernelType, ProcType, CoordType, HistType
<1>4. Known' \subseteq Known /\ Known \subseteq Procs
  BY <1>1, KnownWanes DEF Known
<1>5. UNCHANGED <<real, par, next, plist, busy, image, vid>>
  BY DEF HookMove
<1>6. ASSUME NEW q \in Procs PROVE LifeInv(q)'
  <2>1. LifeInv(q) /\ st[q] \in States
    BY <1>1 DEF Base, Kinds, KernelType
  <2>2. \A r \in Procs : st[r] \notin {"restoring", "barrier"}
    BY DEF Base, LifeInv, HookMove
  <2>3. \A r \in Procs : st'[r] = "none" <=> st[r] = "none"
    BY DEF HookMove, Waning
  <2>4. /\ st'[q] \notin {"run", "zombie", "gone"} => st'[q] = st[q] /\ q # p
        /\ st'[q] = st[q] \/ st'[q] \in {"zombie", "gone"}
    BY DEF HookMove, Waning
  <2>5. th'[q] = th[q] \/ q = p
    BY <1>2
  <2>7. pgid[q] \in Pids => pgid'[q] \in Pids
    BY DEF HookMove
  <2>6. par[q] # 0 => par[q] \in Procs
    BY <1>1, Constants DEF Kinds, KernelType
  <2> QED
    BY <1>5, <2>1, <2>2, <2>3, <2>4, <2>5, <2>6, <2>7, Constants DEF LifeInv, AllIdle
<1>7. ASSUME NEW q \in Procs PROVE VidInv(q)'
  <2>1. VidInv(q)
    BY DEF Base
  <2>2. st'[q] = "restoring" => st[q] = "restoring"
    BY DEF HookMove, Waning
  <2>3. st[q] # "restoring"
    BY DEF Base, LifeInv, HookMove
  <2> QED
    BY <1>4, <1>5, <2>1, <2>2, <2>3 DEF VidInv, HookMove, IdsKept
<1>8. ASSUME NEW q \in Procs, NEW s \in Threads PROVE ThreadInv(q, s)'
  <2>1. ThreadInv(q, s)
    BY DEF Base
  <2>2. \A r \in Procs : st[r] # "none" => st'[r] # "none"
    BY DEF HookMove, Waning
  <2>3. \A r \in Known : st[r] # "none"
    BY KnownKinds
  <2>4. CASE q = p /\ s = t
    BY <1>2, <1>4, <2>2, <2>3, <2>4 DEF HookMove, Proper, ThreadInv
  <2>5. CASE q # p \/ s # t
    BY <1>2, <2>1, <2>2, <2>5 DEF ThreadInv
  <2> QED
    BY <2>4, <2>5
<1>9. ASSUME NEW a \in Known', NEW b \in Known' PROVE UniqueInv(a, b)'
  <2>1. UniqueInv(a, b)
    BY <1>4 DEF Base
  <2>2. Alive(a)' => Alive(a)
    BY <1>4 DEF HookMove, Waning, Alive
  <2> QED
    BY <1>5, <2>1, <2>2 DEF UniqueInv
<1>10. BusyInv'
  <2>1. coord' = "up" => BusyInv
    BY DEF Base
  <2>2. \A q \in Procs, s \in Threads : th'[q][s].pc = "prepared" => th'[q][s] = th[q][s]
    BY <1>2 DEF HookMove, Proper
  <2>3. /\ \A q \in Procs : st'[q] \in {"run", "forked"} => st[q] = st'[q]
        /\ \A q \in Procs : st[q] \in {"run", "zombie", "gone"} => st'[q] \in {"run", "zombie", "gone"}
    BY DEF HookMove, Waning
  <2>4. \A c \in Procs : par[c] # 0 => par[c] \in Procs
    BY <1>1, Constants DEF Kinds, KernelType
  <2> QED
    BY <1>4, <1>5, <2>1, <2>2, <2>3, <2>4 DEF BusyInv, HookMove
<1>11. ImageInv'
  BY <1>5 DEF Base, ImageInv
<1> QED
  BY <1>3, <1>6, <1>7, <1>8, <1>9, <1>10, <1>11 DEF Base

-----------------------------------------------------------------------------
(* The hooks make such steps *)

LEMMA PidKinds ==
  ASSUME Base
  PROVE  /\ \A q \in Procs : st[q] # "none" => real[q] \in Reals /\ pgid[q] \in Pids
         /\ \A q \in Procs : RealPpid(q) \in Pids
         /\ \A q \in Procs : par[q] # 0 => par[q] \in Procs /\ st[par[q]] # "none"
         /\ \A r : At(r) \subseteq Procs
         /\ \A r : \A q \in At(r) : real[q] = r /\ st[q] # "none" /\ r \in Pids
<1>1. /\ real \in [Procs -> Reals \cup {None}] /\ par \in [Procs -> 0 .. NProcs]
      /\ \A q \in Procs : LifeInv(q)
  BY DEF Base, Kinds, KernelType
<1>2. \A q \in Procs : st[q] # "none" => real[q] \in Reals /\ pgid[q] \in Pids
  BY <1>1 DEF LifeInv
<1>3. \A q \in Procs : par[q] # 0 => par[q] \in Procs /\ st[par[q]] # "none"
  BY <1>1, Constants DEF LifeInv
<1>4. \A q \in Procs : RealPpid(q) \in Pids
  BY <1>2, <1>3, Constants DEF RealPpid
<1>5. \A r : \A q \in At(r) : q \in Procs /\ real[q] = r /\ st[q] # "none"
  BY DEF At, Alive
<1> QED
  BY <1>2, <1>3, <1>4, <1>5, Constants

LEMMA DeathWanes ==
  ASSUME Base, NEW q \in Procs, Alive(q), NEW h \in {"exit", "signal"}, Death(q, h)
  PROVE  /\ st' \in [Procs -> States] /\ Waning
         /\ how' \in [Procs -> {"exit", "signal"}]
<1>1. st \in [Procs -> States] /\ how \in [Procs -> {"exit", "signal"}]
  BY DEF Base, Kinds, KernelType
<1>2. st' \in [Procs -> States]
  BY <1>1 DEF Death, States
<1>3. Waning
  BY <1>1 DEF Death, Waning, Alive
<1> QED
  BY <1>1, <1>2, <1>3 DEF Death

Flags == {"fork", "kill", "query", "wait", "list", "pgrp", "pgid", "assert"}

\* What a hook does once it has its answer.
Reply(p, t, x) ==
  /\ th' = [th EXCEPT ![p][t] = x] /\ Proper(p, t, x)
  /\ st' \in [Procs -> States] /\ Waning
  /\ how' \in [Procs -> {"exit", "signal"}]
  /\ wrong' \subseteq Flags

LEMMA StaysWanes ==
  ASSUME Base, st' = st PROVE st' \in [Procs -> States] /\ Waning
BY DEF Base, Kinds, KernelType, Waning

LEMMA Collects ==
  ASSUME Base, NEW c \in Procs, st[c] = "zombie", st' = [st EXCEPT ![c] = "gone"]
  PROVE  st' \in [Procs -> States] /\ Waning /\ c \in Known
<1>1. st \in [Procs -> States]
  BY DEF Base, Kinds, KernelType
<1>2. st' \in [Procs -> States]
  BY <1>1 DEF States
<1>3. Waning
  BY <1>1 DEF Waning
<1> QED
  BY <1>2, <1>3 DEF Known

LEMMA IdleProper == \A p \in Procs, t \in Threads : Proper(p, t, Idle)
BY IdleIs DEF Proper

\* A thread that goes on to translate an answer.
LEMMA Translates ==
  ASSUME Base, NEW p \in Procs, NEW t \in Threads, NEW at \in {"xlate", "pgrp", "pgid"},
         NEW arg \in Pids \cup {None}, NEW list \in SUBSET Pids,
         Continue(p, t, at, arg, list)
  PROVE  \E x : th' = [th EXCEPT ![p][t] = x] /\ Proper(p, t, x)
<1> DEFINE x == [pc |-> at, op |-> th[p][t].op, arg |-> arg, list |-> list]
<1>1. Kinds /\ th[p][t] \in ThreadState
  BY DEF Base, Kinds, ProcType
<1>2. th' = [th EXCEPT ![p][t] = x]
  BY <1>1, ContinueIs
<1>3. x \in ThreadState
  BY <1>1 DEF ThreadState
<1>4. Proper(p, t, x)
  BY <1>3 DEF Proper, Holds
<1> QED
  BY <1>2, <1>4

\* A thread that has collected c.
LEMMA Reaps ==
  ASSUME Base, NEW p \in Procs, NEW t \in Threads, NEW c \in Procs, st[c] = "zombie",
         Continue(p, t, "reap", c, {})
  PROVE  \E x : th' = [th EXCEPT ![p][t] = x] /\ Proper(p, t, x)
<1> DEFINE x == [pc |-> "reap", op |-> th[p][t].op, arg |-> c, list |-> {}]
<1>1. Kinds /\ th[p][t] \in ThreadState
  BY DEF Base, Kinds, ProcType
<1>2. th' = [th EXCEPT ![p][t] = x]
  BY <1>1, ContinueIs
<1>3. x \in ThreadState
  BY <1>1 DEF ThreadState
<1>4. c \in Known
  BY DEF Known
<1>5. Proper(p, t, x)
  BY <1>3, <1>4 DEF Proper, Holds
<1> QED
  BY <1>2, <1>5

LEMMA RealKnownReplies ==
  ASSUME Base, NEW p \in Procs, NEW t \in Threads, st[p] = "run",
         th[p][t].pc \in {"user", "ask_real"}, NEW op, NEW v, NEW r,
         RealKnown(p, t, op, v, r)
  PROVE  \E x : Reply(p, t, x)
<1>1. /\ wrong \subseteq Flags /\ how \in [Procs -> {"exit", "signal"}]
      /\ \A cond, kind : kind \in Flags => Flag(cond, kind) \subseteq Flags
  BY DEF Base, Kinds, KernelType, HistType, Flags, Flag
<1>2. {"kill", "query", "assert"} \subseteq Flags
  BY DEF Flags
<1>3. \A q \in Procs : Alive(q) /\ Death(q, "signal") =>
        /\ st' \in [Procs -> States] /\ Waning /\ how' \in [Procs -> {"exit", "signal"}]
  BY DeathWanes
<1>4. CASE kill_hook(p, t, v, r) \/ proc_dirty_hook(p, t, v, r)
  <2>1. wrong' \subseteq Flags /\ Return(p, t)
    BY <1>1, <1>2, <1>4 DEF kill_hook, proc_dirty_hook
  <2>2. CASE UNCHANGED <<st, how>>
    BY <1>1, <2>1, <2>2, StaysWanes, IdleProper DEF Reply, Return
  <2>3. CASE \E q \in At(r) : Alive(q) /\ Death(q, "signal")
    BY <1>3, <2>1, <2>3, PidKinds, IdleProper DEF Reply, Return
  <2> QED
    BY <1>4, <2>2, <2>3 DEF kill_hook, proc_dirty_hook
<1>5. CASE proc_query_hook(p, t, v, r)
  BY <1>1, <1>2, <1>5, StaysWanes, IdleProper DEF proc_query_hook, Reply, Return
<1>6. ASSUME wrong' \subseteq Flags, UNCHANGED <<st, how>>,
             \E x : th' = [th EXCEPT ![p][t] = x] /\ Proper(p, t, x)
      PROVE  \E x : Reply(p, t, x)
  BY <1>1, <1>6, StaysWanes DEF Reply
<1>7. CASE proc_pidinfo_hook(p, t, v, r)
  <2>1. wrong' \subseteq Flags /\ UNCHANGED <<st, how>>
    BY <1>1, <1>2, <1>7 DEF proc_pidinfo_hook
  <2>2. CASE Return(p, t)
    BY <1>6, <2>1, <2>2, IdleProper DEF Return
  <2>3. ASSUME NEW q \in At(r), Continue(p, t, "xlate", None, {r, RealPpid(q), pgid[q]})
        PROVE  \E x : Reply(p, t, x)
    <3>1. {r, RealPpid(q), pgid[q]} \in SUBSET Pids
      BY PidKinds
    <3> QED
      BY <1>6, <2>1, <2>3, <3>1, Translates
  <2> QED
    BY <1>7, <2>2, <2>3 DEF proc_pidinfo_hook
<1>8. CASE proc_list_hook(p, t, v, r)
  <2>1. wrong' \subseteq Flags /\ UNCHANGED <<st, how>>
    BY <1>1, <1>2, <1>8 DEF proc_list_hook
  <2>2. CASE Return(p, t)
    BY <1>6, <2>1, <2>2, IdleProper DEF Return
  <2>3. ASSUME NEW list, Continue(p, t, "xlate", None, list),
               \/ list = {real[q] : q \in {y \in Procs : Alive(y) /\ pgid[y] = r}}
               \/ list = {real[q] : q \in {y \in Procs : Alive(y) /\ RealPpid(y) = r}}
        PROVE  \E x : Reply(p, t, x)
    <3>1. \A q \in Procs : Alive(q) => real[q] \in Pids
      BY PidKinds, Constants DEF Alive
    <3>2. list \in SUBSET Pids
      BY <2>3, <3>1
    <3> QED
      BY <1>6, <2>1, <2>3, <3>2, Translates
  <2> QED
    BY <1>8, <2>2, <2>3 DEF proc_list_hook
<1>9. CASE getpgid_hook(p, t, v, r)
  <2>1. wrong' \subseteq Flags /\ UNCHANGED <<st, how>>
    BY <1>1, <1>2, <1>9 DEF getpgid_hook
  <2>2. CASE Return(p, t)
    BY <1>6, <2>1, <2>2, IdleProper DEF Return
  <2>3. ASSUME NEW q \in At(r), Continue(p, t, "pgid", pgid[q], {})
        PROVE  \E x : Reply(p, t, x)
    BY <1>6, <2>1, <2>3, PidKinds, Translates
  <2> QED
    BY <1>9, <2>2, <2>3 DEF getpgid_hook
<1>10. CASE wait4_hook(p, t, v, r)
  <2>1. CASE Death(p, "signal") /\ wrong' = wrong \cup {"assert"} /\ UNCHANGED th
    <3>1. Proper(p, t, th[p][t]) /\ th' = [th EXCEPT ![p][t] = th[p][t]]
      BY <2>1 DEF Base, Kinds, ProcType, ThreadInv, Proper, Holds
    <3>2. Alive(p)
      BY DEF Alive
    <3> QED
      BY <1>1, <1>2, <1>3, <2>1, <3>1, <3>2 DEF Reply
  <2>2. ASSUME NEW c \in Procs, st[c] = "zombie", st' = [st EXCEPT ![c] = "gone"],
               Continue(p, t, "reap", c, {}), UNCHANGED <<how, wrong>>
        PROVE  \E x : Reply(p, t, x)
    BY <1>1, <2>2, Collects, Reaps DEF Reply
  <2>3. CASE Return(p, t) /\ UNCHANGED <<st, how, wrong>>
    BY <1>1, <1>6, <2>3, IdleProper DEF Return
  <2> QED
    BY <1>10, <2>1, <2>2, <2>3 DEF wait4_hook
<1> QED
  BY <1>4, <1>5, <1>7, <1>8, <1>9, <1>10 DEF RealKnown

\* No entry of a table changes, but some may go.
Erasing == \A q \in Procs, v \in Virts : mem'[q].tab[v] \in {mem[q].tab[v], None}

MemKept == mem' \in [Procs -> Mems] /\ IdsKept /\ Erasing

LEMMA SameMem == ASSUME Kinds, mem' = mem PROVE MemKept
BY DEF Kinds, ProcType, MemKept, IdsKept, Erasing

LEMMA ErasesOne ==
  ASSUME Kinds, NEW p \in Procs, NEW v, mem' = [mem EXCEPT ![p].tab = erase(@, v)]
  PROVE  MemKept
<1>1. mem \in [Procs -> Mems] /\ mem[p] \in Mems /\ mem[p].tab \in [Virts -> Pids \cup {None}]
  BY DEF Kinds, ProcType, Mems
<1>2. /\ erase(mem[p].tab, v) \in [Virts -> Pids \cup {None}]
      /\ \A w \in Virts : erase(mem[p].tab, v)[w] \in {mem[p].tab[w], None}
  BY <1>1 DEF erase
<1>3. PICK T \in [Virts -> Pids \cup {None}] :
        /\ T = erase(mem[p].tab, v)
        /\ \A w \in Virts : T[w] \in {mem[p].tab[w], None}
  BY <1>2
<1>4. mem' = [mem EXCEPT ![p] = [mem[p] EXCEPT !.tab = T]]
  BY <1>1, <1>3
<1>5. [mem[p] EXCEPT !.tab = T] \in Mems
  BY <1>1 DEF Mems
<1>6. mem' \in [Procs -> Mems] /\ IdsKept
  <2>1. mem' \in [Procs -> Mems]
    BY <1>1, <1>4, <1>5
  <2>2. \A q \in Procs : mem'[q] = IF q = p THEN [mem[p] EXCEPT !.tab = T] ELSE mem[q]
    BY <1>1, <1>4
  <2>3. LET m == [mem[p] EXCEPT !.tab = T]
        IN  /\ m.virt = mem[p].virt /\ m.vppid = mem[p].vppid
            /\ m.rpid = mem[p].rpid /\ m.rppid = mem[p].rppid /\ m.env = mem[p].env
    BY <1>1 DEF Mems
  <2> QED
    BY <2>1, <2>2, <2>3 DEF IdsKept
<1>7. Erasing
  BY <1>1, <1>3, <1>4 DEF Erasing, Mems
<1> QED
  BY <1>6, <1>7 DEF MemKept

\* What RealToVirtual and real_to_virt_pid_from_coord do with the answer.
VirtReply(p, t, x) ==
  /\ th' = [th EXCEPT ![p][t] = x] /\ Proper(p, t, x)
  /\ MemKept
  /\ coord' \in {"up", "dead"} /\ oob' \in [Procs -> BOOLEAN]
  /\ wrong' \subseteq Flags

LEMMA VirtKnownReplies ==
  ASSUME Base, NEW p \in Procs, NEW t \in Threads, NEW op, NEW r, NEW virt,
         NEW open \in BOOLEAN, VirtKnown(p, t, op, r, virt, open)
  PROVE  \E x : VirtReply(p, t, x)
<1>1. /\ wrong \subseteq Flags /\ coord \in {"up", "dead"} /\ oob \in [Procs -> BOOLEAN]
      /\ \A cond, kind : kind \in Flags => Flag(cond, kind) \subseteq Flags
      /\ Kinds /\ th[p][t] \in ThreadState
  BY DEF Base, Kinds, ProcType, CoordType, HistType, Flags, Flag
<1>2. {"wait", "list", "pgrp"} \subseteq Flags
  BY DEF Flags
<1>3. \E x : th' = [th EXCEPT ![p][t] = x] /\ Proper(p, t, x)
  <2>1. CASE Return(p, t)
    BY <2>1, IdleProper DEF Return
  <2>2. CASE Continue(p, t, "xlate", None, th[p][t].list \ {r})
    <3>1. th[p][t].list \ {r} \in SUBSET Pids
      BY <1>1 DEF ThreadState
    <3> QED
      BY <2>2, <3>1, Translates
  <2> QED
    BY <2>1, <2>2 DEF VirtKnown, ReapDone, pid_list_real_to_virt, GroupDone
<1>4. wrong' \subseteq Flags
  BY <1>1, <1>2 DEF VirtKnown, ReapDone, pid_list_real_to_virt, GroupDone
<1>5. coord' \in {"up", "dead"}
  BY <1>1 DEF VirtKnown, ReapDone, pid_list_real_to_virt, GroupDone
<1>6. oob' \in [Procs -> BOOLEAN]
  <2>1. ASSUME NEW b, oob' = [oob EXCEPT ![p] = b], b \in BOOLEAN PROVE oob' \in [Procs -> BOOLEAN]
    BY <1>1, <2>1
  <2>2. \A c : (open \/ how[c] = "signal") \in BOOLEAN
    OBVIOUS
  <2> QED
    BY <2>1, <2>2 DEF VirtKnown, ReapDone, pid_list_real_to_virt, GroupDone
<1>7. MemKept
  <2>1. CASE mem' = [mem EXCEPT ![p].tab = erase(@, virt)]
    BY <1>1, <2>1, ErasesOne
  <2>2. CASE mem' = mem
    BY <1>1, <2>2, SameMem
  <2> QED
    BY <2>1, <2>2 DEF VirtKnown, ReapDone, pid_list_real_to_virt, GroupDone
<1> QED
  BY <1>3, <1>4, <1>5, <1>6, <1>7 DEF VirtReply

\* The rest of a step inside a hook.
LEMMA ReplyMoves ==
  ASSUME Base, NEW p \in Procs, NEW t \in Threads, st[p] = "run", coord = "up",
         \E x : Reply(p, t, x),
         tlock' \in [Procs -> Threads \cup {None}], oob' \in [Procs -> BOOLEAN],
         UNCHANGED <<real, par, pgid, used, mem, olock, todo, coordVars, histVars>>
  PROVE  (\E x : HookMove(p, t, x)) /\ MemKept
<1>1. Kinds
  BY DEF Base
<1>2. MemKept
  BY <1>1, SameMem
<1>3. /\ pgid' = pgid /\ pgid \in [Procs -> Pids \cup {None}]
      /\ olock' = olock /\ olock \in [Procs -> Threads \cup {None}]
      /\ coord' = coord /\ coord \in {"up", "dead"}
      /\ UNCHANGED <<real, par, used, todo, next, ctab, plist, busy, image, restarts, vid>>
  BY <1>1 DEF Kinds, KernelType, ProcType, CoordType, coordVars, histVars
<1>4. PICK x : Reply(p, t, x)
  OBVIOUS
<1>5. HookMove(p, t, x)
  BY <1>2, <1>3, <1>4 DEF Reply, HookMove, MemKept, Flags
<1> QED
  BY <1>2, <1>5

LEMMA VirtReplyMoves ==
  ASSUME Base, NEW p \in Procs, NEW t \in Threads, st[p] = "run", coord = "up",
         \E x : VirtReply(p, t, x),
         tlock' \in [Procs -> Threads \cup {None}],
         UNCHANGED <<kernelVars, olock, todo, next, ctab, plist, busy, histVars>>
  PROVE  (\E x : HookMove(p, t, x)) /\ MemKept
<1>1. Kinds
  BY DEF Base
<1>2. st' \in [Procs -> States] /\ Waning
  BY StaysWanes DEF kernelVars
<1>3. /\ pgid' = pgid /\ pgid \in [Procs -> Pids \cup {None}]
      /\ how' \in [Procs -> {"exit", "signal"}]
      /\ olock' = olock /\ olock \in [Procs -> Threads \cup {None}]
      /\ UNCHANGED <<real, par, used, todo, next, ctab, plist, busy, image, restarts, vid>>
  BY <1>1 DEF Kinds, KernelType, ProcType, kernelVars, histVars
<1>4. PICK x : VirtReply(p, t, x)
  OBVIOUS
<1>5. HookMove(p, t, x)
  BY <1>2, <1>3, <1>4 DEF VirtReply, HookMove, MemKept, Flags
<1> QED
  BY <1>4, <1>5 DEF VirtReply

\* virtual_to_real_pid, in the table or by the coordinator.
LEMMA VirtualToRealMoves ==
  ASSUME Base, NEW p \in Procs, NEW t \in Threads, At_(p, t, "user"),
         NEW op \in {"kill", "query", "dirty", "pidinfo", "list", "wait", "getpgid"},
         NEW v \in Virts, VirtualToReal(p, t, op, v)
  PROVE  (\E x : HookMove(p, t, x)) /\ MemKept
<1>1. /\ st[p] = "run" /\ coord = "up" /\ th[p][t].pc = "user"
      /\ UNCHANGED <<real, par, pgid, used, mem, olock, oob, todo, coordVars, histVars>>
  BY DEF At_, VirtualToReal
<1>2. /\ oob' \in [Procs -> BOOLEAN] /\ tlock \in [Procs -> Threads \cup {None}]
      /\ wrong \subseteq Flags /\ how \in [Procs -> {"exit", "signal"}]
  BY <1>1 DEF Base, Kinds, KernelType, ProcType, HistType, Flags
<1>3. (\E x : Reply(p, t, x)) /\ tlock' \in [Procs -> Threads \cup {None}]
  <2>1. ASSUME NEW r, RealKnown(p, t, op, v, r), tlock' = tlock
        PROVE  (\E x : Reply(p, t, x)) /\ tlock' \in [Procs -> Threads \cup {None}]
    BY <1>1, <1>2, <2>1, RealKnownReplies
  <2> DEFINE x == [pc |-> "ask_real", op |-> op, arg |-> v, list |-> {}]
  <2>2. CASE /\ th' = [th EXCEPT ![p][t] = x]
             /\ tlock' = [tlock EXCEPT ![p] = t] /\ UNCHANGED <<st, how, wrong>>
    <3>1. x \in ThreadState
      BY DEF ThreadState
    <3>2. Proper(p, t, x)
      BY <3>1 DEF Proper, Holds
    <3>3. Reply(p, t, x)
      BY <1>2, <2>2, <3>2, StaysWanes DEF Reply
    <3> QED
      BY <1>2, <2>2, <3>3
  <2> QED
    BY <2>1, <2>2 DEF VirtualToReal
<1> QED
  BY <1>1, <1>2, <1>3, ReplyMoves

LEMMA AskRealMoves ==
  ASSUME Base, NEW p \in Procs, NEW t \in Threads, virt_to_real_pid_from_coord(p, t)
  PROVE  (\E x : HookMove(p, t, x)) /\ MemKept
<1>1. /\ st[p] = "run" /\ coord = "up" /\ th[p][t].pc = "ask_real"
      /\ UNCHANGED <<real, par, pgid, used, mem, olock, todo, coordVars, histVars>>
  BY DEF At_, virt_to_real_pid_from_coord
<1>2. oob' \in [Procs -> BOOLEAN] /\ tlock' \in [Procs -> Threads \cup {None}]
  BY DEF Base, Kinds, ProcType, virt_to_real_pid_from_coord
<1>3. \E x : Reply(p, t, x)
  BY <1>1, RealKnownReplies DEF virt_to_real_pid_from_coord
<1> QED
  BY <1>1, <1>2, <1>3, ReplyMoves

LEMMA RealToVirtualMoves ==
  ASSUME Base, NEW p \in Procs, NEW t \in Threads,
         RealToVirtual(p, t) \/ real_to_virt_pid_from_coord(p, t)
  PROVE  (\E x : HookMove(p, t, x)) /\ MemKept
<1>1. /\ st[p] = "run" /\ coord = "up"
      /\ UNCHANGED <<kernelVars, olock, todo, next, ctab, plist, busy, histVars>>
  BY DEF At_, RealToVirtual, real_to_virt_pid_from_coord
<1>2. /\ Kinds /\ oob \in [Procs -> BOOLEAN] /\ oob[p] \in BOOLEAN
      /\ tlock \in [Procs -> Threads \cup {None}]
      /\ th[p][t] \in ThreadState /\ ThreadInv(p, t) /\ wrong \subseteq Flags
  BY DEF Base, Kinds, ProcType, HistType, Flags
<1>3. CASE RealToVirtual(p, t)
  <2>1. PICK op \in {"reap", "xlate", "pgrp", "pgid"} :
          /\ th[p][t].pc = op
          /\ \E r \in RealArgs(p, t, op) : \E virt \in KnownHere(p, op, r) :
               IF virt # None
               THEN VirtKnown(p, t, op, r, virt, oob[p]) /\ UNCHANGED tlock
               ELSE /\ th' = [th EXCEPT ![p][t] =
                                [pc |-> "ask_virt", op |-> op,
                                 arg |-> IF op = "xlate" THEN r ELSE @.arg, list |-> @.list]]
                    /\ tlock' = [tlock EXCEPT ![p] = t]
                    /\ UNCHANGED <<mem, coord, oob, wrong>>
    BY <1>3 DEF RealToVirtual, At_
  <2>5. PICK r \in RealArgs(p, t, op) : \E virt \in KnownHere(p, op, r) :
               IF virt # None
               THEN VirtKnown(p, t, op, r, virt, oob[p]) /\ UNCHANGED tlock
               ELSE /\ th' = [th EXCEPT ![p][t] =
                                [pc |-> "ask_virt", op |-> op,
                                 arg |-> IF op = "xlate" THEN r ELSE @.arg, list |-> @.list]]
                    /\ tlock' = [tlock EXCEPT ![p] = t]
                    /\ UNCHANGED <<mem, coord, oob, wrong>>
    BY <2>1
  <2>2. PICK virt \in KnownHere(p, op, r) :
               IF virt # None
               THEN VirtKnown(p, t, op, r, virt, oob[p]) /\ UNCHANGED tlock
               ELSE /\ th' = [th EXCEPT ![p][t] =
                                [pc |-> "ask_virt", op |-> op,
                                 arg |-> IF op = "xlate" THEN r ELSE @.arg, list |-> @.list]]
                    /\ tlock' = [tlock EXCEPT ![p] = t]
                    /\ UNCHANGED <<mem, coord, oob, wrong>>
    BY <2>5
  <2>3. CASE virt # None
    <3>1. VirtKnown(p, t, op, r, virt, oob[p]) /\ tlock' = tlock
      BY <2>2, <2>3
    <3>2. \E x : VirtReply(p, t, x)
      BY <1>2, <3>1, VirtKnownReplies
    <3> QED
      BY <1>1, <1>2, <3>1, <3>2, VirtReplyMoves
  <2>4. CASE virt = None
    <3> DEFINE a == IF op = "xlate" THEN r ELSE th[p][t].arg
               x == [pc |-> "ask_virt", op |-> op, arg |-> a, list |-> th[p][t].list]
    <3>1. th' = [th EXCEPT ![p][t] = x]
      BY <1>2, <2>2, <2>4 DEF Kinds, ProcType
    <3>2. tlock' = [tlock EXCEPT ![p] = t] /\ UNCHANGED <<mem, coord, oob, wrong>>
      BY <2>2, <2>4
    <3>3. a \in Procs \cup Virts \cup Pids \cup {None}
      BY <1>2, <2>2 DEF RealArgs, ThreadState
    <3>4. x \in ThreadState
      BY <1>2, <3>3 DEF ThreadState
    <3>5. op = "reap" => th[p][t].arg \in Known
      BY <1>1, <1>2, <2>1 DEF ThreadInv, Known, Holds
    <3>6. Proper(p, t, x)
      BY <3>4, <3>5 DEF Proper, Holds
    <3>7. MemKept
      BY <1>2, <3>2, SameMem
    <3>8. VirtReply(p, t, x)
      BY <1>1, <1>2, <3>1, <3>2, <3>6, <3>7 DEF VirtReply
    <3>9. tlock' \in [Procs -> Threads \cup {None}]
      BY <1>2, <3>2
    <3> QED
      BY <1>1, <3>8, <3>9, VirtReplyMoves
  <2> QED
    BY <2>3, <2>4
<1>4. CASE real_to_virt_pid_from_coord(p, t)
  <2>1. tlock' \in [Procs -> Threads \cup {None}]
    BY <1>2, <1>4 DEF real_to_virt_pid_from_coord
  <2>2. \E x : VirtReply(p, t, x)
    BY <1>4, VirtKnownReplies DEF real_to_virt_pid_from_coord
  <2> QED
    BY <1>1, <2>1, <2>2, VirtReplyMoves
<1> QED
  BY <1>3, <1>4

\* Steps that only move the thread, take or give back a mutex, or set a group.
LEMMA PlainMoves ==
  ASSUME Base, NEW p \in Procs, NEW t \in Threads, st[p] = "run", coord = "up",
         \E x : th' = [th EXCEPT ![p][t] = x] /\ Proper(p, t, x),
         pgid' \in [Procs -> Pids \cup {None}], \A q \in Procs : pgid[q] \in Pids => pgid'[q] \in Pids,
         tlock' \in [Procs -> Threads \cup {None}], olock' \in [Procs -> Threads \cup {None}],
         mem' \in [Procs -> Mems], IdsKept, wrong' \subseteq Flags,
         UNCHANGED <<st, real, par, how, used, oob, todo, coordVars, histVars>>
  PROVE  \E x : HookMove(p, t, x)
<1>1. st' \in [Procs -> States] /\ Waning
  BY StaysWanes
<1>2. /\ how' \in [Procs -> {"exit", "signal"}] /\ oob' \in [Procs -> BOOLEAN]
      /\ coord' \in {"up", "dead"}
      /\ UNCHANGED <<real, par, used, todo, next, ctab, plist, busy, image, restarts, vid>>
  BY DEF Base, Kinds, KernelType, ProcType, CoordType, coordVars, histVars
<1>3. PICK x : th' = [th EXCEPT ![p][t] = x] /\ Proper(p, t, x)
  OBVIOUS
<1>4. HookMove(p, t, x)
  BY <1>1, <1>2, <1>3 DEF HookMove, Flags
<1> QED
  BY <1>4

LEMMA VarKinds ==
  ASSUME Base
  PROVE  /\ pgid \in [Procs -> Pids \cup {None}]
         /\ tlock \in [Procs -> Threads \cup {None}] /\ olock \in [Procs -> Threads \cup {None}]
         /\ mem \in [Procs -> Mems] /\ wrong \subseteq Flags /\ Kinds
         /\ th \in [Procs -> [Threads -> ThreadState]]
         /\ how \in [Procs -> {"exit", "signal"}] /\ oob \in [Procs -> BOOLEAN]
         /\ vid \in [Procs -> Virts \cup {None}]
BY DEF Base, Kinds, KernelType, ProcType, HistType, Flags

LEMMA CallMoves ==
  ASSUME Base, NEW p \in Procs, NEW t \in Threads,
         HookCall(p, t) \/ GetPgid(p, t) \/ WaitAny(p, t) \/ ListAll(p, t) \/ Exit(p, t)
  PROVE  (\E x : HookMove(p, t, x)) /\ MemKept
<1>1. CASE HookCall(p, t)
  <2>1. ASSUME NEW op \in {"kill", "query", "dirty", "pidinfo", "list"}, NEW v \in Virts,
               Makes(p, t, op), VirtualToReal(p, t, op, v)
        PROVE  (\E x : HookMove(p, t, x)) /\ MemKept
    BY <2>1, VirtualToRealMoves DEF Makes
  <2>2. ASSUME At_(p, t, "user"), NEW c \in Procs, vid[c] # None,
               VirtualToReal(p, t, "wait", vid[c])
        PROVE  (\E x : HookMove(p, t, x)) /\ MemKept
    <3>1. vid[c] \in Virts
      BY <2>2, VarKinds
    <3> QED
      BY <2>2, <3>1, VirtualToRealMoves
  <2> QED
    BY <1>1, <2>1, <2>2 DEF HookCall
<1>2. CASE GetPgid(p, t)
  BY <1>2, VirtualToRealMoves DEF GetPgid, Makes
<1>3. ASSUME At_(p, t, "user"), \E x : Reply(p, t, x),
             UNCHANGED <<real, par, pgid, used, mem, tlock, olock, oob, todo, coordVars, histVars>>
      PROVE  (\E x : HookMove(p, t, x)) /\ MemKept
  <2>1. tlock' \in [Procs -> Threads \cup {None}] /\ oob' \in [Procs -> BOOLEAN]
    BY <1>3, VarKinds
  <2> QED
    BY <1>3, <2>1, ReplyMoves DEF At_
<1>4. CASE WaitAny(p, t)
  <2>1. PICK c \in Procs : st[c] = "zombie" /\ st' = [st EXCEPT ![c] = "gone"]
                           /\ Continue(p, t, "reap", c, {})
    BY <1>4 DEF WaitAny
  <2>2. \E x : Reply(p, t, x)
    BY <1>4, <2>1, Collects, Reaps, VarKinds DEF Reply, WaitAny
  <2> QED
    BY <1>3, <1>4, <2>2 DEF WaitAny
<1>5. CASE ListAll(p, t)
  <2>1. {real[q] : q \in {x \in Procs : Alive(x)}} \in SUBSET Pids
    BY PidKinds, Constants DEF Alive
  <2>2. \E x : th' = [th EXCEPT ![p][t] = x] /\ Proper(p, t, x)
    BY <1>5, <2>1, Translates DEF ListAll
  <2>3. \E x : Reply(p, t, x)
    BY <1>5, <2>2, StaysWanes, VarKinds DEF Reply, ListAll, kernelVars
  <2> QED
    BY <1>3, <1>5, <2>3 DEF ListAll, Makes, kernelVars
<1>6. CASE Exit(p, t)
  <2>1. At_(p, t, "user") /\ Alive(p) /\ Death(p, "exit") /\ UNCHANGED <<th, wrong>>
    BY <1>6 DEF Exit, At_, Alive, procVars
  <2>2. Proper(p, t, th[p][t]) /\ th' = [th EXCEPT ![p][t] = th[p][t]]
    BY <2>1, VarKinds DEF At_, Proper, Holds
  <2>3. \E x : Reply(p, t, x)
    BY <2>1, <2>2, DeathWanes, VarKinds DEF Reply
  <2> QED
    BY <1>3, <1>6, <2>1, <2>3 DEF Exit, procVars
<1> QED
  BY <1>1, <1>2, <1>4, <1>5, <1>6

LEMMA GroupMoves ==
  ASSUME Base, NEW p \in Procs, NEW t \in Threads, GetPgrp(p, t) \/ SetPgid(p, t)
  PROVE  (\E x : HookMove(p, t, x)) /\ MemKept
<1>1. MemKept /\ mem' \in [Procs -> Mems] /\ IdsKept
  BY VarKinds, SameMem DEF GetPgrp, SetPgid, procVars, MemKept
<1>2. st[p] = "run" /\ coord = "up" /\ th[p][t].pc = "user"
  BY DEF GetPgrp, SetPgid, Makes, At_
<1>3. /\ tlock' \in [Procs -> Threads \cup {None}] /\ olock' \in [Procs -> Threads \cup {None}]
      /\ UNCHANGED <<st, real, par, how, used, oob, todo, coordVars, histVars>>
  BY VarKinds DEF GetPgrp, SetPgid, procVars, kernelVars
<1>4. wrong' \subseteq Flags
  BY VarKinds DEF GetPgrp, SetPgid, Flag, Flags
<1>5. /\ pgid' \in [Procs -> Pids \cup {None}]
      /\ \A q \in Procs : pgid[q] \in Pids => pgid'[q] \in Pids
  <2>1. CASE pgid' = pgid
    BY <2>1, VarKinds
  <2>2. CASE pgid' = [pgid EXCEPT ![p] = real[p]]
    <3>1. real[p] \in Pids
      BY <1>2, PidKinds, Constants
    <3> QED
      BY <2>2, <3>1, VarKinds
  <2> QED
    BY <2>1, <2>2 DEF GetPgrp, SetPgid, kernelVars
<1>6. \E x : th' = [th EXCEPT ![p][t] = x] /\ Proper(p, t, x)
  <2>1. CASE GetPgrp(p, t)
    <3>1. Continue(p, t, "pgrp", pgid[p], {}) /\ pgid[p] \in Pids \cup {None} /\ {} \in SUBSET Pids
      BY <2>1, VarKinds DEF GetPgrp
    <3> QED
      BY <3>1, Translates
  <2>2. CASE SetPgid(p, t)
    <3>1. th' = [th EXCEPT ![p][t] = th[p][t]] /\ th[p][t] \in ThreadState
      BY <2>2, VarKinds DEF SetPgid, procVars
    <3> QED
      BY <1>2, <3>1 DEF Proper, Holds
  <2> QED
    BY <2>1, <2>2
<1> QED
  BY <1>1, <1>2, <1>3, <1>4, <1>5, <1>6, PlainMoves

\* The steps of a fork that neither reserve a pid nor make a process.
LEMMA ForkMoves ==
  ASSUME Base, NEW p \in Procs, NEW t \in Threads,
         ForkPrepare(p, t) \/ ForkFails(p, t) \/ AtforkParent(p, t)
  PROVE  (\E x : HookMove(p, t, x)) /\ MemKept
<1>1. MemKept /\ mem' \in [Procs -> Mems] /\ IdsKept
  BY VarKinds, SameMem DEF ForkPrepare, ForkFails, AtforkParent, MemKept
<1>2. st[p] = "run" /\ coord = "up" /\ ThreadInv(p, t)
  BY DEF ForkPrepare, ForkFails, AtforkParent, At_, Base
<1>3. /\ tlock' \in [Procs -> Threads \cup {None}] /\ olock' \in [Procs -> Threads \cup {None}]
      /\ UNCHANGED <<st, real, par, pgid, how, used, oob, todo, coordVars, histVars>>
  BY VarKinds DEF ForkPrepare, ForkFails, AtforkParent, kernelVars
<1>4. wrong' \subseteq Flags
  BY VarKinds DEF ForkPrepare, ForkFails, AtforkParent
<1>5. /\ pgid' \in [Procs -> Pids \cup {None}]
      /\ \A q \in Procs : pgid[q] \in Pids => pgid'[q] \in Pids
  BY <1>3, VarKinds
<1>6. \E x : th' = [th EXCEPT ![p][t] = x] /\ Proper(p, t, x)
  <2>1. CASE ForkFails(p, t)
    BY <2>1, IdleProper DEF ForkFails
  <2>2. th[p][t] \in ThreadState
    BY VarKinds
  <2>3. CASE ForkPrepare(p, t)
    <3> DEFINE x == [pc |-> "prepare", op |-> th[p][t].op, arg |-> th[p][t].arg,
                     list |-> th[p][t].list]
    <3>1. th' = [th EXCEPT ![p][t] = x]
      BY <2>3, GotoIs, VarKinds DEF ForkPrepare
    <3>2. x \in ThreadState
      BY <2>2 DEF ThreadState
    <3>3. Proper(p, t, x)
      BY <2>3, <3>2 DEF Proper, Holds, ForkPrepare
    <3> QED
      BY <3>1, <3>3
  <2>4. CASE AtforkParent(p, t)
    <3> DEFINE x == [pc |-> "update", op |-> th[p][t].op, arg |-> th[p][t].arg,
                     list |-> th[p][t].list]
    <3>1. th' = [th EXCEPT ![p][t] = x]
      BY <2>4, GotoIs, VarKinds DEF AtforkParent
    <3>2. x \in ThreadState
      BY <2>2 DEF ThreadState
    <3>3. t \in Forkers /\ th[p][t].arg \in Known /\ th[p][t].pc = "forked"
      BY <1>2, <2>4 DEF AtforkParent, At_, ThreadInv, Known, Holds
    <3>4. Proper(p, t, x)
      BY <3>2, <3>3 DEF Proper, Holds
    <3> QED
      BY <3>1, <3>4
  <2> QED
    BY <2>1, <2>3, <2>4
<1> QED
  BY <1>1, <1>2, <1>3, <1>4, <1>5, <1>6, PlainMoves

LEMMA ForkUpdateMoves ==
  ASSUME Base, NEW p \in Procs, NEW t \in Threads, ForkUpdate(p, t)
  PROVE  \E x : HookMove(p, t, x)
<1>1. st[p] = "run" /\ coord = "up" /\ ThreadInv(p, t) /\ th[p][t].pc = "update"
  BY DEF ForkUpdate, At_, Base
<1>2. /\ tlock' \in [Procs -> Threads \cup {None}] /\ olock' \in [Procs -> Threads \cup {None}]
      /\ UNCHANGED <<st, real, par, pgid, how, used, oob, todo, coordVars, histVars>>
  BY VarKinds DEF ForkUpdate, kernelVars
<1>3. wrong' \subseteq Flags
  BY VarKinds DEF ForkUpdate, Flags
<1>4. real[th[p][t].arg] \in Pids
  BY <1>1, PidKinds, Constants DEF ThreadInv, Holds
<1>5. mem[p] \in Mems /\ mem[p].tab \in [Virts -> Pids \cup {None}]
  BY VarKinds DEF Mems
<1>6. PICK T \in [Virts -> Pids \cup {None}] : mem' = [mem EXCEPT ![p].tab = T]
  <2>1. update(mem[p].tab, mem[p].env, real[th[p][t].arg]) \in [Virts -> Pids \cup {None}]
    BY <1>4, <1>5 DEF update
  <2>2. mem' = [mem EXCEPT ![p].tab = update(mem[p].tab, mem[p].env, real[th[p][t].arg])]
    BY VarKinds DEF ForkUpdate, env_get_pid_info
  <2> QED
    BY <2>1, <2>2
<1>7. mem' \in [Procs -> Mems] /\ IdsKept
  BY <1>5, <1>6, VarKinds DEF IdsKept, Mems
<1>8. \E x : th' = [th EXCEPT ![p][t] = x] /\ Proper(p, t, x)
  BY IdleProper DEF ForkUpdate
<1>9. /\ pgid' \in [Procs -> Pids \cup {None}]
      /\ \A q \in Procs : pgid[q] \in Pids => pgid'[q] \in Pids
  BY <1>2, VarKinds
<1> QED
  BY <1>1, <1>2, <1>3, <1>7, <1>8, <1>9, PlainMoves

\* All of them.
LEMMA ThreadStepMoves ==
  ASSUME Base, NEW p \in Procs, NEW t \in Threads, HookStep(p, t) \/ UserCall(p, t)
  PROVE  \/ coord_atfork(p, t) \/ Fork(p, t)
         \/ ForkUpdate(p, t) /\ \E x : HookMove(p, t, x)
         \/ MemKept /\ \E x : HookMove(p, t, x)
BY ForkUpdateMoves, ForkMoves, GroupMoves, CallMoves, RealToVirtualMoves, AskRealMoves
   DEF HookStep, UserCall

-----------------------------------------------------------------------------
(* The other steps keep Base *)

LEMMA BaseInitially == ASSUME Init PROVE Base
<1>1. Kinds
  <2>1. EmptyTable \in [Virts -> Pids \cup {None}]
    BY DEF EmptyTable
  <2>2. EmptyMem \in Mems
    BY <2>1 DEF EmptyMem, Mems
  <2>3. KernelType
    BY Constants DEF Init, KernelType, States
  <2>4. ProcType
    BY <2>2, IdleIs DEF Init, ProcType
  <2>5. CoordType
    BY <2>1, Constants DEF Init, CoordType, NoFork
  <2>6. HistType
    BY <2>2, Constants DEF Init, HistType
  <2> QED
    BY <2>3, <2>4, <2>5, <2>6 DEF Kinds
<1>2. /\ \A p \in Procs : st[p] = "none" /\ real[p] = None /\ par[p] = 0 /\ vid[p] = None /\ th[p] = AllIdle
      /\ plist = {} /\ image.procs = {} /\ coord = "up"
  BY DEF Init, AllIdle
<1>3. \A p \in Procs, t \in Threads : th[p][t].pc = "user" /\ ~Holds(th[p][t])
  BY <1>2, IdleIs DEF AllIdle
<1>4. Known = {}
  BY <1>2 DEF Known, Alive
<1>5. \A p \in Procs : LifeInv(p)
  BY <1>2 DEF LifeInv
<1>6. \A p \in Procs : VidInv(p)
  BY <1>2, <1>4 DEF VidInv, None
<1>7. \A p \in Procs, t \in Threads : ThreadInv(p, t)
  BY <1>3 DEF ThreadInv
<1>8. BusyInv
  BY <1>2 DEF BusyInv
<1>9. ImageInv
  BY <1>2 DEF ImageInv
<1> QED
  BY <1>1, <1>4, <1>5, <1>6, <1>7, <1>8, <1>9 DEF Base

\* Steps after which everybody is where he was, or further on in
\* pid_table_postrestart, or off the list of the coordinator.
Settles ==
  /\ Kinds'
  /\ UNCHANGED <<real, par, pgid, th, next, busy, image, vid>>
  /\ coord' \in {coord, "dead"}
  /\ \A q \in Procs : mem'[q].virt = mem[q].virt /\ mem'[q].vppid = mem[q].vppid
  /\ plist' \subseteq plist /\ \A q \in plist \ plist' : Dead(q)
  /\ \A q \in Procs : st'[q] = st[q] \/ (st[q] \in {"released", "fix"} /\ st'[q] \in {"fix", "run"})

LEMMA IdleThreads ==
  ASSUME Base
  PROVE  \A p \in Procs : st[p] \notin {"run", "zombie", "gone"} =>
           \A t \in Threads : th[p][t].pc = "user" /\ ~Holds(th[p][t])
BY IdleIs DEF Base, LifeInv, AllIdle

LEMMA SettlesKeeps ==
  ASSUME Base, Settles PROVE Base' /\ Known' \subseteq Known
<1>1. /\ UNCHANGED <<real, par, pgid, th, next, busy, image, vid>>
      /\ plist' \subseteq plist /\ \A q \in plist \ plist' : Dead(q)
      /\ \A q \in Procs : st'[q] = st[q] \/ (st[q] \in {"released", "fix"} /\ st'[q] \in {"fix", "run"})
      /\ \A q \in Procs : mem'[q].virt = mem[q].virt /\ mem'[q].vppid = mem[q].vppid
      /\ Kinds'
  BY DEF Settles
<1>2. \A q \in Procs : Alive(q)' <=> Alive(q)
  BY <1>1 DEF Alive
<1>3. \A q \in Procs, s \in Threads :
        st'[q] = "run" /\ (Holds(th[q][s]) \/ th[q][s].pc = "prepared") => st[q] = "run"
  BY <1>1, IdleThreads
<1>4. Known' \subseteq Known
  BY <1>1, <1>2, <1>3 DEF Known
<1>5. ASSUME NEW q \in Procs PROVE LifeInv(q)'
  <2>1. LifeInv(q)
    BY DEF Base
  <2>2. par[q] # 0 => par[q] \in Procs
    BY PidKinds
  <2>3. \A r \in Procs : (st'[r] = "none" <=> st[r] = "none") /\ (Dead(r) => st'[r] = st[r])
    BY <1>1 DEF Dead
  <2>4. \A r \in plist : r \in Procs
    BY DEF Base, Kinds, CoordType
  <2> QED
    BY <1>1, <1>2, <2>1, <2>2, <2>3, <2>4, Constants DEF LifeInv, AllIdle, Dead
<1>6. ASSUME NEW q \in Procs PROVE VidInv(q)'
  BY <1>1, <1>4 DEF Base, VidInv
<1>7. ASSUME NEW q \in Procs, NEW s \in Threads PROVE ThreadInv(q, s)'
  <2>1. ThreadInv(q, s)
    BY DEF Base
  <2>2. \A r \in Procs : st[r] # "none" => st'[r] # "none"
    BY <1>1
  <2> QED
    BY <1>1, <2>1, <2>2 DEF ThreadInv
<1>8. ASSUME NEW a \in Known', NEW b \in Known' PROVE UniqueInv(a, b)'
  <2>1. a \in Procs /\ UniqueInv(a, b)
    BY <1>4 DEF Base, Known
  <2> QED
    BY <1>1, <1>2, <2>1 DEF UniqueInv
<1>9. BusyInv'
  <2>1. coord' = "up" => coord = "up"
    BY DEF Settles
  <2>2. \A q \in Procs : st'[q] = "forked" <=> st[q] = "forked"
    BY <1>1
  <2>3. \A q \in Procs : st[q] \in {"run", "zombie", "gone"} => st'[q] = st[q]
    BY <1>1
  <2>4. \A q \in Procs : par[q] # 0 => par[q] \in Procs
    BY PidKinds
  <2> QED
    BY <1>1, <1>3, <1>4, <2>1, <2>2, <2>3, <2>4 DEF Base, BusyInv
<1>10. ImageInv'
  BY <1>1 DEF Base, ImageInv
<1> QED
  BY <1>1, <1>4, <1>5, <1>6, <1>7, <1>8, <1>9, <1>10 DEF Base

LEMMA CoordDies ==
  ASSUME Base, coord' = "dead",
         UNCHANGED <<kernelVars, procVars, next, ctab, plist, busy, histVars, wrong>>
  PROVE  Settles
BY DEF Base, Settles, Kinds, KernelType, ProcType, CoordType, HistType, kernelVars, procVars,
   histVars

LEMMA StutterSettles == ASSUME Base, UNCHANGED vars PROVE Settles
BY DEF Base, Settles, Kinds, KernelType, ProcType, CoordType, HistType, vars, kernelVars,
   procVars, coordVars, histVars

LEMMA TableKinds ==
  ASSUME NEW T \in [Virts -> Pids \cup {None}], NEW v, NEW r \in Pids \cup {None}
  PROVE  update(T, v, r) \in [Virts -> Pids \cup {None}]
BY DEF update

\* The same for the table and the real parent, and for the table alone.
LEMMA NewTables ==
  ASSUME Base, NEW p \in Procs, NEW T \in [Virts -> Pids \cup {None}],
         NEW a \in Pids \cup {None}, NEW b \in Pids \cup {None},
         \/ mem' = [mem EXCEPT ![p].rpid = a, ![p].rppid = b, ![p].tab = T]
         \/ mem' = [mem EXCEPT ![p].rppid = b, ![p].tab = T]
         \/ mem' = [mem EXCEPT ![p].tab = T]
  PROVE  /\ mem' \in [Procs -> Mems]
         /\ \A q \in Procs : q # p => mem'[q] = mem[q]
         /\ mem'[p].virt = mem[p].virt /\ mem'[p].vppid = mem[p].vppid
         /\ mem'[p].env = mem[p].env /\ mem'[p].tab = T
         /\ \A q \in Procs : mem'[q].virt = mem[q].virt /\ mem'[q].vppid = mem[q].vppid
<1>1. mem \in [Procs -> Mems] /\ mem[p] \in Mems
  BY VarKinds
<1>2. CASE mem' = [mem EXCEPT ![p].rpid = a, ![p].rppid = b, ![p].tab = T]
  BY <1>1, <1>2 DEF Mems
<1>3. CASE mem' = [mem EXCEPT ![p].rppid = b, ![p].tab = T]
  BY <1>1, <1>3 DEF Mems
<1>4. CASE mem' = [mem EXCEPT ![p].tab = T]
  BY <1>1, <1>4 DEF Mems
<1> QED
  BY <1>2, <1>3, <1>4

\* What the coordinator answers.
LEMMA AnswerKinds ==
  ASSUME Base, NEW v \in Virts
  PROVE  coord_send_virt_to_real(v) \subseteq Pids \cup {None}
<1>1. ctab[v] \in Pids \cup {None}
  BY DEF Base, Kinds, CoordType
<1>2. plist \subseteq Procs /\ \A q \in Procs : real[q] \in Pids \cup {None}
  BY Constants DEF Base, Kinds, CoordType, KernelType
<1> QED
  BY <1>1, <1>2 DEF coord_send_virt_to_real, virtual_to_real, proc_list_virt_to_real

LEMMA ExecSettles ==
  ASSUME Base, NEW p \in Procs, Exec(p) PROVE Settles
<1>1. st[p] = "run" /\ mem[p] \in Mems /\ real[p] \in Pids /\ RealPpid(p) \in Pids
  BY VarKinds, PidKinds, Constants DEF Exec
<1> DEFINE T == update(update(EmptyTable, mem[p].virt, real[p]), mem[p].vppid, RealPpid(p))
<1>2. T \in [Virts -> Pids \cup {None}]
  <2>1. EmptyTable \in [Virts -> Pids \cup {None}]
    BY DEF EmptyTable
  <2> QED
    BY <1>1, <2>1, TableKinds
<1>3. mem' = [mem EXCEPT ![p].rppid = RealPpid(p), ![p].tab = T]
  BY DEF Exec
<1> HIDE DEF T
<1>4. /\ mem' \in [Procs -> Mems]
      /\ \A q \in Procs : mem'[q].virt = mem[q].virt /\ mem'[q].vppid = mem[q].vppid
  BY <1>1, <1>2, <1>3, NewTables
<1>5. Kinds'
  BY <1>4 DEF Exec, Base, Kinds, KernelType, ProcType, CoordType, HistType, kernelVars, coordVars, histVars
<1> QED
  BY <1>4, <1>5 DEF Exec, Settles, kernelVars, coordVars, histVars

LEMMA PostrestartOwnSettles ==
  ASSUME Base, NEW p \in Procs, PostrestartOwn(p) PROVE Settles
<1>1. st[p] = "released" /\ mem[p] \in Mems /\ real[p] \in Pids /\ RealPpid(p) \in Pids
  BY VarKinds, PidKinds, Constants DEF PostrestartOwn
<1> DEFINE T == update(update(mem[p].tab, mem[p].virt, real[p]), mem[p].vppid, RealPpid(p))
           left == {v \in Virts : mem[p].tab[v] # None} \ {mem[p].virt, mem[p].vppid}
<1>2. T \in [Virts -> Pids \cup {None}]
  <2>1. mem[p].tab \in [Virts -> Pids \cup {None}]
    BY <1>1 DEF Mems
  <2> QED
    BY <1>1, <2>1, TableKinds
<1>3. /\ mem' = [mem EXCEPT ![p].rpid = real[p], ![p].rppid = RealPpid(p), ![p].tab = T]
      /\ todo' = [todo EXCEPT ![p] = left] /\ left \in SUBSET Virts
      /\ st' = [st EXCEPT ![p] = IF left = {} THEN "run" ELSE "fix"]
  BY DEF PostrestartOwn
<1> HIDE DEF T, left
<1>4. /\ mem' \in [Procs -> Mems]
      /\ \A q \in Procs : mem'[q].virt = mem[q].virt /\ mem'[q].vppid = mem[q].vppid
  BY <1>1, <1>2, <1>3, NewTables
<1>5. st \in [Procs -> States] /\ todo \in [Procs -> SUBSET Virts]
  BY DEF Base, Kinds, KernelType, ProcType
<1>6. /\ st' \in [Procs -> States]
      /\ \A q \in Procs : st'[q] = st[q] \/ (st[q] \in {"released", "fix"} /\ st'[q] \in {"fix", "run"})
      /\ todo' \in [Procs -> SUBSET Virts]
  BY <1>1, <1>3, <1>5 DEF States
<1>7. Kinds'
  BY <1>4, <1>6 DEF PostrestartOwn, Base, Kinds, KernelType, ProcType, CoordType, HistType, coordVars, histVars
<1> QED
  BY <1>4, <1>6, <1>7 DEF PostrestartOwn, Settles, coordVars, histVars

LEMMA PostrestartEntrySettles ==
  ASSUME Base, NEW p \in Procs, PostrestartEntry(p) PROVE Settles
<1>1. st[p] = "fix" /\ mem[p] \in Mems /\ todo[p] \subseteq Virts
  BY VarKinds DEF PostrestartEntry, Kinds, ProcType
<1>2. PICK v \in todo[p] : \E r \in coord_send_virt_to_real(v) :
       /\ mem' = [mem EXCEPT ![p].tab = IF r = None THEN erase(@, v) ELSE update(@, v, r)]
       /\ todo' = [todo EXCEPT ![p] = @ \ {v}]
       /\ st' = IF todo[p] = {v} THEN [st EXCEPT ![p] = "run"] ELSE st
  BY DEF PostrestartEntry
<1>3. PICK r \in coord_send_virt_to_real(v) :
       /\ mem' = [mem EXCEPT ![p].tab = IF r = None THEN erase(@, v) ELSE update(@, v, r)]
       /\ todo' = [todo EXCEPT ![p] = @ \ {v}]
       /\ st' = IF todo[p] = {v} THEN [st EXCEPT ![p] = "run"] ELSE st
  BY <1>2
<1>4. v \in Virts /\ r \in Pids \cup {None}
  BY <1>1, AnswerKinds
<1> DEFINE T == IF r = None THEN erase(mem[p].tab, v) ELSE update(mem[p].tab, v, r)
<1>5. T \in [Virts -> Pids \cup {None}] /\ mem' = [mem EXCEPT ![p].tab = T]
  <2>1. mem[p].tab \in [Virts -> Pids \cup {None}]
    BY <1>1 DEF Mems
  <2>2. erase(mem[p].tab, v) \in [Virts -> Pids \cup {None}]
    BY <2>1 DEF erase
  <2>3. mem' = [mem EXCEPT ![p].tab = T]
    BY <1>3, VarKinds
  <2> QED
    BY <1>4, <2>1, <2>2, <2>3, TableKinds
<1> HIDE DEF T
<1>6. /\ mem' \in [Procs -> Mems]
      /\ \A q \in Procs : mem'[q].virt = mem[q].virt /\ mem'[q].vppid = mem[q].vppid
  BY <1>4, <1>5, NewTables
<1>7. st \in [Procs -> States] /\ todo \in [Procs -> SUBSET Virts]
  BY DEF Base, Kinds, KernelType, ProcType
<1>8. /\ st' \in [Procs -> States]
      /\ \A q \in Procs : st'[q] = st[q] \/ (st[q] \in {"released", "fix"} /\ st'[q] \in {"fix", "run"})
      /\ todo' \in [Procs -> SUBSET Virts]
  BY <1>1, <1>3, <1>7 DEF States
<1>9. oob' \in [Procs -> BOOLEAN]
  BY VarKinds DEF PostrestartEntry
<1>10. Kinds'
  BY <1>6, <1>8, <1>9 DEF PostrestartEntry, Base, Kinds, KernelType, ProcType, CoordType, HistType, coordVars, histVars
<1> QED
  BY <1>6, <1>8, <1>10 DEF PostrestartEntry, Settles, coordVars, histVars

LEMMA ExitSettles ==
  ASSUME Base, NEW q \in Procs, proc_exit_callback(q) PROVE Settles
<1>1. ctab' \in [Virts -> Pids \cup {None}]
  BY DEF proc_exit_callback, erase, Base, Kinds, CoordType
<1>2. Kinds'
  BY <1>1 DEF proc_exit_callback, Base, Kinds, KernelType, ProcType, CoordType, HistType,
     kernelVars, procVars, histVars
<1> QED
  BY <1>2 DEF proc_exit_callback, Settles, kernelVars, procVars, histVars

\* The coordinator reserves a pid for a child: it is not blocked on another fork.
LEMMA NotBlocked ==
  ASSUME Base, Serving
  PROVE  /\ \A p \in Procs, t \in Threads : st[p] = "run" => th[p][t].pc # "prepared"
         /\ \A c \in Procs : st[c] # "forked"
<1>1. coord = "up" /\ busy.parent = 0 /\ busy.virt = None /\ BusyInv
  BY DEF Serving, NoFork, Base
<1> QED
  BY <1>1, Constants DEF BusyInv

LEMMA ReservesIs ==
  ASSUME Base, NEW p \in Procs, NEW t \in Threads, coord_atfork(p, t), coord' # "dead"
  PROVE  /\ next \in Virts /\ coord' = "up" /\ busy' = [parent |-> p, virt |-> next]
         /\ next' = next + 1 /\ p \in plist /\ ctab[next] = None
         /\ mem' = [mem EXCEPT ![p] = env_set_pid_info(@, next)]
         /\ Goto(p, t, "prepared")
         /\ UNCHANGED <<kernelVars, tlock, olock, oob, todo, ctab, plist, histVars, wrong>>
BY DEF coord_atfork, Serving

LEMMA CoordAtforkFails ==
  ASSUME Base, NEW p \in Procs, NEW t \in Threads, coord_atfork(p, t), coord' = "dead"
  PROVE  Settles
<1>1. coord = "up"
  BY DEF coord_atfork, Serving
<1>2. UNCHANGED <<kernelVars, procVars, next, ctab, plist, busy, histVars, wrong>>
  BY <1>1 DEF coord_atfork, procVars
<1> QED
  BY <1>2, CoordDies

LEMMA EnvSet ==
  ASSUME Base, NEW p \in Procs, NEW v \in Virts,
         mem' = [mem EXCEPT ![p] = env_set_pid_info(@, v)]
  PROVE  /\ mem' \in [Procs -> Mems] /\ mem'[p].env = v
         /\ \A q \in Procs : q # p => mem'[q] = mem[q]
         /\ \A q \in Procs : /\ mem'[q].virt = mem[q].virt /\ mem'[q].vppid = mem[q].vppid
                             /\ mem'[q].rpid = mem[q].rpid /\ mem'[q].rppid = mem[q].rppid
                             /\ mem'[q].tab = mem[q].tab
<1>1. mem \in [Procs -> Mems] /\ mem[p] \in Mems
  BY VarKinds
<1> QED
  BY <1>1 DEF Mems, env_set_pid_info

LEMMA ReservesKeeps ==
  ASSUME Base, NEW p \in Procs, NEW t \in Threads, coord_atfork(p, t), coord' # "dead"
  PROVE  Base' /\ Known' \subseteq Known
<1> DEFINE x == [pc |-> "prepared", op |-> th[p][t].op, arg |-> th[p][t].arg,
                 list |-> th[p][t].list]
<1>1. /\ next \in Virts /\ coord' = "up" /\ busy' = [parent |-> p, virt |-> next]
      /\ next' = next + 1 /\ p \in plist
      /\ mem' = [mem EXCEPT ![p] = env_set_pid_info(@, next)]
      /\ UNCHANGED <<st, real, par, pgid, how, used, tlock, olock, oob, todo, ctab, plist,
                     image, restarts, vid, wrong>>
  BY ReservesIs DEF kernelVars, histVars
<1>2. st[p] = "run" /\ Serving /\ th[p][t].pc = "prepare" /\ Kinds
  BY VarKinds DEF coord_atfork, At_
<1>3. th' = [th EXCEPT ![p][t] = x]
  BY <1>2, ReservesIs, GotoIs
<1>4. x \in ThreadState
  <2>1. th[p][t] \in ThreadState
    BY VarKinds
  <2> QED
    BY <2>1 DEF ThreadState
<1>5. x.pc = "prepared" /\ ~Holds(x)
  BY DEF Holds
<1> HIDE DEF x
<1>6. /\ th' \in [Procs -> [Threads -> ThreadState]]
      /\ th'[p][t] = x
      /\ \A q \in Procs, s \in Threads : q # p \/ s # t => th'[q][s] = th[q][s]
      /\ \A q \in Procs : q # p => th'[q] = th[q]
  BY <1>2, <1>3, <1>4, OneThread
<1>7. /\ mem' \in [Procs -> Mems]
      /\ \A q \in Procs : mem'[q].virt = mem[q].virt /\ mem'[q].vppid = mem[q].vppid
  BY <1>1, EnvSet
<1>8. Kinds'
  <2>1. busy' \in [parent : 0 .. NProcs, virt : Virts \cup {None}]
    BY <1>1, Constants
  <2>2. next' \in 1 .. MaxVirt + 1
    BY <1>1, Constants DEF Virts
  <2> QED
    BY <1>1, <1>2, <1>6, <1>7, <2>1, <2>2 DEF Kinds, KernelType, ProcType, CoordType, HistType
<1>9. Known' \subseteq Known
  <2>1. ASSUME NEW q \in Procs, NEW r \in Procs, NEW s \in Threads,
               st'[r] = "run", Holds(th'[r][s]), th'[r][s].arg = q
        PROVE  q \in Known
    <3>1. r # p \/ s # t
      BY <1>5, <1>6, <2>1
    <3> QED
      BY <1>1, <1>6, <2>1, <3>1 DEF Known
  <2> QED
    BY <1>1, <2>1 DEF Known, Alive
<1>10. /\ \A a \in Procs, b \in Threads : st[a] = "run" => th[a][b].pc # "prepared"
       /\ \A c \in Procs : st[c] # "forked"
  BY <1>2, NotBlocked
<1>11. \A q \in Procs : st[q] # "restoring"
  BY <1>2 DEF Base, LifeInv
<1>12. ASSUME NEW q \in Procs PROVE LifeInv(q)'
  <2>1. LifeInv(q) /\ (th'[q] = th[q] \/ q = p)
    BY <1>6 DEF Base
  <2> QED
    BY <1>1, <1>2, <2>1 DEF LifeInv, AllIdle
<1>13. ASSUME NEW q \in Procs PROVE VidInv(q)'
  <2>1. VidInv(q) /\ next \in Nat /\ (q \in Known => vid[q] \in Nat)
    BY <1>1, Constants, KnownKinds DEF Base
  <2> QED
    BY <1>1, <1>7, <1>9, <1>11, <2>1 DEF VidInv
<1>14. ASSUME NEW q \in Procs, NEW s \in Threads PROVE ThreadInv(q, s)'
  <2>1. ThreadInv(q, s) /\ ThreadInv(p, t)
    BY DEF Base
  <2>2. CASE q = p /\ s = t
    BY <1>2, <1>5, <1>6, <2>1, <2>2 DEF ThreadInv
  <2>3. CASE q # p \/ s # t
    BY <1>1, <1>6, <2>1, <2>3 DEF ThreadInv
  <2> QED
    BY <2>2, <2>3
<1>15. ASSUME NEW a \in Known', NEW b \in Known' PROVE UniqueInv(a, b)'
  BY <1>1, <1>9 DEF Base, UniqueInv, Alive
<1>16. BusyInv'
  <2>1. \A q \in Procs, s \in Threads : st'[q] = "run" /\ th'[q][s].pc = "prepared" => q = p /\ s = t
    BY <1>1, <1>6, <1>10
  <2>2. busy'.parent = p /\ busy'.virt = next /\ next < next + 1
    BY <1>1, Constants
  <2>3. \A q \in Known' : vid'[q] < next
    BY <1>1, <1>9, <1>11 DEF Base, VidInv, Known
  <2> QED
    BY <1>1, <1>10, <2>1, <2>2, <2>3 DEF BusyInv
<1>17. ImageInv'
  BY <1>1 DEF Base, ImageInv
<1> QED
  BY <1>8, <1>9, <1>12, <1>13, <1>14, <1>15, <1>16, <1>17 DEF Base

\* The child c of thread t of p gets the real pid r.
Forks(p, t, c, r) ==
  /\ coord = "up" /\ st[p] = "run" /\ th[p][t].pc = "prepared"
  /\ r \in FreshReals /\ c \in Procs /\ st[c] = "none" /\ c # p
  /\ st' = [st EXCEPT ![c] = "forked"] /\ real' = [real EXCEPT ![c] = r]
  /\ par' = [par EXCEPT ![c] = p] /\ pgid' = [pgid EXCEPT ![c] = pgid[p]]
  /\ used' = used \cup {r} /\ mem' = [mem EXCEPT ![c] = mem[p]]
  /\ oob' = [oob EXCEPT ![c] = oob[p]] /\ vid' = [vid EXCEPT ![c] = busy.virt]
  /\ th' = [th EXCEPT ![p][t] = [pc |-> "forked", op |-> th[p][t].op, arg |-> c,
                                 list |-> th[p][t].list]]
  /\ tlock' = [tlock EXCEPT ![p] = t]
  /\ UNCHANGED <<how, olock, todo, coord, next, ctab, plist, busy, image, restarts, wrong>>

LEMMA ForkIs ==
  ASSUME Base, NEW p \in Procs, NEW t \in Threads, Fork(p, t)
  PROVE  \E c, r : Forks(p, t, c, r)
<1>1. PICK r \in FreshReals : \E c \in Procs :
       /\ st[c] = "none" /\ vid[c] = None
       /\ st' = [st EXCEPT ![c] = "forked"]
       /\ real' = [real EXCEPT ![c] = r]
       /\ par' = [par EXCEPT ![c] = p]
       /\ pgid' = [pgid EXCEPT ![c] = pgid[p]]
       /\ used' = used \cup {r}
       /\ mem' = [mem EXCEPT ![c] = mem[p]]
       /\ oob' = [oob EXCEPT ![c] = oob[p]]
       /\ vid' = [vid EXCEPT ![c] = busy.virt]
       /\ th' = [th EXCEPT ![p][t] = [pc |-> "forked", op |-> @.op, arg |-> c,
                                         list |-> @.list]]
  BY DEF Fork
<1>2. PICK c \in Procs :
       /\ st[c] = "none" /\ vid[c] = None
       /\ st' = [st EXCEPT ![c] = "forked"]
       /\ real' = [real EXCEPT ![c] = r]
       /\ par' = [par EXCEPT ![c] = p]
       /\ pgid' = [pgid EXCEPT ![c] = pgid[p]]
       /\ used' = used \cup {r}
       /\ mem' = [mem EXCEPT ![c] = mem[p]]
       /\ oob' = [oob EXCEPT ![c] = oob[p]]
       /\ vid' = [vid EXCEPT ![c] = busy.virt]
       /\ th' = [th EXCEPT ![p][t] = [pc |-> "forked", op |-> @.op, arg |-> c,
                                         list |-> @.list]]
  BY <1>1
<1>3. /\ coord = "up" /\ st[p] = "run" /\ th[p][t].pc = "prepared" /\ tlock' = [tlock EXCEPT ![p] = t]
      /\ UNCHANGED <<how, olock, todo, coord, next, ctab, plist, busy, image, restarts, wrong>>
  BY DEF Fork, At_, coordVars
<1>4. th' = [th EXCEPT ![p][t] = [pc |-> "forked", op |-> th[p][t].op, arg |-> c,
                                  list |-> th[p][t].list]]
  BY <1>2, VarKinds
<1>5. c # p
  BY <1>2, <1>3
<1>6. Forks(p, t, c, r)
  BY <1>1, <1>2, <1>3, <1>4, <1>5 DEF Forks
<1> QED
  BY <1>6

\* What a fork leaves as it was, and what it makes.
LEMMA ForksIs ==
  ASSUME Base, NEW p \in Procs, NEW t \in Threads, NEW c, NEW r, Forks(p, t, c, r)
  PROVE  /\ Kinds' /\ c \in Procs /\ c \notin Known /\ r \in Reals
         /\ st'[c] = "forked" /\ real'[c] = r /\ par'[c] = p /\ pgid'[c] = pgid[p]
         /\ mem'[c] = mem[p] /\ vid'[c] = busy.virt
         /\ \A q \in Procs : q # c => /\ st'[q] = st[q] /\ real'[q] = real[q]
                                      /\ par'[q] = par[q] /\ pgid'[q] = pgid[q]
                                      /\ mem'[q] = mem[q] /\ vid'[q] = vid[q]
         /\ th'[p][t].pc = "forked" /\ th'[p][t].arg = c
         /\ \A q \in Procs, s \in Threads : q # p \/ s # t => th'[q][s] = th[q][s]
         /\ \A q \in Procs : q # p => th'[q] = th[q]
         /\ Known' \subseteq Known \cup {c} /\ Known \subseteq Known'
<1> DEFINE x == [pc |-> "forked", op |-> th[p][t].op, arg |-> c, list |-> th[p][t].list]
<1>1. /\ c \in Procs /\ st[c] = "none" /\ c # p /\ r \in Reals
      /\ Kinds /\ st[p] = "run" /\ plist' = plist /\ th[p][t].pc = "prepared" /\ coord = "up"
  BY VarKinds DEF Forks, FreshReals
<1>2. th' = [th EXCEPT ![p][t] = x] /\ x \in ThreadState /\ x.pc = "forked" /\ x.arg = c
  BY <1>1, VarKinds DEF Forks, ThreadState
<1> HIDE DEF x
<1>3. /\ th' \in [Procs -> [Threads -> ThreadState]]
      /\ th'[p][t] = x
      /\ \A q \in Procs, s \in Threads : q # p \/ s # t => th'[q][s] = th[q][s]
      /\ \A q \in Procs : q # p => th'[q] = th[q]
  BY <1>1, <1>2, OneThread
<1>4. /\ st'[c] = "forked" /\ real'[c] = r /\ par'[c] = p /\ pgid'[c] = pgid[p]
      /\ mem'[c] = mem[p] /\ vid'[c] = busy.virt
      /\ \A q \in Procs : q # c => /\ st'[q] = st[q] /\ real'[q] = real[q]
                                   /\ par'[q] = par[q] /\ pgid'[q] = pgid[q]
                                   /\ mem'[q] = mem[q] /\ vid'[q] = vid[q]
  BY <1>1 DEF Forks, Kinds, KernelType, ProcType, HistType
<1>5. busy.virt \in Virts \cup {None}
  BY <1>1 DEF Kinds, CoordType
<1>6. KernelType' /\ ProcType'
  BY <1>1, <1>3, Constants DEF Forks, Kinds, KernelType, ProcType, States
<1>7. CoordType' /\ HistType'
  BY <1>1, <1>5 DEF Forks, Kinds, CoordType, HistType
<1>8. c \notin Known
  BY <1>1, KnownKinds
<1>9. Known' \subseteq Known \cup {c}
  <2>1. ASSUME NEW q \in Procs, q # c, NEW a \in Procs, NEW s \in Threads,
               st'[a] = "run", Holds(th'[a][s]), th'[a][s].arg = q
        PROVE  q \in Known
    <3>1. (a # p \/ s # t) /\ a # c
      BY <1>2, <1>3, <1>4, <2>1
    <3> QED
      BY <1>1, <1>3, <1>4, <2>1, <3>1 DEF Known
  <2> QED
    BY <1>1, <1>4, <2>1 DEF Known, Alive
<1>10. Known \subseteq Known'
  <2> SUFFICES ASSUME NEW q \in Known PROVE q \in Known'
    OBVIOUS
  <2>1. q \in Procs /\ q # c /\ st'[q] = st[q]
    BY <1>4, <1>8 DEF Known
  <2>2. ASSUME NEW a \in Procs, NEW s \in Threads,
               st[a] = "run", Holds(th[a][s]), th[a][s].arg = q
        PROVE  q \in Known'
    <3>1. (a # p \/ s # t) /\ a # c
      BY <1>1, <2>2 DEF Holds
    <3>2. st'[a] = "run" /\ th'[a][s] = th[a][s]
      BY <1>3, <1>4, <2>2, <3>1
    <3> QED
      BY <2>1, <2>2, <3>2 DEF Known
  <2>3. CASE Alive(q) \/ st[q] = "zombie" \/ q \in plist
    BY <1>1, <2>1, <2>3 DEF Known, Alive
  <2> QED
    BY <2>2, <2>3 DEF Known
<1> QED
  BY <1>1, <1>2, <1>3, <1>4, <1>6, <1>7, <1>8, <1>9, <1>10 DEF Kinds

LEMMA ForksKeeps ==
  ASSUME Base, NEW p \in Procs, NEW t \in Threads, NEW c, NEW r, Forks(p, t, c, r)
  PROVE  Base'
<1>1. /\ Kinds' /\ c \in Procs /\ c \notin Known /\ r \in Reals
      /\ st'[c] = "forked" /\ real'[c] = r /\ par'[c] = p /\ pgid'[c] = pgid[p]
      /\ mem'[c] = mem[p] /\ vid'[c] = busy.virt
      /\ \A q \in Procs : q # c => /\ st'[q] = st[q] /\ real'[q] = real[q]
                                   /\ par'[q] = par[q] /\ pgid'[q] = pgid[q]
                                   /\ mem'[q] = mem[q] /\ vid'[q] = vid[q]
      /\ th'[p][t].pc = "forked" /\ th'[p][t].arg = c
      /\ \A q \in Procs, s \in Threads : q # p \/ s # t => th'[q][s] = th[q][s]
      /\ \A q \in Procs : q # p => th'[q] = th[q]
      /\ Known' \subseteq Known \cup {c} /\ Known \subseteq Known'
  BY ForksIs
<1>2. /\ coord = "up" /\ st[p] = "run" /\ th[p][t].pc = "prepared" /\ st[c] = "none" /\ c # p
      /\ UNCHANGED <<next, plist, busy, image, coord>>
  BY DEF Forks
<1>3. /\ busy.parent = p /\ busy.virt \in Virts /\ busy.virt < next
      /\ \A q \in Known : vid[q] < busy.virt
      /\ \A q \in Procs : st[q] # "forked"
      /\ \A s \in Threads : th[p][s].pc = "prepared" => s = t
      /\ \A a \in Procs, b \in Threads : st[a] = "run" /\ th[a][b].pc = "prepared" => a = p
  <2>1. BusyInv
    BY DEF Base
  <2>2. \A a \in Procs, b \in Threads : st[a] = "run" /\ th[a][b].pc = "prepared" => busy.parent = a
    BY <1>2, <2>1 DEF BusyInv
  <2> QED
    BY <1>2, <2>1, <2>2 DEF BusyInv
<1>4. /\ \A q \in Procs : st[q] \notin {"restoring", "barrier"}
      /\ \A q \in Procs : par[q] # 0 => par[q] \in Procs /\ par[q] # c /\ st[par[q]] # "none"
      /\ p \in Known /\ Known \subseteq Procs /\ \A q \in Known : vid[q] \in Virts
  <2>1. p \in Known
    BY <1>2 DEF Known, Alive
  <2> QED
    BY <1>2, <2>1, PidKinds, KnownKinds DEF Base, LifeInv
<1>5. ASSUME NEW q \in Procs PROVE LifeInv(q)'
  <2>1. LifeInv(q) /\ LifeInv(p) /\ LifeInv(1) /\ LifeInv(c) /\ pgid[p] \in Pids
    BY <1>1, <1>2, Constants, PidKinds DEF Base
  <2>2. CASE q = c
    <3>1. (st[1] # "none" /\ 1 # c) \/ c = 1
      BY <1>2, <2>1 DEF LifeInv
    <3>2. st'[1] # "none"
      BY <1>1, <3>1, Constants
    <3>3. th'[c] = AllIdle /\ c \notin plist'
      BY <1>1, <1>2, <2>1 DEF LifeInv, AllIdle
    <3>4. st'[p] = "run" /\ p # 0
      BY <1>1, <1>2, Constants
    <3> QED
      BY <1>1, <1>2, <1>3, <2>1, <2>2, <3>2, <3>3, <3>4, Constants DEF LifeInv
  <2>3. CASE q # c
    <3>1. par[q] # 0 => st'[par[q]] # "none"
      BY <1>1, <1>4
    <3>2. st'[1] # "none"
      BY <1>1, <1>2, <2>1, Constants DEF LifeInv
    <3>3. st'[q] \notin {"restoring", "barrier"} /\ (th'[q] = th[q] \/ q = p)
      BY <1>1, <1>4, <2>3
    <3>4. st'[q] = st[q] /\ real'[q] = real[q] /\ par'[q] = par[q] /\ pgid'[q] = pgid[q]
          /\ vid'[q] = vid[q]
      BY <1>1, <2>3
    <3>5. plist' = plist /\ st'[p] = "run"
      BY <1>1, <1>2
    <3> QED
      BY <2>1, <3>1, <3>2, <3>3, <3>4, <3>5 DEF LifeInv, AllIdle
  <2> QED
    BY <2>2, <2>3
<1>6. ASSUME NEW q \in Procs PROVE VidInv(q)'
  <2>1. VidInv(q) /\ LifeInv(q)
    BY DEF Base
  <2>2. CASE q = c
    <3>1. c \notin plist'
      BY <1>2, <2>1, <2>2 DEF LifeInv
    <3>2. vid'[p] < busy.virt /\ busy.virt # 1
      <4>1. vid'[p] = vid[p] /\ vid[p] \in Nat /\ vid[p] >= 1 /\ vid[p] < busy.virt /\ busy.virt \in Nat
        BY <1>1, <1>2, <1>3, <1>4 DEF Virts
      <4> QED
        BY <4>1
    <3> QED
      BY <1>1, <1>2, <1>3, <2>2, <3>1, <3>2 DEF VidInv
  <2>3. CASE q # c
    <3>1. par[q] # 0 => vid'[par[q]] = vid[par[q]]
      BY <1>1, <1>4
    <3>2. q \in Known' => q \in Known
      BY <1>1, <2>3
    <3>3. st'[q] = st[q] /\ par'[q] = par[q] /\ mem'[q] = mem[q] /\ vid'[q] = vid[q]
      BY <1>1, <2>3
    <3> QED
      BY <1>2, <2>1, <3>1, <3>2, <3>3 DEF VidInv
  <2> QED
    BY <2>2, <2>3
<1>7. ASSUME NEW q \in Procs, NEW s \in Threads PROVE ThreadInv(q, s)'
  <2>1. ThreadInv(q, s) /\ ThreadInv(p, t)
    BY DEF Base
  <2>2. CASE q = p /\ s = t
    BY <1>1, <1>2, <2>1, <2>2 DEF ThreadInv
  <2>3. CASE q # p \/ s # t
    <3>1. th'[q][s] = th[q][s] /\ \A a \in Procs : st[a] # "none" => st'[a] # "none"
      BY <1>1, <2>3
    <3> QED
      BY <2>1, <3>1 DEF ThreadInv
  <2> QED
    BY <2>2, <2>3
<1>8. ASSUME NEW a \in Known', NEW b \in Known' PROVE UniqueInv(a, b)'
  <2>1. a \in Known \/ a = c
    BY <1>1
  <2>2. b \in Known \/ b = c
    BY <1>1
  <2>3. \A q \in Known : q # c /\ vid'[q] = vid[q] /\ vid[q] < busy.virt /\ vid[q] \in Nat
                         /\ par'[q] = par[q] /\ st'[q] = st[q] /\ q \in Procs
    BY <1>1, <1>3, <1>4, Constants
  <2>4. busy.virt \in Nat
    BY <1>3, Constants
  <2>5. CASE a = c /\ b = c
    <3>1. vid'[c] # vid'[p]
      BY <1>1, <1>4, <2>3, <2>4
    <3> QED
      BY <1>1, <2>5, <3>1 DEF UniqueInv
  <2>6. CASE a = c /\ b \in Known
    <3>1. vid'[b] # vid'[c]
      BY <1>1, <2>3, <2>4, <2>6
    <3>2. vid'[b] = vid'[p] => b = p
      BY <1>4, <2>3, <2>6 DEF Base, UniqueInv
    <3> QED
      BY <1>1, <2>6, <3>1, <3>2 DEF UniqueInv
  <2>7. CASE a \in Known /\ b = c
    <3>1. vid'[a] # vid'[c]
      BY <1>1, <2>3, <2>4, <2>7
    <3>2. par[a] # 0 => vid'[par[a]] # vid'[c]
      <4>1. par[a] # 0 => vid'[par[a]] = vid[par[a]] /\ vid[par[a]] < vid[a] /\ vid[par[a]] \in Virts
        <5>1. VidInv(a) /\ a \in Procs /\ vid \in [Procs -> Virts \cup {None}]
              /\ \A q \in Procs : LifeInv(q)
          BY <2>3, <2>7, VarKinds DEF Base
        <5> QED
          BY <1>1, <1>4, <5>1 DEF VidInv, LifeInv
      <4> QED
        BY <1>1, <2>3, <2>4, <2>7, <4>1, Constants
    <3> QED
      BY <2>3, <2>7, <3>1, <3>2 DEF UniqueInv
  <2>8. CASE a \in Known /\ b \in Known
    <3>1. UniqueInv(a, b)
      BY <2>8 DEF Base
    <3>2. par[a] # 0 => vid'[par[a]] = vid[par[a]]
      BY <1>1, <1>4, <2>3, <2>8
    <3> QED
      BY <2>3, <2>8, <3>1, <3>2 DEF UniqueInv, Alive
  <2> QED
    BY <2>1, <2>2, <2>5, <2>6, <2>7, <2>8
<1>9. BusyInv'
  <2>1. ASSUME NEW a \in Procs, NEW b \in Threads, st'[a] = "run", th'[a][b].pc = "prepared"
        PROVE  FALSE
    <3>1. a # c /\ (a # p \/ b # t)
      BY <1>1, <2>1
    <3>2. st[a] = "run" /\ th[a][b].pc = "prepared"
      BY <1>1, <2>1, <3>1
    <3> QED
      BY <1>3, <3>1, <3>2
  <2>2. \A q \in Procs : st'[q] = "forked" => q = c
    BY <1>1, <1>3
  <2>3. st'[p] = "run" /\ p # 0
    BY <1>1, <1>2, Constants
  <2> QED
    BY <1>1, <1>2, <1>3, <2>1, <2>2, <2>3 DEF BusyInv
<1>10. ImageInv'
  <2>1. image.procs \subseteq Procs /\ ImageInv
    BY DEF Base, Kinds, HistType
  <2>2. \A q \in image.procs : q # c
    BY <1>1, <1>2, <2>1 DEF ImageInv, Base, LifeInv
  <2>3. \A q \in image.procs : par'[q] = par[q] /\ vid'[q] = vid[q]
                               /\ (par[q] # 0 => vid'[par[q]] = vid[par[q]])
    BY <1>1, <1>4, <2>1, <2>2
  <2> QED
    BY <1>2, <2>1, <2>3 DEF ImageInv
<1> QED
  BY <1>1, <1>5, <1>6, <1>7, <1>8, <1>9, <1>10 DEF Base

\* The child c registers: its parent is still there.
Registers(c) ==
  /\ st[c] = "forked" /\ coord = "up"
  /\ par[c] \in Procs /\ st[par[c]] = "run" /\ par[c] \in plist
  /\ busy.virt = vid[c] /\ vid[c] \in Virts
  /\ mem[par[c]].virt = vid[par[c]] /\ vid[par[c]] \in Virts /\ vid[par[c]] < vid[c]
  /\ ctab' = update(update(ctab, vid[c], real[c]), vid[par[c]], real[par[c]])
  /\ plist' = plist \cup {c} /\ busy' = NoFork
  /\ mem' = [mem EXCEPT ![c].virt = vid[c], ![c].vppid = vid[par[c]],
                        ![c].rpid = real[c], ![c].rppid = real[par[c]],
                        ![c].tab = update(mem[c].tab, vid[c], real[c])]
  /\ oob' = [oob EXCEPT ![c] = FALSE]
  /\ st' = [st EXCEPT ![c] = "run"]
  /\ UNCHANGED <<coord, real, par, pgid, how, used, tlock, olock, th, todo, next,
                 image, restarts, vid, wrong>>

LEMMA AtforkChildIs ==
  ASSUME Base, NEW c \in Procs, AtforkChild(c)
  PROVE  (coord' = "dead" /\ Settles) \/ Registers(c)
<1>1. CASE RealPpid(c) # real[par[c]]
  <2>1. coord' = "dead" /\ UNCHANGED <<kernelVars, procVars, next, ctab, plist, busy, histVars, wrong>>
    BY <1>1 DEF AtforkChild, kernelVars, procVars, histVars
  <2> QED
    BY <2>1, CoordDies
<1>2. CASE RealPpid(c) = real[par[c]]
  <2>1. st[c] = "forked" /\ coord = "up" /\ BusyInv
    BY DEF AtforkChild, Base
  <2>2. par[c] # 0 /\ st[par[c]] \in {"run", "zombie", "gone"} /\ busy.virt = vid[c]
    BY <2>1 DEF BusyInv
  <2>3. par[c] \in Procs /\ real[par[c]] \in Reals
    BY <2>2, PidKinds
  <2>4. Alive(par[c])
    BY <1>2, <2>2, <2>3, Constants DEF RealPpid
  <2>5. st[par[c]] = "run" /\ par[c] \in plist
    BY <2>2, <2>3, <2>4 DEF Alive, Base, LifeInv
  <2>6. mem[par[c]].virt = vid[par[c]] /\ vid[par[c]] < vid[c]
    BY <2>2, <2>3, <2>5 DEF Base, VidInv
  <2>7. vid[par[c]] \in Virts /\ vid[c] \in Virts
    <3>1. c \in Known /\ par[c] \in Known
      BY <2>1, <2>3, <2>4 DEF Known, Alive
    <3> QED
      BY <3>1, KnownKinds
  <2>8. /\ ctab' = update(update(ctab, vid[c], real[c]), vid[par[c]], real[par[c]])
        /\ plist' = plist \cup {c} /\ busy' = NoFork
        /\ mem' = [mem EXCEPT ![c].virt = vid[c], ![c].vppid = vid[par[c]],
                              ![c].rpid = real[c], ![c].rppid = real[par[c]],
                              ![c].tab = update(mem[c].tab, vid[c], real[c])]
        /\ oob' = [oob EXCEPT ![c] = FALSE]
        /\ st' = [st EXCEPT ![c] = "run"]
        /\ UNCHANGED <<coord, real, par, pgid, how, used, tlock, olock, th, todo, next,
                       image, restarts, vid, wrong>>
    BY <1>2, <2>2, <2>6 DEF AtforkChild, histVars
  <2> QED
    BY <2>1, <2>2, <2>3, <2>5, <2>6, <2>7, <2>8 DEF Registers
<1> QED
  BY <1>1, <1>2

LEMMA RegistersIs ==
  ASSUME Base, NEW c \in Procs, Registers(c)
  PROVE  /\ mem' \in [Procs -> Mems] /\ \A q \in Procs : q # c => mem'[q] = mem[q]
         /\ mem'[c].virt = vid[c] /\ mem'[c].vppid = vid[par[c]]
         /\ mem'[c].rpid = real[c] /\ mem'[c].rppid = real[par[c]]
         /\ mem'[c].env = mem[c].env
         /\ mem'[c].tab = update(mem[c].tab, vid[c], real[c])
         /\ st'[c] = "run" /\ \A q \in Procs : q # c => st'[q] = st[q]
<1>1. mem \in [Procs -> Mems] /\ mem[c] \in Mems /\ st \in [Procs -> States]
  BY VarKinds DEF Kinds, KernelType
<1>2. PICK m \in Mems : m = mem[c]
  BY <1>1
<1>3. real[c] \in Pids /\ real[par[c]] \in Pids /\ vid[c] \in Virts /\ vid[par[c]] \in Virts
  BY PidKinds, Constants DEF Registers
<1>4. PICK T \in [Virts -> Pids \cup {None}] : T = update(mem[c].tab, vid[c], real[c])
  BY <1>1, <1>3, TableKinds DEF Mems
<1>5. /\ mem' = [mem EXCEPT ![c].virt = vid[c], ![c].vppid = vid[par[c]],
                            ![c].rpid = real[c], ![c].rppid = real[par[c]], ![c].tab = T]
      /\ st' = [st EXCEPT ![c] = "run"]
  BY <1>4 DEF Registers
<1>6. /\ mem' \in [Procs -> Mems] /\ \A q \in Procs : q # c => mem'[q] = mem[q]
      /\ mem'[c].virt = vid[c] /\ mem'[c].vppid = vid[par[c]]
      /\ mem'[c].rpid = real[c] /\ mem'[c].rppid = real[par[c]]
      /\ mem'[c].env = mem[c].env /\ mem'[c].tab = T
  <2>1. /\ mem'[c] = [mem[c] EXCEPT !.virt = vid[c], !.vppid = vid[par[c]],
                                    !.rpid = real[c], !.rppid = real[par[c]], !.tab = T]
        /\ mem' = [mem EXCEPT ![c] = mem'[c]]
    BY <1>1, <1>5
  <2>2. /\ mem'[c].virt = vid[c] /\ mem'[c].vppid = vid[par[c]]
        /\ mem'[c].rpid = real[c] /\ mem'[c].rppid = real[par[c]]
        /\ mem'[c].env = mem[c].env /\ mem'[c].tab = T
    BY <1>1, <2>1 DEF Mems
  <2>3. mem'[c] \in Mems
    BY <1>1, <1>3, <2>1 DEF Mems
  <2> QED
    BY <1>1, <2>1, <2>2, <2>3
<1> QED
  BY <1>1, <1>4, <1>5, <1>6

LEMMA RegistersKeeps ==
  ASSUME Base, NEW c \in Procs, Registers(c)
  PROVE  Base' /\ Known' \subseteq Known
<1>1. /\ st[c] = "forked" /\ coord = "up" /\ par[c] \in Procs /\ st[par[c]] = "run"
      /\ plist' = plist \cup {c} /\ busy' = NoFork
      /\ UNCHANGED <<coord, real, par, pgid, how, used, tlock, olock, th, todo, next,
                     image, restarts, vid, wrong>>
  BY DEF Registers
<1>2. /\ mem' \in [Procs -> Mems] /\ \A q \in Procs : q # c => mem'[q] = mem[q]
      /\ mem'[c].virt = vid[c] /\ mem'[c].vppid = vid[par[c]]
      /\ st'[c] = "run" /\ \A q \in Procs : q # c => st'[q] = st[q]
  BY RegistersIs
<1>3. Kinds'
  <2>1. ctab' \in [Virts -> Pids \cup {None}]
    <3>1. real[c] \in Pids /\ real[par[c]] \in Pids /\ ctab \in [Virts -> Pids \cup {None}]
      BY <1>1, PidKinds, Constants DEF Base, Kinds, CoordType
    <3> QED
      BY <3>1, TableKinds DEF Registers
  <2>2. busy' \in [parent : 0 .. NProcs, virt : Virts \cup {None}]
    BY <1>1, Constants DEF NoFork
  <2>3. oob' \in [Procs -> BOOLEAN] /\ st' \in [Procs -> States]
    BY VarKinds DEF Registers, Kinds, KernelType, States
  <2> QED
    BY <1>1, <1>2, <2>1, <2>2, <2>3 DEF Base, Kinds, KernelType, ProcType, CoordType, HistType
<1>4. \A s \in Threads : th[c][s].pc = "user" /\ ~Holds(th[c][s])
  BY <1>1, IdleThreads
<1>5. Known' \subseteq Known
  BY <1>1, <1>2, <1>4 DEF Known, Alive
<1>6. ASSUME NEW q \in Procs PROVE LifeInv(q)'
  <2>1. LifeInv(q) /\ LifeInv(c)
    BY DEF Base
  <2>2. \A a \in Procs : st'[a] = "none" <=> st[a] = "none"
    BY <1>1, <1>2
  <2>3. par[q] # 0 => par[q] \in Procs
    BY PidKinds
  <2>4. \A a \in Procs : st[a] \notin {"restoring", "barrier"}
    BY <1>1 DEF Base, LifeInv
  <2>5. CASE q = c
    BY <1>1, <1>2, <2>1, <2>2, <2>3, <2>5, Constants DEF LifeInv
  <2>6. CASE q # c
    <3>1. st'[q] = st[q] /\ (q \in plist' <=> q \in plist)
      BY <1>1, <1>2, <2>6
    <3> QED
      BY <1>1, <2>1, <2>2, <2>3, <2>4, <3>1, Constants DEF LifeInv, AllIdle
  <2> QED
    BY <2>5, <2>6
<1>7. ASSUME NEW q \in Procs PROVE VidInv(q)'
  <2>1. VidInv(q)
    BY DEF Base
  <2>2. CASE q = c
    BY <1>1, <1>2, <1>5, <2>1, <2>2, Constants DEF VidInv
  <2>3. CASE q # c
    BY <1>1, <1>2, <1>5, <2>1, <2>3 DEF VidInv
  <2> QED
    BY <2>2, <2>3
<1>8. ASSUME NEW q \in Procs, NEW s \in Threads PROVE ThreadInv(q, s)'
  <2>1. ThreadInv(q, s) /\ \A a \in Procs : st[a] # "none" => st'[a] # "none"
    BY <1>2 DEF Base
  <2> QED
    BY <1>1, <2>1 DEF ThreadInv
<1>9. ASSUME NEW a \in Known', NEW b \in Known' PROVE UniqueInv(a, b)'
  <2>1. UniqueInv(a, b) /\ a \in Procs
    BY <1>5 DEF Base, Known
  <2>2. Alive(a)' => Alive(a)
    BY <1>1, <1>2, <2>1 DEF Alive
  <2> QED
    BY <1>1, <2>1, <2>2 DEF UniqueInv
<1>10. BusyInv'
  <2>1. ASSUME NEW q \in Procs, NEW s \in Threads, st'[q] = "run", th'[q][s].pc = "prepared"
        PROVE  FALSE
    <3>1. q # c /\ st[q] = "run" /\ th[q][s].pc = "prepared"
      BY <1>1, <1>2, <1>4, <2>1
    <3>2. st[c] # "forked"
      BY <1>1, <3>1 DEF Base, BusyInv
    <3> QED
      BY <1>1, <3>2
  <2>2. ASSUME NEW q \in Procs, st'[q] = "forked" PROVE FALSE
    <3>1. q # c /\ st[q] = "forked"
      BY <1>2, <2>2
    <3>2. vid[q] = vid[c]
      BY <1>1, <3>1 DEF Base, BusyInv
    <3>3. q \in Known /\ c \in Known
      BY <1>1, <3>1 DEF Known, Alive
    <3> QED
      BY <3>1, <3>2, <3>3 DEF Base, UniqueInv
  <2> QED
    BY <2>1, <2>2 DEF BusyInv
<1>11. ImageInv'
  BY <1>1 DEF Base, ImageInv
<1> QED
  BY <1>3, <1>5, <1>6, <1>7, <1>8, <1>9, <1>10, <1>11 DEF Base

LEMMA CheckpointKeeps ==
  ASSUME Base, Checkpoint PROVE Base' /\ Known' = Known
<1>1. /\ UNCHANGED <<kernelVars, procVars, coordVars, restarts, vid, wrong>>
      /\ image' = [procs |-> plist, mem |-> mem, real |-> real, pgid |-> pgid]
      /\ \A p \in plist : st[p] = "run"
  BY DEF Checkpoint
<1>2. /\ image'.procs = plist /\ image'.mem = mem
      /\ plist \subseteq Procs /\ plist \subseteq Known
      /\ \A p \in plist : Alive(p)
  BY <1>1 DEF Base, Kinds, CoordType, Known, Alive
<1>3. Known' = Known
  BY <1>1 DEF Known, Alive, kernelVars, procVars, coordVars
<1>4. Kinds'
  <2>1. image' \in [procs : SUBSET Procs, mem : [Procs -> Mems],
                    real : [Procs -> Reals \cup {None}], pgid : [Procs -> Pids \cup {None}]]
    BY <1>1, <1>2 DEF Base, Kinds, KernelType, ProcType
  <2> QED
    BY <1>1, <2>1 DEF Base, Kinds, KernelType, ProcType, CoordType, HistType, kernelVars,
       procVars, coordVars
<1>5. \A p \in Procs : LifeInv(p)'
  <2>1. st[1] # "none"
    <3>1. \E p \in plist : st[p] = "run"
      BY <1>1 DEF Checkpoint
    <3> QED
      BY <1>2, <3>1 DEF Base, LifeInv
  <2> QED
    BY <1>1, <2>1 DEF Base, LifeInv, Alive, kernelVars, procVars, coordVars
<1>6. \A p \in Procs : VidInv(p)'
  BY <1>1, <1>3 DEF Base, VidInv, kernelVars, procVars, coordVars
<1>7. \A p \in Procs, t \in Threads : ThreadInv(p, t)'
  BY <1>1 DEF Base, ThreadInv, kernelVars, procVars
<1>8. \A p, q \in Known' : UniqueInv(p, q)'
  BY <1>1, <1>3 DEF Base, UniqueInv, Alive, kernelVars
<1>9. BusyInv'
  BY <1>1, <1>3 DEF Base, BusyInv, kernelVars, procVars, coordVars
<1>10. ImageInv'
  <2>1. \A p \in plist : VidInv(p) /\ vid[p] # None
    BY <1>2, KnownKinds, Constants DEF Base
  <2>2. \A p, q \in plist : UniqueInv(p, q)
    BY <1>2 DEF Base
  <2> QED
    BY <1>1, <1>2, <2>1, <2>2 DEF ImageInv, VidInv, UniqueInv, kernelVars
<1> QED
  BY <1>3, <1>4, <1>5, <1>6, <1>7, <1>8, <1>9, <1>10 DEF Base

\* After a restart there are the processes of the image, which nobody knows yet.
LEMMA RestartIs ==
  ASSUME Base, Restart
  PROVE  /\ Kinds' /\ image.procs \subseteq Procs /\ Known' = image.procs
         /\ \A p \in image.procs : st'[p] = "restoring" /\ real'[p] \in Reals /\ pgid'[p] \in Pids
         /\ \A p \in Procs \ image.procs : /\ real'[p] = real[p] /\ pgid'[p] = pgid[p]
                                           /\ st'[p] = IF st[p] = "none" THEN "none" ELSE "gone"
         /\ \A p \in image.procs : mem'[p] = image.mem[p]
         /\ \A p \in Procs : th'[p] = AllIdle
<1>1. PICK f \in [image.procs -> Reals] :
       /\ IsInjective(f)
       /\ real' = [p \in Procs |-> IF p \in image.procs THEN f[p] ELSE real[p]]
       /\ pgid' = [p \in Procs |->
                     IF p \notin image.procs THEN pgid[p]
                     ELSE LET leader == {q \in image.procs : image.real[q] = image.pgid[p]}
                          IN IF leader = {} THEN Shell ELSE f[CHOOSE q \in leader : TRUE]]
       /\ used' = {f[p] : p \in image.procs}
  BY DEF Restart
<1>2. /\ st' = [p \in Procs |-> IF p \in image.procs THEN "restoring"
                                ELSE IF st[p] = "none" THEN "none" ELSE "gone"]
      /\ mem' = [p \in Procs |-> IF p \in image.procs THEN image.mem[p] ELSE mem[p]]
      /\ th' = [p \in Procs |-> AllIdle] /\ plist' = {}
  BY DEF Restart, AllIdle
<1>3. Kinds /\ image.procs \subseteq Procs /\ image.mem \in [Procs -> Mems]
  BY VarKinds DEF Kinds, HistType
<1>4. real' \in [Procs -> Reals \cup {None}] /\ \A p \in image.procs : real'[p] \in Reals
  BY <1>1, <1>3 DEF Kinds, KernelType
<1>5. pgid' \in [Procs -> Pids \cup {None}] /\ \A p \in image.procs : pgid'[p] \in Pids
  <2> DEFINE lead(p) == {q \in image.procs : image.real[q] = image.pgid[p]}
             grp(p) == IF lead(p) = {} THEN Shell ELSE f[CHOOSE q \in lead(p) : TRUE]
  <2>1. ASSUME NEW p \in Procs PROVE grp(p) \in Pids
    <3>1. lead(p) # {} => (CHOOSE q \in lead(p) : TRUE) \in image.procs
      OBVIOUS
    <3> QED
      BY <1>1, <3>1, Constants
  <2>2. pgid' = [p \in Procs |-> IF p \notin image.procs THEN pgid[p] ELSE grp(p)]
    BY <1>1
  <2> HIDE DEF grp
  <2> QED
    BY <1>3, <2>1, <2>2 DEF Kinds, KernelType
<1>6. used' \subseteq Reals
  BY <1>1
<1>7. st' \in [Procs -> States]
  BY <1>2 DEF States
<1>8. mem' \in [Procs -> Mems]
  BY <1>2, <1>3 DEF Kinds, ProcType
<1>9. th' \in [Procs -> [Threads -> ThreadState]]
  BY <1>2, IdleIs DEF AllIdle
<1>10. KernelType' /\ ProcType'
  BY <1>3, <1>4, <1>5, <1>6, <1>7, <1>8, <1>9 DEF Restart, Kinds, KernelType, ProcType
<1>11. CoordType'
  BY Constants DEF Restart, CoordType, EmptyTable, NoFork
<1>12. HistType'
  BY <1>3, Constants DEF Restart, Kinds, HistType
<1>13. \A p \in Procs, t \in Threads : ~Holds(th'[p][t])
  BY <1>2, IdleIs DEF AllIdle
<1>14. Known' = image.procs
  BY <1>2, <1>3, <1>13 DEF Known, Alive
<1> QED
  BY <1>1, <1>2, <1>3, <1>4, <1>5, <1>10, <1>11, <1>12, <1>14 DEF Kinds

LEMMA RestartKeeps ==
  ASSUME Base, Restart PROVE Base'
<1>1. /\ Kinds' /\ image.procs \subseteq Procs /\ Known' = image.procs
      /\ \A p \in image.procs : st'[p] = "restoring" /\ real'[p] \in Reals /\ pgid'[p] \in Pids
      /\ \A p \in Procs \ image.procs : /\ real'[p] = real[p] /\ pgid'[p] = pgid[p]
                                        /\ st'[p] = IF st[p] = "none" THEN "none" ELSE "gone"
      /\ \A p \in image.procs : mem'[p] = image.mem[p]
      /\ \A p \in Procs : th'[p] = AllIdle
  BY RestartIs
<1>2. /\ UNCHANGED <<par, image, vid>> /\ plist' = {} /\ image.procs # {}
  BY DEF Restart
<1>3. \A p \in Procs, t \in Threads : th'[p][t].pc = "user" /\ ~Holds(th'[p][t])
  BY <1>1, IdleIs DEF AllIdle
<1>4. ImageInv /\ \A p \in Procs : LifeInv(p) /\ VidInv(p)
  BY DEF Base
<1>5. \A p \in Procs : st'[p] = "none" <=> st[p] = "none"
  BY <1>1, <1>4 DEF ImageInv, LifeInv
<1>6. ASSUME NEW p \in Procs PROVE LifeInv(p)'
  <2>1. LifeInv(p) /\ (par[p] # 0 => par[p] \in Procs)
    BY <1>4, PidKinds
  <2>2. st'[1] # "none"
    BY <1>2, <1>4, <1>5, Constants DEF LifeInv
  <2>3. CASE p \in image.procs
    <3>1. vid[p] # None /\ real'[p] # None /\ st[p] # "none"
      BY <1>1, <1>4, <2>1, <2>3, Constants DEF ImageInv, LifeInv
    <3>2. \A q \in Procs : st'[q] \in {"restoring", "gone", "none"}
      BY <1>1
    <3> QED
      BY <1>1, <1>2, <1>5, <2>1, <2>2, <2>3, <3>1, <3>2 DEF LifeInv
  <2>4. CASE p \notin image.procs
    BY <1>1, <1>2, <1>5, <2>1, <2>2, <2>4 DEF LifeInv
  <2> QED
    BY <2>3, <2>4
<1>7. ASSUME NEW p \in Procs PROVE VidInv(p)'
  <2>1. VidInv(p)
    BY <1>4
  <2>2. st'[p] = "restoring" => p \in image.procs
    BY <1>1
  <2> QED
    BY <1>1, <1>2, <1>4, <2>1, <2>2 DEF VidInv, ImageInv
<1>8. \A p \in Procs, t \in Threads : ThreadInv(p, t)'
  BY <1>3 DEF ThreadInv
<1>9. \A p, q \in Known' : UniqueInv(p, q)'
  BY <1>1, <1>2, <1>4 DEF UniqueInv, ImageInv
<1>10. BusyInv'
  BY <1>1, <1>3 DEF BusyInv
<1>11. ImageInv'
  BY <1>2, <1>4 DEF ImageInv
<1> QED
  BY <1>1, <1>6, <1>7, <1>8, <1>9, <1>10, <1>11 DEF Base

LEMMA ConnectKeeps ==
  ASSUME Base, NEW p \in Procs, coord_connect_with_process_on_restart(p)
  PROVE  Base' /\ Known' = Known
<1>1. /\ st[p] = "restoring" /\ coord = "up" /\ plist' = plist \cup {p}
      /\ st' = [st EXCEPT ![p] = "barrier"]
      /\ next' = IF mem[p].virt >= next THEN mem[p].virt + 1 ELSE next
      /\ UNCHANGED <<real, par, pgid, how, used, mem, tlock, olock, oob, th, todo, coord, busy,
                     image, restarts, vid, wrong>>
  BY DEF coord_connect_with_process_on_restart, procVars, histVars
<1>2. /\ st \in [Procs -> States] /\ mem[p] \in Mems /\ real[p] \in Pids /\ RealPpid(p) \in Pids
      /\ p \in Known /\ vid[p] \in Virts /\ mem[p].virt = vid[p] /\ next \in 1 .. MaxVirt + 1
  <2>1. p \in Known
    BY <1>1 DEF Known, Alive
  <2> QED
    BY <1>1, <2>1, VarKinds, PidKinds, KnownKinds, Constants DEF Base, Kinds, KernelType, CoordType, VidInv
<1>3. \A q \in Procs : st[q] \notin {"forked", "run", "released", "fix", "zombie"}
  BY <1>1 DEF Base, LifeInv
<1>4. st'[p] = "barrier" /\ \A q \in Procs : q # p => st'[q] = st[q]
  BY <1>1, <1>2
<1>5. next' \in 1 .. MaxVirt + 1 /\ vid[p] < next' /\ next <= next'
  BY <1>1, <1>2, Constants DEF Virts
<1>6. Kinds'
  <2>1. ctab' \in [Virts -> Pids \cup {None}]
    <3>1. ctab \in [Virts -> Pids \cup {None}]
      BY DEF Base, Kinds, CoordType
    <3> QED
      BY <1>2, <3>1, TableKinds DEF coord_connect_with_process_on_restart
  <2>2. st' \in [Procs -> States]
    BY <1>1, <1>2 DEF States
  <2> QED
    BY <1>1, <1>5, <2>1, <2>2 DEF Base, Kinds, KernelType, ProcType, CoordType, HistType
<1>7. Known' = Known
  <2>1. \A q \in Procs : Alive(q)' <=> Alive(q)
    BY <1>1, <1>4 DEF Alive
  <2>2. \A q \in Procs : st'[q] # "run" /\ st[q] # "run" /\ (st'[q] = "zombie" <=> st[q] = "zombie")
    BY <1>1, <1>3, <1>4
  <2> QED
    BY <1>1, <1>2, <2>1, <2>2 DEF Known, Alive
<1>8. ASSUME NEW q \in Procs PROVE LifeInv(q)'
  <2>1. LifeInv(q) /\ (par[q] # 0 => par[q] \in Procs)
    BY PidKinds DEF Base
  <2>2. \A a \in Procs : /\ st'[a] = "none" <=> st[a] = "none"
                         /\ st'[a] \notin {"forked", "run", "released", "fix", "zombie"}
    BY <1>1, <1>3, <1>4
  <2>5. \A a \in plist' : Alive(a)'
    <3>1. \A a \in plist : a \in Procs /\ Alive(a)
      BY <1>1 DEF Base, LifeInv, Kinds, CoordType
    <3> QED
      BY <1>1, <1>4, <3>1 DEF Alive
  <2>3. CASE q = p
    BY <1>1, <1>4, <2>1, <2>2, <2>3, <2>5, Constants DEF LifeInv
  <2>4. CASE q # p
    <3>1. st'[q] = st[q] /\ (q \in plist' <=> q \in plist)
      BY <1>1, <1>4, <2>4
    <3> QED
      BY <1>1, <2>1, <2>2, <2>5, <3>1, Constants DEF LifeInv
  <2> QED
    BY <2>3, <2>4
<1>9. ASSUME NEW q \in Procs PROVE VidInv(q)'
  <2>1. VidInv(q) /\ (q \in Known => vid[q] \in Virts)
    BY KnownKinds DEF Base
  <2>2. CASE q = p
    BY <1>1, <1>5, <2>1, <2>2 DEF VidInv
  <2>3. CASE q # p
    <3>1. st'[q] = st[q] /\ (q \in plist' <=> q \in plist)
      BY <1>1, <1>4, <2>3
    <3>2. q \in Known /\ vid[q] < next => vid[q] < next'
      BY <1>2, <1>5, <2>1, Constants DEF Virts
    <3> QED
      BY <1>1, <1>7, <2>1, <3>1, <3>2 DEF VidInv
  <2> QED
    BY <2>2, <2>3
<1>10. ASSUME NEW q \in Procs, NEW s \in Threads PROVE ThreadInv(q, s)'
  <2>1. ThreadInv(q, s) /\ \A a \in Procs : st[a] # "none" => st'[a] # "none"
    BY <1>4 DEF Base
  <2> QED
    BY <1>1, <2>1 DEF ThreadInv
<1>11. ASSUME NEW a \in Known', NEW b \in Known' PROVE UniqueInv(a, b)'
  <2>1. UniqueInv(a, b) /\ a \in Procs
    BY <1>7 DEF Base, Known
  <2>2. Alive(a)' => Alive(a)
    BY <1>1, <1>4, <2>1 DEF Alive
  <2> QED
    BY <1>1, <2>1, <2>2 DEF UniqueInv
<1>12. BusyInv'
  BY <1>3, <1>4 DEF BusyInv
<1>13. ImageInv'
  BY <1>1 DEF Base, ImageInv
<1> QED
  BY <1>6, <1>7, <1>8, <1>9, <1>10, <1>11, <1>12, <1>13 DEF Base

LEMMA ReleaseKeeps ==
  ASSUME Base, ReleasePostrestart
  PROVE  Base' /\ Known' = Known
<1>1. /\ \A q \in Procs : st[q] # "restoring"
      /\ st' = [q \in Procs |-> IF st[q] = "barrier" THEN "released" ELSE st[q]]
      /\ UNCHANGED <<real, par, pgid, how, used, procVars, coordVars, histVars, wrong>>
  BY DEF ReleasePostrestart
<1>2. \A q \in Procs : st[q] \notin {"forked", "run", "zombie"}
  BY DEF ReleasePostrestart, Base, LifeInv
<1>3. \A q \in Procs : /\ st'[q] \notin {"forked", "run", "zombie", "restoring", "barrier"}
                       /\ Alive(q)' <=> Alive(q)
                       /\ st'[q] = "none" <=> st[q] = "none"
  BY <1>1, <1>2 DEF Alive
<1>4. Kinds'
  <2>1. st' \in [Procs -> States]
    BY <1>1 DEF Base, Kinds, KernelType, States
  <2> QED
    BY <1>1, <2>1 DEF Base, Kinds, KernelType, ProcType, CoordType, HistType, procVars, coordVars, histVars
<1>5. Known' = Known
  <2>1. plist' = plist
    BY <1>1 DEF coordVars
  <2> QED
    BY <1>2, <1>3, <2>1 DEF Known
<1>6. ASSUME NEW q \in Procs PROVE LifeInv(q)'
  <2>1. LifeInv(q) /\ (par[q] # 0 => par[q] \in Procs)
    BY PidKinds DEF Base
  <2>2. st'[q] = IF st[q] = "barrier" THEN "released" ELSE st[q]
    BY <1>1
  <2>3. UNCHANGED <<real, par, pgid, th, plist, vid, image>>
    BY <1>1 DEF procVars, coordVars, histVars
  <2> QED
    BY <1>3, <2>1, <2>2, <2>3, Constants DEF LifeInv, AllIdle
<1>7. ASSUME NEW q \in Procs PROVE VidInv(q)'
  <2>1. VidInv(q)
    BY DEF Base
  <2>2. UNCHANGED <<par, mem, next, plist, vid>>
    BY <1>1 DEF procVars, coordVars, histVars
  <2> QED
    BY <1>1, <1>3, <1>5, <2>1, <2>2 DEF VidInv
<1>8. ASSUME NEW q \in Procs, NEW s \in Threads PROVE ThreadInv(q, s)'
  BY <1>1, <1>3 DEF Base, ThreadInv, procVars
<1>9. ASSUME NEW a \in Known', NEW b \in Known' PROVE UniqueInv(a, b)'
  <2>1. UniqueInv(a, b) /\ (Alive(a)' <=> Alive(a))
    BY <1>3, <1>5 DEF Base, Known
  <2> QED
    BY <1>1, <2>1 DEF UniqueInv, histVars
<1>10. BusyInv'
  BY <1>3 DEF BusyInv
<1>11. ImageInv'
  BY <1>1 DEF Base, ImageInv, histVars
<1> QED
  BY <1>4, <1>5, <1>6, <1>7, <1>8, <1>9, <1>10, <1>11 DEF Base

LEMMA LaunchKeeps ==
  ASSUME Base, Launch
  PROVE  /\ Base' /\ Known' = {1}
         /\ \A p \in Procs : st[p] = "none" /\ (p # 1 => st'[p] = "none")
         /\ plist' = {1} /\ vid'[1] = 2 /\ st'[1] = "run" /\ real'[1] \in Reals /\ next' = 3
         /\ \A t \in Threads : th'[1][t].pc = "user"
         /\ \A v \in Virts : /\ mem'[1].tab[v] = (IF v = 2 THEN real'[1] ELSE IF v = 1 THEN Shell ELSE None)
                             /\ ctab'[v] = mem'[1].tab[v]
         /\ mem'[1].rpid = real'[1] /\ mem'[1].rppid = Shell /\ mem'[1].vppid = 1
         /\ used' = {real'[1]}
<1>1. PICK r \in Reals :
       LET m == [virt |-> 2, vppid |-> 1, rpid |-> r, rppid |-> Shell,
                 env |-> None,
                 tab |-> update(update(EmptyTable, 2, r), 1, Shell)]
       IN /\ real' = [real EXCEPT ![1] = r]
          /\ pgid' = [pgid EXCEPT ![1] = r]
          /\ used' = {r}
          /\ mem' = [mem EXCEPT ![1] = m]
          /\ ctab' = m.tab
  BY DEF Launch
<1>2. PICK T \in [Virts -> Pids \cup {None}] :
        /\ T = update(update(EmptyTable, 2, r), 1, Shell)
        /\ \A v \in Virts : T[v] = IF v = 2 THEN r ELSE IF v = 1 THEN Shell ELSE None
  <2>1. /\ update(update(EmptyTable, 2, r), 1, Shell) \in [Virts -> Pids \cup {None}]
        /\ \A v \in Virts : update(update(EmptyTable, 2, r), 1, Shell)[v]
                              = IF v = 2 THEN r ELSE IF v = 1 THEN Shell ELSE None
    BY Constants DEF EmptyTable, update
  <2> QED
    BY <2>1
<1>3. PICK m \in Mems : m = [virt |-> 2, vppid |-> 1, rpid |-> r, rppid |-> Shell,
                             env |-> None, tab |-> T]
  <2>1. [virt |-> 2, vppid |-> 1, rpid |-> r, rppid |-> Shell, env |-> None, tab |-> T] \in Mems
    BY <1>2, Constants DEF Mems
  <2> QED
    BY <2>1
<1>4. /\ real' = [real EXCEPT ![1] = r] /\ pgid' = [pgid EXCEPT ![1] = r] /\ used' = {r}
      /\ mem' = [mem EXCEPT ![1] = m] /\ ctab' = T
      /\ st' = [st EXCEPT ![1] = "run"] /\ next' = 3 /\ plist' = {1}
      /\ vid' = [vid EXCEPT ![1] = 2] /\ st[1] = "none"
      /\ UNCHANGED <<par, how, tlock, olock, oob, th, todo, coord, busy, image, restarts, wrong>>
  BY <1>1, <1>2, <1>3 DEF Launch
<1>5. /\ m.virt = 2 /\ m.vppid = 1 /\ m.rpid = r /\ m.rppid = Shell /\ m.tab = T
  BY <1>3
<1>6. \A p \in Procs : /\ st[p] = "none" /\ real[p] = None /\ vid[p] = None /\ par[p] = 0
                       /\ th[p] = AllIdle /\ image.procs = {} /\ LifeInv(p)
  BY <1>4, Constants DEF Base, LifeInv
<1>7. /\ st \in [Procs -> States] /\ real \in [Procs -> Reals \cup {None}]
      /\ pgid \in [Procs -> Pids \cup {None}] /\ mem \in [Procs -> Mems]
      /\ vid \in [Procs -> Virts \cup {None}] /\ 1 \in Procs
  BY Constants DEF Base, Kinds, KernelType, ProcType, HistType
<1>8. /\ st'[1] = "run" /\ real'[1] = r /\ pgid'[1] = r /\ mem'[1] = m /\ vid'[1] = 2
      /\ \A p \in Procs : p # 1 => st'[p] = st[p] /\ real'[p] = real[p] /\ vid'[p] = vid[p]
  BY <1>4, <1>7
<1>9. Kinds'
  <2>1. 3 \in 1 .. MaxVirt + 1
    BY ConstantsAssumption
  <2>2. KernelType' /\ ProcType'
    BY <1>4, <1>7, Constants DEF Base, Kinds, KernelType, ProcType, States
  <2>3. CoordType' /\ HistType'
    BY <1>2, <1>4, <1>7, <2>1, Constants DEF Base, Kinds, CoordType, HistType
  <2> QED
    BY <2>2, <2>3 DEF Kinds
<1>10. \A p \in Procs, t \in Threads : th'[p][t].pc = "user" /\ ~Holds(th'[p][t])
  BY <1>4, <1>6, IdleIs DEF AllIdle
<1>11. Known' = {1}
  BY <1>4, <1>6, <1>7, <1>8, <1>10 DEF Known, Alive
<1>12. ASSUME NEW p \in Procs PROVE LifeInv(p)'
  <2>1. CASE p = 1
    BY <1>4, <1>6, <1>7, <1>8, <2>1, Constants DEF LifeInv
  <2>2. CASE p # 1
    BY <1>4, <1>6, <1>7, <1>8, <2>2, Constants DEF LifeInv
  <2> QED
    BY <2>1, <2>2
<1>13. ASSUME NEW p \in Procs PROVE VidInv(p)'
  BY <1>4, <1>5, <1>6, <1>8, <1>11 DEF VidInv, None
<1>14. \A p \in Procs, t \in Threads : ThreadInv(p, t)'
  BY <1>10 DEF ThreadInv
<1>15. \A p, q \in Known' : UniqueInv(p, q)'
  BY <1>4, <1>6, <1>7, <1>11 DEF UniqueInv
<1>16. BusyInv'
  BY <1>6, <1>8, <1>10 DEF BusyInv
<1>17. ImageInv'
  BY <1>4, <1>6, <1>7 DEF ImageInv
<1>18. Base'
  BY <1>9, <1>12, <1>13, <1>14, <1>15, <1>16, <1>17 DEF Base
<1> QED
  BY <1>2, <1>4, <1>5, <1>6, <1>7, <1>8, <1>10, <1>11, <1>18

-----------------------------------------------------------------------------
(* Base holds *)

\* Every step is one of these.
LEMMA Steps ==
  ASSUME Base, [Next]_vars
  PROVE  \/ Settles \/ Launch \/ Checkpoint \/ Restart \/ ReleasePostrestart
         \/ \E p \in Procs : Registers(p) \/ coord_connect_with_process_on_restart(p)
         \/ \E p \in Procs, t \in Threads : \/ coord_atfork(p, t) /\ coord' # "dead"
                                            \/ \E c, r : Forks(p, t, c, r)
                                            \/ \E x : HookMove(p, t, x)
<1>1. CASE UNCHANGED vars
  BY <1>1, StutterSettles
<1>2. CASE CoordAtforkLost
  BY <1>2, CoordDies DEF CoordAtforkLost
<1>3. ASSUME NEW p \in Procs, ProcStep(p)
      PROVE  Settles \/ Registers(p) \/ coord_connect_with_process_on_restart(p)
  BY <1>3, ExecSettles, AtforkChildIs, ExitSettles, PostrestartOwnSettles, PostrestartEntrySettles
     DEF ProcStep
<1>4. ASSUME NEW p \in Procs, NEW t \in Threads, HookStep(p, t) \/ UserCall(p, t)
      PROVE  \/ Settles
             \/ coord_atfork(p, t) /\ coord' # "dead"
             \/ \E c, r : Forks(p, t, c, r)
             \/ \E x : HookMove(p, t, x)
  BY <1>4, ThreadStepMoves, CoordAtforkFails, ForkIs
<1> QED
  BY <1>1, <1>2, <1>3, <1>4 DEF Next

LEMMA BaseKept == ASSUME Base, [Next]_vars PROVE Base'
BY Steps, SettlesKeeps, LaunchKeeps, CheckpointKeeps, RestartKeeps, ReleaseKeeps, RegistersKeeps,
   ConnectKeeps, ReservesKeeps, ForksKeeps, HookMoveKeeps

\* Base holds of every behaviour.
THEOREM BaseInductive == Spec => []Base
<1>1. Base /\ UNCHANGED vars => Base'
  BY BaseKept
<1> QED
  BY BaseInitially, BaseKept, PTL DEF Spec

\* Every variable of the model keeps its type.
THEOREM TypeCorrect == Spec => []TypeOK
<1>1. Base => TypeOK
  <2> SUFFICES ASSUME Base PROVE TypeOK
    OBVIOUS
  <2>1. KernelType /\ ProcType /\ CoordType /\ HistType
    BY DEF Base, Kinds
  <2>2. image.procs \subseteq Procs
    BY <2>1 DEF HistType
  <2> QED
    BY <2>1, <2>2 DEF TypeOK, KernelType, ProcType, CoordType, HistType, Mems, States
<1> QED
  BY <1>1, BaseInductive, PTL

\* getpid and getppid of __getpid_hook and __getppid_hook: the virtual pid of a
\* process and of the one that forked it, which nobody else has.
THEOREM PidsAreStable == Spec => []PidsStable
<1>1. Base => PidsStable
  <2> SUFFICES ASSUME Base, NEW p \in Procs, st[p] = "run"
               PROVE  /\ getpid_hook(p) = vid[p]
                      /\ par[p] # 0 => getppid_hook(p) = vid[par[p]]
                      /\ \A q \in Procs \ {p} : st[q] = "run" => getpid_hook(q) # getpid_hook(p)
    BY DEF PidsStable
  <2>1. \A q \in Procs : st[q] = "run" => q \in Known /\ q \in plist
    BY DEF Known, Alive, Base, LifeInv
  <2>2. \A q \in Procs : st[q] = "run" => getpid_hook(q) = vid[q]
    BY <2>1, KnownKinds, Constants DEF getpid_hook, Base, VidInv
  <2>3. par[p] # 0 => getppid_hook(p) = vid[par[p]]
    <3>1. par[p] # 0 => mem[p].vppid = vid[par[p]]
      BY <2>1 DEF Base, VidInv
    <3>2. par[p] # 0 => vid[par[p]] # None
      BY PidKinds DEF Base, LifeInv
    <3> QED
      BY <3>1, <3>2 DEF getppid_hook
  <2>4. \A q \in Procs \ {p} : st[q] = "run" => vid[q] # vid[p]
    BY <2>1 DEF Base, UniqueInv
  <2> QED
    BY <2>2, <2>3, <2>4
<1> QED
  BY <1>1, BaseInductive, PTL

-----------------------------------------------------------------------------
(* The tables *)

\* The own virtual pids of a process the coordinator knows.
LEMMA OwnIds ==
  ASSUME Base, NEW p \in Procs, p \in plist \/ st[p] = "restoring"
  PROVE  /\ p \in Known /\ mem[p].virt = vid[p] /\ vid[p] \in Virts
         /\ mem[p].vppid \in Virts /\ mem[p].vppid < vid[p]
         /\ \A q \in Known : vid[q] # 1
         /\ st[p] # "restoring" => vid[p] < next /\ mem[p].vppid < next
<1>1. p \in Known
  BY DEF Known, Alive
<1>2. VidInv(p) /\ vid[p] \in Virts /\ next \in 1 .. MaxVirt + 1
  BY <1>1, KnownKinds DEF Base, Kinds, CoordType
<1>3. par[p] # 0 => vid[par[p]] \in Virts
  <2>1. par[p] # 0 => par[p] \in Procs /\ st[par[p]] # "none"
    BY PidKinds
  <2> QED
    BY <2>1, VarKinds DEF Base, LifeInv
<1>4. mem[p].virt = vid[p] /\ mem[p].vppid = IF par[p] = 0 THEN 1 ELSE vid[par[p]]
  BY <1>2 DEF VidInv
<1>5. mem[p].vppid \in Virts /\ mem[p].vppid < vid[p]
  <2>1. vid[p] # 1 /\ (par[p] # 0 => vid[par[p]] < vid[p])
    BY <1>2 DEF VidInv
  <2>2. CASE par[p] = 0
    BY <1>2, <1>4, <2>1, <2>2, Constants DEF Virts
  <2>3. CASE par[p] # 0
    BY <1>3, <1>4, <2>1, <2>3
  <2> QED
    BY <2>2, <2>3
<1>6. st[p] # "restoring" => vid[p] < next /\ mem[p].vppid < next
  <2>1. st[p] # "restoring" => vid[p] < next
    BY <1>1, <1>2 DEF VidInv
  <2>2. vid[p] \in Nat /\ mem[p].vppid \in Nat /\ next \in Nat
    BY <1>2, <1>5, Constants DEF Virts
  <2> QED
    BY <1>5, <2>1, <2>2
<1>7. \A q \in Known : vid[q] # 1
  BY KnownKinds DEF Base, VidInv
<1> QED
  BY <1>1, <1>2, <1>4, <1>5, <1>6, <1>7

\* What a living process, q, called like the parent of p, says of RealPpid.
LEMMA ParentIs ==
  ASSUME Base, NEW p \in Procs, p \in plist \/ st[p] = "restoring", Alive(p),
         NEW q \in Procs, q \in Known, vid[q] = mem[p].vppid
  PROVE  par[p] = q /\ (Alive(q) => RealPpid(p) = real[q])
<1>1. p \in Known /\ VidInv(p) /\ UniqueInv(p, q) /\ vid[q] # 1
  BY OwnIds DEF Base
<1>2. mem[p].vppid = IF par[p] = 0 THEN 1 ELSE vid[par[p]]
  BY <1>1 DEF VidInv
<1>3. par[p] # 0 /\ vid[q] = vid[par[p]]
  BY <1>1, <1>2
<1>4. par[p] = q
  BY <1>1, <1>3 DEF UniqueInv
<1> QED
  BY <1>3, <1>4 DEF RealPpid

\* The table of p holds its own entry, its parent's, and what it held before.
LEMMA OwnEntries ==
  ASSUME Base, NEW p \in Procs, p \in plist, Alive(p), st[p] # "restoring",
         NEW T \in [Virts -> Pids \cup {None}],
         NEW v \in Virts, NEW U,
         U = update(update(T, mem[p].virt, real[p]), mem[p].vppid, RealPpid(p))
  PROVE  /\ v \notin {mem[p].virt, mem[p].vppid} => U[v] = T[v]
         /\ v \in {mem[p].virt, mem[p].vppid} =>
              v < next /\ \A q \in Procs : Alive(q) /\ vid[q] = v => U[v] = real[q]
         /\ U[mem[p].virt] = real[p] /\ U[mem[p].vppid] = RealPpid(p)
<1>1. /\ p \in Known /\ mem[p].virt = vid[p] /\ vid[p] \in Virts
      /\ mem[p].vppid \in Virts /\ mem[p].vppid < vid[p]
      /\ vid[p] < next /\ mem[p].vppid < next
  BY OwnIds
<1>2. vid[p] # mem[p].vppid
  BY <1>1 DEF Virts
<1>3. /\ v \notin {mem[p].virt, mem[p].vppid} => U[v] = T[v]
      /\ U[mem[p].virt] = real[p] /\ U[mem[p].vppid] = RealPpid(p)
  BY <1>1, <1>2 DEF update
<1>4. ASSUME NEW q \in Procs, Alive(q), vid[q] = v, v = mem[p].virt PROVE U[v] = real[q]
  <2>1. q \in Known
    BY <1>4 DEF Known
  <2>2. q = p
    BY <1>1, <1>4, <2>1 DEF Base, UniqueInv
  <2> QED
    BY <1>3, <1>4, <2>2
<1>5. ASSUME NEW q \in Procs, Alive(q), vid[q] = v, v = mem[p].vppid PROVE U[v] = real[q]
  <2>1. q \in Known
    BY <1>5 DEF Known
  <2>2. RealPpid(p) = real[q]
    BY <1>5, <2>1, ParentIs
  <2> QED
    BY <1>3, <1>5, <2>2
<1> QED
  BY <1>1, <1>3, <1>4, <1>5

\* Steps that leave the entries in force as they are, or take some away.
LEMMA TablesWane ==
  ASSUME Base, Tables, Kinds', UNCHANGED <<real, vid, ctab, plist, next, busy, todo>>,
         coord' = "up" => coord = "up",
         \A q \in Procs : /\ Alive(q)' => Alive(q)
                          /\ st'[q] \in {"run", "forked", "fix"} => st'[q] = st[q],
         \A q \in Procs : mem'[q].env = mem[q].env, Erasing,
         \A p \in Procs, t \in Threads : st'[p] = "run" =>
           /\ th'[p][t].pc = "prepared" => th[p][t].pc = "prepared"
           /\ th'[p][t].pc \in {"forked", "update"} =>
                th[p][t].pc \in {"forked", "update"} /\ th'[p][t].arg = th[p][t].arg
  PROVE  Tables'
<1>1. CtabInv'
  BY DEF Tables, CtabInv
<1>2. \A p \in Procs, v \in Virts : Fresh(p, v)' => Fresh(p, v)
  BY DEF Fresh
<1>3. ASSUME NEW p \in Procs, NEW v \in Virts PROVE TabInv(p, v)'
  <2>1. TabInv(p, v) /\ mem'[p].tab[v] \in {mem[p].tab[v], None}
    BY DEF Tables, Erasing
  <2> QED
    BY <1>2, <2>1 DEF TabInv
<1>4. ASSUME NEW p \in Procs, NEW t \in Threads PROVE EnvInv(p, t)'
  <2>1. EnvInv(p, t)
    BY DEF Tables
  <2>2. busy.virt \in Virts \/ busy.virt = None
    BY DEF Base, Kinds, CoordType
  <2>3. ASSUME st'[p] = "run", th'[p][t].pc = "prepared", coord' = "up"
        PROVE  /\ mem'[p].env = busy'.virt
               /\ \A q \in Procs : Fresh(q, busy.virt)' => mem'[q].tab[busy'.virt] = None
    <3>1. st[p] = "run" /\ th[p][t].pc = "prepared" /\ coord = "up"
      BY <2>3
    <3>2. busy.virt \in Virts
      BY <3>1 DEF Base, BusyInv
    <3>3. /\ mem[p].env = busy.virt
          /\ \A q \in Procs : Fresh(q, busy.virt) => mem[q].tab[busy.virt] = None
      BY <2>1, <3>1 DEF EnvInv
    <3> QED
      BY <1>2, <3>2, <3>3 DEF Erasing
  <2>4. ASSUME st'[p] = "run", th'[p][t].pc \in {"forked", "update"}
        PROVE  mem'[p].env = vid'[th'[p][t].arg]
    BY <2>1, <2>4 DEF EnvInv
  <2> QED
    BY <2>3, <2>4 DEF EnvInv
<1> QED
  BY <1>1, <1>3, <1>4 DEF Tables

LEMMA MovesTables ==
  ASSUME Base, Tables, NEW p \in Procs, NEW t \in Threads, NEW x, HookMove(p, t, x), MemKept
  PROVE  Tables'
<1>1. Kinds /\ x \in ThreadState /\ th' = [th EXCEPT ![p][t] = x] /\ Proper(p, t, x)
  BY DEF Base, HookMove, Proper
<1>2. /\ th' \in [Procs -> [Threads -> ThreadState]]
      /\ th'[p][t] = x
      /\ \A q \in Procs, s \in Threads : q # p \/ s # t => th'[q][s] = th[q][s]
      /\ \A q \in Procs : q # p => th'[q] = th[q]
  BY <1>1, OneThread
<1>3. Kinds'
  BY HookMoveKeeps DEF Base
<1>4. \A q \in Procs : /\ Alive(q)' => Alive(q)
                       /\ st'[q] \in {"run", "forked", "fix"} => st'[q] = st[q]
  BY DEF HookMove, Waning, Alive
<1>5. ASSUME NEW q \in Procs, NEW s \in Threads
      PROVE  /\ th'[q][s].pc = "prepared" => th[q][s].pc = "prepared"
             /\ th'[q][s].pc \in {"forked", "update"} =>
                  th[q][s].pc \in {"forked", "update"} /\ th'[q][s].arg = th[q][s].arg
  <2>1. CASE q = p /\ s = t
    BY <1>1, <1>2, <2>1 DEF Proper
  <2>2. CASE q # p \/ s # t
    BY <1>2, <2>2
  <2> QED
    BY <2>1, <2>2
<1>6. /\ UNCHANGED <<real, vid, ctab, plist, next, busy, todo>> /\ coord = "up"
      /\ \A q \in Procs : mem'[q].env = mem[q].env
      /\ Erasing
  BY DEF HookMove, MemKept, IdsKept
<1> QED
  BY <1>3, <1>4, <1>5, <1>6, TablesWane

\* __fork_hook enters its child under the pid that was reserved for it.
LEMMA UpdateTables ==
  ASSUME Base, Tables, NEW p \in Procs, NEW t \in Threads, ForkUpdate(p, t)
  PROVE  Tables'
<1> DEFINE c == th[p][t].arg
<1>1. /\ st[p] = "run" /\ coord = "up" /\ th[p][t].pc = "update"
      /\ mem' = [mem EXCEPT ![p].tab = update(@, mem[p].env, real[c])]
      /\ th' = [th EXCEPT ![p][t] = Idle]
      /\ UNCHANGED <<st, real, vid, ctab, plist, next, busy, todo, coord>>
  BY DEF ForkUpdate, At_, env_get_pid_info, kernelVars, coordVars, histVars
<1>2. mem[p].env = vid[c] /\ c \in Procs /\ c \in Known /\ st[c] # "restoring"
  <2>1. ThreadInv(p, t) /\ EnvInv(p, t)
    BY DEF Base, Tables
  <2>2. c \in Procs /\ Holds(th[p][t])
    BY <1>1, <2>1 DEF ThreadInv, Holds
  <2>3. c \in Known
    BY <1>1, <2>2 DEF Known
  <2> QED
    BY <1>1, <2>1, <2>2, <2>3 DEF EnvInv, Base, LifeInv
<1>3. vid[c] \in Virts /\ vid[c] < next /\ real[c] \in Pids
  BY <1>2, KnownKinds, PidKinds, Constants DEF Base, VidInv
<1>4. mem \in [Procs -> Mems] /\ mem[p] \in Mems /\ mem[p].tab \in [Virts -> Pids \cup {None}]
  BY VarKinds DEF Mems
<1>5. PICK T \in [Virts -> Pids \cup {None}] :
        /\ mem' = [mem EXCEPT ![p].tab = T]
        /\ T[vid[c]] = real[c] /\ \A v \in Virts : v # vid[c] => T[v] = mem[p].tab[v]
  <2>1. update(mem[p].tab, mem[p].env, real[c]) \in [Virts -> Pids \cup {None}]
    BY <1>3, <1>4, TableKinds
  <2>2. /\ update(mem[p].tab, mem[p].env, real[c])[vid[c]] = real[c]
        /\ \A v \in Virts : v # vid[c] => update(mem[p].tab, mem[p].env, real[c])[v] = mem[p].tab[v]
    BY <1>2, <1>3, <1>4 DEF update
  <2>3. mem' = [mem EXCEPT ![p].tab = update(mem[p].tab, mem[p].env, real[c])]
    BY <1>1, <1>4
  <2> QED
    BY <2>1, <2>2, <2>3
<1>6. /\ mem'[p].tab = T /\ \A q \in Procs : mem'[q].env = mem[q].env
      /\ \A q \in Procs : q # p => mem'[q] = mem[q]
  BY <1>4, <1>5 DEF Mems
<1>7. /\ \A q \in Procs, s \in Threads : q # p \/ s # t => th'[q][s] = th[q][s]
      /\ th'[p][t].pc = "user"
  <2>1. /\ th' \in [Procs -> [Threads -> ThreadState]]
        /\ th'[p][t] = Idle
        /\ \A q \in Procs, s \in Threads : q # p \/ s # t => th'[q][s] = th[q][s]
        /\ \A q \in Procs : q # p => th'[q] = th[q]
    BY <1>1, VarKinds, IdleIs, OneThread
  <2> QED
    BY <2>1, IdleIs
<1> HIDE DEF c
<1>8. \A q \in Procs : \A v : Fresh(q, v)' <=> Fresh(q, v)
  BY <1>1 DEF Fresh
<1>9. CtabInv'
  BY <1>1 DEF Tables, CtabInv
<1>10. ASSUME NEW q \in Procs, NEW v \in Virts PROVE TabInv(q, v)'
  <2>1. TabInv(q, v) /\ \A a \in Procs : Alive(a)' <=> Alive(a)
    BY <1>1 DEF Tables, Alive
  <2>2. CASE q # p \/ v # vid[c]
    <3>1. mem'[q].tab[v] = mem[q].tab[v]
      BY <1>5, <1>6, <2>2
    <3> QED
      BY <1>1, <1>8, <2>1, <3>1 DEF TabInv
  <2>3. CASE q = p /\ v = vid[c]
    <3>1. \A a \in Procs : Alive(a) /\ vid[a] = v => a = c
      BY <1>2, <2>3 DEF Known, Base, UniqueInv
    <3> QED
      BY <1>1, <1>3, <1>5, <1>6, <2>1, <2>3, <3>1 DEF TabInv
  <2> QED
    BY <2>2, <2>3
<1>11. ASSUME NEW q \in Procs, NEW s \in Threads PROVE EnvInv(q, s)'
  <2>1. EnvInv(q, s)
    BY DEF Tables
  <2>2. CASE q = p /\ s = t
    BY <1>7, <2>2 DEF EnvInv
  <2>3. CASE q # p \/ s # t
    <3>1. th'[q][s] = th[q][s]
      BY <1>7, <2>3
    <3>2. ASSUME st[q] = "run", th[q][s].pc = "prepared", NEW a \in Procs, Fresh(a, busy.virt)
          PROVE  mem'[a].tab[busy.virt] = None
      <4>1. busy.virt \in Virts /\ vid[c] < busy.virt
        BY <1>1, <1>2, <3>2 DEF Base, BusyInv
      <4>2. vid[c] # busy.virt /\ mem[a].tab[busy.virt] = None
        BY <1>1, <1>3, <2>1, <3>2, <4>1 DEF EnvInv, Virts
      <4> QED
        BY <1>5, <1>6, <4>1, <4>2
    <3> QED
      BY <1>1, <1>6, <1>8, <2>1, <3>1, <3>2 DEF EnvInv
  <2> QED
    BY <2>2, <2>3
<1> QED
  BY <1>9, <1>10, <1>11 DEF Tables

\* The coordinator reserves a pid that nobody has an entry for.
LEMMA ReservesTables ==
  ASSUME OneForker, Base, Tables, NEW p \in Procs, NEW t \in Threads,
         coord_atfork(p, t), coord' # "dead"
  PROVE  Tables'
<1>1. /\ next \in Virts /\ coord' = "up" /\ busy' = [parent |-> p, virt |-> next]
      /\ next' = next + 1 /\ Goto(p, t, "prepared")
      /\ mem' = [mem EXCEPT ![p] = env_set_pid_info(@, next)]
      /\ UNCHANGED <<st, real, todo, ctab, plist, vid>>
  BY ReservesIs DEF kernelVars, histVars
<1>2. th[p][t].pc = "prepare" /\ st[p] = "run" /\ Serving
  BY DEF coord_atfork, At_
<1>3. /\ mem'[p].env = next /\ \A q \in Procs : q # p => mem'[q] = mem[q]
      /\ \A q \in Procs : mem'[q].tab = mem[q].tab
  BY <1>1, EnvSet
<1>4. \A q \in Procs, s \in Threads : q # p \/ s # t => th'[q][s] = th[q][s]
  <2> DEFINE x == [pc |-> "prepared", op |-> th[p][t].op, arg |-> th[p][t].arg,
                   list |-> th[p][t].list]
  <2>1. th' = [th EXCEPT ![p][t] = x]
    BY <1>1, VarKinds, GotoIs
  <2> HIDE DEF x
  <2> QED
    BY <2>1, VarKinds
<1>5. th'[p][t].pc = "prepared"
  BY <1>1, VarKinds DEF Goto
<1>6. \A q \in Procs : \A v : Fresh(q, v)' <=> Fresh(q, v)
  BY <1>1 DEF Fresh
<1>7. CtabInv'
  BY <1>1, Constants DEF Tables, CtabInv, Virts
<1>8. ASSUME NEW q \in Procs, NEW v \in Virts PROVE TabInv(q, v)'
  <2>1. TabInv(q, v) /\ \A a \in Procs : Alive(a)' <=> Alive(a)
    BY <1>1 DEF Tables, Alive
  <2>2. v < next => v < next + 1
    BY <1>1 DEF Virts
  <2> QED
    BY <1>1, <1>3, <1>6, <2>1, <2>2 DEF TabInv
<1>9. ASSUME NEW q \in Procs, NEW s \in Threads PROVE EnvInv(q, s)'
  <2>1. EnvInv(q, s) /\ ThreadInv(q, s) /\ ThreadInv(p, t)
    BY DEF Tables, Base
  <2>2. CASE q = p /\ s = t
    <3>1. \A a \in Procs : Fresh(a, next) => mem[a].tab[next] = None
      <4>1. ~(next < next)
        BY <1>1 DEF Virts
      <4> QED
        BY <1>1, <4>1 DEF Tables, TabInv
    <3>2. busy'.virt = next
      BY <1>1
    <3>3. \A a \in Procs : Fresh(a, busy.virt)' => mem'[a].tab[busy'.virt] = None
      BY <1>1, <1>3, <3>1, <3>2 DEF Fresh
    <3> QED
      BY <1>3, <1>5, <2>2, <3>2, <3>3 DEF EnvInv
  <2>3. CASE q # p \/ s # t
    <3>1. th'[q][s] = th[q][s]
      BY <1>4, <2>3
    <3>2. st[q] = "run" => th[q][s].pc # "prepared"
      BY <1>2, NotBlocked
    <3>3. q = p => th[q][s].pc \notin {"forked", "update"}
      BY <1>2, <2>1, <2>3 DEF ThreadInv, OneForker
    <3> QED
      BY <1>1, <1>3, <2>1, <3>1, <3>2, <3>3 DEF EnvInv
  <2> QED
    BY <2>2, <2>3
<1> QED
  BY <1>7, <1>8, <1>9 DEF Tables

\* The child starts with the table of its parent, in which it is not.
LEMMA ForksTables ==
  ASSUME Base, Tables, NEW p \in Procs, NEW t \in Threads, NEW c, NEW r, Forks(p, t, c, r)
  PROVE  Tables'
<1>1. /\ c \in Procs /\ c \notin Known
      /\ st'[c] = "forked" /\ real'[c] = r /\ mem'[c] = mem[p] /\ vid'[c] = busy.virt
      /\ \A q \in Procs : q # c => /\ st'[q] = st[q] /\ real'[q] = real[q]
                                   /\ mem'[q] = mem[q] /\ vid'[q] = vid[q]
      /\ th'[p][t].pc = "forked" /\ th'[p][t].arg = c
      /\ \A q \in Procs, s \in Threads : q # p \/ s # t => th'[q][s] = th[q][s]
  BY ForksIs
<1>2. /\ coord = "up" /\ st[p] = "run" /\ th[p][t].pc = "prepared" /\ st[c] = "none" /\ c # p
      /\ UNCHANGED <<next, ctab, plist, busy, todo, coord>>
  BY DEF Forks
<1>3. /\ busy.virt \in Virts /\ mem[p].env = busy.virt
      /\ \A q \in Procs : Fresh(q, busy.virt) => mem[q].tab[busy.virt] = None
  BY <1>2 DEF Base, BusyInv, Tables, EnvInv
<1>4. CtabInv'
  <2>1. plist \subseteq Known
    BY DEF Known, Base, Kinds, CoordType
  <2>2. \A q \in plist : q \in Procs /\ q # c
    BY <1>1, <2>1 DEF Known
  <2> QED
    BY <1>1, <1>2, <2>2 DEF Tables, CtabInv
<1>5. ASSUME NEW q \in Procs, q # c, NEW v \in Virts, Fresh(q, v), mem[q].tab[v] # None
      PROVE  v < next /\ \A a \in Procs : Alive(a)' /\ vid'[a] = v => mem[q].tab[v] = real'[a]
  <2>1. v < next /\ \A a \in Procs : Alive(a) /\ vid[a] = v => mem[q].tab[v] = real[a]
    BY <1>5 DEF Tables, TabInv
  <2>2. v # busy.virt
    BY <1>3, <1>5
  <2> QED
    BY <1>1, <2>1, <2>2 DEF Alive
<1>6. ASSUME NEW q \in Procs, NEW v \in Virts PROVE TabInv(q, v)'
  <2>1. CASE q = c
    <3>1. Fresh(p, v)
      BY <1>2 DEF Fresh
    <3> QED
      BY <1>1, <1>2, <1>5, <2>1, <3>1 DEF TabInv
  <2>2. CASE q # c
    <3>1. Fresh(q, v)' => Fresh(q, v)
      BY <1>1, <1>2, <2>2 DEF Fresh
    <3> QED
      BY <1>1, <1>2, <1>5, <2>2, <3>1 DEF TabInv
  <2> QED
    BY <2>1, <2>2
<1>7. ASSUME NEW q \in Procs, NEW s \in Threads PROVE EnvInv(q, s)'
  <2>1. EnvInv(q, s) /\ ThreadInv(q, s)
    BY DEF Tables, Base
  <2>2. CASE q = p /\ s = t
    BY <1>1, <1>2, <1>3, <2>2 DEF EnvInv
  <2>3. CASE (q # p \/ s # t) /\ q # c
    <3>1. th'[q][s] = th[q][s] /\ mem'[q] = mem[q] /\ st'[q] = st[q]
      BY <1>1, <2>3
    <3>2. st[q] = "run" => th[q][s].pc # "prepared"
      BY <1>2, <2>3 DEF Base, BusyInv
    <3>3. th[q][s].pc \in {"forked", "update"} => th[q][s].arg # c /\ th[q][s].arg \in Procs
      BY <1>2, <2>1 DEF ThreadInv, Holds
    <3> QED
      BY <1>1, <2>1, <3>1, <3>2, <3>3 DEF EnvInv
  <2>4. CASE q = c
    BY <1>1, <2>4 DEF EnvInv
  <2> QED
    BY <2>2, <2>3, <2>4
<1> QED
  BY <1>4, <1>6, <1>7 DEF Tables

\* The child gets its own entry, and the coordinator those of both.
LEMMA RegistersTables ==
  ASSUME Base, Tables, NEW c \in Procs, Registers(c)
  PROVE  Tables'
<1>1. /\ st[c] = "forked" /\ coord = "up" /\ par[c] \in Procs /\ par[c] \in plist
      /\ vid[c] \in Virts /\ vid[par[c]] \in Virts /\ vid[par[c]] < vid[c]
      /\ ctab' = update(update(ctab, vid[c], real[c]), vid[par[c]], real[par[c]])
      /\ plist' = plist \cup {c}
      /\ UNCHANGED <<coord, real, th, todo, next, vid>>
  BY DEF Registers
<1>2. /\ \A q \in Procs : q # c => mem'[q] = mem[q]
      /\ mem'[c].env = mem[c].env /\ mem'[c].tab = update(mem[c].tab, vid[c], real[c])
      /\ st'[c] = "run" /\ \A q \in Procs : q # c => st'[q] = st[q]
  BY RegistersIs
<1>3. c \in Known /\ plist \subseteq Known /\ Known \subseteq Procs
  BY <1>1 DEF Known, Alive, Base, Kinds, CoordType
<1>4. vid[c] < next /\ vid[par[c]] < next /\ vid[c] # vid[par[c]]
  <2>1. vid[c] < next /\ next \in Nat
    BY <1>1, <1>3, Constants DEF Base, VidInv, Kinds, CoordType
  <2> QED
    BY <1>1, <2>1 DEF Virts
<1>5. CtabInv'
  <2>1. ctab \in [Virts -> Pids \cup {None}] /\ CtabInv
    BY DEF Base, Kinds, CoordType, Tables
  <2>2. /\ ctab'[vid[c]] = real[c] /\ ctab'[vid[par[c]]] = real[par[c]]
        /\ \A v \in Virts : v \notin {vid[c], vid[par[c]]} => ctab'[v] = ctab[v]
    BY <1>1, <1>4, <2>1 DEF update
  <2>3. \A v \in Virts : ctab'[v] # None => v < next'
    BY <1>1, <1>4, <2>1, <2>2 DEF CtabInv
  <2>4. ASSUME NEW q \in plist PROVE ctab'[vid[q]] = real[q]
    <3>1. q \in Known /\ par[c] \in Known /\ vid[q] \in Virts
      BY <1>1, <1>3, KnownKinds
    <3>2. (vid[q] = vid[c] => q = c) /\ (vid[q] = vid[par[c]] => q = par[c])
      BY <1>3, <3>1 DEF Base, UniqueInv
    <3> QED
      BY <2>1, <2>2, <3>1, <3>2 DEF CtabInv
  <2> QED
    BY <1>1, <2>2, <2>3, <2>4 DEF CtabInv
<1>6. \A q \in Procs : Alive(q)' <=> Alive(q)
  BY <1>1, <1>2 DEF Alive
<1>7. \A q \in Procs, v \in Virts : Fresh(q, v)' => Fresh(q, v)
  BY <1>1, <1>2 DEF Fresh
<1>8. ASSUME NEW q \in Procs, NEW v \in Virts PROVE TabInv(q, v)'
  <2>1. TabInv(q, v)
    BY DEF Tables
  <2>2. CASE q # c
    BY <1>1, <1>2, <1>6, <1>7, <2>1, <2>2 DEF TabInv
  <2>3. CASE q = c /\ v # vid[c]
    <3>1. mem'[c].tab[v] = mem[c].tab[v]
      BY <1>2, <2>3, VarKinds DEF update, Mems
    <3> QED
      BY <1>1, <1>6, <1>7, <2>1, <2>3, <3>1 DEF TabInv
  <2>4. CASE q = c /\ v = vid[c]
    <3>1. mem'[c].tab[v] = real[c]
      BY <1>2, <2>4, VarKinds DEF update, Mems
    <3>2. \A a \in Procs : Alive(a) /\ vid[a] = v => a = c
      BY <1>3, <2>4 DEF Known, Base, UniqueInv
    <3> QED
      BY <1>1, <1>4, <1>6, <2>4, <3>1, <3>2 DEF TabInv
  <2> QED
    BY <2>2, <2>3, <2>4
<1>9. ASSUME NEW q \in Procs, NEW s \in Threads PROVE EnvInv(q, s)'
  <2>1. EnvInv(q, s)
    BY DEF Tables
  <2>2. CASE q = c
    <3>1. th'[c][s].pc = "user"
      BY <1>1, IdleThreads
    <3> QED
      BY <2>2, <3>1 DEF EnvInv
  <2>3. CASE q # c
    <3>1. st[q] = "run" => th[q][s].pc # "prepared"
      BY <1>1 DEF Base, BusyInv
    <3>2. st'[q] = st[q] /\ mem'[q] = mem[q] /\ th'[q][s] = th[q][s] /\ vid' = vid
      BY <1>1, <1>2, <2>3
    <3> QED
      BY <2>1, <3>1, <3>2 DEF EnvInv
  <2> QED
    BY <2>2, <2>3
<1> QED
  BY <1>5, <1>8, <1>9 DEF Tables

\* Until all are back nobody uses a table; what the coordinator collects is right.
LEMMA ConnectTables ==
  ASSUME Base, Tables, NEW p \in Procs, coord_connect_with_process_on_restart(p)
  PROVE  Tables'
<1>1. /\ st[p] = "restoring" /\ plist' = plist \cup {p}
      /\ ctab' = update(update(ctab, mem[p].virt, real[p]), mem[p].vppid, RealPpid(p))
      /\ next' = IF mem[p].virt >= next THEN mem[p].virt + 1 ELSE next
      /\ st' = [st EXCEPT ![p] = "barrier"]
      /\ UNCHANGED <<real, vid>>
  BY DEF coord_connect_with_process_on_restart, histVars
<1>2. /\ p \in Known /\ mem[p].virt = vid[p] /\ vid[p] \in Virts
      /\ mem[p].vppid \in Virts /\ mem[p].vppid < vid[p] /\ Alive(p)
  BY <1>1, OwnIds DEF Alive
<1>3. /\ \A q \in Procs : st[q] \notin {"forked", "run", "released", "fix", "zombie"}
      /\ \A q \in plist : Alive(q) /\ q \in Procs /\ q \in Known
  BY <1>1 DEF Base, LifeInv, Kinds, CoordType, Known
<1>4. /\ ctab \in [Virts -> Pids \cup {None}] /\ CtabInv /\ next \in 1 .. MaxVirt + 1
      /\ st \in [Procs -> States]
  BY DEF Base, Kinds, KernelType, CoordType, Tables
<1>5. next' \in Nat /\ vid[p] < next' /\ mem[p].vppid < next' /\ next <= next' /\ vid[p] # mem[p].vppid
  BY <1>1, <1>2, <1>4, Constants DEF Virts
<1>6. /\ ctab'[vid[p]] = real[p] /\ ctab'[mem[p].vppid] = RealPpid(p)
      /\ \A v \in Virts : v \notin {vid[p], mem[p].vppid} => ctab'[v] = ctab[v]
  BY <1>1, <1>2, <1>4, <1>5 DEF update
<1>7. \A v \in Virts : ctab'[v] # None => v < next'
  <2>1. ASSUME NEW v \in Virts, v < next PROVE v < next'
    BY <1>4, <1>5, <2>1, Constants DEF Virts
  <2> QED
    BY <1>4, <1>5, <1>6, <2>1 DEF CtabInv
<1>8. ASSUME NEW q \in plist PROVE ctab'[vid[q]] = real[q]
  <2>1. vid[q] \in Virts /\ q \in Procs /\ q \in Known /\ Alive(q)
    BY <1>3, KnownKinds
  <2>2. vid[q] = vid[p] => q = p
    BY <1>2, <2>1 DEF Base, UniqueInv
  <2>3. vid[q] = mem[p].vppid => RealPpid(p) = real[q]
    BY <1>1, <1>2, <2>1, ParentIs
  <2> QED
    BY <1>4, <1>6, <2>1, <2>2, <2>3 DEF CtabInv
<1>9. \A q \in Procs : st'[q] \notin {"forked", "run", "fix"}
  BY <1>1, <1>3, <1>4
<1> QED
  BY <1>1, <1>6, <1>7, <1>8, <1>9 DEF Tables, CtabInv, TabInv, EnvInv, Fresh

LEMMA ReleaseTables ==
  ASSUME Base, Tables, ReleasePostrestart
  PROVE  Tables'
<1>1. /\ st' = [q \in Procs |-> IF st[q] = "barrier" THEN "released" ELSE st[q]]
      /\ UNCHANGED <<real, ctab, next, plist, vid>>
  BY DEF ReleasePostrestart, coordVars, histVars
<1>2. \A q \in Procs : st[q] \notin {"forked", "run", "fix"}
  BY DEF ReleasePostrestart, Base, LifeInv
<1>3. \A q \in Procs : st'[q] \notin {"forked", "run", "fix"}
  BY <1>1, <1>2
<1> QED
  BY <1>1, <1>3 DEF Tables, CtabInv, TabInv, EnvInv, Fresh

LEMMA RestartTables ==
  ASSUME Base, Restart PROVE Tables'
<1>1. \A q \in Procs : st'[q] \in {"restoring", "none", "gone"}
  BY DEF Restart
<1>2. plist' = {} /\ \A v \in Virts : ctab'[v] = None
  BY DEF Restart, EmptyTable
<1> QED
  BY <1>1, <1>2 DEF Tables, CtabInv, TabInv, EnvInv, Fresh

LEMMA LaunchTables ==
  ASSUME Base, Launch PROVE Tables'
<1>1. /\ \A p \in Procs : st[p] = "none" /\ (p # 1 => st'[p] = "none")
      /\ plist' = {1} /\ vid'[1] = 2 /\ st'[1] = "run" /\ real'[1] \in Reals /\ next' = 3
      /\ \A t \in Threads : th'[1][t].pc = "user"
      /\ \A v \in Virts : /\ mem'[1].tab[v] = (IF v = 2 THEN real'[1] ELSE IF v = 1 THEN Shell ELSE None)
                          /\ ctab'[v] = mem'[1].tab[v]
  BY LaunchKeeps
<1>2. CtabInv'
  BY <1>1, Constants DEF CtabInv
<1>3. \A p \in Procs, v \in Virts : TabInv(p, v)'
  <2>1. \A q \in Procs : Alive(q)' => q = 1
    BY <1>1 DEF Alive
  <2>2. \A v \in Virts : TabInv(1, v)'
    BY <1>1, <2>1, Constants DEF TabInv
  <2>3. \A p \in Procs, v \in Virts : p # 1 => TabInv(p, v)'
    BY <1>1 DEF TabInv, Fresh
  <2> QED
    BY <2>2, <2>3
<1>4. \A p \in Procs, t \in Threads : EnvInv(p, t)'
  BY <1>1 DEF EnvInv
<1> QED
  BY <1>2, <1>3, <1>4 DEF Tables

LEMMA SameTables ==
  ASSUME Tables, UNCHANGED <<st, real, vid, mem, th, todo, ctab, next, plist, busy>>,
         coord' = "up" => coord = "up"
  PROVE  Tables'
<1>1. CtabInv'
  BY DEF Tables, CtabInv
<1>2. \A p \in Procs, v \in Virts : TabInv(p, v)'
  BY DEF Tables, TabInv, Fresh, Alive
<1>3. \A p \in Procs, t \in Threads : EnvInv(p, t)'
  BY DEF Tables, EnvInv, Fresh
<1> QED
  BY <1>1, <1>2, <1>3 DEF Tables

\* XND_EXIT takes one entry away.
LEMMA ExitTables ==
  ASSUME Base, Tables, NEW q \in Procs, proc_exit_callback(q)
  PROVE  Tables'
<1>1. /\ q \in plist /\ plist' = plist \ {q} /\ ctab' = erase(ctab, mem[q].virt)
      /\ UNCHANGED <<st, real, vid, mem, th, todo, next, busy, coord>>
  BY DEF proc_exit_callback, kernelVars, procVars, histVars
<1>2. mem[q].virt = vid[q] /\ vid[q] \in Virts /\ q \in Known
  BY <1>1, OwnIds
<1>3. ctab \in [Virts -> Pids \cup {None}] /\ CtabInv
  BY DEF Base, Kinds, CoordType, Tables
<1>4. ctab'[vid[q]] = None /\ \A v \in Virts : v # vid[q] => ctab'[v] = ctab[v]
  BY <1>1, <1>2, <1>3, Constants DEF erase
<1>5. \A a \in plist' : vid[a] # vid[q] /\ vid[a] \in Virts
  <2>1. \A a \in plist : a \in Known
    BY DEF Known, Base, Kinds, CoordType
  <2> QED
    BY <1>1, <1>2, <2>1, KnownKinds DEF Base, UniqueInv
<1>6. CtabInv'
  BY <1>1, <1>3, <1>4, <1>5 DEF CtabInv
<1>7. \A p \in Procs, v \in Virts : TabInv(p, v)'
  BY <1>1 DEF Tables, TabInv, Fresh, Alive
<1>8. \A p \in Procs, t \in Threads : EnvInv(p, t)'
  BY <1>1 DEF Tables, EnvInv, Fresh
<1> QED
  BY <1>6, <1>7, <1>8 DEF Tables

\* A process p has a new table, and may be done with pid_table_postrestart.
LEMMA NewTableKeeps ==
  ASSUME Base, Tables, NEW p \in Procs,
         UNCHANGED <<real, vid, ctab, plist, next, busy, th, coord>>,
         \A q \in Procs : q # p => mem'[q] = mem[q] /\ st'[q] = st[q] /\ todo'[q] = todo[q],
         mem'[p].env = mem[p].env, Alive(p), Alive(p)', st[p] # "forked", st'[p] # "forked",
         \A v \in Virts : TabInv(p, v)',
         \A q \in Procs, s \in Threads :
           coord = "up" /\ st[q] = "run" /\ th[q][s].pc = "prepared" /\ Fresh(p, busy.virt)'
             => mem'[p].tab[busy.virt] = None
  PROVE  Tables'
<1>1. CtabInv'
  BY DEF Tables, CtabInv
<1>2. \A q \in Procs : Alive(q)' <=> Alive(q)
  BY DEF Alive
<1>3. ASSUME NEW q \in Procs, NEW v \in Virts PROVE TabInv(q, v)'
  <2>1. CASE q # p
    <3>1. TabInv(q, v) /\ mem'[q] = mem[q] /\ (Fresh(q, v)' <=> Fresh(q, v))
      BY <2>1 DEF Tables, Fresh
    <3> QED
      BY <1>2, <3>1 DEF TabInv
  <2> QED
    BY <2>1
<1>4. ASSUME NEW q \in Procs, NEW s \in Threads PROVE EnvInv(q, s)'
  <2>1. EnvInv(q, s)
    BY DEF Tables
  <2>2. mem'[q].env = mem[q].env /\ th'[q][s] = th[q][s]
    OBVIOUS
  <2>3. st[q] # "run" /\ st'[q] = "run" => th[q][s].pc = "user"
    <3>1. st'[q] = "run" /\ st[q] # "run" => q = p /\ st[p] \notin {"zombie", "gone"}
      BY DEF Alive
    <3> QED
      BY <3>1, IdleThreads
  <2>4. ASSUME st[q] = "run", th[q][s].pc = "prepared", coord = "up", NEW a \in Procs,
               Fresh(a, busy.virt)'
        PROVE  mem'[a].tab[busy.virt] = None
    <3>1. CASE a = p
      BY <2>4, <3>1
    <3>2. CASE a # p
      <4>1. Fresh(a, busy.virt)
        BY <2>4, <3>2 DEF Fresh
      <4> QED
        BY <2>1, <2>4, <3>2, <4>1 DEF EnvInv
    <3> QED
      BY <3>1, <3>2
  <2>5. ASSUME st'[q] = "run", th'[q][s].pc = "prepared", coord' = "up"
        PROVE  /\ mem'[q].env = busy'.virt
               /\ \A a \in Procs : Fresh(a, busy.virt)' => mem'[a].tab[busy'.virt] = None
    <3>1. st[q] = "run" /\ th[q][s].pc = "prepared" /\ coord = "up"
      BY <2>2, <2>3, <2>5
    <3> QED
      BY <2>1, <2>2, <2>4, <3>1 DEF EnvInv
  <2>6. ASSUME st'[q] = "run", th'[q][s].pc \in {"forked", "update"}
        PROVE  mem'[q].env = vid'[th'[q][s].arg]
    BY <2>1, <2>2, <2>3, <2>6 DEF EnvInv
  <2> QED
    BY <2>5, <2>6 DEF EnvInv
<1> QED
  BY <1>1, <1>3, <1>4 DEF Tables

LEMMA ExecTables ==
  ASSUME Base, Tables, NEW p \in Procs, Exec(p) PROVE Tables'
<1>1. /\ st[p] = "run" /\ Serving /\ p \in plist
      /\ UNCHANGED <<st, real, vid, ctab, plist, next, busy, th, coord, todo>>
      /\ mem[p] \in Mems /\ real[p] \in Pids /\ RealPpid(p) \in Pids
  BY VarKinds, PidKinds, Constants DEF Exec, kernelVars, coordVars, histVars
<1>2. Alive(p) /\ Alive(p)'
  BY <1>1 DEF Alive
<1> DEFINE T == update(update(EmptyTable, mem[p].virt, real[p]), mem[p].vppid, RealPpid(p))
<1>3. EmptyTable \in [Virts -> Pids \cup {None}] /\ \A v \in Virts : EmptyTable[v] = None
  BY DEF EmptyTable
<1>4. T \in [Virts -> Pids \cup {None}] /\ mem' = [mem EXCEPT ![p].rppid = RealPpid(p), ![p].tab = T]
  BY <1>1, <1>3, TableKinds DEF Exec
<1>5. \A v \in Virts :
        /\ v \notin {mem[p].virt, mem[p].vppid} => T[v] = None
        /\ v \in {mem[p].virt, mem[p].vppid} =>
             v < next /\ \A q \in Procs : Alive(q) /\ vid[q] = v => T[v] = real[q]
  BY <1>1, <1>2, <1>3, OwnEntries
<1> HIDE DEF T
<1>6. /\ \A q \in Procs : q # p => mem'[q] = mem[q]
      /\ mem'[p].env = mem[p].env /\ mem'[p].tab = T
  BY <1>1, <1>4, NewTables
<1>7. ASSUME NEW v \in Virts PROVE TabInv(p, v)'
  <2>1. \A q \in Procs : Alive(q)' <=> Alive(q)
    BY <1>1 DEF Alive
  <2> QED
    BY <1>1, <1>5, <1>6, <2>1 DEF TabInv
<1>8. \A q \in Procs, s \in Threads : st[q] = "run" => th[q][s].pc # "prepared"
  BY <1>1, NotBlocked
<1>9. \A q \in Procs : st'[q] = st[q] /\ todo'[q] = todo[q]
  BY <1>1
<1> QED
  BY <1>1, <1>2, <1>6, <1>7, <1>8, <1>9, NewTableKeeps

LEMMA PostrestartOwnTables ==
  ASSUME Base, Tables, NEW p \in Procs, PostrestartOwn(p) PROVE Tables'
<1>1. /\ st[p] = "released" /\ coord = "up"
      /\ UNCHANGED <<real, vid, ctab, plist, next, busy, th, coord>>
      /\ mem[p] \in Mems /\ real[p] \in Pids /\ RealPpid(p) \in Pids
  BY VarKinds, PidKinds, Constants DEF PostrestartOwn, coordVars, histVars
<1> DEFINE T == update(update(mem[p].tab, mem[p].virt, real[p]), mem[p].vppid, RealPpid(p))
           left == {v \in Virts : mem[p].tab[v] # None} \ {mem[p].virt, mem[p].vppid}
<1>2. p \in plist /\ Alive(p) /\ mem[p].tab \in [Virts -> Pids \cup {None}]
  BY <1>1 DEF Base, LifeInv, Alive, Mems
<1>3. /\ T \in [Virts -> Pids \cup {None}]
      /\ mem' = [mem EXCEPT ![p].rpid = real[p], ![p].rppid = RealPpid(p), ![p].tab = T]
      /\ todo' = [todo EXCEPT ![p] = left]
      /\ st' = [st EXCEPT ![p] = IF left = {} THEN "run" ELSE "fix"]
  BY <1>1, <1>2, TableKinds DEF PostrestartOwn
<1>4. \A v \in Virts :
        /\ v \notin {mem[p].virt, mem[p].vppid} => T[v] = mem[p].tab[v]
        /\ v \in {mem[p].virt, mem[p].vppid} =>
             v < next /\ \A q \in Procs : Alive(q) /\ vid[q] = v => T[v] = real[q]
  BY <1>1, <1>2, OwnEntries
<1>5. \A v \in Virts : v \notin left /\ v \notin {mem[p].virt, mem[p].vppid} => T[v] = None
  BY <1>4
<1> HIDE DEF T, left
<1>6. /\ \A q \in Procs : q # p => mem'[q] = mem[q]
      /\ mem'[p].env = mem[p].env /\ mem'[p].tab = T
  BY <1>1, <1>3, NewTables
<1>7. st \in [Procs -> States] /\ todo \in [Procs -> SUBSET Virts]
  BY DEF Base, Kinds, KernelType, ProcType
<1>8. /\ todo'[p] = left /\ st'[p] = IF left = {} THEN "run" ELSE "fix"
      /\ \A q \in Procs : q # p => st'[q] = st[q] /\ todo'[q] = todo[q]
  BY <1>3, <1>7
<1>9. Alive(p)' /\ \A q \in Procs : Alive(q)' <=> Alive(q)
  BY <1>2, <1>8 DEF Alive
<1>10. \A v : Fresh(p, v)' => v \notin left
  BY <1>8 DEF Fresh
<1>11. ASSUME NEW v \in Virts PROVE TabInv(p, v)'
  BY <1>1, <1>4, <1>5, <1>6, <1>9, <1>10 DEF TabInv
<1>12. ASSUME NEW q \in Procs, NEW s \in Threads, st[q] = "run", th[q][s].pc = "prepared",
              Fresh(p, busy.virt)'
       PROVE  mem'[p].tab[busy.virt] = None
  <2>1. busy.virt \in Virts /\ \A a \in Known : vid[a] < busy.virt
    BY <1>1, <1>12 DEF Base, BusyInv
  <2>2. /\ p \in Known /\ mem[p].virt = vid[p] /\ vid[p] \in Virts
        /\ mem[p].vppid \in Virts /\ mem[p].vppid < vid[p]
    BY <1>2, OwnIds
  <2>3. busy.virt \notin {mem[p].virt, mem[p].vppid}
    <3>1. vid[p] < busy.virt
      BY <2>1, <2>2
    <3> QED
      BY <2>1, <2>2, <3>1 DEF Virts
  <2>4. busy.virt \notin left
    BY <1>1, <1>8, <1>12 DEF Fresh
  <2> QED
    BY <1>5, <1>6, <2>1, <2>3, <2>4
<1> QED
  BY <1>1, <1>2, <1>6, <1>8, <1>9, <1>11, <1>12, NewTableKeeps

\* The answer of the coordinator once everybody is connected: that of its table.
LEMMA AnswerIs ==
  ASSUME Base, Tables, NEW v \in Virts
  PROVE  coord_send_virt_to_real(v) = {ctab[v]}
<1>1. ASSUME NEW q \in plist, mem[q].virt = v PROVE ctab[v] # None
  <2>1. q \in Procs /\ q \in Known /\ vid[q] = v
    BY <1>1, OwnIds DEF Base, Kinds, CoordType
  <2>2. real[q] \in Reals
    BY <2>1, KnownKinds, PidKinds
  <2>3. ctab[vid[q]] = real[q]
    BY <1>1 DEF Tables, CtabInv
  <2> QED
    BY <2>1, <2>2, <2>3, Constants
<1>2. CASE ctab[v] = None
  <2>1. {q \in plist : mem[q].virt = v} = {}
    BY <1>1, <1>2
  <2> QED
    BY <1>2, <2>1 DEF coord_send_virt_to_real, virtual_to_real, proc_list_virt_to_real
<1>3. CASE ctab[v] # None
  BY <1>3 DEF coord_send_virt_to_real, virtual_to_real
<1> QED
  BY <1>2, <1>3

LEMMA PostrestartEntryTables ==
  ASSUME Base, Tables, NEW p \in Procs, PostrestartEntry(p) PROVE Tables'
<1>1. /\ st[p] = "fix" /\ Serving
      /\ UNCHANGED <<real, vid, ctab, plist, next, busy, th, coord>>
      /\ mem[p] \in Mems /\ todo[p] \subseteq Virts
  BY VarKinds DEF PostrestartEntry, coordVars, histVars, Kinds, ProcType
<1>2. PICK v \in todo[p] : \E r \in coord_send_virt_to_real(v) :
       /\ mem' = [mem EXCEPT ![p].tab = IF r = None THEN erase(@, v) ELSE update(@, v, r)]
       /\ todo' = [todo EXCEPT ![p] = @ \ {v}]
       /\ st' = IF todo[p] = {v} THEN [st EXCEPT ![p] = "run"] ELSE st
  BY DEF PostrestartEntry
<1>3. v \in Virts /\ coord_send_virt_to_real(v) = {ctab[v]}
  BY <1>1, AnswerIs
<1>4. PICK r : r = ctab[v]
  OBVIOUS
<1>5. /\ mem' = [mem EXCEPT ![p].tab = IF r = None THEN erase(@, v) ELSE update(@, v, r)]
      /\ todo' = [todo EXCEPT ![p] = @ \ {v}]
      /\ st' = IF todo[p] = {v} THEN [st EXCEPT ![p] = "run"] ELSE st
  BY <1>2, <1>3, <1>4
<1>6. r \in Pids \cup {None}
  BY <1>3, <1>4 DEF Base, Kinds, CoordType
<1> DEFINE T == IF r = None THEN erase(mem[p].tab, v) ELSE update(mem[p].tab, v, r)
<1>7. mem[p].tab \in [Virts -> Pids \cup {None}]
  BY <1>1 DEF Mems
<1>8. /\ T \in [Virts -> Pids \cup {None}] /\ mem' = [mem EXCEPT ![p].tab = T]
      /\ T[v] = r /\ \A w \in Virts : w # v => T[w] = mem[p].tab[w]
  <2>1. CASE r = None
    <3>1. T = [mem[p].tab EXCEPT ![v] = None]
      BY <1>3, <2>1, Constants DEF erase
    <3> QED
      BY <1>1, <1>3, <1>5, <1>7, <2>1, <3>1, VarKinds
  <2>2. CASE r # None
    <3>1. T = [mem[p].tab EXCEPT ![v] = r]
      BY <2>2 DEF update
    <3> QED
      BY <1>1, <1>3, <1>5, <1>6, <1>7, <2>2, <3>1, VarKinds
  <2> QED
    BY <2>1, <2>2
<1> HIDE DEF T
<1>9. /\ \A q \in Procs : q # p => mem'[q] = mem[q]
      /\ mem'[p].env = mem[p].env /\ mem'[p].tab = T
  BY <1>6, <1>8, NewTables
<1>10. st \in [Procs -> States] /\ todo \in [Procs -> SUBSET Virts]
  BY DEF Base, Kinds, KernelType, ProcType
<1>11. /\ todo'[p] = todo[p] \ {v} /\ st'[p] \in {"run", "fix"} /\ (st'[p] = "run" => todo[p] = {v})
       /\ \A q \in Procs : q # p => st'[q] = st[q] /\ todo'[q] = todo[q]
  BY <1>1, <1>5, <1>10
<1>12. Alive(p) /\ Alive(p)' /\ \A q \in Procs : Alive(q)' <=> Alive(q)
  BY <1>1, <1>11 DEF Alive
<1>13. \A q \in Procs : Alive(q) => q \in plist
  <2>1. \A q \in Procs : st[q] \notin {"forked", "restoring"}
    BY <1>1, NotBlocked DEF Base, LifeInv
  <2> QED
    BY <2>1 DEF Alive, Base, LifeInv
<1>14. ASSUME NEW w \in Virts PROVE TabInv(p, w)'
  <2>1. CASE w = v
    <3>1. CtabInv
      BY DEF Tables
    <3>2. r # None => v < next /\ \A q \in Procs : Alive(q) /\ vid[q] = v => r = real[q]
      BY <1>3, <1>4, <1>13, <3>1 DEF CtabInv
    <3> QED
      BY <1>1, <1>8, <1>9, <1>12, <2>1, <3>2 DEF TabInv
  <2>2. CASE w # v
    <3>1. TabInv(p, w) /\ (Fresh(p, w)' => Fresh(p, w))
      BY <1>1, <1>11, <2>2 DEF Tables, Fresh
    <3>2. mem'[p].tab[w] = mem[p].tab[w]
      BY <1>8, <1>9, <2>2
    <3> QED
      BY <1>1, <1>12, <3>1, <3>2 DEF TabInv
  <2> QED
    BY <2>1, <2>2
<1>15. \A q \in Procs, s \in Threads : st[q] = "run" => th[q][s].pc # "prepared"
  BY <1>1, NotBlocked
<1> QED
  BY <1>1, <1>9, <1>11, <1>12, <1>14, <1>15, NewTableKeeps

LEMMA TablesKept ==
  ASSUME OneForker, Base, Tables, [Next]_vars PROVE Tables'
<1>1. CASE UNCHANGED vars
  BY <1>1, SameTables DEF vars, kernelVars, procVars, coordVars, histVars
<1>2. CASE CoordAtforkLost
  BY <1>2, SameTables DEF CoordAtforkLost, kernelVars, procVars, histVars
<1>3. CASE Launch
  BY <1>3, LaunchTables
<1>4. CASE Checkpoint
  BY <1>4, SameTables DEF Checkpoint, kernelVars, procVars, coordVars
<1>5. CASE ReleasePostrestart
  BY <1>5, ReleaseTables
<1>6. CASE Restart
  BY <1>6, RestartTables
<1>7. ASSUME NEW p \in Procs, AtforkChild(p) PROVE Tables'
  <2>1. CASE coord' = "dead"
    <3>1. UNCHANGED <<st, real, vid, mem, th, todo, ctab, next, plist, busy>>
      BY <1>7, <2>1 DEF AtforkChild, histVars
    <3> QED
      BY <2>1, <3>1, SameTables
  <2>2. CASE coord' # "dead"
    <3>1. Registers(p)
      BY <1>7, <2>2, AtforkChildIs
    <3> QED
      BY <3>1, RegistersTables
  <2> QED
    BY <2>1, <2>2
<1>8. ASSUME NEW p \in Procs, ProcStep(p) PROVE Tables'
  BY <1>7, <1>8, ExecTables, ExitTables, ConnectTables, PostrestartOwnTables, PostrestartEntryTables
     DEF ProcStep
<1>9. ASSUME NEW p \in Procs, NEW t \in Threads, HookStep(p, t) \/ UserCall(p, t) PROVE Tables'
  <2>1. CASE coord_atfork(p, t) /\ coord' = "dead"
    <3>1. coord = "up"
      BY <2>1 DEF coord_atfork, Serving
    <3>2. UNCHANGED <<st, real, vid, mem, th, todo, ctab, next, plist, busy>>
      BY <2>1, <3>1 DEF coord_atfork, kernelVars, histVars
    <3> QED
      BY <2>1, <3>2, SameTables
  <2>2. CASE coord_atfork(p, t) /\ coord' # "dead"
    BY <2>2, ReservesTables
  <2>3. CASE Fork(p, t)
    BY <2>3, ForkIs, ForksTables
  <2>4. CASE ForkUpdate(p, t)
    BY <2>4, UpdateTables
  <2>5. CASE MemKept /\ \E x : HookMove(p, t, x)
    BY <2>5, MovesTables
  <2> QED
    BY <1>9, <2>1, <2>2, <2>3, <2>4, <2>5, ThreadStepMoves
<1> QED
  BY <1>1, <1>2, <1>3, <1>4, <1>5, <1>6, <1>8, <1>9 DEF Next

LEMMA TablesInitially == ASSUME Init PROVE Tables
<1>1. plist = {} /\ \A v \in Virts : ctab[v] = None
  BY DEF Init, EmptyTable
<1>2. \A p \in Procs : st[p] = "none"
  BY DEF Init
<1> QED
  BY <1>1, <1>2 DEF Tables, CtabInv, TabInv, EnvInv, Fresh

\* Tables holds of every behaviour in which one thread of a process forks.
THEOREM TablesInductive == ASSUME OneForker PROVE Spec => [](Base /\ Tables)
<1>1. Init => Base /\ Tables
  BY BaseInitially, TablesInitially
<1>2. Base /\ Tables /\ [Next]_vars => Base' /\ Tables'
  BY BaseKept, TablesKept
<1> QED
  BY <1>1, <1>2, PTL DEF Spec

\* pid_table_postrestart and __fork_hook leave no entry of an earlier incarnation, or
\* of another process, in the table of a process that runs.
THEOREM EntriesAreCurrent == ASSUME OneForker PROVE Spec => []EntriesCurrent
<1>1. Base /\ Tables => EntriesCurrent
  <2> SUFFICES ASSUME Base, Tables, NEW p \in Procs, NEW q \in Procs, st[p] = "run", Named(q),
                      virtual_to_real(mem[p].tab, vid[q]) # None
               PROVE  mem[p].tab[vid[q]] = real[q]
    BY DEF EntriesCurrent
  <2>1. Alive(q) /\ vid[q] \in Virts /\ mem[p].tab[vid[q]] # None
    BY DEF Named, Alive, virtual_to_real
  <2>2. TabInv(p, vid[q]) /\ Fresh(p, vid[q])
    BY <2>1 DEF Tables, Fresh
  <2> QED
    BY <2>1, <2>2 DEF TabInv
<1> QED
  BY <1>1, TablesInductive, PTL

-----------------------------------------------------------------------------
(* The owners of real pids *)

LEMMA AtKnown ==
  ASSUME Base, NEW r PROVE At(r) \subseteq Known /\ \A q \in At(r) : real[q] = r /\ r # None
<1>1. At(r) \subseteq Known
  BY DEF At, Known
<1>2. \A q \in At(r) : real[q] = r /\ r # None
  BY PidKinds, Constants
<1> QED
  BY <1>1, <1>2

\* A process owns its pid.
LEMMA OwnsReal ==
  ASSUME Base, Owners, NEW q \in Known PROVE Owned(real[q], vid[q])
<1>1. real[q] \in used /\ \A a \in Known : real[a] = real[q] => a = q
  BY DEF Owners
<1> QED
  BY <1>1 DEF Owned

\* So does the parent of p, if it is there.
LEMMA OwnsParent ==
  ASSUME Base, Owners, NEW p \in Procs, p \in plist \/ st[p] = "restoring"
  PROVE  Owned(RealPpid(p), mem[p].vppid)
<1>1. VidInv(p) /\ used \subseteq Reals
  BY DEF Base, Kinds, KernelType
<1>2. mem[p].vppid = IF par[p] = 0 THEN 1 ELSE vid[par[p]]
  BY <1>1 DEF VidInv
<1>3. CASE par[p] # 0 /\ Alive(par[p])
  <2>1. par[p] \in Known
    BY <1>3, PidKinds DEF Known
  <2>2. Owned(real[par[p]], vid[par[p]])
    BY <2>1, OwnsReal
  <2> QED
    BY <1>2, <1>3, <2>2 DEF RealPpid
<1>4. CASE par[p] = 0 \/ ~Alive(par[p])
  <2>1. RealPpid(p) \in System
    BY <1>4 DEF RealPpid, System
  <2>2. \A q \in Known : real[q] \in Reals
    BY <1>1 DEF Owners
  <2> QED
    BY <2>1, <2>2, Constants DEF Owned, System
<1> QED
  BY <1>3, <1>4

\* Steps after which nobody is new.
LEMMA OwnersFrom ==
  ASSUME Base, Owners, Known' \subseteq Known, UNCHANGED <<real, vid, used>>,
         \A v \in Virts : ctab'[v] # None => Owned(ctab'[v], v),
         \A p \in Procs, v \in Virts :
           Fresh(p, v)' /\ mem'[p].tab[v] # None => Owned(mem'[p].tab[v], v),
         \A p \in Procs : st'[p] \in {"run", "fix"} =>
           mem'[p].rpid = real[p] /\ Owned(mem'[p].rppid, mem'[p].vppid),
         wrong' \subseteq wrong \cup {"assert", "pgid"}
  PROVE  Owners'
<1>1. /\ \A q \in Known' : real'[q] \in used'
      /\ \A p, q \in Known' : real'[p] = real'[q] => p = q
  BY DEF Owners
<1>2. \A v \in Virts : ctab'[v] # None => Owned(ctab[v], v)'
  BY DEF Owned
<1>3. ASSUME NEW p \in Procs, NEW v \in Virts, Fresh(p, v)', mem'[p].tab[v] # None
      PROVE  Owned(mem[p].tab[v], v)'
  <2>1. Owned(mem'[p].tab[v], v)
    BY <1>3
  <2> QED
    BY <2>1 DEF Owned
<1>4. ASSUME NEW p \in Procs PROVE OwnInv(p)'
  <2>1. st'[p] \in {"run", "fix"} => mem'[p].rpid = real'[p] /\ Owned(mem'[p].rppid, mem'[p].vppid)
    OBVIOUS
  <2> QED
    BY <2>1 DEF OwnInv, Owned
<1>5. CallsReachTarget' /\ AnswersAreVirtual'
  BY DEF Owners, CallsReachTarget, AnswersAreVirtual
<1> QED
  BY <1>1, <1>2, <1>3, <1>4, <1>5 DEF Owners

-----------------------------------------------------------------------------
(* No answer is about another process *)

LEMMA NoMiss ==
  ASSUME Base, NEW v, NEW r, r = None \/ Owned(r, v)
  PROVE  ~Misses(v, r)
BY AtKnown DEF Misses, Owned

LEMMA RealKnownFlags ==
  ASSUME Base, NEW p, NEW t, NEW op, NEW v, NEW r, r = None \/ Owned(r, v),
         RealKnown(p, t, op, v, r)
  PROVE  wrong' \subseteq wrong \cup {"assert", "pgid"}
<1>1. ~Misses(v, r)
  BY NoMiss
<1> QED
  BY <1>1 DEF RealKnown, kill_hook, wait4_hook, proc_query_hook, proc_dirty_hook, proc_pidinfo_hook,
     proc_list_hook, getpgid_hook, Flag

LEMMA VirtualToRealFlags ==
  ASSUME Base, Owners, NEW p \in Procs, NEW t, st[p] = "run", NEW op, NEW v \in Virts,
         VirtualToReal(p, t, op, v)
  PROVE  wrong' \subseteq wrong \cup {"assert", "pgid"}
<1>1. CASE mem[p].tab[v] # None
  <2>1. Owned(mem[p].tab[v], v)
    BY <1>1 DEF Owners, Fresh
  <2>2. RealKnown(p, t, op, v, mem[p].tab[v])
    BY <1>1 DEF VirtualToReal, virtual_to_real
  <2> QED
    BY <2>1, <2>2, RealKnownFlags
<1>2. CASE mem[p].tab[v] = None
  BY <1>2 DEF VirtualToReal, virtual_to_real
<1> QED
  BY <1>1, <1>2

LEMMA AskRealFlags ==
  ASSUME Base, Tables, Owners, NEW p \in Procs, NEW t \in Threads, virt_to_real_pid_from_coord(p, t)
  PROVE  wrong' \subseteq wrong \cup {"assert", "pgid"}
<1>1. PICK v : v = th[p][t].arg
  OBVIOUS
<1>2. v \in Virts
  BY <1>1 DEF virt_to_real_pid_from_coord, At_, Base, ThreadInv
<1>3. RealKnown(p, t, th[p][t].op, v, ctab[v])
  BY <1>1, <1>2, AnswerIs DEF virt_to_real_pid_from_coord
<1>4. ctab[v] = None \/ Owned(ctab[v], v)
  BY <1>2 DEF Owners
<1> QED
  BY <1>3, <1>4, RealKnownFlags

\* An answer that names the owner of r, or nobody if r is nobody's on the list.
Answers(r, virt) ==
  /\ virt # None => Owned(r, virt)
  /\ virt = None => \A q \in plist : real[q] # r

LEMMA AnswersName ==
  ASSUME Base, NEW r, NEW virt, r = None \/ Answers(r, virt) PROVE ~Misnamed(r, virt)
<1>1. ASSUME NEW q \in At(r), Named(q) PROVE vid[q] = virt
  <2>1. q \in Known /\ real[q] = r /\ q \in plist /\ r # None
    BY <1>1, AtKnown DEF Named
  <2> QED
    BY <2>1 DEF Answers, Owned
<1> QED
  BY <1>1 DEF Misnamed

LEMMA VirtKnownFlags ==
  ASSUME Base, NEW p \in Procs, NEW t \in Threads, NEW op, NEW r, NEW virt, NEW open,
         r = None \/ Answers(r, virt), op = "reap" => r = real[th[p][t].arg] /\ th[p][t].arg \in Known,
         VirtKnown(p, t, op, r, virt, open)
  PROVE  wrong' \subseteq wrong \cup {"assert", "pgid"}
<1>1. ~Misnamed(r, virt)
  BY AnswersName
<1>2. op = "reap" => virt \in {None, vid[th[p][t].arg]}
  <2>1. op = "reap" => r # None
    BY KnownKinds, PidKinds, Constants
  <2> QED
    BY <2>1 DEF Answers, Owned
<1>3. CASE op = "reap" /\ ReapDone(p, t, th[p][t].arg, virt, open)
  BY <1>2, <1>3 DEF ReapDone, Flag
<1>4. CASE pid_list_real_to_virt(p, t, r, virt, open) \/ GroupDone(p, t, r, virt, open)
  BY <1>1, <1>4 DEF pid_list_real_to_virt, GroupDone, Flag
<1> QED
  BY <1>3, <1>4 DEF VirtKnown

\* What the coordinator says of a real pid.
LEMMA CoordAnswers ==
  ASSUME Base, Owners, NEW r, r # None, NEW virt \in coord_send_real_to_virt(r)
  PROVE  Answers(r, virt)
<1>1. plist \subseteq Known /\ \A q \in plist : mem[q].virt = vid[q] /\ vid[q] \in Virts
  <2>1. plist \subseteq Procs
    BY DEF Base, Kinds, CoordType
  <2> QED
    BY <2>1, OwnIds
<1>2. CASE real_to_virtual(ctab, r) # {None}
  <2>1. virt \in Virts /\ ctab[virt] = r
    BY <1>2 DEF coord_send_real_to_virt, real_to_virtual
  <2>2. Owned(r, virt)
    BY <2>1 DEF Owners
  <2> QED
    BY <2>1, <2>2, Constants DEF Answers
<1>3. CASE real_to_virtual(ctab, r) = {None}
  <2>1. virt \in proc_list_real_to_virt(r)
    BY <1>3 DEF coord_send_real_to_virt
  <2>2. CASE {q \in plist : real[q] = r} = {}
    BY <2>1, <2>2 DEF proc_list_real_to_virt, Answers
  <2>3. CASE {q \in plist : real[q] = r} # {}
    <3>1. PICK q \in plist : real[q] = r /\ virt = mem[q].virt
      BY <2>1, <2>3 DEF proc_list_real_to_virt
    <3>2. Owned(r, virt)
      BY <1>1, <3>1, OwnsReal
    <3> QED
      BY <1>1, <3>1, <3>2, Constants DEF Answers
  <2> QED
    BY <2>2, <2>3
<1> QED
  BY <1>2, <1>3

\* What a process finds in its own table, or knows of itself and its parent.
LEMMA TableAnswers ==
  ASSUME Base, Owners, NEW p \in Procs, st[p] = "run", NEW op, NEW r, r # None,
         NEW virt \in KnownHere(p, op, r), virt # None
  PROVE  Answers(r, virt)
<1>1. mem[p].rpid = real[p] /\ Owned(mem[p].rppid, mem[p].vppid)
  BY DEF Owners, OwnInv
<1>2. p \in Known /\ mem[p].virt = vid[p]
  <2>1. p \in plist
    BY DEF Base, LifeInv
  <2> QED
    BY <2>1, OwnIds
<1>3. CASE op = "pgrp" /\ r = mem[p].rpid
  <2>1. virt = vid[p] /\ r = real[p]
    BY <1>1, <1>2, <1>3 DEF KnownHere
  <2> QED
    BY <1>2, <2>1, OwnsReal DEF Answers
<1>4. CASE op = "pgrp" /\ r # mem[p].rpid /\ r = mem[p].rppid
  <2>1. virt = mem[p].vppid
    BY <1>4 DEF KnownHere
  <2> QED
    BY <1>1, <1>4, <2>1 DEF Answers
<1>5. CASE virt \in real_to_virtual(mem[p].tab, r)
  <2>1. virt \in Virts /\ mem[p].tab[virt] = r
    BY <1>5 DEF real_to_virtual
  <2>2. Owned(r, virt)
    BY <2>1 DEF Owners, Fresh
  <2> QED
    BY <2>2 DEF Answers
<1> QED
  BY <1>3, <1>4, <1>5 DEF KnownHere

LEMMA RealToVirtualFlags ==
  ASSUME Base, Owners, NEW p \in Procs, NEW t \in Threads, RealToVirtual(p, t)
  PROVE  wrong' \subseteq wrong \cup {"assert", "pgid"}
<1>1. PICK op \in {"reap", "xlate", "pgrp", "pgid"} :
        /\ th[p][t].pc = op
        /\ \E r \in RealArgs(p, t, op) : \E virt \in KnownHere(p, op, r) :
             \/ virt # None /\ VirtKnown(p, t, op, r, virt, oob[p])
             \/ UNCHANGED wrong
  BY DEF RealToVirtual, At_
<1>2. PICK r \in RealArgs(p, t, op) : \E virt \in KnownHere(p, op, r) :
             \/ virt # None /\ VirtKnown(p, t, op, r, virt, oob[p])
             \/ UNCHANGED wrong
  BY <1>1
<1>3. PICK virt \in KnownHere(p, op, r) :
             \/ virt # None /\ VirtKnown(p, t, op, r, virt, oob[p])
             \/ UNCHANGED wrong
  BY <1>2
<1>4. st[p] = "run"
  BY DEF RealToVirtual, At_
<1>5. op = "reap" => r = real[th[p][t].arg] /\ th[p][t].arg \in Known
  <2>1. op = "reap" => th[p][t].arg \in Procs /\ Holds(th[p][t])
    BY <1>1 DEF Base, ThreadInv, Holds
  <2> QED
    BY <1>2, <1>4, <2>1 DEF RealArgs, Known
<1>6. CASE virt # None /\ VirtKnown(p, t, op, r, virt, oob[p])
  <2>1. r = None \/ Answers(r, virt)
    BY <1>3, <1>4, <1>6, TableAnswers
  <2> QED
    BY <1>5, <1>6, <2>1, VirtKnownFlags
<1> QED
  BY <1>3, <1>6

LEMMA AskVirtFlags ==
  ASSUME Base, Owners, NEW p \in Procs, NEW t \in Threads, real_to_virt_pid_from_coord(p, t)
  PROVE  wrong' \subseteq wrong \cup {"assert", "pgid"}
<1>1. PICK op : op = th[p][t].op
  OBVIOUS
<1>2. PICK r : r = IF op = "reap" THEN real[th[p][t].arg] ELSE th[p][t].arg
  OBVIOUS
<1>3. PICK virt \in coord_send_real_to_virt(r) : VirtKnown(p, t, op, r, virt, TRUE)
  BY <1>1, <1>2 DEF real_to_virt_pid_from_coord
<1>4. st[p] = "run" /\ th[p][t].pc = "ask_virt"
  BY DEF real_to_virt_pid_from_coord, At_
<1>5. op = "reap" => r = real[th[p][t].arg] /\ th[p][t].arg \in Known
  <2>1. op = "reap" => th[p][t].arg \in Procs /\ Holds(th[p][t])
    BY <1>1, <1>4 DEF Base, ThreadInv, Holds
  <2> QED
    BY <1>2, <1>4, <2>1 DEF Known
<1>6. r = None \/ Answers(r, virt)
  BY <1>3, CoordAnswers
<1> QED
  BY <1>3, <1>5, <1>6, VirtKnownFlags

\* The hooks answer about the process they are asked about.
LEMMA FlagsKept ==
  ASSUME Base, Tables, Owners, NEW p \in Procs, NEW t \in Threads, HookStep(p, t) \/ UserCall(p, t)
  PROVE  wrong' \subseteq wrong \cup {"assert", "pgid"}
<1>1. CASE ForkUpdate(p, t)
  <2>1. mem[p].env = vid[th[p][t].arg]
    BY <1>1 DEF ForkUpdate, At_, Tables, EnvInv
  <2> QED
    BY <1>1, <2>1 DEF ForkUpdate, env_get_pid_info
<1>2. CASE HookCall(p, t)
  <2>1. ASSUME NEW op, NEW v \in Virts, At_(p, t, "user"), VirtualToReal(p, t, op, v)
        PROVE  wrong' \subseteq wrong \cup {"assert", "pgid"}
    BY <2>1, VirtualToRealFlags DEF At_
  <2>2. \A c \in Procs : vid[c] # None => vid[c] \in Virts
    BY VarKinds
  <2> QED
    BY <1>2, <2>1, <2>2 DEF HookCall, Makes
<1>3. CASE GetPgid(p, t)
  BY <1>3, VirtualToRealFlags DEF GetPgid, Makes, At_
<1>4. CASE GetPgrp(p, t)
  BY <1>4 DEF GetPgrp, Flag
<1>5. CASE virt_to_real_pid_from_coord(p, t)
  BY <1>5, AskRealFlags
<1>6. CASE RealToVirtual(p, t)
  BY <1>6, RealToVirtualFlags
<1>7. CASE real_to_virt_pid_from_coord(p, t)
  BY <1>7, AskVirtFlags
<1>8. CASE \/ coord_atfork(p, t) \/ Fork(p, t) \/ ForkFails(p, t) \/ AtforkParent(p, t)
           \/ ForkPrepare(p, t) \/ WaitAny(p, t) \/ ListAll(p, t) \/ SetPgid(p, t) \/ Exit(p, t)
  BY <1>8 DEF coord_atfork, Fork, ForkFails, AtforkParent, ForkPrepare, WaitAny, ListAll, SetPgid, Exit
<1> QED
  BY <1>1, <1>2, <1>3, <1>4, <1>5, <1>6, <1>7, <1>8 DEF HookStep, UserCall

-----------------------------------------------------------------------------
(* Steps and owners *)

LEMMA MovesOwners ==
  ASSUME Base, Owners, NEW p \in Procs, NEW t \in Threads, NEW x, HookMove(p, t, x), MemKept,
         wrong' \subseteq wrong \cup {"assert", "pgid"}
  PROVE  Owners'
<1>1. Known' \subseteq Known
  BY KnownWanes DEF Base
<1>2. /\ UNCHANGED <<real, vid, used, ctab, todo>> /\ Erasing /\ IdsKept
  BY DEF HookMove, MemKept
<1>3. \A q \in Procs : st'[q] \in {"run", "forked", "fix"} => st'[q] = st[q]
  BY DEF HookMove, Waning
<1>4. \A v \in Virts : ctab'[v] # None => Owned(ctab'[v], v)
  BY <1>2 DEF Owners
<1>5. ASSUME NEW q \in Procs, NEW v \in Virts, Fresh(q, v)', mem'[q].tab[v] # None
      PROVE  Owned(mem'[q].tab[v], v)
  <2>1. Fresh(q, v) /\ mem'[q].tab[v] = mem[q].tab[v]
    BY <1>2, <1>3, <1>5 DEF Fresh, Erasing
  <2> QED
    BY <1>5, <2>1 DEF Owners
<1>6. ASSUME NEW q \in Procs, st'[q] \in {"run", "fix"}
      PROVE  mem'[q].rpid = real[q] /\ Owned(mem'[q].rppid, mem'[q].vppid)
  BY <1>2, <1>3, <1>6 DEF Owners, OwnInv, IdsKept
<1> QED
  BY <1>1, <1>2, <1>4, <1>5, <1>6, OwnersFrom

LEMMA UpdateOwners ==
  ASSUME Base, Tables, Owners, NEW p \in Procs, NEW t \in Threads, NEW x, HookMove(p, t, x),
         ForkUpdate(p, t), wrong' \subseteq wrong \cup {"assert", "pgid"}
  PROVE  Owners'
<1>1. Known' \subseteq Known
  BY KnownWanes DEF Base
<1>2. /\ UNCHANGED <<st, real, vid, used, ctab, todo>> /\ IdsKept
      /\ st[p] = "run" /\ th[p][t].pc = "update"
      /\ mem' = [mem EXCEPT ![p].tab = update(@, mem[p].env, real[th[p][t].arg])]
  BY DEF HookMove, ForkUpdate, At_, env_get_pid_info, kernelVars
<1>3. PICK c : c = th[p][t].arg
  OBVIOUS
<1>4. mem[p].env = vid[c] /\ c \in Known /\ vid[c] \in Virts
  <2>1. ThreadInv(p, t) /\ EnvInv(p, t) /\ Holds(th[p][t])
    BY <1>2 DEF Base, Tables, Holds
  <2>2. c \in Known
    BY <1>2, <1>3, <2>1 DEF Known, ThreadInv
  <2> QED
    BY <1>2, <1>3, <2>1, <2>2, KnownKinds DEF EnvInv
<1>5. mem \in [Procs -> Mems] /\ mem[p] \in Mems /\ mem[p].tab \in [Virts -> Pids \cup {None}]
  BY VarKinds DEF Mems
<1>6. /\ \A q \in Procs : q # p => mem'[q] = mem[q]
      /\ mem'[p].tab[vid[c]] = real[c]
      /\ \A v \in Virts : v # vid[c] => mem'[p].tab[v] = mem[p].tab[v]
  <2>1. mem' = [mem EXCEPT ![p].tab = update(@, vid[c], real[c])]
    BY <1>2, <1>3, <1>4
  <2>2. mem'[p].tab = update(mem[p].tab, vid[c], real[c])
    BY <1>5, <2>1 DEF Mems
  <2>3. \A q \in Procs : q # p => mem'[q] = mem[q]
    BY <1>5, <2>1
  <2> QED
    BY <1>4, <1>5, <2>2, <2>3 DEF update
<1>7. ASSUME NEW q \in Procs, NEW v \in Virts, Fresh(q, v)', mem'[q].tab[v] # None
      PROVE  Owned(mem'[q].tab[v], v)
  <2>1. CASE q = p /\ v = vid[c]
    BY <1>4, <1>6, <2>1, OwnsReal
  <2>2. CASE q # p \/ v # vid[c]
    <3>1. Fresh(q, v) /\ mem'[q].tab[v] = mem[q].tab[v]
      BY <1>2, <1>6, <1>7, <2>2 DEF Fresh
    <3> QED
      BY <1>7, <3>1 DEF Owners
  <2> QED
    BY <2>1, <2>2
<1>8. ASSUME NEW q \in Procs, st'[q] \in {"run", "fix"}
      PROVE  mem'[q].rpid = real[q] /\ Owned(mem'[q].rppid, mem'[q].vppid)
  BY <1>2, <1>8 DEF Owners, OwnInv, IdsKept
<1>9. \A v \in Virts : ctab'[v] # None => Owned(ctab'[v], v)
  BY <1>2 DEF Owners
<1> QED
  BY <1>1, <1>2, <1>7, <1>8, <1>9, OwnersFrom

LEMMA SameOwners ==
  ASSUME Base, Owners, UNCHANGED <<st, real, vid, used, mem, th, todo, ctab, plist, wrong>>
  PROVE  Owners'
<1>1. Known' \subseteq Known
  BY DEF Known, Alive
<1>2. /\ \A v \in Virts : ctab'[v] # None => Owned(ctab'[v], v)
      /\ \A p \in Procs : st'[p] \in {"run", "fix"} =>
           mem'[p].rpid = real[p] /\ Owned(mem'[p].rppid, mem'[p].vppid)
  BY DEF Owners, OwnInv
<1>3. \A p \in Procs, v \in Virts :
        Fresh(p, v)' /\ mem'[p].tab[v] # None => Owned(mem'[p].tab[v], v)
  BY DEF Owners, Fresh
<1> QED
  BY <1>1, <1>2, <1>3, OwnersFrom

LEMMA ReservesOwners ==
  ASSUME Base, Owners, NEW p \in Procs, NEW t \in Threads, coord_atfork(p, t), coord' # "dead"
  PROVE  Owners'
<1>1. /\ Known' \subseteq Known /\ next \in Virts
      /\ mem' = [mem EXCEPT ![p] = env_set_pid_info(@, next)]
      /\ UNCHANGED <<st, real, vid, used, todo, ctab, wrong>>
  BY ReservesIs, ReservesKeeps DEF kernelVars, histVars
<1>2. \A q \in Procs : /\ mem'[q].virt = mem[q].virt /\ mem'[q].vppid = mem[q].vppid
                       /\ mem'[q].rpid = mem[q].rpid /\ mem'[q].rppid = mem[q].rppid
                       /\ mem'[q].tab = mem[q].tab
  BY <1>1, EnvSet
<1>3. /\ \A v \in Virts : ctab'[v] # None => Owned(ctab'[v], v)
      /\ \A q \in Procs : st'[q] \in {"run", "fix"} =>
           mem'[q].rpid = real[q] /\ Owned(mem'[q].rppid, mem'[q].vppid)
  BY <1>1, <1>2 DEF Owners, OwnInv
<1>4. \A q \in Procs, v \in Virts :
        Fresh(q, v)' /\ mem'[q].tab[v] # None => Owned(mem'[q].tab[v], v)
  BY <1>1, <1>2 DEF Owners, Fresh
<1> QED
  BY <1>1, <1>3, <1>4, OwnersFrom

\* The pid of the child is new.
LEMMA ForksOwners ==
  ASSUME ~Reuse, Base, Owners, NEW p \in Procs, NEW t \in Threads, NEW c, NEW r, Forks(p, t, c, r)
  PROVE  Owners'
<1>1. /\ c \in Procs /\ c \notin Known /\ r \in Reals
      /\ st'[c] = "forked" /\ real'[c] = r /\ mem'[c] = mem[p]
      /\ \A q \in Procs : q # c => /\ st'[q] = st[q] /\ real'[q] = real[q]
                                   /\ mem'[q] = mem[q] /\ vid'[q] = vid[q]
      /\ Known' \subseteq Known \cup {c}
  BY ForksIs
<1>2. /\ r \notin used /\ used' = used \cup {r} /\ st[p] = "run"
      /\ UNCHANGED <<ctab, todo, wrong>>
  BY DEF Forks, FreshReals
<1>3. Known \subseteq Procs /\ \A q \in Known : q # c /\ real'[q] = real[q] /\ vid'[q] = vid[q]
                                               /\ real[q] \in used
  BY <1>1 DEF Known, Owners
<1>4. ASSUME NEW a, NEW v, Owned(a, v) PROVE Owned(a, v)'
  <2>1. a # r
    BY <1>1, <1>2, <1>4, Constants DEF Owned, System
  <2>2. a \in used' \cup System
    BY <1>2, <1>4 DEF Owned
  <2> QED
    BY <1>1, <1>3, <1>4, <2>1, <2>2 DEF Owned, System
<1>5. /\ \A q \in Known' : real'[q] \in used'
      /\ \A a, b \in Known' : real'[a] = real'[b] => a = b
  <2>1. \A a, b \in Known : real'[a] = real'[b] => a = b
    BY <1>3 DEF Owners
  <2> QED
    BY <1>1, <1>2, <1>3, <2>1
<1>6. ASSUME NEW v \in Virts, ctab'[v] # None PROVE Owned(ctab[v], v)'
  <2>1. Owned(ctab[v], v) /\ ctab'[v] = ctab[v]
    BY <1>2, <1>6 DEF Owners
  <2>2. PICK a : a = ctab[v]
    OBVIOUS
  <2>3. Owned(a, v)'
    BY <1>4, <2>1, <2>2
  <2> QED
    BY <2>1, <2>2, <2>3 DEF Owned
<1>7. ASSUME NEW q \in Procs, NEW v \in Virts, Fresh(q, v)', mem'[q].tab[v] # None
      PROVE  Owned(mem[q].tab[v], v)'
  <2>1. PICK b \in Procs : mem'[q] = mem[b] /\ Fresh(b, v)
    <3>1. CASE q = c
      BY <1>1, <1>2, <3>1 DEF Fresh
    <3>2. CASE q # c
      BY <1>1, <1>2, <1>7, <3>2 DEF Fresh
    <3> QED
      BY <3>1, <3>2
  <2>2. PICK a : a = mem[b].tab[v]
    OBVIOUS
  <2>3. Owned(a, v)
    BY <1>7, <2>1, <2>2 DEF Owners
  <2>4. Owned(a, v)'
    BY <1>4, <2>3
  <2> QED
    BY <2>1, <2>2, <2>4 DEF Owned
<1>8. ASSUME NEW q \in Procs PROVE OwnInv(q)'
  <2>1. CASE q = c
    BY <1>1, <2>1 DEF OwnInv
  <2>2. CASE q # c
    <3>1. OwnInv(q) /\ mem'[q] = mem[q] /\ st'[q] = st[q] /\ real'[q] = real[q]
      BY <1>1, <2>2 DEF Owners
    <3>2. PICK a, v : a = mem[q].rppid /\ v = mem[q].vppid
      OBVIOUS
    <3>3. st[q] \in {"run", "fix"} => mem[q].rpid = real[q] /\ Owned(a, v)'
      BY <1>4, <3>1, <3>2 DEF OwnInv
    <3> QED
      BY <3>1, <3>2, <3>3 DEF OwnInv, Owned
  <2> QED
    BY <2>1, <2>2
<1>9. CallsReachTarget' /\ AnswersAreVirtual'
  BY <1>2 DEF Owners, CallsReachTarget, AnswersAreVirtual
<1> QED
  BY <1>5, <1>6, <1>7, <1>8, <1>9 DEF Owners

LEMMA RegistersOwners ==
  ASSUME Base, Owners, NEW c \in Procs, Registers(c)
  PROVE  Owners'
<1>1. /\ st[c] = "forked" /\ par[c] \in Procs /\ par[c] \in plist
      /\ vid[c] \in Virts /\ vid[par[c]] \in Virts
      /\ ctab' = update(update(ctab, vid[c], real[c]), vid[par[c]], real[par[c]])
      /\ UNCHANGED <<real, used, todo, vid, wrong>>
  BY DEF Registers
<1>2. /\ \A q \in Procs : q # c => mem'[q] = mem[q]
      /\ mem'[c].virt = vid[c] /\ mem'[c].vppid = vid[par[c]]
      /\ mem'[c].rpid = real[c] /\ mem'[c].rppid = real[par[c]]
      /\ mem'[c].tab = update(mem[c].tab, vid[c], real[c])
      /\ st'[c] = "run" /\ \A q \in Procs : q # c => st'[q] = st[q]
  BY RegistersIs
<1>3. Known' \subseteq Known
  BY RegistersKeeps
<1>4. Owned(real[c], vid[c]) /\ Owned(real[par[c]], vid[par[c]])
  <2>1. c \in Known /\ par[c] \in Known
    BY <1>1 DEF Known, Alive
  <2> QED
    BY <2>1, OwnsReal
<1>5. \A v \in Virts : ctab'[v] # None => Owned(ctab'[v], v)
  <2>1. ctab \in [Virts -> Pids \cup {None}]
    BY DEF Base, Kinds, CoordType
  <2>2. \A v \in Virts : ctab'[v] = IF v = vid[par[c]] THEN real[par[c]]
                                    ELSE IF v = vid[c] THEN real[c] ELSE ctab[v]
    BY <1>1, <2>1 DEF update
  <2> QED
    BY <1>4, <2>2 DEF Owners
<1>6. ASSUME NEW q \in Procs, NEW v \in Virts, Fresh(q, v)', mem'[q].tab[v] # None
      PROVE  Owned(mem'[q].tab[v], v)
  <2>1. Fresh(q, v)
    BY <1>1, <1>2, <1>6 DEF Fresh
  <2>2. CASE q = c
    <3>1. mem[c].tab \in [Virts -> Pids \cup {None}]
      BY VarKinds DEF Mems
    <3>2. mem'[c].tab[v] = IF v = vid[c] THEN real[c] ELSE mem[c].tab[v]
      BY <1>2, <3>1 DEF update
    <3> QED
      BY <1>4, <1>6, <2>1, <2>2, <3>2 DEF Owners
  <2>3. CASE q # c
    BY <1>2, <1>6, <2>1, <2>3 DEF Owners
  <2> QED
    BY <2>2, <2>3
<1>7. ASSUME NEW q \in Procs, st'[q] \in {"run", "fix"}
      PROVE  mem'[q].rpid = real[q] /\ Owned(mem'[q].rppid, mem'[q].vppid)
  <2>1. CASE q = c
    BY <1>2, <1>4, <2>1
  <2>2. CASE q # c
    BY <1>2, <1>7, <2>2 DEF Owners, OwnInv
  <2> QED
    BY <2>1, <2>2
<1> QED
  BY <1>1, <1>3, <1>5, <1>6, <1>7, OwnersFrom

LEMMA ConnectOwners ==
  ASSUME Base, Owners, NEW p \in Procs, coord_connect_with_process_on_restart(p)
  PROVE  Owners'
<1>1. /\ st[p] = "restoring"
      /\ ctab' = update(update(ctab, mem[p].virt, real[p]), mem[p].vppid, RealPpid(p))
      /\ st' = [st EXCEPT ![p] = "barrier"]
      /\ UNCHANGED <<real, vid, used, mem, todo, wrong>>
  BY DEF coord_connect_with_process_on_restart, procVars, histVars
<1>2. Known' \subseteq Known
  BY ConnectKeeps
<1>3. /\ p \in Known /\ mem[p].virt = vid[p]
      /\ ctab \in [Virts -> Pids \cup {None}] /\ st \in [Procs -> States]
  BY <1>1, OwnIds DEF Base, Kinds, KernelType, CoordType
<1>4. Owned(real[p], vid[p]) /\ Owned(RealPpid(p), mem[p].vppid)
  BY <1>1, <1>3, OwnsReal, OwnsParent
<1>5. \A v \in Virts : ctab'[v] # None => Owned(ctab'[v], v)
  <2>1. \A v \in Virts : ctab'[v] = IF v = mem[p].vppid THEN RealPpid(p)
                                    ELSE IF v = vid[p] THEN real[p] ELSE ctab[v]
    BY <1>1, <1>3 DEF update
  <2> QED
    BY <1>4, <2>1 DEF Owners
<1>6. \A q \in Procs : st'[q] \notin {"forked", "run", "fix"}
  BY <1>1, <1>3 DEF Base, LifeInv
<1> QED
  BY <1>1, <1>2, <1>5, <1>6, OwnersFrom DEF Fresh

LEMMA ReleaseOwners ==
  ASSUME Base, Owners, ReleasePostrestart
  PROVE  Owners'
<1>1. /\ st' = [q \in Procs |-> IF st[q] = "barrier" THEN "released" ELSE st[q]]
      /\ UNCHANGED <<real, used, ctab, vid, wrong>>
  BY DEF ReleasePostrestart, coordVars, histVars
<1>2. \A q \in Procs : st[q] \notin {"forked", "run", "fix"}
  BY DEF ReleasePostrestart, Base, LifeInv
<1>3. \A q \in Procs : st'[q] \notin {"forked", "run", "fix"}
  BY <1>1, <1>2
<1>4. Known' \subseteq Known
  BY ReleaseKeeps
<1>5. \A v \in Virts : ctab'[v] # None => Owned(ctab'[v], v)
  BY <1>1 DEF Owners
<1> QED
  BY <1>1, <1>3, <1>4, <1>5, OwnersFrom DEF Fresh

LEMMA RestartOwners ==
  ASSUME Base, Owners, Restart PROVE Owners'
<1>1. PICK f \in [image.procs -> Reals] :
       /\ IsInjective(f)
       /\ real' = [p \in Procs |-> IF p \in image.procs THEN f[p] ELSE real[p]]
       /\ used' = {f[p] : p \in image.procs}
  BY DEF Restart
<1>2. image.procs \subseteq Procs /\ Known' = image.procs
  BY RestartIs
<1>3. \A p \in image.procs : real'[p] = f[p]
  BY <1>1, <1>2
<1>4. /\ \A q \in Known' : real'[q] \in used'
      /\ \A p, q \in Known' : real'[p] = real'[q] => p = q
  BY <1>1, <1>2, <1>3 DEF IsInjective
<1>5. \A q \in Procs : st'[q] \in {"restoring", "none", "gone"}
  BY DEF Restart
<1>6. \A v \in Virts : ctab'[v] = None
  BY DEF Restart, EmptyTable
<1>7. CallsReachTarget' /\ AnswersAreVirtual'
  BY DEF Restart, Owners, CallsReachTarget, AnswersAreVirtual
<1> QED
  BY <1>4, <1>5, <1>6, <1>7 DEF Owners, OwnInv, Fresh

LEMMA LaunchOwners ==
  ASSUME Base, Owners, Launch PROVE Owners'
<1>1. /\ Known' = {1}
      /\ \A p \in Procs : st[p] = "none" /\ (p # 1 => st'[p] = "none")
      /\ vid'[1] = 2 /\ real'[1] \in Reals
      /\ \A v \in Virts : /\ mem'[1].tab[v] = (IF v = 2 THEN real'[1] ELSE IF v = 1 THEN Shell ELSE None)
                          /\ ctab'[v] = mem'[1].tab[v]
      /\ mem'[1].rpid = real'[1] /\ mem'[1].rppid = Shell /\ mem'[1].vppid = 1
      /\ used' = {real'[1]}
  BY LaunchKeeps
<1>2. real'[1] # Shell
  BY <1>1, Constants
<1>3. /\ \A q \in Known' : real'[q] \in used'
      /\ \A p, q \in Known' : real'[p] = real'[q] => p = q
  BY <1>1
<1>4. ASSUME NEW v \in Virts, mem'[1].tab[v] # None
      PROVE  /\ mem'[1].tab[v] \in used' \cup System
             /\ \A q \in Known' : real'[q] = mem'[1].tab[v] => vid'[q] = v
  <2>1. v = 2 \/ v = 1
    BY <1>1, <1>4
  <2> QED
    BY <1>1, <1>2, <2>1 DEF System
<1>5. \A v \in Virts : ctab'[v] # None => Owned(ctab[v], v)'
  BY <1>1, <1>4 DEF Owned, System
<1>6. \A p \in Procs, v \in Virts : Fresh(p, v)' /\ mem'[p].tab[v] # None => Owned(mem[p].tab[v], v)'
  <2>1. \A p \in Procs, v \in Virts : Fresh(p, v)' => p = 1
    BY <1>1 DEF Fresh
  <2> QED
    BY <1>4, <2>1 DEF Owned, System
<1>7. \A p \in Procs : OwnInv(p)'
  <2>1. \A p \in Procs : st'[p] \in {"run", "fix"} => p = 1
    BY <1>1
  <2>2. Owned(mem[1].rppid, mem[1].vppid)'
    BY <1>1, <1>2 DEF Owned, System
  <2> QED
    BY <1>1, <2>1, <2>2 DEF OwnInv
<1>8. CallsReachTarget' /\ AnswersAreVirtual'
  BY DEF Launch, Owners, CallsReachTarget, AnswersAreVirtual
<1> QED
  BY <1>3, <1>5, <1>6, <1>7, <1>8 DEF Owners

LEMMA ExitOwners ==
  ASSUME Base, Owners, NEW q \in Procs, proc_exit_callback(q)
  PROVE  Owners'
<1>1. /\ ctab' = erase(ctab, mem[q].virt)
      /\ UNCHANGED <<st, real, used, vid, mem, th, todo, wrong>>
  BY DEF proc_exit_callback, kernelVars, procVars, histVars
<1>2. Known' \subseteq Known
  BY ExitSettles, SettlesKeeps
<1>3. \A v \in Virts : ctab'[v] \in {ctab[v], None}
  BY <1>1 DEF erase, Base, Kinds, CoordType
<1>4. /\ \A v \in Virts : ctab'[v] # None => Owned(ctab'[v], v)
      /\ \A p \in Procs : st'[p] \in {"run", "fix"} =>
           mem'[p].rpid = real[p] /\ Owned(mem'[p].rppid, mem'[p].vppid)
  BY <1>1, <1>3 DEF Owners, OwnInv
<1>5. \A p \in Procs, v \in Virts :
        Fresh(p, v)' /\ mem'[p].tab[v] # None => Owned(mem'[p].tab[v], v)
  BY <1>1 DEF Owners, Fresh
<1> QED
  BY <1>1, <1>2, <1>4, <1>5, OwnersFrom

LEMMA NewIds ==
  ASSUME Base, NEW p \in Procs, NEW T, NEW a, NEW b
  PROVE  /\ mem' = [mem EXCEPT ![p].rpid = a, ![p].rppid = b, ![p].tab = T] =>
              mem'[p].rpid = a /\ mem'[p].rppid = b
         /\ mem' = [mem EXCEPT ![p].rppid = b, ![p].tab = T] =>
              mem'[p].rpid = mem[p].rpid /\ mem'[p].rppid = b
         /\ mem' = [mem EXCEPT ![p].tab = T] =>
              mem'[p].rpid = mem[p].rpid /\ mem'[p].rppid = mem[p].rppid
<1>1. mem \in [Procs -> Mems] /\ mem[p] \in Mems
  BY VarKinds
<1>2. mem' = [mem EXCEPT ![p].rpid = a, ![p].rppid = b, ![p].tab = T] =>
        mem'[p].rpid = a /\ mem'[p].rppid = b
  BY <1>1 DEF Mems
<1>3. mem' = [mem EXCEPT ![p].rppid = b, ![p].tab = T] =>
        mem'[p].rpid = mem[p].rpid /\ mem'[p].rppid = b
  BY <1>1 DEF Mems
<1>4. mem' = [mem EXCEPT ![p].tab = T] =>
        mem'[p].rpid = mem[p].rpid /\ mem'[p].rppid = mem[p].rppid
  BY <1>1 DEF Mems
<1> QED
  BY <1>2, <1>3, <1>4

LEMMA NewTableOwners ==
  ASSUME Base, Owners, NEW p \in Procs, UNCHANGED <<real, vid, used, ctab, wrong>>, Settles,
         \A q \in Procs : q # p => mem'[q] = mem[q] /\ st'[q] = st[q] /\ todo'[q] = todo[q],
         mem'[p].rpid = real[p], Owned(mem'[p].rppid, mem[p].vppid),
         \A v \in Virts : Fresh(p, v)' /\ mem'[p].tab[v] # None => Owned(mem'[p].tab[v], v)
  PROVE  Owners'
<1>1. Known' \subseteq Known /\ mem'[p].vppid = mem[p].vppid
  BY SettlesKeeps DEF Settles
<1>2. \A v \in Virts : ctab'[v] # None => Owned(ctab'[v], v)
  BY DEF Owners
<1>3. ASSUME NEW q \in Procs, NEW v \in Virts, Fresh(q, v)', mem'[q].tab[v] # None
      PROVE  Owned(mem'[q].tab[v], v)
  <2>1. CASE q # p
    <3>1. Fresh(q, v) /\ mem'[q] = mem[q]
      BY <1>3, <2>1 DEF Fresh
    <3> QED
      BY <1>3, <3>1 DEF Owners
  <2> QED
    BY <1>3, <2>1
<1>4. ASSUME NEW q \in Procs, st'[q] \in {"run", "fix"}
      PROVE  mem'[q].rpid = real[q] /\ Owned(mem'[q].rppid, mem'[q].vppid)
  <2>1. CASE q # p
    BY <1>4, <2>1 DEF Owners, OwnInv
  <2>2. CASE q = p
    BY <1>1, <2>2
  <2> QED
    BY <2>1, <2>2
<1> QED
  BY <1>1, <1>2, <1>3, <1>4, OwnersFrom

\* The own entries are owned.
LEMMA OwnEntriesOwned ==
  ASSUME Base, Owners, NEW p \in Procs, p \in plist, Alive(p), st[p] # "restoring",
         NEW T \in [Virts -> Pids \cup {None}], NEW v \in {mem[p].virt, mem[p].vppid}, NEW U,
         U = update(update(T, mem[p].virt, real[p]), mem[p].vppid, RealPpid(p))
  PROVE  Owned(U[v], v)
<1>1. p \in Known /\ mem[p].virt = vid[p] /\ vid[p] \in Virts /\ mem[p].vppid \in Virts
  BY OwnIds
<1>2. U[mem[p].virt] = real[p] /\ U[mem[p].vppid] = RealPpid(p)
  BY <1>1, OwnEntries
<1>3. Owned(real[p], vid[p]) /\ Owned(RealPpid(p), mem[p].vppid)
  BY <1>1, OwnsReal, OwnsParent
<1> QED
  BY <1>1, <1>2, <1>3

LEMMA ExecOwners ==
  ASSUME Base, Owners, NEW p \in Procs, Exec(p) PROVE Owners'
<1>1. /\ st[p] = "run" /\ p \in plist /\ Alive(p)
      /\ UNCHANGED <<st, real, vid, used, ctab, todo, wrong>>
      /\ mem[p] \in Mems /\ real[p] \in Pids /\ RealPpid(p) \in Pids
  BY VarKinds, PidKinds, Constants DEF Exec, Alive, kernelVars, coordVars, histVars
<1> DEFINE T == update(update(EmptyTable, mem[p].virt, real[p]), mem[p].vppid, RealPpid(p))
<1>2. EmptyTable \in [Virts -> Pids \cup {None}] /\ \A v \in Virts : EmptyTable[v] = None
  BY DEF EmptyTable
<1>3. T \in [Virts -> Pids \cup {None}] /\ mem' = [mem EXCEPT ![p].rppid = RealPpid(p), ![p].tab = T]
  BY <1>1, <1>2, TableKinds DEF Exec
<1>4. \A v \in Virts : v \notin {mem[p].virt, mem[p].vppid} => T[v] = None
  BY <1>1, <1>2, OwnEntries
<1>5. \A v \in {mem[p].virt, mem[p].vppid} : Owned(T[v], v)
  BY <1>1, <1>2, OwnEntriesOwned
<1> HIDE DEF T
<1>6. /\ \A q \in Procs : q # p => mem'[q] = mem[q]
      /\ mem'[p].tab = T
  BY <1>1, <1>3, NewTables
<1>7. mem'[p].rpid = mem[p].rpid /\ mem'[p].rppid = RealPpid(p)
  BY <1>3, NewIds
<1>8. mem'[p].rpid = real[p] /\ Owned(mem'[p].rppid, mem[p].vppid)
  BY <1>1, <1>7, OwnsParent DEF Owners, OwnInv
<1>9. \A q \in Procs : st'[q] = st[q] /\ todo'[q] = todo[q]
  BY <1>1
<1>10. \A v \in Virts : Fresh(p, v)' /\ mem'[p].tab[v] # None => Owned(mem'[p].tab[v], v)
  BY <1>4, <1>5, <1>6
<1> QED
  BY <1>1, <1>6, <1>8, <1>9, <1>10, ExecSettles, NewTableOwners

LEMMA PostrestartOwnOwners ==
  ASSUME Base, Owners, NEW p \in Procs, PostrestartOwn(p) PROVE Owners'
<1>1. /\ st[p] = "released"
      /\ UNCHANGED <<real, vid, used, ctab, wrong>>
      /\ mem[p] \in Mems /\ real[p] \in Pids /\ RealPpid(p) \in Pids
  BY VarKinds, PidKinds, Constants DEF PostrestartOwn, coordVars, histVars
<1> DEFINE T == update(update(mem[p].tab, mem[p].virt, real[p]), mem[p].vppid, RealPpid(p))
           left == {v \in Virts : mem[p].tab[v] # None} \ {mem[p].virt, mem[p].vppid}
<1>2. p \in plist /\ Alive(p) /\ mem[p].tab \in [Virts -> Pids \cup {None}]
  BY <1>1 DEF Base, LifeInv, Alive, Mems
<1>3. /\ T \in [Virts -> Pids \cup {None}]
      /\ mem' = [mem EXCEPT ![p].rpid = real[p], ![p].rppid = RealPpid(p), ![p].tab = T]
      /\ todo' = [todo EXCEPT ![p] = left]
      /\ st' = [st EXCEPT ![p] = IF left = {} THEN "run" ELSE "fix"]
  BY <1>1, <1>2, TableKinds DEF PostrestartOwn
<1>4. \A v \in Virts : v \notin {mem[p].virt, mem[p].vppid} => T[v] = mem[p].tab[v]
  BY <1>1, <1>2, OwnEntries
<1>5. \A v \in {mem[p].virt, mem[p].vppid} : Owned(T[v], v)
  BY <1>1, <1>2, OwnEntriesOwned
<1>6. \A v \in Virts : v \notin left /\ v \notin {mem[p].virt, mem[p].vppid} => T[v] = None
  BY <1>4
<1> HIDE DEF T, left
<1>7. /\ \A q \in Procs : q # p => mem'[q] = mem[q]
      /\ mem'[p].tab = T
  BY <1>1, <1>3, NewTables
<1>8. mem'[p].rpid = real[p] /\ mem'[p].rppid = RealPpid(p)
  BY <1>3, NewIds
<1>9. Owned(mem'[p].rppid, mem[p].vppid)
  BY <1>2, <1>8, OwnsParent
<1>10. st \in [Procs -> States] /\ todo \in [Procs -> SUBSET Virts]
  BY DEF Base, Kinds, KernelType, ProcType
<1>11. /\ todo'[p] = left /\ st'[p] = IF left = {} THEN "run" ELSE "fix"
       /\ \A q \in Procs : q # p => st'[q] = st[q] /\ todo'[q] = todo[q]
  BY <1>3, <1>10
<1>12. \A v : Fresh(p, v)' => v \notin left
  BY <1>11 DEF Fresh
<1>13. \A v \in Virts : Fresh(p, v)' /\ mem'[p].tab[v] # None => Owned(mem'[p].tab[v], v)
  BY <1>5, <1>6, <1>7, <1>12
<1> QED
  BY <1>1, <1>7, <1>8, <1>9, <1>11, <1>13, PostrestartOwnSettles, NewTableOwners

LEMMA PostrestartEntryOwners ==
  ASSUME Base, Tables, Owners, NEW p \in Procs, PostrestartEntry(p) PROVE Owners'
<1>1. /\ st[p] = "fix"
      /\ UNCHANGED <<real, vid, used, ctab, wrong>>
      /\ mem[p] \in Mems /\ todo[p] \subseteq Virts
  BY VarKinds DEF PostrestartEntry, coordVars, histVars, Kinds, ProcType
<1>2. PICK v \in todo[p] : \E r \in coord_send_virt_to_real(v) :
       /\ mem' = [mem EXCEPT ![p].tab = IF r = None THEN erase(@, v) ELSE update(@, v, r)]
       /\ todo' = [todo EXCEPT ![p] = @ \ {v}]
       /\ st' = IF todo[p] = {v} THEN [st EXCEPT ![p] = "run"] ELSE st
  BY DEF PostrestartEntry
<1>3. v \in Virts /\ coord_send_virt_to_real(v) = {ctab[v]}
  BY <1>1, AnswerIs
<1>4. PICK r : r = ctab[v]
  OBVIOUS
<1>5. /\ mem' = [mem EXCEPT ![p].tab = IF r = None THEN erase(@, v) ELSE update(@, v, r)]
      /\ todo' = [todo EXCEPT ![p] = @ \ {v}]
      /\ st' = IF todo[p] = {v} THEN [st EXCEPT ![p] = "run"] ELSE st
  BY <1>2, <1>3, <1>4
<1>6. r \in Pids \cup {None}
  BY <1>3, <1>4 DEF Base, Kinds, CoordType
<1> DEFINE T == IF r = None THEN erase(mem[p].tab, v) ELSE update(mem[p].tab, v, r)
<1>7. mem[p].tab \in [Virts -> Pids \cup {None}]
  BY <1>1 DEF Mems
<1>8. /\ T \in [Virts -> Pids \cup {None}] /\ mem' = [mem EXCEPT ![p].tab = T]
      /\ T[v] = r /\ \A w \in Virts : w # v => T[w] = mem[p].tab[w]
  <2>1. CASE r = None
    <3>1. T = [mem[p].tab EXCEPT ![v] = None]
      BY <1>3, <2>1, Constants DEF erase
    <3> QED
      BY <1>1, <1>3, <1>5, <1>7, <2>1, <3>1, VarKinds
  <2>2. CASE r # None
    <3>1. T = [mem[p].tab EXCEPT ![v] = r]
      BY <2>2 DEF update
    <3> QED
      BY <1>1, <1>3, <1>5, <1>6, <1>7, <2>2, <3>1, VarKinds
  <2> QED
    BY <2>1, <2>2
<1> HIDE DEF T
<1>9. /\ \A q \in Procs : q # p => mem'[q] = mem[q]
      /\ mem'[p].tab = T
  BY <1>6, <1>8, NewTables
<1>10. st \in [Procs -> States] /\ todo \in [Procs -> SUBSET Virts]
  BY DEF Base, Kinds, KernelType, ProcType
<1>11. /\ todo'[p] = todo[p] \ {v} /\ st'[p] \in {"run", "fix"} /\ (st'[p] = "run" => todo[p] = {v})
       /\ \A q \in Procs : q # p => st'[q] = st[q] /\ todo'[q] = todo[q]
  BY <1>1, <1>5, <1>10
<1>12. mem'[p].rpid = real[p] /\ Owned(mem'[p].rppid, mem[p].vppid)
  BY <1>1, <1>8, NewIds DEF Owners, OwnInv
<1>13. ASSUME NEW w \in Virts, Fresh(p, w)', mem'[p].tab[w] # None
       PROVE  Owned(mem'[p].tab[w], w)
  <2>1. CASE w = v
    BY <1>3, <1>4, <1>8, <1>9, <1>13, <2>1 DEF Owners
  <2>2. CASE w # v
    <3>1. Fresh(p, w) /\ mem'[p].tab[w] = mem[p].tab[w]
      BY <1>1, <1>8, <1>9, <1>11, <1>13, <2>2 DEF Fresh
    <3> QED
      BY <1>13, <3>1 DEF Owners
  <2> QED
    BY <2>1, <2>2
<1> QED
  BY <1>1, <1>9, <1>11, <1>12, <1>13, PostrestartEntrySettles, NewTableOwners

LEMMA OwnersKept ==
  ASSUME ~Reuse, Base, Tables, Owners, [Next]_vars PROVE Owners'
<1>1. CASE UNCHANGED vars
  BY <1>1, SameOwners DEF vars, kernelVars, procVars, coordVars, histVars
<1>2. CASE CoordAtforkLost
  BY <1>2, SameOwners DEF CoordAtforkLost, kernelVars, procVars, histVars
<1>3. CASE Launch
  BY <1>3, LaunchOwners
<1>4. CASE Checkpoint
  BY <1>4, SameOwners DEF Checkpoint, kernelVars, procVars, coordVars
<1>5. CASE ReleasePostrestart
  BY <1>5, ReleaseOwners
<1>6. CASE Restart
  BY <1>6, RestartOwners
<1>7. ASSUME NEW p \in Procs, AtforkChild(p) PROVE Owners'
  <2>1. CASE coord' = "dead"
    <3>1. UNCHANGED <<st, real, vid, used, mem, th, todo, ctab, plist, wrong>>
      BY <1>7, <2>1 DEF AtforkChild, histVars
    <3> QED
      BY <3>1, SameOwners
  <2>2. CASE coord' # "dead"
    BY <1>7, <2>2, AtforkChildIs, RegistersOwners
  <2> QED
    BY <2>1, <2>2
<1>8. ASSUME NEW p \in Procs, ProcStep(p) PROVE Owners'
  BY <1>7, <1>8, ExecOwners, ExitOwners, ConnectOwners, PostrestartOwnOwners, PostrestartEntryOwners
     DEF ProcStep
<1>9. ASSUME NEW p \in Procs, NEW t \in Threads, HookStep(p, t) \/ UserCall(p, t) PROVE Owners'
  <2>1. CASE coord_atfork(p, t) /\ coord' = "dead"
    <3>1. coord = "up"
      BY <2>1 DEF coord_atfork, Serving
    <3>2. UNCHANGED <<st, real, vid, used, mem, th, todo, ctab, plist, wrong>>
      BY <2>1, <3>1 DEF coord_atfork, kernelVars, histVars
    <3> QED
      BY <3>2, SameOwners
  <2>2. CASE coord_atfork(p, t) /\ coord' # "dead"
    BY <2>2, ReservesOwners
  <2>3. CASE Fork(p, t)
    BY <2>3, ForkIs, ForksOwners
  <2>4. wrong' \subseteq wrong \cup {"assert", "pgid"}
    BY <1>9, FlagsKept
  <2>5. CASE ForkUpdate(p, t) /\ \E x : HookMove(p, t, x)
    BY <2>4, <2>5, UpdateOwners
  <2>6. CASE MemKept /\ \E x : HookMove(p, t, x)
    BY <2>4, <2>6, MovesOwners
  <2> QED
    BY <1>9, <2>1, <2>2, <2>3, <2>5, <2>6, ThreadStepMoves
<1> QED
  BY <1>1, <1>2, <1>3, <1>4, <1>5, <1>6, <1>8, <1>9 DEF Next

LEMMA OwnersInitially == ASSUME Init PROVE Owners
<1>1. plist = {} /\ (\A v \in Virts : ctab[v] = None) /\ wrong = {}
  BY DEF Init, EmptyTable
<1>2. \A p \in Procs : st[p] = "none"
  BY DEF Init
<1>3. Known = {}
  BY <1>1, <1>2 DEF Known, Alive
<1> QED
  BY <1>1, <1>2, <1>3 DEF Owners, OwnInv, Fresh, CallsReachTarget, AnswersAreVirtual

\* The three layers hold of every behaviour in which one thread of a process forks
\* and no real pid is used again before the next restart.
THEOREM OwnersInductive ==
  ASSUME OneForker, ~Reuse PROVE Spec => [](Base /\ Tables /\ Owners)
<1>1. Init => Base /\ Tables /\ Owners
  BY BaseInitially, TablesInitially, OwnersInitially
<1>2. Base /\ Tables /\ Owners /\ [Next]_vars => Base' /\ Tables' /\ Owners'
  BY BaseKept, TablesKept, OwnersKept
<1> QED
  BY <1>1, <1>2, PTL DEF Spec

\* __kill_hook, __wait4_hook, __getpgid_hook and the proc_ hooks act on the process
\* that was named or on none, and wait names the child whose status it returns.
THEOREM CallsReachTheirTarget ==
  ASSUME OneForker, ~Reuse PROVE Spec => []CallsReachTarget
<1>1. Owners => CallsReachTarget
  BY DEF Owners
<1> QED
  BY <1>1, OwnersInductive, PTL

\* The lists, struct proc_bsdinfo, getpgrp and fork report a process that runs under
\* its virtual pid.
THEOREM AnswersNameTheirProcess ==
  ASSUME OneForker, ~Reuse PROVE Spec => []AnswersAreVirtual
<1>1. Owners => AnswersAreVirtual
  BY DEF Owners
<1> QED
  BY <1>1, OwnersInductive, PTL
=============================================================================
