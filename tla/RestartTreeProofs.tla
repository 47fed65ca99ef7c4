-------------------------- MODULE RestartTreeProofs --------------------------
(***************************************************************************)
(* Proofs about RestartTree, for any number of processes and any family    *)
(* they grow into.                                                         *)
(*                                                                         *)
(* Ids are handed out in order, so that a parent, a session leader and,    *)
(* where no process joins a group, a group leader have a lower id than     *)
(* those below them (TreeInv); the header is this tree (HeaderInv).  The   *)
(* processes of the restart are ordered likewise: nobody is in a group or  *)
(* a session of a process that was forked later (InstInv).  In a plain     *)
(* family the only root is process 1, every other target is owed by the    *)
(* process of its parent and by no one else (OnceInv), and is created in   *)
(* the group and the session it was saved in (PlaceInv).                   *)
(***************************************************************************)
EXTENDS RestartTree, FiniteSetTheorems, WellFoundedInduction, TLAPS

-----------------------------------------------------------------------------
(* The computation *)

Created(p) == p = 1 \/ forker[p] # Outside

NoJoin == "join" \notin Ops

TreeType ==
  /\ alive \in SUBSET Procs /\ alive # {}
  /\ forker \in [Procs -> Procs \cup {Outside}]
  /\ ppid \in [Procs -> Procs \cup {Outside, Launchd}]
  /\ pgid \in [Procs -> Procs]
  /\ sid \in [Procs -> Procs \cup {Outside}]

\* One process.
TreeInv(p) ==
  /\ forker[p] < p /\ sid[p] <= p
  /\ NoJoin => pgid[p] <= p
  /\ sid[p] = p => pgid[p] = p
  /\ p \in alive => Created(p)
  /\ p \in alive =>
       ppid[p] = IF p = 1 THEN Outside ELSE IF forker[p] \in alive THEN forker[p] ELSE Launchd
  /\ \A q \in Procs : Created(p) /\ q < p => Created(q)

HeaderInv == Running \/ header = [p \in alive |-> xnd_ckptfile_write_header(p)]

-----------------------------------------------------------------------------
(* The restart *)

Records == [t : Procs, parent : Insts \cup {Outside, Launchd}, group : Insts \cup {Outside},
            session : Insts \cup {Outside}, pc : {"roots", "before", "after", "restored"},
            todo : SUBSET Procs]

InstType == inst \in Seq(Records) /\ Len(inst) <= NInsts /\ (Running => inst = <<>>)

\* One process of the restart: whom it may still create, where it can be, and
\* that it leads what it led.
InstInv(i) ==
  /\ inst[i].t \in targets
  /\ inst[i].pc = "roots" => i = 1 /\ inst[i].todo \subseteq independent_roots \ {inst[i].t}
  /\ inst[i].pc = "before" => inst[i].todo \subseteq Before(inst[i].t)
  /\ inst[i].pc = "after" => inst[i].todo \subseteq After(inst[i].t)
  /\ inst[i].pc = "restored" => inst[i].todo = {}
  /\ inst[i].parent < i /\ inst[i].group <= i /\ inst[i].session <= i
  /\ inst[i].pc \in {"roots", "before"} => inst[i].group < i /\ inst[i].session < i
  /\ inst[i].pc \in {"after", "restored"} =>
       /\ inst[i].group = i <=> was_group_leader(inst[i].t)
       /\ inst[i].session = i <=> was_session_leader(inst[i].t)

\* Its parent.
ParentInv(i) ==
  /\ i = 1 /\ 1 \in targets => inst[i].t = 1
  /\ IF was_root_of_tree(inst[i].t)
     THEN inst[i].parent = IF was_orphan(inst[i].t) THEN Launchd ELSE Outside
     ELSE inst[i].parent \in DOMAIN inst /\ was_parent_of(inst[inst[i].parent].t, inst[i].t)

\* In a plain family: the targets it has not created yet ...
Owed(i) ==
  {t \in children_of(inst[i].t) :
     \/ inst[i].pc = "roots"
     \/ inst[i].pc = "before" /\ (t \in inst[i].todo \/ t \in After(inst[i].t))
     \/ inst[i].pc = "after" /\ t \in inst[i].todo}

\* ... have not been created by anyone,
OnceInv(i) ==
  \A j \in DOMAIN inst : inst[j].t \notin Owed(i) /\ (inst[j].t = inst[i].t => j = i)

\* and it is in its place, or has to make its own.
PlaceInv(i) ==
  /\ header[inst[i].t].pgid # inst[i].t \/ inst[i].pc \in {"after", "restored"} =>
       TargetOf(inst[i].group) = SavedAs(header[inst[i].t].pgid)
  /\ header[inst[i].t].sid # inst[i].t \/ inst[i].pc \in {"after", "restored"} =>
       TargetOf(inst[i].session) = SavedAs(header[inst[i].t].sid)

Tree == TreeType /\ (\A p \in Procs : TreeInv(p)) /\ HeaderInv

Inst == InstType /\ \A i \in DOMAIN inst : InstInv(i)

Parents == NoJoin => \A i \in DOMAIN inst : ParentInv(i)

Places == NoJoin /\ Plain => \A i \in DOMAIN inst : OnceInv(i) /\ PlaceInv(i)

\* The inductive invariant.
IInv == Tree /\ Inst /\ Parents /\ Places

-----------------------------------------------------------------------------
(* Numbers, sets and headers *)

\* Min is a smallest member.
LEMMA Smallest ==
  ASSUME NEW S \in SUBSET Procs, S # {}
  PROVE  Min(S) \in S /\ \A y \in S : Min(S) <= y
<1> DEFINE R == OpToRel(<, Nat)
<1>1. R = {ss \in Nat \X Nat : ss[1] < ss[2]}
  BY DEF OpToRel
<1>2. IsWellFoundedOn(R, Nat)
  BY NatLessThanWellFounded
<1> HIDE DEF R
<1>3. S \subseteq Nat
  BY ConstantsAssumption DEF Procs
<1>4. PICK x \in S : \A y \in S : ~ (<<y, x>> \in R)
  BY <1>2, <1>3, WFMin
<1>5. ASSUME NEW y \in S PROVE x <= y
  <2>1. <<y, x>> \in Nat \X Nat /\ <<y, x>>[1] = y /\ <<y, x>>[2] = x
    BY <1>3
  <2>2. ~ (y < x)
    BY <1>1, <1>4, <2>1
  <2> QED
    BY <1>3, <2>2
<1> QED
  BY <1>5 DEF Min

\* What is said of the headers stays true as long as they do.
LEMMA Fixed ==
  ASSUME header' = header
  PROVE  /\ targets' = targets
         /\ independent_roots' = independent_roots
         /\ \A s : /\ Before(s)' = Before(s) /\ After(s)' = After(s)
                   /\ children_of(s)' = children_of(s) /\ SavedAs(s)' = SavedAs(s)
         /\ Plain' = Plain
  BY DEF targets, independent_roots, Before, After, children_of, Plain, was_orphan,
     was_root_of_tree, was_group_leader_of, was_session_leader_of, was_parent_of,
     indegree_of, SavedAs

\* The headers are the tree.
LEMMA HeaderIsTree ==
  ASSUME Tree, ~Running
  PROVE  /\ targets = alive
         /\ \A t \in targets : /\ t \in Procs
                               /\ header[t].ppid = ppid[t] /\ header[t].pgid = pgid[t]
                               /\ header[t].sid = sid[t] /\ header[t].xnd_ppid = forker[t]
                               /\ was_root_of_tree(t) \in BOOLEAN
                               /\ was_root_of_tree(t) <=> forker[t] \notin targets
<1>1. header = [p \in alive |-> xnd_ckptfile_write_header(p)] /\ alive \subseteq Procs
  BY DEF Tree, TreeType, HeaderInv
<1>2. targets = alive
  BY <1>1 DEF targets
<1>3. ASSUME NEW t \in alive
      PROVE  /\ header[t].ppid = ppid[t] /\ header[t].pgid = pgid[t]
             /\ header[t].sid = sid[t] /\ header[t].xnd_ppid = forker[t]
             /\ was_root_of_tree(t) \in BOOLEAN
             /\ was_root_of_tree(t) <=> forker[t] \notin alive
  <2> DEFINE b == coord_determine_roots(t)
  <2>1. b \in BOOLEAN /\ (b <=> forker[t] \notin alive)
    BY DEF coord_determine_roots
  <2> HIDE DEF b
  <2>2. header[t] = [ppid |-> ppid[t], pgid |-> pgid[t], sid |-> sid[t],
                     xnd_ppid |-> forker[t], is_root_of_tree |-> b]
    BY <1>1 DEF xnd_ckptfile_write_header, b
  <2>3. header[t].is_root_of_tree = b
    BY <2>2
  <2>4. /\ header[t].ppid = ppid[t] /\ header[t].pgid = pgid[t]
        /\ header[t].sid = sid[t] /\ header[t].xnd_ppid = forker[t]
    BY <2>2
  <2> QED
    BY <2>1, <2>3, <2>4, Zenon DEF was_root_of_tree
<1> QED
  BY <1>1, <1>2, <1>3

\* The roots that coord_determine_roots marks are those without a parent among
\* the targets.
LEMMA Roots ==
  ASSUME Tree, ~Running, NEW t \in targets
  PROVE  was_root_of_tree(t) <=> indegree_of(t) = 0
<1> DEFINE S == {s \in targets \ {t} : was_parent_of(s, t)}
<1>1. targets \subseteq Procs /\ t \in Procs
  BY HeaderIsTree
<1>2. IsFiniteSet(S)
  <2>1. IsFiniteSet(Procs)
    BY ConstantsAssumption, FS_Interval DEF Procs
  <2>2. S \subseteq Procs
    BY <1>1
  <2> QED
    BY <2>1, <2>2, FS_Subset
<1>3. Cardinality(S) = 0 <=> S = {}
  BY <1>2, FS_EmptySet
<1>4. forker[t] < t /\ forker[t] \in Procs \cup {Outside}
  BY <1>1 DEF Tree, TreeType, TreeInv
<1>5. forker[t] # t
  BY <1>1, <1>4, ConstantsAssumption DEF Procs, Outside
<1>6. S = {} <=> forker[t] \notin targets
  BY <1>5, HeaderIsTree DEF was_parent_of
<1> QED
  BY <1>3, <1>6, HeaderIsTree DEF indegree_of

\* Process 1 is a root that is no orphan and may be created by no one else;
\* every other root is an orphan.
LEMMA FirstProcess ==
  ASSUME Tree, ~Running
  PROVE  /\ 1 \in targets => 1 \in independent_roots
         /\ \A t \in targets : t = 1 => was_root_of_tree(t) /\ ~was_orphan(t)
         /\ \A t \in targets : t # 1 /\ was_root_of_tree(t) => was_orphan(t)
         /\ NoJoin => \A s \in targets : s # 1 => 1 \notin After(s)
<1>0. ASSUME NEW t \in targets
      PROVE  /\ t \in Procs /\ t \in alive /\ TreeInv(t) /\ TreeType
             /\ header[t].ppid = ppid[t] /\ header[t].pgid = pgid[t]
             /\ header[t].sid = sid[t] /\ header[t].xnd_ppid = forker[t]
             /\ was_root_of_tree(t) <=> forker[t] \notin targets
  BY HeaderIsTree DEF Tree
<1>1. ASSUME NEW t \in targets, t = 1
      PROVE  /\ forker[t] = Outside /\ sid[t] \in {Outside, 1} /\ ppid[t] = Outside
             /\ NoJoin => pgid[t] = 1
             /\ forker[t] \notin targets
  <2>1. forker[t] = Outside
    BY <1>0, <1>1, ConstantsAssumption DEF TreeInv, TreeType, Procs, Outside
  <2>2. sid[t] \in {Outside, 1}
    BY <1>0, <1>1, ConstantsAssumption DEF TreeInv, TreeType, Procs, Outside
  <2>3. NoJoin => pgid[t] = 1
    BY <1>0, <1>1, ConstantsAssumption DEF TreeInv, TreeType, Procs, Outside
  <2>4. Outside \notin targets
    BY HeaderIsTree DEF Procs, Outside
  <2>5. ppid[t] = Outside
    BY <1>0, <1>1 DEF TreeInv
  <2> QED
    BY <2>1, <2>2, <2>3, <2>4, <2>5
<1>2. \A t \in targets : t = 1 => was_root_of_tree(t) /\ ~was_orphan(t)
  BY <1>0, <1>1 DEF was_orphan, Launchd, Outside
<1>3. ASSUME NEW t \in targets, t # 1, was_root_of_tree(t)
      PROVE  was_orphan(t)
  <2>1. forker[t] \notin alive
    BY <1>0, <1>3, HeaderIsTree
  <2> QED
    BY <1>0, <1>3, <2>1 DEF TreeInv, was_orphan
<1>4. 1 \in targets => 1 \in independent_roots
  <2> SUFFICES ASSUME 1 \in targets PROVE 1 \in independent_roots
    OBVIOUS
  <2>1. indegree_of(1) = 0
    BY <1>2, Roots
  <2>2. \A s \in targets \ {1} : ~was_session_leader_of(s, 1)
    <3>1. Outside \notin targets
      BY HeaderIsTree DEF Procs, Outside
    <3> QED
      BY <1>0, <1>1, <3>1 DEF was_session_leader_of
  <2> QED
    BY <2>1, <2>2 DEF independent_roots
<1>5. ASSUME NoJoin, NEW s \in targets, s # 1, 1 \in After(s) PROVE FALSE
  <2>1. 1 \in targets /\ (sid[1] = s \/ pgid[1] = s)
    BY <1>0, <1>5 DEF After, was_session_leader_of, was_group_leader_of
  <2>2. s # Outside
    BY HeaderIsTree DEF Procs, Outside
  <2> QED
    BY <1>1, <1>5, <2>1, <2>2
<1> QED
  BY <1>2, <1>3, <1>4, <1>5

\* There is always a root to begin with: the lowest id.
LEMMA SomeRoot ==
  ASSUME Tree, ~Running
  PROVE  independent_roots # {}
<1> DEFINE m == Min(alive)
<1>1. m \in alive /\ (\A y \in alive : m <= y) /\ m \in Procs
  BY Smallest DEF Tree, TreeType
<1>2. forker[m] < m /\ sid[m] <= m /\ forker[m] \in Procs \cup {Outside} /\ sid[m] \in Procs \cup {Outside}
  BY <1>1 DEF Tree, TreeType, TreeInv
<1> HIDE DEF m
<1>3. targets = alive /\ alive \subseteq Procs /\ m \in targets
  BY <1>1, HeaderIsTree DEF Tree, TreeType
<1>4. forker[m] \notin targets
  BY <1>1, <1>2, <1>3, ConstantsAssumption DEF Procs, Outside
<1>5. indegree_of(m) = 0
  BY <1>3, <1>4, HeaderIsTree, Roots
<1>6. \A s \in targets \ {m} : sid[m] # s
  BY <1>1, <1>2, <1>3, ConstantsAssumption DEF Procs, Outside
<1>7. \A s \in targets \ {m} : ~was_session_leader_of(s, m)
  BY <1>3, <1>6, HeaderIsTree DEF was_session_leader_of
<1> QED
  BY <1>3, <1>5, <1>7 DEF independent_roots

-----------------------------------------------------------------------------
(* The computation *)

\* As long as it runs there is no restart.
LEMMA NoRestartYet ==
  ASSUME Tree, Running', inst' = <<>>
  PROVE  Inst' /\ Parents' /\ Places'
<1>1. DOMAIN inst' = {}
  OBVIOUS
<1>2. InstType'
  BY ConstantsAssumption DEF InstType
<1> QED
  BY <1>1, <1>2 DEF Inst, Parents, Places

LEMMA InitHolds == Init => IInv
<1> SUFFICES ASSUME Init PROVE IInv
  OBVIOUS
<1>1. Running /\ inst = <<>> /\ DOMAIN inst = {}
  BY DEF Init, Running
<1>2. TreeType
  BY ConstantsAssumption DEF Init, TreeType, Procs
<1>3. ASSUME NEW p \in Procs PROVE TreeInv(p)
  BY ConstantsAssumption DEF Init, TreeInv, Procs, Outside, Created
<1>4. InstType
  BY <1>1, ConstantsAssumption DEF InstType
<1> QED
  BY <1>1, <1>2, <1>3, <1>4 DEF IInv, Tree, HeaderInv, Inst, Parents, Places

LEMMA ForkKeeps ==
  ASSUME IInv, NEW p \in Procs, Fork(p)
  PROVE  IInv'
<1> USE DEF IInv, Tree
<1>1. Running /\ Running' /\ inst' = <<>> /\ p \in alive
  BY DEF Fork, Running, Inst, InstType
<1>2. PICK c \in Procs :
        /\ c # 1 /\ forker[c] = Outside
        /\ \A q \in 2 .. c - 1 : forker[q] # Outside
        /\ alive'  = alive \cup {c}
        /\ forker' = [forker EXCEPT ![c] = p]
        /\ ppid'   = [ppid EXCEPT ![c] = p]
        /\ pgid'   = [pgid EXCEPT ![c] = pgid[p]]
        /\ sid'    = [sid EXCEPT ![c] = sid[p]]
  BY DEF Fork
<1>3. c \in Nat /\ p \in Nat /\ 1 <= c /\ 1 <= p
  BY ConstantsAssumption DEF Procs
<1>4. p < c
  <2>1. TreeInv(p) /\ ~Created(c)
    BY <1>2 DEF Created
  <2>2. Created(p)
    BY <1>1, <2>1 DEF TreeInv
  <2>3. ~(c < p)
    BY <2>1, <2>2 DEF TreeInv
  <2>4. c # p
    BY <2>1, <2>2
  <2> QED
    BY <1>3, <2>3, <2>4
<1>5. c \notin alive
  <2>1. TreeInv(c) /\ ~Created(c)
    BY <1>2 DEF Created
  <2> QED
    BY <2>1 DEF TreeInv
<1>6. TreeType'
  BY <1>2 DEF TreeType
<1>7. ASSUME NEW x \in Procs PROVE Created(x)' <=> (x = c \/ Created(x))
  BY <1>2, <1>3 DEF Created, TreeType, Procs, Outside
<1>8. ASSUME NEW x \in Procs, NEW q \in Procs, Created(x)', q < x PROVE Created(q)'
  <2>1. CASE x = c
    <3>1. q = 1 \/ q \in 2 .. c - 1
      BY <1>3, <1>8, <2>1 DEF Procs
    <3>2. Created(q)
      BY <1>2, <3>1 DEF Created
    <3> QED
      BY <1>7, <3>2
  <2>2. CASE x # c
    <3>1. Created(x) /\ TreeInv(x)
      BY <1>7, <1>8, <2>2
    <3>2. Created(q)
      BY <1>8, <3>1 DEF TreeInv
    <3> QED
      BY <1>7, <3>2
  <2> QED
    BY <2>1, <2>2
<1>9. ASSUME NEW x \in Procs PROVE TreeInv(x)'
  <2>1. TreeInv(x) /\ TreeInv(p) /\ x \in Nat
    BY ConstantsAssumption DEF Procs
  <2>2. CASE x = c
    <3>1. forker'[x] = p /\ ppid'[x] = p /\ pgid'[x] = pgid[p] /\ sid'[x] = sid[p] /\ p \in alive'
      BY <1>1, <1>2, <2>2 DEF TreeType
    <3>2. sid'[x] < x /\ (NoJoin => pgid'[x] < x)
      BY <1>3, <1>4, <2>1, <2>2, <3>1 DEF TreeInv, TreeType, Procs, Outside
    <3>3. sid'[x] <= x /\ (NoJoin' => pgid'[x] <= x) /\ sid'[x] # x
      BY <1>3, <2>1, <3>1, <3>2 DEF NoJoin, TreeType, Procs, Outside
    <3> QED
      BY <1>2, <1>4, <1>7, <1>8, <2>2, <3>1, <3>3 DEF TreeInv
  <2>3. CASE x # c
    <3>1. /\ forker'[x] = forker[x] /\ ppid'[x] = ppid[x] /\ pgid'[x] = pgid[x]
          /\ sid'[x] = sid[x] /\ (x \in alive' <=> x \in alive)
      BY <1>2, <2>3 DEF TreeType
    <3>2. x \in alive /\ x # 1 => (forker[x] \in alive' <=> forker[x] \in alive)
      <4>1. x \in alive => Created(x)
        BY <2>1 DEF TreeInv
      <4>2. Created(x) => x < c
        BY <1>2, <1>3, <2>1, <2>3 DEF TreeInv, Created
      <4>3. forker[x] < x /\ forker[x] \in Int
        BY <2>1 DEF TreeInv, TreeType, Procs, Outside
      <4> QED
        BY <1>2, <1>3, <2>1, <4>1, <4>2, <4>3
    <3> QED
      BY <1>7, <1>8, <2>1, <2>3, <3>1, <3>2 DEF TreeInv, NoJoin
  <2> QED
    BY <2>2, <2>3
<1>10. HeaderInv'
  BY <1>1 DEF HeaderInv
<1> QED
  BY <1>1, <1>6, <1>9, <1>10, NoRestartYet

LEMMA SetSidKeeps ==
  ASSUME IInv, NEW p \in Procs, SetSid(p)
  PROVE  IInv'
<1> USE DEF IInv, Tree
<1>1. Running' /\ inst' = <<>>
  BY DEF SetSid, Running, Inst, InstType
<1>2. /\ sid' = [sid EXCEPT ![p] = p] /\ pgid' = [pgid EXCEPT ![p] = p]
      /\ UNCHANGED <<alive, forker, ppid>>
  BY DEF SetSid
<1>3. TreeType'
  BY <1>2 DEF TreeType
<1>4. ASSUME NEW x \in Procs PROVE TreeInv(x)'
  <2>1. TreeInv(x) /\ x \in Nat
    BY ConstantsAssumption DEF Procs
  <2>2. CASE x = p
    BY <1>2, <2>1, <2>2 DEF TreeInv, TreeType, Created
  <2>3. CASE x # p
    BY <1>2, <2>1, <2>3 DEF TreeInv, TreeType, Created, NoJoin
  <2> QED
    BY <2>2, <2>3
<1>5. HeaderInv'
  BY <1>1 DEF HeaderInv
<1> QED
  BY <1>1, <1>3, <1>4, <1>5, NoRestartYet

LEMMA SetPgidKeeps ==
  ASSUME IInv, NEW p \in Procs, SetPgid(p)
  PROVE  IInv'
<1> USE DEF IInv, Tree
<1>1. Running' /\ inst' = <<>> /\ sid[p] # p
  BY DEF SetPgid, Running, Inst, InstType
<1>2. PICK g \in Procs : /\ pgid' = [pgid EXCEPT ![p] = g]
                         /\ g = p \/ ~NoJoin
                         /\ UNCHANGED <<alive, forker, ppid, sid>>
  BY DEF SetPgid, NoJoin
<1>3. TreeType'
  BY <1>2 DEF TreeType
<1>4. ASSUME NEW x \in Procs PROVE TreeInv(x)'
  <2>1. TreeInv(x) /\ x \in Nat
    BY ConstantsAssumption DEF Procs
  <2>2. CASE x = p
    BY <1>1, <1>2, <2>1, <2>2 DEF TreeInv, TreeType, Created, NoJoin
  <2>3. CASE x # p
    BY <1>2, <2>1, <2>3 DEF TreeInv, TreeType, Created, NoJoin
  <2> QED
    BY <2>2, <2>3
<1>5. HeaderInv'
  BY <1>1 DEF HeaderInv
<1> QED
  BY <1>1, <1>3, <1>4, <1>5, NoRestartYet

LEMMA ExitKeeps ==
  ASSUME IInv, NEW p \in Procs, Exit(p)
  PROVE  IInv'
<1> USE DEF IInv, Tree
<1>1. Running' /\ inst' = <<>>
  BY DEF Exit, Running, Inst, InstType
<1>2. /\ p \in alive /\ alive # {p} /\ alive' = alive \ {p}
      /\ ppid' = [q \in Procs |-> IF ppid[q] = p THEN Launchd ELSE ppid[q]]
      /\ UNCHANGED <<forker, pgid, sid>>
  BY DEF Exit
<1>3. TreeType'
  BY <1>2 DEF TreeType
<1>4. ASSUME NEW x \in Procs PROVE TreeInv(x)'
  <2>1. TreeInv(x)
    OBVIOUS
  <2>2. ppid'[x] = (IF ppid[x] = p THEN Launchd ELSE ppid[x])
    BY <1>2
  <2>3. p # Outside /\ p # Launchd
    BY ConstantsAssumption DEF Procs, Outside, Launchd
  <2>4. x \in alive' =>
          ppid'[x] = IF x = 1 THEN Outside
                     ELSE IF forker'[x] \in alive' THEN forker'[x] ELSE Launchd
    BY <1>2, <2>1, <2>2, <2>3 DEF TreeInv
  <2> QED
    BY <1>2, <2>1, <2>4 DEF TreeInv, Created, NoJoin
<1>5. HeaderInv'
  BY <1>1 DEF HeaderInv
<1> QED
  BY <1>1, <1>3, <1>4, <1>5, NoRestartYet

LEMMA CheckpointKeeps ==
  ASSUME IInv, Checkpoint
  PROVE  IInv'
<1> USE DEF IInv, Tree
<1>1. /\ header' = [p \in alive |-> xnd_ckptfile_write_header(p)]
      /\ UNCHANGED <<alive, forker, ppid, pgid, sid>> /\ inst' = <<>>
  BY DEF Checkpoint, treeVars, Inst, InstType
<1>2. TreeType'
  BY <1>1 DEF TreeType
<1>3. ASSUME NEW x \in Procs PROVE TreeInv(x)'
  <2>1. TreeInv(x)
    OBVIOUS
  <2> QED
    BY <1>1, <2>1 DEF TreeInv, Created, NoJoin
<1>4. HeaderInv'
  BY <1>1 DEF HeaderInv, xnd_ckptfile_write_header, coord_determine_roots
<1>5. InstType' /\ DOMAIN inst' = {}
  BY <1>1, ConstantsAssumption DEF InstType
<1> QED
  BY <1>2, <1>3, <1>4, <1>5 DEF Inst, Parents, Places

-----------------------------------------------------------------------------
(* The restart: what stays as it is *)

\* A step of the restart: no process of it is lost, nor what it stands for.
Grows ==
  /\ UNCHANGED <<treeVars, header>>
  /\ inst' \in Seq(Records) /\ Len(inst) <= Len(inst') /\ Len(inst') <= NInsts
  /\ \A j \in DOMAIN inst : inst'[j].t = inst[j].t

\* A step of one process.
Moves(i, r) ==
  /\ UNCHANGED <<treeVars, header>>
  /\ i \in DOMAIN inst /\ r \in Records /\ r.t = inst[i].t
  /\ inst' = [inst EXCEPT ![i] = r]

LEMMA Indices ==
  ASSUME InstType
  PROVE  /\ DOMAIN inst = 1 .. Len(inst) /\ Len(inst) \in Nat
         /\ \A j \in DOMAIN inst : inst[j] \in Records /\ j \in Insts
         /\ inst # <<>> => ~Running
<1>1. inst \in Seq(Records) /\ Len(inst) <= NInsts
  BY DEF InstType
<1>2. DOMAIN inst = 1 .. Len(inst) /\ Len(inst) \in Nat
  BY <1>1
<1> QED
  BY <1>1, <1>2, ConstantsAssumption DEF InstType, Insts

LEMMA MoveGrows ==
  ASSUME Inst, NEW i, NEW r, Moves(i, r)
  PROVE  /\ Grows /\ DOMAIN inst' = DOMAIN inst /\ inst'[i] = r
         /\ \A j \in DOMAIN inst : j # i => inst'[j] = inst[j]
<1>1. inst \in Seq(Records) /\ Len(inst) <= NInsts /\ i \in DOMAIN inst /\ r \in Records
  BY DEF Inst, InstType, Moves
<1>2. inst' \in Seq(Records) /\ Len(inst') = Len(inst)
  BY <1>1 DEF Moves
<1>3. inst'[i] = r /\ \A j \in DOMAIN inst : j # i => inst'[j] = inst[j]
  BY <1>1 DEF Moves
<1>4. Len(inst) \in Nat /\ DOMAIN inst' = DOMAIN inst
  BY <1>1, <1>2
<1> QED
  BY <1>1, <1>2, <1>3, <1>4, ConstantsAssumption DEF Grows, Moves

LEMMA TreeStays ==
  ASSUME Tree, Grows
  PROVE  Tree'
<1>1. UNCHANGED <<alive, forker, ppid, pgid, sid, header>>
  BY DEF Grows, treeVars
<1>2. TreeType'
  BY <1>1 DEF Tree, TreeType
<1>3. ASSUME NEW p \in Procs PROVE TreeInv(p)'
  <2>1. TreeInv(p)
    BY DEF Tree
  <2> QED
    BY <1>1, <2>1 DEF TreeInv, Created, NoJoin
<1>4. HeaderInv'
  BY <1>1 DEF Tree, HeaderInv, Running, xnd_ckptfile_write_header, coord_determine_roots
<1> QED
  BY <1>2, <1>3, <1>4 DEF Tree

LEMMA TypeStays ==
  ASSUME Inst, Grows, inst # <<>>
  PROVE  InstType' /\ ~Running' /\ DOMAIN inst \subseteq DOMAIN inst'
<1>1. ~Running' /\ header' = header
  BY Indices DEF Inst, Grows, Running
<1>2. Len(inst) \in Nat /\ Len(inst') \in Nat /\ DOMAIN inst = 1 .. Len(inst) /\ DOMAIN inst' = 1 .. Len(inst')
  BY Indices DEF Inst, Grows
<1> QED
  BY <1>1, <1>2 DEF Grows, InstType

LEMMA TargetsStay ==
  ASSUME Inst, Grows, inst # <<>>, NEW g \in Int, g <= Len(inst)
  PROVE  TargetOf(g)' = TargetOf(g)
<1>1. /\ DOMAIN inst = 1 .. Len(inst) /\ DOMAIN inst' = 1 .. Len(inst')
      /\ Len(inst) \in Nat /\ Len(inst') \in Nat /\ Len(inst) <= Len(inst')
  BY Indices DEF Inst, Grows
<1>2. g \in DOMAIN inst <=> g \in DOMAIN inst'
  BY <1>1
<1> QED
  BY <1>2 DEF TargetOf, Grows

\* A process that does not move.
LEMMA StandsStill ==
  ASSUME Inst, Grows, NEW j \in DOMAIN inst, inst'[j] = inst[j]
  PROVE  /\ InstInv(j)'
         /\ ParentInv(j) => ParentInv(j)'
         /\ PlaceInv(j) => PlaceInv(j)'
<1>1. header' = header /\ InstInv(j) /\ inst # <<>>
  BY DEF Grows, Inst
<1>2. InstInv(j)'
  BY <1>1, Fixed DEF InstInv, was_group_leader, was_session_leader
<1>3. ASSUME ParentInv(j) PROVE ParentInv(j)'
  <2>1. DOMAIN inst \subseteq DOMAIN inst'
    BY <1>1, TypeStays
  <2>2. CASE was_root_of_tree(inst[j].t)
    BY <1>1, <1>3, <2>2, Fixed DEF ParentInv, was_root_of_tree, was_orphan
  <2>3. CASE ~was_root_of_tree(inst[j].t)
    <3>1. inst[j].parent \in DOMAIN inst /\ was_parent_of(inst[inst[j].parent].t, inst[j].t)
      BY <1>3, <2>3 DEF ParentInv
    <3>2. inst'[inst[j].parent].t = inst[inst[j].parent].t
      BY <3>1 DEF Grows
    <3>3. j = 1 /\ 1 \in targets' => inst'[j].t = 1
      BY <1>1, <1>3, Fixed DEF ParentInv
    <3>4. ~was_root_of_tree(inst[j].t)'
      BY <1>1, <2>3 DEF was_root_of_tree
    <3>5. inst'[j].parent \in DOMAIN inst' /\ was_parent_of(inst[inst[j].parent].t, inst[j].t)'
      BY <1>1, <2>1, <3>1, <3>2 DEF was_parent_of
    <3> QED
      BY <3>3, <3>4, <3>5 DEF ParentInv
  <2> QED
    BY <2>2, <2>3
<1>4. ASSUME PlaceInv(j) PROVE PlaceInv(j)'
  <2>1. /\ inst[j].group \in Int /\ inst[j].session \in Int /\ j <= Len(inst) /\ j \in Int
        /\ Len(inst) \in Nat
    BY Indices DEF Inst, Records, Insts, Outside
  <2>2. inst[j].group <= Len(inst) /\ inst[j].session <= Len(inst)
    BY <1>1, <2>1 DEF InstInv
  <2>3. /\ TargetOf(inst[j].group)' = TargetOf(inst[j].group)
        /\ TargetOf(inst[j].session)' = TargetOf(inst[j].session)
    <3>1. \A g \in Int : g <= Len(inst) => TargetOf(g)' = TargetOf(g)
      BY <1>1, TargetsStay
    <3> QED
      BY <2>1, <2>2, <3>1
  <2> QED
    BY <1>1, <1>4, <2>3, Fixed DEF PlaceInv
<1> QED
  BY <1>2, <1>3, <1>4

\* A move that keeps InstInv, the parent and the place of the process, and adds
\* nothing to what it owes, keeps the whole invariant.
LEMMA MoveKeeps ==
  ASSUME IInv, NEW i, NEW r, Moves(i, r), r.parent = inst[i].parent,
         InstInv(i)', PlaceInv(i) /\ Places => PlaceInv(i)', Owed(i)' \subseteq Owed(i)
  PROVE  IInv'
<1> USE DEF IInv
<1>1. /\ Grows /\ DOMAIN inst' = DOMAIN inst /\ inst'[i] = r /\ i \in DOMAIN inst /\ r.t = inst[i].t
      /\ header' = header
      /\ \A j \in DOMAIN inst : j # i => inst'[j] = inst[j]
  BY MoveGrows DEF Moves, Grows
<1>2. Tree' /\ InstType' /\ Plain' = Plain
  BY <1>1, TreeStays, TypeStays, Fixed DEF Grows
<1>3. ASSUME NEW j \in DOMAIN inst' PROVE InstInv(j)'
  BY <1>1, StandsStill
<1>4. ASSUME NoJoin, NEW j \in DOMAIN inst' PROVE ParentInv(j)'
  <2>1. ParentInv(j)
    BY <1>1, <1>4 DEF Parents
  <2>2. CASE j # i
    BY <1>1, <2>1, <2>2, StandsStill
  <2>3. CASE j = i
    <3>1. inst'[i].t = inst[i].t /\ inst'[i].parent = inst[i].parent
      BY <1>1
    <3>2. i = 1 /\ 1 \in targets' => inst'[i].t = 1
      BY <1>1, <2>1, <2>3, <3>1, Fixed DEF ParentInv
    <3>3. CASE was_root_of_tree(inst[i].t)
      BY <1>1, <2>1, <2>3, <3>1, <3>2, <3>3 DEF ParentInv, was_root_of_tree, was_orphan
    <3>4. CASE ~was_root_of_tree(inst[i].t)
      <4>1. inst[i].parent \in DOMAIN inst /\ was_parent_of(inst[inst[i].parent].t, inst[i].t)
        BY <2>1, <2>3, <3>4 DEF ParentInv
      <4>2. inst'[inst[i].parent].t = inst[inst[i].parent].t
        BY <1>1, <4>1 DEF Grows
      <4>3. ~was_root_of_tree(inst[i].t)' /\ was_parent_of(inst[inst[i].parent].t, inst[i].t)'
        BY <1>1, <3>1, <3>4, <4>1, <4>2 DEF was_root_of_tree, was_parent_of
      <4> QED
        BY <1>1, <2>3, <3>1, <3>2, <4>1, <4>3 DEF ParentInv
    <3> QED
      BY <3>3, <3>4
  <2> QED
    BY <2>2, <2>3
<1>5. ASSUME NoJoin, Plain, NEW j \in DOMAIN inst' PROVE OnceInv(j)' /\ PlaceInv(j)'
  <2>1. OnceInv(j) /\ PlaceInv(j)
    BY <1>1, <1>5 DEF Places
  <2>2. Owed(j)' \subseteq Owed(j)
    <3>1. CASE j # i
      BY <1>1, <3>1, Fixed DEF Owed
    <3> QED
      BY <3>1
  <2>3. OnceInv(j)'
    BY <1>1, <2>1, <2>2 DEF OnceInv, Grows
  <2>4. PlaceInv(j)'
    BY <1>1, <2>1, StandsStill
  <2> QED
    BY <2>3, <2>4
<1> QED
  BY <1>1, <1>2, <1>3, <1>4, <1>5 DEF Inst, Parents, Places, NoJoin

-----------------------------------------------------------------------------
(* The restart: its steps *)

LEMMA RootsDoneKeeps ==
  ASSUME IInv, NEW i \in Insts, RootsDone(i)
  PROVE  IInv'
<1> DEFINE r == [inst[i] EXCEPT !.pc = "before", !.todo = Before(inst[i].t)]
<1>1. /\ i \in DOMAIN inst /\ inst[i].pc = "roots" /\ inst[i] \in Records /\ InstInv(i)
      /\ UNCHANGED <<treeVars, header>>
  BY Indices DEF RootsDone, IInv, Inst
<1>2. Before(inst[i].t) \subseteq targets /\ targets \subseteq Procs
  <2>1. ~Running
    BY <1>1, Indices DEF IInv, Inst
  <2> QED
    BY <2>1, HeaderIsTree DEF IInv, Before, children_of
<1>3. inst' = [inst EXCEPT ![i] = r]
  BY DEF RootsDone
<1>4. /\ r \in Records /\ r.t = inst[i].t /\ r.parent = inst[i].parent /\ r.group = inst[i].group
      /\ r.session = inst[i].session /\ r.pc = "before" /\ r.todo = Before(inst[i].t)
  BY <1>1, <1>2 DEF Records
<1> HIDE DEF r
<1>5. Moves(i, r)
  BY <1>1, <1>3, <1>4 DEF Moves
<1>6. inst'[i] = r /\ header' = header
  BY <1>1, <1>5, MoveGrows DEF IInv
<1>7. InstInv(i)'
  BY <1>1, <1>4, <1>6, Fixed DEF InstInv
<1>8. ASSUME PlaceInv(i) PROVE PlaceInv(i)'
  <2>1. Inst /\ Grows /\ inst # <<>>
    BY <1>1, <1>5, MoveGrows DEF IInv
  <2>2. /\ inst[i].group \in Int /\ inst[i].session \in Int /\ i <= Len(inst) /\ i \in Int
        /\ Len(inst) \in Nat
    BY <1>1, <2>1, Indices DEF Inst, Records, Insts, Outside
  <2>3. inst[i].group <= Len(inst) /\ inst[i].session <= Len(inst)
    BY <1>1, <2>2 DEF InstInv
  <2>4. \A g \in Int : g <= Len(inst) => TargetOf(g)' = TargetOf(g)
    BY <2>1, TargetsStay
  <2> QED
    BY <1>1, <1>4, <1>6, <1>8, <2>2, <2>3, <2>4, Fixed DEF PlaceInv
<1>9. Owed(i)' \subseteq Owed(i)
  BY <1>1, <1>4, <1>6, Fixed DEF Owed
<1> QED
  BY <1>4, <1>5, <1>7, <1>8, <1>9, MoveKeeps

\* A process becomes the leader it was; a session leader leads its group, too.
LEMMA LeadKeeps ==
  ASSUME IInv, NEW i \in Insts, Lead(i)
  PROVE  IInv'
<1>0. PICK t, s, g :
        /\ t = inst[i].t
        /\ s = IF was_session_leader(t) THEN i ELSE inst[i].session
        /\ g = IF was_session_leader(t) \/ was_group_leader(t) THEN i ELSE inst[i].group
  OBVIOUS
<1> DEFINE r == [inst[i] EXCEPT !.pc = "after", !.todo = After(t), !.session = s, !.group = g]
<1>1. /\ i \in DOMAIN inst /\ inst[i].pc = "before" /\ inst[i].todo = {}
      /\ inst[i] \in Records /\ InstInv(i) /\ UNCHANGED <<treeVars, header>>
  BY Indices DEF Lead, IInv, Inst
<1>2. ~Running /\ t \in targets
  BY <1>0, <1>1, Indices DEF IInv, Inst, InstInv
<1>3. After(t) \subseteq targets /\ targets \subseteq Procs
  BY <1>2, HeaderIsTree DEF IInv, After
<1>4. was_session_leader(t) => was_group_leader(t)
  BY <1>2, HeaderIsTree DEF IInv, Tree, TreeInv, was_session_leader, was_group_leader
<1>5. inst' = [inst EXCEPT ![i] = r]
  BY <1>0 DEF Lead
<1>6. s \in Insts \cup {Outside} /\ g \in Insts \cup {Outside}
  BY <1>0, <1>1 DEF Records
<1>7. /\ r \in Records /\ r.t = t /\ r.parent = inst[i].parent /\ r.group = g
      /\ r.session = s /\ r.pc = "after" /\ r.todo = After(t)
  BY <1>0, <1>1, <1>3, <1>6 DEF Records
<1>8. /\ g = i <=> was_group_leader(t)
      /\ s = i <=> was_session_leader(t)
      /\ g <= i /\ s <= i
  BY <1>0, <1>1, <1>4, ConstantsAssumption DEF InstInv, Records, Insts, Outside
<1> HIDE DEF r
<1>9. Moves(i, r)
  BY <1>0, <1>1, <1>5, <1>7 DEF Moves
<1>10. inst'[i] = r /\ header' = header /\ Grows /\ DOMAIN inst' = DOMAIN inst
  BY <1>1, <1>9, MoveGrows DEF IInv
<1>11. InstInv(i)'
  <2>1. header'[t].pgid = header[t].pgid /\ header'[t].sid = header[t].sid
    BY <1>10
  <2>2. /\ inst'[i].group = i <=> header'[t].pgid = t
        /\ inst'[i].session = i <=> header'[t].sid = t
    BY <1>7, <1>8, <1>10, <2>1 DEF was_group_leader, was_session_leader
  <2>3. inst'[i].t = t /\ inst'[i].pc = "after" /\ inst'[i].todo = After(t)
    BY <1>7, <1>10
  <2>4. inst'[i].group <= i /\ inst'[i].session <= i /\ inst'[i].parent < i
    BY <1>1, <1>7, <1>8, <1>10 DEF InstInv
  <2>5. After(t)' = After(t) /\ targets' = targets
    BY <1>10, Fixed
  <2> QED
    BY <1>2, <2>2, <2>3, <2>4, <2>5 DEF InstInv, was_group_leader, was_session_leader
<1>12. ASSUME PlaceInv(i) PROVE PlaceInv(i)'
  <2>1. Inst /\ inst # <<>> /\ i \in DOMAIN inst'
    BY <1>1, <1>10 DEF IInv
  <2>2. /\ inst[i].group \in Int /\ inst[i].session \in Int /\ i <= Len(inst) /\ i \in Int
        /\ Len(inst) \in Nat
    BY <1>1, <2>1, Indices DEF Inst, Records, Insts, Outside
  <2>3. inst[i].group <= Len(inst) /\ inst[i].session <= Len(inst)
    BY <1>1, <2>2 DEF InstInv
  <2>4. \A x \in Int : x <= Len(inst) => TargetOf(x)' = TargetOf(x)
    BY <1>10, <2>1, TargetsStay
  <2>5. TargetOf(i)' = t /\ SavedAs(t) = t
    BY <1>2, <1>7, <1>10, <2>1 DEF TargetOf, SavedAs
  <2>6. TargetOf(g)' = SavedAs(header[t].pgid)
    <3>1. CASE was_group_leader(t)
      BY <1>8, <2>5, <3>1 DEF was_group_leader
    <3>2. CASE ~was_group_leader(t)
      <4>1. g = inst[i].group
        BY <1>0, <1>4, <3>2
      <4> QED
        BY <1>0, <1>12, <2>2, <2>3, <2>4, <3>2, <4>1 DEF was_group_leader, PlaceInv
    <3> QED
      BY <3>1, <3>2
  <2>7. TargetOf(s)' = SavedAs(header[t].sid)
    <3>1. CASE was_session_leader(t)
      BY <1>8, <2>5, <3>1 DEF was_session_leader
    <3>2. CASE ~was_session_leader(t)
      <4>1. s = inst[i].session
        BY <1>0, <3>2
      <4> QED
        BY <1>0, <1>12, <2>2, <2>3, <2>4, <3>2, <4>1 DEF was_session_leader, PlaceInv
    <3> QED
      BY <3>1, <3>2
  <2>8. inst'[i].t = t /\ inst'[i].group = g /\ inst'[i].session = s /\ header' = header
    BY <1>7, <1>10
  <2> QED
    BY <2>6, <2>7, <2>8, Fixed DEF PlaceInv
<1>13. Owed(i)' \subseteq Owed(i)
  BY <1>0, <1>1, <1>7, <1>10, Fixed DEF Owed
<1> QED
  BY <1>7, <1>9, <1>11, <1>12, <1>13, MoveKeeps

LEMMA ExecKeeps ==
  ASSUME IInv, NEW i \in Insts, exec_restart(i)
  PROVE  IInv'
<1> DEFINE r == [inst[i] EXCEPT !.pc = "restored"]
<1>1. /\ i \in DOMAIN inst /\ inst[i].pc = "after" /\ inst[i].todo = {} /\ inst[i] \in Records
      /\ InstInv(i) /\ UNCHANGED <<treeVars, header>>
  BY Indices DEF exec_restart, IInv, Inst
<1>3. inst' = [inst EXCEPT ![i] = r]
  BY DEF exec_restart
<1>4. /\ r \in Records /\ r.t = inst[i].t /\ r.parent = inst[i].parent /\ r.group = inst[i].group
      /\ r.session = inst[i].session /\ r.pc = "restored" /\ r.todo = {}
  BY <1>1 DEF Records
<1> HIDE DEF r
<1>5. Moves(i, r)
  BY <1>1, <1>3, <1>4 DEF Moves
<1>6. inst'[i] = r /\ header' = header
  BY <1>1, <1>5, MoveGrows DEF IInv
<1>7. InstInv(i)'
  BY <1>1, <1>4, <1>6, Fixed DEF InstInv, was_group_leader, was_session_leader
<1>8. ASSUME PlaceInv(i) PROVE PlaceInv(i)'
  <2>1. Inst /\ Grows /\ inst # <<>>
    BY <1>1, <1>5, MoveGrows DEF IInv
  <2>2. /\ inst[i].group \in Int /\ inst[i].session \in Int /\ i <= Len(inst) /\ i \in Int
        /\ Len(inst) \in Nat
    BY <1>1, <2>1, Indices DEF Inst, Records, Insts, Outside
  <2>3. inst[i].group <= Len(inst) /\ inst[i].session <= Len(inst)
    BY <1>1, <2>2 DEF InstInv
  <2>4. \A g \in Int : g <= Len(inst) => TargetOf(g)' = TargetOf(g)
    BY <2>1, TargetsStay
  <2> QED
    BY <1>1, <1>4, <1>6, <1>8, <2>2, <2>3, <2>4, Fixed DEF PlaceInv
<1>9. Owed(i)' \subseteq Owed(i)
  BY <1>1, <1>4, <1>6, Fixed DEF Owed
<1> QED
  BY <1>4, <1>5, <1>7, <1>8, <1>9, MoveKeeps

\* What a step of create_child or create_orphan does.
Creates(i, t, n, m, r) ==
  /\ i \in DOMAIN inst /\ n = Len(inst) + 1 /\ n \in Insts /\ n \notin DOMAIN inst
  /\ t \in inst[i].todo /\ t \in targets /\ t \in Procs
  /\ DOMAIN inst' = DOMAIN inst \cup {n} /\ Grows
  /\ inst'[i] = m /\ inst'[n] = r /\ \A j \in DOMAIN inst : j # i => inst'[j] = inst[j]
  /\ m \in Records /\ r \in Records
  /\ m.t = inst[i].t /\ m.parent = inst[i].parent /\ m.group = inst[i].group
  /\ m.session = inst[i].session /\ m.pc = inst[i].pc /\ m.todo = inst[i].todo \ {t}
  /\ r.t = t /\ r.group = inst[i].group /\ r.session = inst[i].session
  /\ r.pc = "before" /\ r.todo = Before(t)
  /\ r.parent = IF inst[i].pc = "before" \/ (inst[i].pc = "after" /\ was_parent_of(inst[i].t, t))
                THEN i ELSE Launchd

LEMMA CreateStep ==
  ASSUME IInv, NEW i \in Insts, Create(i)
  PROVE  \E t, n, m, r : Creates(i, t, n, m, r)
<1>1. /\ i \in DOMAIN inst /\ inst[i] \in Records /\ InstInv(i) /\ inst[i].todo # {}
      /\ inst \in Seq(Records) /\ Len(inst) \in Nat /\ Len(inst) < NInsts
      /\ DOMAIN inst = 1 .. Len(inst) /\ UNCHANGED <<treeVars, header>> /\ ~Running
  BY Indices DEF Create, IInv, Inst, InstType
<1>2. PICK t, n, par :
        /\ t = Min(inst[i].todo) /\ n = Len(inst) + 1
        /\ par = IF inst[i].pc = "before" \/ (inst[i].pc = "after" /\ was_parent_of(inst[i].t, t))
                 THEN i ELSE Launchd
  OBVIOUS
<1>3. PICK m, r :
        /\ m = [inst[i] EXCEPT !.todo = inst[i].todo \ {t}]
        /\ r = [t |-> t, parent |-> par, group |-> inst[i].group,
                session |-> inst[i].session, pc |-> "before", todo |-> Before(t)]
  OBVIOUS
<1>4. t \in inst[i].todo /\ t \in Procs
  BY <1>1, <1>2, Smallest DEF Records
<1>5. t \in targets
  BY <1>1, <1>4 DEF InstInv, Records, Before, After, independent_roots, children_of
<1>6. Before(t) \subseteq Procs
  BY <1>1, HeaderIsTree DEF IInv, Before, children_of
<1>7. m \in Records
  BY <1>1, <1>3 DEF Records
<1>8. /\ m.t = inst[i].t /\ m.parent = inst[i].parent /\ m.group = inst[i].group
      /\ m.session = inst[i].session /\ m.pc = inst[i].pc /\ m.todo = inst[i].todo \ {t}
  BY <1>1, <1>3 DEF Records
<1>9. r \in Records
  <2>1. par \in Insts \cup {Outside, Launchd}
    BY <1>2
  <2> QED
    BY <1>1, <1>3, <1>4, <1>6, <2>1 DEF Records
<1>10. inst' = Append([inst EXCEPT ![i] = m], r)
  <2>1. create_process(t, par, inst[i].group, inst[i].session, FALSE) = r
    BY <1>3 DEF create_process
  <2> QED
    BY <1>2, <1>3, <2>1 DEF Create
<1>11. PICK q : q = [inst EXCEPT ![i] = m]
  OBVIOUS
<1>12. /\ q \in Seq(Records) /\ Len(q) = Len(inst) /\ q[i] = m
       /\ \A j \in DOMAIN inst : j # i => q[j] = inst[j]
  BY <1>1, <1>7, <1>11
<1>13. /\ inst' \in Seq(Records) /\ Len(inst') = n /\ inst'[n] = r
       /\ \A j \in 1 .. Len(inst) : inst'[j] = q[j]
  BY <1>1, <1>2, <1>9, <1>10, <1>11, <1>12
<1>14. /\ inst'[i] = m /\ \A j \in DOMAIN inst : j # i => inst'[j] = inst[j]
  BY <1>1, <1>12, <1>13
<1>15. /\ n \in Insts /\ n \notin DOMAIN inst /\ DOMAIN inst' = DOMAIN inst \cup {n}
       /\ Len(inst) <= Len(inst') /\ Len(inst') <= NInsts
  BY <1>1, <1>2, <1>13, ConstantsAssumption DEF Insts
<1>16. Grows
  BY <1>1, <1>8, <1>13, <1>14, <1>15 DEF Grows
<1>17. /\ r.t = t /\ r.group = inst[i].group /\ r.session = inst[i].session
       /\ r.pc = "before" /\ r.todo = Before(t) /\ r.parent = par
  BY <1>3
<1>18. Creates(i, t, n, m, r)
  BY <1>1, <1>2, <1>4, <1>5, <1>7, <1>8, <1>9, <1>13, <1>14, <1>15, <1>16, <1>17 DEF Creates
<1> QED
  BY <1>18

\* Which targets a process creates when.
LEMMA Chosen ==
  ASSUME IInv, NEW i \in DOMAIN inst, NEW t \in inst[i].todo
  PROVE  /\ ~Running /\ t \in targets /\ inst[i].t \in targets
         /\ inst[i].pc = "roots" => i = 1 /\ was_root_of_tree(t) /\ t # inst[i].t
         /\ inst[i].pc = "before" => t \in children_of(inst[i].t) /\ t \notin After(inst[i].t)
         /\ inst[i].pc = "after" => /\ t \in After(inst[i].t) /\ t # inst[i].t
                                    /\ was_parent_of(inst[i].t, t) \/ was_root_of_tree(t)
         /\ inst[i].pc \in {"roots", "before", "after"}
<1>1. /\ InstInv(i) /\ inst[i] \in Records /\ ~Running /\ Tree
  BY Indices DEF IInv, Inst
<1>2. inst[i].t \in targets
  BY <1>1 DEF InstInv
<1>3. inst[i].pc = "roots" => i = 1 /\ was_root_of_tree(t) /\ t # inst[i].t /\ t \in targets
  <2> SUFFICES ASSUME inst[i].pc = "roots"
               PROVE  i = 1 /\ was_root_of_tree(t) /\ t # inst[i].t /\ t \in targets
    OBVIOUS
  <2>1. i = 1 /\ t \in independent_roots /\ t # inst[i].t
    BY <1>1 DEF InstInv
  <2>2. t \in targets /\ indegree_of(t) = 0
    BY <2>1 DEF independent_roots
  <2> QED
    BY <1>1, <2>1, <2>2, Roots
<1>4. inst[i].pc = "before" => t \in children_of(inst[i].t) /\ t \notin After(inst[i].t) /\ t \in targets
  BY <1>1 DEF InstInv, Before, After, children_of
<1>5. inst[i].pc = "after" => /\ t \in After(inst[i].t) /\ t # inst[i].t /\ t \in targets
                              /\ was_parent_of(inst[i].t, t) \/ was_root_of_tree(t)
  BY <1>1 DEF InstInv, After
<1>6. inst[i].pc \in {"roots", "before", "after"}
  BY <1>1 DEF InstInv, Records
<1> QED
  BY <1>1, <1>2, <1>3, <1>4, <1>5, <1>6

\* A target that has a parent among the targets is no root, and process 1 is
\* created first.
LEMMA ParentOfCreated ==
  ASSUME IInv, NoJoin, NEW i \in DOMAIN inst, NEW t \in inst[i].todo
  PROVE  /\ was_parent_of(inst[i].t, t) <=> ~was_root_of_tree(t)
         /\ inst[i].pc = "before" => ~was_root_of_tree(t)
         /\ inst[i].pc = "roots" => was_root_of_tree(t)
         /\ was_root_of_tree(t) => was_orphan(t)
<1>1. /\ ~Running /\ t \in targets /\ inst[i].t \in targets /\ Tree
      /\ inst[i].pc = "roots" => i = 1 /\ was_root_of_tree(t) /\ t # inst[i].t
      /\ inst[i].pc = "before" => t \in children_of(inst[i].t) /\ t \notin After(inst[i].t)
      /\ inst[i].pc = "after" => /\ t \in After(inst[i].t) /\ t # inst[i].t
                                 /\ was_parent_of(inst[i].t, t) \/ was_root_of_tree(t)
      /\ inst[i].pc \in {"roots", "before", "after"}
  BY Chosen DEF IInv
<1>2. was_parent_of(inst[i].t, t) => ~was_root_of_tree(t)
  BY <1>1, HeaderIsTree DEF was_parent_of
<1>3. inst[i].pc = "before" => was_parent_of(inst[i].t, t)
  BY <1>1 DEF children_of
<1>4. t # 1
  <2> SUFFICES ASSUME t = 1 PROVE FALSE
    OBVIOUS
  <2>1. was_root_of_tree(t)
    BY <1>1, FirstProcess
  <2>2. inst[i].pc \in {"roots", "after"}
    BY <1>1, <1>2, <1>3, <2>1
  <2>3. CASE inst[i].pc = "roots"
    <3>1. ParentInv(i) /\ i = 1
      BY <1>1, <2>3 DEF IInv, Parents
    <3>2. inst[i].t = 1
      BY <1>1, <3>1 DEF ParentInv
    <3> QED
      BY <1>1, <2>3, <3>2
  <2>4. CASE inst[i].pc = "after"
    <3>1. inst[i].t # 1 /\ 1 \in After(inst[i].t)
      BY <1>1, <2>4
    <3> QED
      BY <1>1, <3>1, FirstProcess
  <2> QED
    BY <2>2, <2>3, <2>4
<1>5. was_root_of_tree(t) => was_orphan(t)
  BY <1>1, <1>4, FirstProcess
<1> QED
  BY <1>1, <1>2, <1>3, <1>5

\* A process creates another one.  In a plain family it is a child that nobody
\* has created, in the group and the session its creator is in by then.
LEMMA CreateKeeps ==
  ASSUME IInv, NEW i \in Insts, Create(i)
  PROVE  IInv'
<1> USE DEF IInv
<1>1. PICK t, n, m, r : Creates(i, t, n, m, r)
  BY CreateStep
<1>2. /\ i \in DOMAIN inst /\ n \in Insts /\ n \notin DOMAIN inst
      /\ t \in inst[i].todo /\ t \in targets
      /\ DOMAIN inst' = DOMAIN inst \cup {n} /\ Grows /\ header' = header
      /\ inst'[i] = m /\ inst'[n] = r /\ \A j \in DOMAIN inst : j # i => inst'[j] = inst[j]
  BY <1>1 DEF Creates, Grows
<1>3. /\ m.t = inst[i].t /\ m.parent = inst[i].parent /\ m.group = inst[i].group
      /\ m.session = inst[i].session /\ m.pc = inst[i].pc /\ m.todo = inst[i].todo \ {t}
  BY <1>1 DEF Creates
<1>4. /\ r.t = t /\ r.group = inst[i].group /\ r.session = inst[i].session
      /\ r.pc = "before" /\ r.todo = Before(t)
      /\ r.parent = IF inst[i].pc = "before" \/ (inst[i].pc = "after" /\ was_parent_of(inst[i].t, t))
                    THEN i ELSE Launchd
  BY <1>1 DEF Creates
<1>5. /\ Tree' /\ InstType' /\ Inst /\ InstInv(i) /\ inst # <<>> /\ ~Running
      /\ i \in Int /\ n \in Int /\ 1 <= i /\ i <= Len(inst) /\ n = Len(inst) + 1 /\ Len(inst) \in Nat
      /\ inst[i].group \in Int /\ inst[i].session \in Int
  <2>1. inst # <<>> /\ Tree' /\ InstType' /\ InstInv(i)
    BY <1>2, TreeStays, TypeStays DEF Inst
  <2>2. i \in Int /\ 1 <= i /\ i <= Len(inst) /\ Len(inst) \in Nat /\ ~Running /\ inst[i] \in Records
    BY <1>2, <2>1, Indices DEF Inst
  <2> QED
    BY <1>1, <2>1, <2>2 DEF Creates, Records, Insts, Outside
<1>6. InstInv(i)'
  BY <1>2, <1>3, <1>5, Fixed DEF InstInv, was_group_leader, was_session_leader
<1>7. InstInv(n)'
  <2>1. inst[i].group <= i /\ inst[i].session <= i
    BY <1>5 DEF InstInv
  <2>2. r.group < n /\ r.session < n /\ r.parent < n
    BY <1>4, <1>5, <2>1 DEF Launchd
  <2>3. r.group <= n /\ r.session <= n
    BY <1>4, <1>5, <2>2
  <2> QED
    BY <1>2, <1>4, <2>2, <2>3, Fixed DEF InstInv
<1>8. ASSUME NEW j \in DOMAIN inst' PROVE InstInv(j)'
  BY <1>2, <1>5, <1>6, <1>7, StandsStill
<1>9. ASSUME NoJoin, NEW j \in DOMAIN inst' PROVE ParentInv(j)'
  <2>1. CASE j \in DOMAIN inst /\ j # i
    BY <1>2, <1>5, <1>9, <2>1, StandsStill DEF Parents
  <2>2. CASE j = i
    <3>1. ParentInv(i)
      BY <1>2, <1>9 DEF Parents
    <3>2. inst'[i].t = inst[i].t /\ inst'[i].parent = inst[i].parent
      BY <1>2, <1>3
    <3>3. i = 1 /\ 1 \in targets' => inst'[i].t = 1
      BY <1>2, <3>1, <3>2, Fixed DEF ParentInv
    <3>4. CASE was_root_of_tree(inst[i].t)
      BY <1>2, <2>2, <3>1, <3>2, <3>3, <3>4 DEF ParentInv, was_root_of_tree, was_orphan
    <3>5. CASE ~was_root_of_tree(inst[i].t)
      <4>1. inst[i].parent \in DOMAIN inst /\ was_parent_of(inst[inst[i].parent].t, inst[i].t)
        BY <3>1, <3>5 DEF ParentInv
      <4>2. inst'[inst[i].parent].t = inst[inst[i].parent].t
        BY <1>2, <4>1 DEF Grows
      <4>3. ~was_root_of_tree(inst[i].t)' /\ was_parent_of(inst[inst[i].parent].t, inst[i].t)'
        BY <1>2, <3>2, <3>5, <4>1, <4>2 DEF was_root_of_tree, was_parent_of
      <4> QED
        BY <1>2, <2>2, <3>2, <3>3, <4>1, <4>3 DEF ParentInv
    <3> QED
      BY <3>4, <3>5
  <2>3. CASE j = n
    <3>1. /\ was_parent_of(inst[i].t, t) <=> ~was_root_of_tree(t)
          /\ inst[i].pc = "before" => ~was_root_of_tree(t)
          /\ inst[i].pc = "roots" => was_root_of_tree(t)
          /\ was_root_of_tree(t) => was_orphan(t)
          /\ inst[i].pc \in {"roots", "before", "after"}
      BY <1>2, <1>9, ParentOfCreated, Chosen
    <3>2. n # 1
      BY <1>5
    <3>3. inst'[n].t = t /\ inst'[i].t = inst[i].t
      BY <1>2, <1>3, <1>4
    <3>4. CASE was_root_of_tree(t)
      <4>1. r.parent = Launchd
        BY <1>4, <3>1, <3>4
      <4> QED
        BY <1>2, <2>3, <3>1, <3>2, <3>3, <3>4, <4>1 DEF ParentInv, was_root_of_tree, was_orphan
    <3>5. CASE ~was_root_of_tree(t)
      <4>1. r.parent = i /\ was_parent_of(inst[i].t, t)
        BY <1>4, <3>1, <3>5
      <4> QED
        BY <1>2, <2>3, <3>2, <3>3, <3>5, <4>1 DEF ParentInv, was_root_of_tree, was_parent_of
    <3> QED
      BY <3>4, <3>5
  <2> QED
    BY <1>2, <2>1, <2>2, <2>3
<1>10. ASSUME NoJoin, Plain, NEW j \in DOMAIN inst' PROVE OnceInv(j)' /\ PlaceInv(j)'
  <2>1. \A k \in DOMAIN inst : OnceInv(k) /\ PlaceInv(k) /\ ParentInv(k)
    BY <1>10 DEF Places, Parents
  <2>2. /\ ~was_root_of_tree(t) /\ was_parent_of(inst[i].t, t) /\ inst[i].t \in targets
        /\ inst[i].pc \in {"before", "after"}
        /\ inst[i].pc = "before" => t \notin After(inst[i].t)
        /\ inst[i].pc = "after" => t \in After(inst[i].t)
    <3>1. ~was_orphan(t)
      BY <1>2, <1>10 DEF Plain
    <3> QED
      BY <1>2, <1>10, <3>1, ParentOfCreated, Chosen
  <2>3. t # inst[i].t /\ t \in children_of(inst[i].t)
    <3>1. t # inst[i].t
      BY <1>2, <2>2, Chosen DEF children_of
    <3> QED
      BY <1>2, <2>2, <3>1 DEF children_of
  <2>4. t \in Owed(i)
    BY <1>2, <2>2, <2>3 DEF Owed
  <2>5. \A k \in DOMAIN inst : inst[k].t # t
    BY <1>2, <2>1, <2>4 DEF OnceInv
  <2>6. \A k \in DOMAIN inst : was_parent_of(t, inst[k].t) => FALSE
    <3> SUFFICES ASSUME NEW k \in DOMAIN inst, was_parent_of(t, inst[k].t) PROVE FALSE
      OBVIOUS
    <3>1. inst[k].t \in targets /\ ParentInv(k)
      BY <1>5, <2>1 DEF Inst, InstInv
    <3>2. ~was_root_of_tree(inst[k].t)
      BY <1>2, <1>5, <3>1, HeaderIsTree DEF was_parent_of
    <3>3. inst[k].parent \in DOMAIN inst /\ was_parent_of(inst[inst[k].parent].t, inst[k].t)
      BY <3>1, <3>2 DEF ParentInv
    <3>4. inst[inst[k].parent].t = t
      BY <3>3 DEF was_parent_of
    <3> QED
      BY <2>5, <3>3, <3>4
  <2>7. \A k \in DOMAIN inst : Owed(k)' \subseteq Owed(k) \ {t}
    <3> SUFFICES ASSUME NEW k \in DOMAIN inst PROVE Owed(k)' \subseteq Owed(k) \ {t}
      OBVIOUS
    <3>1. CASE k = i
      BY <1>2, <1>3, <2>2, <3>1, Fixed DEF Owed
    <3>2. CASE k # i
      <4>1. Owed(k)' = Owed(k)
        BY <1>2, <3>2, Fixed DEF Owed
      <4>2. inst[k].t # inst[i].t
        BY <1>2, <2>1, <3>2 DEF OnceInv
      <4>3. t \notin Owed(k)
        BY <2>2, <4>2 DEF Owed, children_of, was_parent_of
      <4> QED
        BY <4>1, <4>3
    <3> QED
      BY <3>1, <3>2
  <2>8. Owed(n)' \subseteq children_of(t)
    BY <1>2, <1>4, Fixed DEF Owed
  <2>9. OnceInv(j)'
    <3>1. \A k \in DOMAIN inst : inst'[k].t = inst[k].t
      BY <1>2 DEF Grows
    <3>2. inst'[n].t = t
      BY <1>2, <1>4
    <3>3. CASE j \in DOMAIN inst
      <4>1. OnceInv(j) /\ Owed(j)' \subseteq Owed(j) \ {t}
        BY <2>1, <2>7, <3>3
      <4>2. \A k \in DOMAIN inst : inst'[k].t \notin Owed(j)' /\ (inst'[k].t = inst'[j].t => k = j)
        BY <3>1, <3>3, <4>1 DEF OnceInv
      <4>3. inst'[n].t \notin Owed(j)' /\ inst'[n].t # inst'[j].t
        BY <2>5, <3>1, <3>2, <3>3, <4>1
      <4> QED
        BY <1>2, <4>2, <4>3 DEF OnceInv
    <3>4. CASE j = n
      <4>1. \A k \in DOMAIN inst : inst'[k].t \notin Owed(n)' /\ inst'[k].t # inst'[n].t
        BY <2>5, <2>6, <2>8, <3>1, <3>2 DEF children_of
      <4>2. inst'[n].t \notin Owed(n)'
        BY <2>8, <3>2 DEF children_of
      <4> QED
        BY <1>2, <3>4, <4>1, <4>2 DEF OnceInv
    <3> QED
      BY <1>2, <3>3, <3>4
  <2>10. \A g \in Int : g <= Len(inst) => TargetOf(g)' = TargetOf(g)
    BY <1>2, <1>5, TargetsStay
  <2>11. PICK g \in Int, s \in Int :
           /\ g = inst[i].group /\ s = inst[i].session
           /\ TargetOf(g)' = TargetOf(g) /\ TargetOf(s)' = TargetOf(s)
    <3>1. inst[i].group <= Len(inst) /\ inst[i].session <= Len(inst)
      BY <1>5 DEF InstInv
    <3>2. PICK g \in Int, s \in Int : g = inst[i].group /\ s = inst[i].session
      BY <1>5
    <3>3. TargetOf(g)' = TargetOf(g) /\ TargetOf(s)' = TargetOf(s)
      BY <2>10, <3>1, <3>2
    <3> QED
      BY <3>2, <3>3
  <2>12. PlaceInv(j)'
    <3>1. CASE j \in DOMAIN inst /\ j # i
      BY <1>2, <1>5, <2>1, <3>1, StandsStill
    <3>2. CASE j = i
      <4>1. /\ inst'[i].group = g /\ inst'[i].session = s /\ inst'[i].t = inst[i].t
            /\ inst'[i].pc = inst[i].pc
        BY <1>2, <1>3, <2>11
      <4> QED
        BY <1>2, <2>1, <2>11, <3>2, <4>1, Fixed DEF PlaceInv
    <3>3. CASE j = n
      <4>1. PICK u : u = inst[i].t
        OBVIOUS
      <4>2. /\ header[t].pgid \in {t, header[u].pgid} /\ header[t].sid \in {t, header[u].sid}
        BY <1>2, <1>10, <2>2, <4>1 DEF Plain
      <4>3. inst[i].pc = "before" => header[t].pgid # u /\ header[t].sid # u
        BY <1>2, <2>2, <2>3, <4>1 DEF After, was_group_leader_of, was_session_leader_of
      <4>4. header[t].pgid # t => TargetOf(g) = SavedAs(header[t].pgid)
        BY <1>2, <2>1, <2>2, <2>11, <4>1, <4>2, <4>3 DEF PlaceInv
      <4>5. header[t].sid # t => TargetOf(s) = SavedAs(header[t].sid)
        BY <1>2, <2>1, <2>2, <2>11, <4>1, <4>2, <4>3 DEF PlaceInv
      <4>6. /\ inst'[n].group = g /\ inst'[n].session = s /\ inst'[n].t = t
            /\ inst'[n].pc = "before"
        BY <1>2, <1>4, <2>11
      <4> QED
        BY <1>2, <2>11, <3>3, <4>4, <4>5, <4>6, Fixed DEF PlaceInv
    <3> QED
      BY <1>2, <3>1, <3>2, <3>3
  <2> QED
    BY <2>9, <2>12
<1>11. Plain' = Plain
  BY <1>2, Fixed
<1> QED
  BY <1>5, <1>8, <1>9, <1>10, <1>11 DEF Inst, Parents, Places, NoJoin

\* xnd_restart begins with process 1, if it was saved, as its own child.
LEMMA ProcessTargetsKeeps ==
  ASSUME IInv, process_targets
  PROVE  IInv'
<1> USE DEF IInv
<1>1. /\ ~Running /\ inst = <<>> /\ independent_roots # {} /\ UNCHANGED <<treeVars, header>>
  BY DEF process_targets
<1>2. PICK here, first, par :
        /\ here = {t \in independent_roots : ~was_orphan(t)}
        /\ first = Min(IF here # {} THEN here ELSE independent_roots)
        /\ par = IF here # {} THEN Outside ELSE Launchd
  OBVIOUS
<1>3. PICK r : r = [t |-> first, parent |-> par, group |-> Outside, session |-> Outside,
                    pc |-> "roots", todo |-> independent_roots \ {first}]
  OBVIOUS
<1>4. inst' = <<r>>
  BY <1>2, <1>3 DEF process_targets, create_process
<1>5. independent_roots \subseteq targets /\ targets \subseteq Procs
  BY <1>1, HeaderIsTree DEF independent_roots
<1>6. first \in independent_roots /\ (here # {} => first \in here) /\ first \in Procs
  <2>1. here \subseteq Procs /\ independent_roots \subseteq Procs
    BY <1>2, <1>5
  <2>2. CASE here # {}
    <3>1. first = Min(here)
      BY <1>2, <2>2
    <3>2. first \in here
      BY <2>1, <2>2, <3>1, Smallest
    <3> QED
      BY <1>2, <2>1, <3>2
  <2>3. CASE here = {}
    <3>1. first = Min(independent_roots)
      BY <1>2, <2>3
    <3> QED
      BY <1>1, <2>1, <2>3, <3>1, Smallest
  <2> QED
    BY <2>2, <2>3
<1>7. r \in Records
  BY <1>2, <1>3, <1>5, <1>6 DEF Records
<1>8. /\ inst' \in Seq(Records) /\ Len(inst') = 1 /\ DOMAIN inst' = {1} /\ inst'[1] = r
  BY <1>4, <1>7
<1>9. /\ r.t = first /\ r.parent = par /\ r.group = Outside /\ r.session = Outside
      /\ r.pc = "roots" /\ r.todo = independent_roots \ {first}
  BY <1>3
<1>10. Grows
  BY <1>1, <1>8, ConstantsAssumption DEF Grows
<1>11. Tree' /\ InstType' /\ header' = header
  <2>1. 1 <= NInsts
    BY ConstantsAssumption
  <2> QED
    BY <1>1, <1>8, <1>10, <2>1, TreeStays DEF InstType, Running, Grows
<1>12. InstInv(1)'
  BY <1>2, <1>5, <1>6, <1>8, <1>9, <1>11, Fixed DEF InstInv, Outside, Launchd
<1>13. was_root_of_tree(first) /\ first \in targets
  BY <1>1, <1>5, <1>6, Roots DEF independent_roots
<1>14. 1 \in targets => first = 1
  <2> SUFFICES ASSUME 1 \in targets PROVE first = 1
    OBVIOUS
  <2>1. 1 \in here
    BY <1>1, <1>2, FirstProcess
  <2>2. first \in here
    BY <1>6, <2>1
  <2>3. ~was_orphan(first)
    BY <1>2, <2>2
  <2> QED
    BY <1>1, <1>13, <2>3, FirstProcess
<1>15. ParentInv(1)'
  <2>1. par = IF was_orphan(first) THEN Launchd ELSE Outside
    <3>1. CASE here # {}
      BY <1>2, <1>6, <3>1
    <3>2. CASE here = {}
      BY <1>2, <1>6, <3>2
    <3> QED
      BY <3>1, <3>2
  <2>2. was_root_of_tree(first)' /\ (was_orphan(first)' <=> was_orphan(first))
    BY <1>11, <1>13 DEF was_root_of_tree, was_orphan
  <2>3. inst'[1].t = first /\ inst'[1].parent = par /\ targets' = targets
    BY <1>8, <1>9, <1>11, Fixed
  <2> QED
    BY <1>14, <2>1, <2>2, <2>3 DEF ParentInv
<1>16. OnceInv(1)'
  BY <1>8, <1>9, <1>11, Fixed DEF OnceInv, Owed, children_of
<1>17. ASSUME NoJoin, Plain PROVE PlaceInv(1)'
  <2>1. first = 1
    <3>1. ~was_orphan(first)
      BY <1>13, <1>17 DEF Plain
    <3> QED
      BY <1>1, <1>13, <3>1, FirstProcess
  <2>2. 1 \in Procs /\ TreeInv(1) /\ header[1].pgid = pgid[1] /\ header[1].sid = sid[1]
        /\ pgid[1] \in Procs /\ sid[1] \in Procs \cup {Outside}
    BY <1>1, <1>6, <1>13, <2>1, HeaderIsTree DEF Tree, TreeType
  <2>3. header[1].pgid = 1 /\ header[1].sid \in {1, Outside}
    BY <1>17, <2>2, ConstantsAssumption DEF TreeInv, Procs, Outside
  <2>4. Outside \notin targets /\ Outside \notin {1}
    BY <1>5, ConstantsAssumption DEF Procs, Outside
  <2>5. TargetOf(Outside)' = Outside /\ SavedAs(Outside) = Outside
    BY <1>8, <2>4 DEF TargetOf, SavedAs
  <2>6. inst'[1].t = 1 /\ inst'[1].session = Outside /\ inst'[1].pc = "roots"
    BY <1>8, <1>9, <2>1
  <2> QED
    BY <1>11, <2>3, <2>5, <2>6, Fixed DEF PlaceInv
<1>18. Plain' = Plain
  BY <1>11, Fixed
<1> QED
  BY <1>8, <1>11, <1>12, <1>15, <1>16, <1>17, <1>18 DEF Inst, Parents, Places, NoJoin

LEMMA StutterKeeps ==
  ASSUME IInv, UNCHANGED vars
  PROVE  IInv'
<1> USE DEF IInv
<1>1. UNCHANGED <<alive, forker, ppid, pgid, sid, header, inst>>
  BY DEF vars, treeVars
<1>2. CASE inst = <<>>
  <2>1. Tree'
    <3>1. TreeType'
      BY <1>1 DEF Tree, TreeType
    <3>2. ASSUME NEW p \in Procs PROVE TreeInv(p)'
      <4>1. TreeInv(p)
        BY DEF Tree
      <4> QED
        BY <1>1, <4>1 DEF TreeInv, Created, NoJoin
    <3>3. HeaderInv'
      BY <1>1 DEF Tree, HeaderInv, Running, xnd_ckptfile_write_header, coord_determine_roots
    <3> QED
      BY <3>1, <3>2, <3>3 DEF Tree
  <2>2. InstType' /\ DOMAIN inst' = {}
    BY <1>1, <1>2, ConstantsAssumption DEF InstType
  <2> QED
    BY <2>1, <2>2 DEF Inst, Parents, Places
<1>3. CASE inst # <<>>
  <2>1. Len(inst) \in Nat /\ inst \in Seq(Records) /\ DOMAIN inst = 1 .. Len(inst)
    BY Indices DEF Inst, InstType
  <2>2. 1 \in DOMAIN inst /\ inst[1] \in Records
    BY <1>3, <2>1
  <2>3. inst' = [inst EXCEPT ![1] = inst[1]]
    BY <1>1, <2>1
  <2>4. Moves(1, inst[1])
    BY <1>1, <2>2, <2>3 DEF Moves, treeVars
  <2>5. Grows /\ InstInv(1) /\ InstInv(1)' /\ (PlaceInv(1) => PlaceInv(1)')
    BY <1>1, <2>2, <2>4, MoveGrows, StandsStill DEF Inst
  <2>6. Owed(1)' = Owed(1)
    BY <1>1, Fixed DEF Owed
  <2> QED
    BY <2>4, <2>5, <2>6, MoveKeeps
<1> QED
  BY <1>2, <1>3

LEMMA NextKeeps ==
  ASSUME IInv, [Next]_vars
  PROVE  IInv'
<1>1. CASE \E p \in Procs : Fork(p) \/ SetSid(p) \/ SetPgid(p) \/ Exit(p)
  BY <1>1, ForkKeeps, SetSidKeeps, SetPgidKeeps, ExitKeeps
<1>2. CASE Checkpoint
  BY <1>2, CheckpointKeeps
<1>3. CASE process_targets
  BY <1>3, ProcessTargetsKeeps
<1>4. CASE \E i \in Insts : RestartStep(i)
  BY <1>4, CreateKeeps, RootsDoneKeeps, LeadKeeps, ExecKeeps DEF RestartStep
<1>5. CASE UNCHANGED vars
  BY <1>5, StutterKeeps
<1> QED
  BY <1>1, <1>2, <1>3, <1>4, <1>5 DEF Next

-----------------------------------------------------------------------------
(* Invariants *)

\* The inductive invariant holds in every reachable state, for any number of
\* processes and whatever they do (create_process, xnd_restart_dag).
THEOREM Inductive == Spec => []IInv
<1>1. Init => IInv
  BY InitHolds
<1>2. IInv /\ [Next]_vars => IInv'
  BY NextKeeps
<1> QED
  BY <1>1, <1>2, PTL DEF Spec

\* Every variable has its type and the assertions of process_targets hold: the
\* roots of coord_determine_roots are those without a parent among the targets,
\* there is one to begin with, and no process creates itself.
THEOREM TypeCorrect == Spec => []TypeOK
<1>1. IInv => TypeOK
  <2> SUFFICES ASSUME IInv PROVE TypeOK
    OBVIOUS
  <2>1. TreeType
    BY DEF IInv, Tree
  <2>2. targets \subseteq Procs /\ \A t \in targets : was_root_of_tree(t) \in BOOLEAN
    <3>1. CASE Running
      <4>1. targets = {}
        BY <3>1 DEF Running, targets
      <4> QED
        BY <4>1
    <3>2. CASE ~Running
      BY <3>2, HeaderIsTree DEF IInv
    <3> QED
      BY <3>1, <3>2
  <2>3. ASSUME NEW i \in DOMAIN inst
        PROVE  /\ i \in Insts
               /\ inst[i].t \in targets /\ inst[i].todo \subseteq targets \ {inst[i].t}
               /\ inst[i].parent \in Insts \cup {Outside, Launchd}
               /\ inst[i].group \in Insts \cup {Outside}
               /\ inst[i].session \in Insts \cup {Outside}
               /\ inst[i].pc \in {"roots", "before", "after", "restored"}
    <3>1. inst[i] \in Records /\ i \in Insts /\ InstInv(i)
      BY Indices DEF IInv, Inst
    <3>2. ASSUME NEW t \in inst[i].todo PROVE t \in targets \ {inst[i].t}
      BY Chosen DEF children_of
    <3> QED
      BY <3>1, <3>2 DEF Records, InstInv
  <2>4. ~Running => /\ \A t \in targets : was_root_of_tree(t) <=> indegree_of(t) = 0
                    /\ independent_roots # {}
    BY Roots, SomeRoot DEF IInv
  <2> QED
    BY <2>1, <2>2, <2>3, <2>4 DEF TypeOK, TreeType
<1> QED
  BY <1>1, Inductive, PTL

\* A restored process leads a group or a session if and only if it did: nobody
\* is put into a group or a session of a process that is forked later, and Lead
\* comes before After (create_process).
THEOREM LeadersComeBack == Spec => []LeadersRestored
<1>1. IInv => LeadersRestored
  BY DEF IInv, Inst, InstInv, LeadersRestored
<1> QED
  BY <1>1, Inductive, PTL

\* If no process joins the group of another one, every process of the restart
\* has the parent it had: its restored parent, launchd for an orphan, and
\* xnd_restart for process 1 (create_child, create_orphan, process_targets).
THEOREM ParentsComeBack ==
  ASSUME "join" \notin Ops
  PROVE  Spec => []ParentsRestored
<1>1. IInv => ParentsRestored
  BY DEF IInv, Parents, ParentInv, ParentsRestored, NoJoin
<1> QED
  BY <1>1, Inductive, PTL

-----------------------------------------------------------------------------
(* The refinement *)

\* A step after which the same processes are restored.
LEMMA Quiet ==
  ASSUME IInv, Grows,
         \A j \in DOMAIN inst' : inst'[j].pc = "restored" => j \in DOMAIN inst,
         \A j \in DOMAIN inst : /\ inst'[j].pc = "restored" <=> inst[j].pc = "restored"
                                /\ inst[j].pc = "restored" => inst'[j] = inst[j]
  PROVE  SavedTree' = SavedTree /\ MadeTree' = MadeTree
<1>1. header' = header /\ Plain' = Plain /\ targets' = targets
  BY Fixed DEF Grows
<1>2. SavedTree' = SavedTree
  BY <1>1 DEF SavedTree, SavedAs
<1>3. ASSUME NEW t \in Procs PROVE BecameTarget(t)' = BecameTarget(t)
  <2>1. DOMAIN inst \subseteq DOMAIN inst'
    <3>1. CASE inst = <<>>
      BY <3>1
    <3>2. CASE inst # <<>>
      BY <3>2, TypeStays DEF IInv
    <3> QED
      BY <3>1, <3>2
  <2> QED
    BY <1>1, <2>1 DEF BecameTarget, Grows
<1>4. ASSUME NEW i \in DOMAIN inst, inst[i].pc = "restored" PROVE RelationsOf(i)' = RelationsOf(i)
  <2>1. inst # <<>> /\ Inst /\ InstInv(i) /\ inst[i] \in Records /\ inst'[i] = inst[i]
    BY <1>4, Indices DEF IInv, Inst
  <2>2. PICK p, g, s : p = inst[i].parent /\ g = inst[i].group /\ s = inst[i].session
    OBVIOUS
  <2>3. /\ p \in Int /\ g \in Int /\ s \in Int /\ i \in Int /\ i <= Len(inst) /\ Len(inst) \in Nat
    BY <2>1, <2>2, Indices DEF Inst, Records, Insts, Outside, Launchd
  <2>4. p <= Len(inst) /\ g <= Len(inst) /\ s <= Len(inst)
    BY <2>1, <2>2, <2>3 DEF InstInv
  <2>5. TargetOf(p)' = TargetOf(p) /\ TargetOf(g)' = TargetOf(g) /\ TargetOf(s)' = TargetOf(s)
    BY <2>1, <2>3, <2>4, TargetsStay
  <2>6. p = inst'[i].parent /\ g = inst'[i].group /\ s = inst'[i].session
    BY <2>1, <2>2
  <2> QED
    BY <2>2, <2>5, <2>6 DEF RelationsOf
<1>5. ASSUME NEW t \in Procs
      PROVE  {[pid |-> i, as |-> RelationsOf(i)'] : i \in BecameTarget(t)'} =
             {[pid |-> i, as |-> RelationsOf(i)] : i \in BecameTarget(t)}
  <2>1. \A i \in BecameTarget(t) : RelationsOf(i)' = RelationsOf(i)
    BY <1>4 DEF BecameTarget
  <2> QED
    BY <1>3, <2>1
<1>6. MadeTree' = MadeTree
  BY <1>5 DEF MadeTree
<1> QED
  BY <1>2, <1>6

LEMMA RunningIsQuiet ==
  ASSUME header' = header, inst' = inst
  PROVE  SavedTree' = SavedTree /\ MadeTree' = MadeTree
<1>1. Plain' = Plain /\ targets' = targets
  BY Fixed
<1>2. SavedTree' = SavedTree
  BY <1>1 DEF SavedTree, SavedAs
<1>3. \A t : BecameTarget(t)' = BecameTarget(t)
  BY <1>1 DEF BecameTarget
<1>4. \A i : RelationsOf(i)' = RelationsOf(i)
  BY DEF RelationsOf, TargetOf
<1> QED
  BY <1>2, <1>3, <1>4 DEF MadeTree

\* Nothing is made before a process is restored.
LEMMA NothingMade ==
  ASSUME \A i \in DOMAIN inst : inst[i].pc # "restored"
  PROVE  MadeTree = [t \in Procs |-> {}]
<1>1. \A t \in Procs : BecameTarget(t) = {}
  BY DEF BecameTarget
<1> QED
  BY <1>1 DEF MadeTree

LEMMA CheckpointSaves ==
  ASSUME IInv, Checkpoint
  PROVE  Promise!Save \/ UNCHANGED <<SavedTree, MadeTree>>
<1>1. /\ Running /\ inst = <<>> /\ inst' = <<>> /\ IInv' /\ DOMAIN inst = {} /\ DOMAIN inst' = {}
      /\ header' = [p \in alive |-> xnd_ckptfile_write_header(p)] /\ alive # {}
  BY CheckpointKeeps DEF Checkpoint, IInv, Inst, InstType, Tree, TreeType
<1>2. MadeTree' = MadeTree
  <2>1. \A t \in Procs : BecameTarget(t) = {} /\ BecameTarget(t)' = {}
    BY <1>1 DEF BecameTarget
  <2> QED
    BY <2>1 DEF MadeTree
<1>3. SavedTree = <<>>
  <2>1. targets = {}
    BY <1>1 DEF targets, Running
  <2> QED
    BY <2>1 DEF SavedTree
<1>4. CASE ~Plain'
  BY <1>2, <1>3, <1>4 DEF SavedTree
<1>5. CASE Plain'
  <2>1. targets' = alive /\ alive \subseteq Procs /\ alive # {}
    BY <1>1 DEF targets, IInv, Tree, TreeType
  <2>2. SavedTree' = [t \in targets' |-> [parent  |-> SavedAs(header[t].xnd_ppid)',
                                          group   |-> SavedAs(header[t].pgid)',
                                          session |-> SavedAs(header[t].sid)']]
    BY <1>5 DEF SavedTree
  <2>3. \A x : SavedAs(x)' \in Procs \cup {Outside}
    BY <2>1 DEF SavedAs
  <2>4. SavedTree' \in [alive -> Promise!Relations]
    BY <2>1, <2>2, <2>3 DEF Promise!Relations, Promise!Outside, Outside
  <2> QED
    BY <1>2, <1>3, <2>1, <2>4 DEF Promise!Save
<1> QED
  BY <1>4, <1>5

\* In a plain family a process is restored in the relations it was saved in, and
\* no other process stands for the same target.
LEMMA ExecMakes ==
  ASSUME IInv, NoJoin, NEW i \in Insts, exec_restart(i)
  PROVE  (\E t \in Procs : Promise!Make(t)) \/ UNCHANGED <<SavedTree, MadeTree>>
<1> USE DEF IInv
<1>1. /\ i \in DOMAIN inst /\ inst[i].pc = "after" /\ inst[i] \in Records /\ InstInv(i)
      /\ Tree /\ Inst /\ ~Running /\ inst # <<>>
  BY Indices DEF exec_restart, Inst
<1>2. PICK r : r = [inst[i] EXCEPT !.pc = "restored"]
  OBVIOUS
<1>3. /\ r \in Records /\ r.t = inst[i].t /\ r.parent = inst[i].parent /\ r.group = inst[i].group
      /\ r.session = inst[i].session /\ r.pc = "restored"
  BY <1>1, <1>2 DEF Records
<1>4. Moves(i, r)
  BY <1>1, <1>2, <1>3 DEF Moves, exec_restart
<1>5. /\ Grows /\ DOMAIN inst' = DOMAIN inst /\ inst'[i] = r /\ header' = header
      /\ \A j \in DOMAIN inst : j # i => inst'[j] = inst[j]
  BY <1>1, <1>4, MoveGrows DEF Grows
<1>6. Plain' = Plain /\ targets' = targets
  BY <1>5, Fixed
<1>7. SavedTree' = SavedTree
  BY <1>5, <1>6 DEF SavedTree, SavedAs
<1>8. CASE ~Plain
  <2>1. \A t \in Procs : BecameTarget(t) = {} /\ BecameTarget(t)' = {}
    BY <1>6, <1>8 DEF BecameTarget
  <2> QED
    BY <1>7, <2>1 DEF MadeTree
<1>9. CASE Plain
  <2>1. PICK t : t = inst[i].t
    OBVIOUS
  <2>2. t \in targets /\ t \in Procs
    BY <1>1, <2>1, HeaderIsTree DEF InstInv
  <2>3. OnceInv(i) /\ PlaceInv(i) /\ ParentInv(i)
    BY <1>1, <1>9 DEF Places, Parents
  <2>4. \A j \in DOMAIN inst : j # i => inst[j].t # t
    BY <2>1, <2>3 DEF OnceInv
  <2>5. RelationsOf(i) = SavedTree[t]
    <3>1. TargetOf(inst[i].parent) = SavedAs(header[t].xnd_ppid)
      <4>1. CASE was_root_of_tree(t)
        <5>1. ~was_orphan(t)
          BY <1>9, <2>2 DEF Plain
        <5>2. t = 1
          BY <1>1, <2>2, <4>1, <5>1, FirstProcess
        <5>3. inst[i].parent = Outside
          BY <2>1, <2>3, <4>1, <5>1 DEF ParentInv
        <5>4. header[t].xnd_ppid = Outside
          <6>1. header[t].xnd_ppid = forker[t] /\ TreeInv(t) /\ forker[t] \in Procs \cup {Outside}
            BY <1>1, <2>2, HeaderIsTree DEF Tree, TreeType
          <6> QED
            BY <5>2, <6>1, ConstantsAssumption DEF TreeInv, Procs, Outside
        <5>5. Outside \notin targets /\ Outside \notin DOMAIN inst
          BY <1>1, HeaderIsTree, Indices DEF Inst, Procs, Insts, Outside
        <5> QED
          BY <5>3, <5>4, <5>5 DEF TargetOf, SavedAs
      <4>2. CASE ~was_root_of_tree(t)
        <5>1. inst[i].parent \in DOMAIN inst /\ was_parent_of(inst[inst[i].parent].t, t)
          BY <2>1, <2>3, <4>2 DEF ParentInv
        <5>2. inst[inst[i].parent].t \in targets
          BY <1>1, <5>1 DEF Inst, InstInv
        <5> QED
          BY <5>1, <5>2 DEF TargetOf, SavedAs, was_parent_of
      <4> QED
        BY <4>1, <4>2
    <3>2. /\ TargetOf(inst[i].group) = SavedAs(header[t].pgid)
          /\ TargetOf(inst[i].session) = SavedAs(header[t].sid)
      BY <1>1, <2>1, <2>3 DEF PlaceInv
    <3> QED
      BY <1>9, <2>2, <3>1, <3>2 DEF RelationsOf, SavedTree
  <2>6. \A j \in DOMAIN inst : RelationsOf(j)' = RelationsOf(j)
    <3> SUFFICES ASSUME NEW j \in DOMAIN inst PROVE RelationsOf(j)' = RelationsOf(j)
      OBVIOUS
    <3>1. \A x : TargetOf(x)' = TargetOf(x)
      BY <1>5 DEF TargetOf, Grows
    <3>2. /\ inst'[j].parent = inst[j].parent /\ inst'[j].group = inst[j].group
          /\ inst'[j].session = inst[j].session
      BY <1>1, <1>3, <1>5
    <3>3. PICK p, g, s : p = inst[j].parent /\ g = inst[j].group /\ s = inst[j].session
      OBVIOUS
    <3>4. TargetOf(p)' = TargetOf(p) /\ TargetOf(g)' = TargetOf(g) /\ TargetOf(s)' = TargetOf(s)
      BY <3>1
    <3> QED
      BY <3>2, <3>3, <3>4 DEF RelationsOf
  <2>7. BecameTarget(t) = {} /\ BecameTarget(t)' = {i}
    <3>1. inst'[i].pc = "restored" /\ inst'[i].t = t /\ \A j \in DOMAIN inst : inst'[j].t = inst[j].t
      BY <1>3, <1>5, <2>1 DEF Grows
    <3> QED
      BY <1>1, <1>5, <1>6, <1>9, <2>4, <3>1 DEF BecameTarget
  <2>8. \A u \in Procs : u # t => BecameTarget(u)' = BecameTarget(u)
    BY <1>1, <1>3, <1>5, <1>6, <2>1 DEF BecameTarget
  <2>9. MadeTree[t] = {}
    BY <2>2, <2>7 DEF MadeTree
  <2>10. MadeTree' = [MadeTree EXCEPT ![t] = {[pid |-> i, as |-> SavedTree[t]]}]
    <3>1. MadeTree' = [u \in Procs |-> {[pid |-> j, as |-> RelationsOf(j)'] : j \in BecameTarget(u)'}]
      BY DEF MadeTree
    <3>2. {[pid |-> j, as |-> RelationsOf(j)'] : j \in BecameTarget(t)'} =
             {[pid |-> i, as |-> SavedTree[t]]}
      BY <1>1, <2>5, <2>6, <2>7
    <3>3. ASSUME NEW u \in Procs, u # t
          PROVE  {[pid |-> j, as |-> RelationsOf(j)'] : j \in BecameTarget(u)'} = MadeTree[u]
      <4>1. \A j \in BecameTarget(u) : RelationsOf(j)' = RelationsOf(j)
        BY <2>6 DEF BecameTarget
      <4>2. MadeTree[u] = {[pid |-> j, as |-> RelationsOf(j)] : j \in BecameTarget(u)}
        BY DEF MadeTree
      <4> QED
        BY <2>8, <3>3, <4>1, <4>2
    <3>4. DOMAIN MadeTree = Procs /\ MadeTree = [u \in Procs |-> MadeTree[u]]
      BY DEF MadeTree
    <3> QED
      BY <2>2, <3>1, <3>2, <3>3, <3>4
  <2>11. \A u \in Procs : \A m \in MadeTree[u] : m.pid # i
    <3> SUFFICES ASSUME NEW u \in Procs, NEW m \in MadeTree[u] PROVE m.pid # i
      OBVIOUS
    <3>1. PICK j \in BecameTarget(u) : m = [pid |-> j, as |-> RelationsOf(j)]
      BY DEF MadeTree
    <3>2. m.pid = j /\ inst[j].pc = "restored"
      BY <3>1 DEF BecameTarget
    <3> QED
      BY <1>1, <3>2
  <2>12. t \in DOMAIN SavedTree
    BY <1>9, <2>2 DEF SavedTree
  <2>13. Promise!Make(t)
    BY <1>7, <2>9, <2>10, <2>11, <2>12 DEF Promise!Make
  <2> QED
    BY <2>2, <2>13
<1> QED
  BY <1>8, <1>9

\* If no process joins the group of another one, the restart of a plain family
\* implements ProcessTree: every target is created exactly once, under a pid of
\* its own, with the parent, the group and the session it was saved with
\* (create_process, independent_roots).
THEOREM Refinement ==
  ASSUME "join" \notin Ops
  PROVE  Spec => RestoresTree
<1>1. Init => Promise!Init
  <2> SUFFICES ASSUME Init PROVE Promise!Init
    OBVIOUS
  <2>1. targets = {} /\ DOMAIN inst = {}
    BY DEF Init, targets
  <2>2. SavedTree = <<>>
    BY <2>1 DEF SavedTree
  <2>3. MadeTree = [t \in Procs |-> {}]
    BY <2>1, NothingMade
  <2> QED
    BY <2>2, <2>3 DEF Promise!Init
<1>2. IInv /\ [Next]_vars => [Promise!Next]_Promise!vars
  <2> SUFFICES ASSUME IInv, [Next]_vars
               PROVE  Promise!Next \/ UNCHANGED <<SavedTree, MadeTree>>
    BY DEF Promise!vars
  <2>1. CASE \E p \in Procs : Fork(p) \/ SetSid(p) \/ SetPgid(p) \/ Exit(p)
    <3>1. header' = header /\ inst' = inst
      BY <2>1 DEF Fork, SetSid, SetPgid, Exit
    <3> QED
      BY <3>1, RunningIsQuiet
  <2>2. CASE Checkpoint
    BY <2>2, CheckpointSaves DEF Promise!Next
  <2>3. CASE process_targets
    <3>1. inst = <<>> /\ header' = header /\ DOMAIN inst = {}
      BY <2>3 DEF process_targets
    <3>2. PICK t, par : inst' = <<create_process(t, par, Outside, Outside, TRUE)>>
      BY <2>3 DEF process_targets
    <3>3. DOMAIN inst' = {1} /\ inst'[1].pc = "roots"
      BY <3>2 DEF create_process
    <3>4. \A q \in Procs : BecameTarget(q) = {} /\ BecameTarget(q)' = {}
      BY <3>1, <3>3 DEF BecameTarget
    <3>5. MadeTree' = MadeTree
      BY <3>4 DEF MadeTree
    <3>6. SavedTree' = SavedTree
      BY <3>1, Fixed DEF SavedTree, SavedAs
    <3> QED
      BY <3>5, <3>6
  <2>4. ASSUME NEW i \in Insts, Create(i) PROVE UNCHANGED <<SavedTree, MadeTree>>
    <3>1. PICK t, n, m, r : Creates(i, t, n, m, r)
      BY <2>4, CreateStep
    <3>2. /\ Grows /\ i \in DOMAIN inst /\ t \in inst[i].todo /\ DOMAIN inst' = DOMAIN inst \cup {n}
          /\ inst'[n].pc = "before" /\ inst'[i].pc = inst[i].pc
          /\ \A j \in DOMAIN inst : j # i => inst'[j] = inst[j]
      BY <3>1 DEF Creates
    <3>3. inst[i].pc # "restored"
      BY <3>2, Chosen
    <3> QED
      BY <3>2, <3>3, Quiet
  <2>5. ASSUME NEW i \in Insts, RootsDone(i) \/ Lead(i) PROVE UNCHANGED <<SavedTree, MadeTree>>
    <3>1. /\ inst \in Seq(Records) /\ Len(inst) \in Nat /\ i \in DOMAIN inst /\ inst[i] \in Records
          /\ UNCHANGED <<treeVars, header>> /\ inst[i].pc \in {"roots", "before"}
      BY <2>5, Indices DEF IInv, Inst, InstType, RootsDone, Lead
    <3>2. inst' \in Seq(Records) /\ Len(inst') <= NInsts
      BY <2>5, RootsDoneKeeps, LeadKeeps DEF IInv, Inst, InstType
    <3>3. PICK r : /\ inst' = [inst EXCEPT ![i] = r]
                   /\ r.t = inst[i].t /\ r.pc \in {"before", "after"}
      <4>1. CASE RootsDone(i)
        <5>1. inst' = [inst EXCEPT ![i] = [inst[i] EXCEPT !.pc = "before",
                                                          !.todo = Before(inst[i].t)]]
          BY <4>1 DEF RootsDone
        <5>2. /\ [inst[i] EXCEPT !.pc = "before", !.todo = Before(inst[i].t)].t = inst[i].t
              /\ [inst[i] EXCEPT !.pc = "before", !.todo = Before(inst[i].t)].pc = "before"
          BY <3>1 DEF Records
        <5> QED
          BY <5>1, <5>2
      <4>2. CASE Lead(i)
        <5>1. PICK s, g : inst' = [inst EXCEPT ![i] =
                                     [inst[i] EXCEPT !.pc = "after", !.todo = After(inst[i].t),
                                                     !.session = s, !.group = g]]
          BY <4>2, ZenonT(30) DEF Lead
        <5>2. PICK r : r = [inst[i] EXCEPT !.pc = "after", !.todo = After(inst[i].t),
                                           !.session = s, !.group = g]
          OBVIOUS
        <5>3. r.t = inst[i].t /\ r.pc = "after"
          BY <3>1, <5>2 DEF Records
        <5> QED
          BY <5>1, <5>2, <5>3
      <4> QED
        BY <2>5, <4>1, <4>2
    <3>4. /\ Len(inst') = Len(inst) /\ DOMAIN inst' = DOMAIN inst /\ inst'[i] = r
          /\ \A j \in DOMAIN inst : j # i => inst'[j] = inst[j]
      BY <3>1, <3>3
    <3>5. Grows
      BY <3>1, <3>2, <3>3, <3>4 DEF Grows
    <3> QED
      BY <3>1, <3>3, <3>4, <3>5, Quiet
  <2>6. ASSUME NEW i \in Insts, exec_restart(i)
        PROVE  Promise!Next \/ UNCHANGED <<SavedTree, MadeTree>>
    BY <2>6, ExecMakes DEF Promise!Next, NoJoin
  <2>7. CASE UNCHANGED vars
    BY <2>7, RunningIsQuiet DEF vars
  <2> QED
    BY <2>1, <2>2, <2>3, <2>4, <2>5, <2>6, <2>7 DEF Next, RestartStep
<1> QED
  BY <1>1, <1>2, Inductive, PTL DEF Spec, RestoresTree, Promise!Spec

=============================================================================
