------------------------------ MODULE FdTable ------------------------------
(***************************************************************************)
(* The table of open files of a process (xnd/fd_table.c): how the hooks of *)
(* xnd/wrappers/file_wrappers.c keep it in step with the kernel, what a    *)
(* checkpoint saves of it, and how a restart opens the files again.        *)
(*                                                                         *)
(* The kernel side is external: descriptors refer to open file             *)
(* descriptions, shared by dup, each with a file and an offset.  A hook    *)
(* calls the kernel first and then updates the table under its lock; both  *)
(* happen in one unsafe region, so no checkpoint comes in between, but     *)
(* another thread may.  Directory streams are left out; the descriptors of *)
(* the library itself have reserved numbers and are none of these.         *)
(***************************************************************************)
EXTENDS Integers, FiniteSets

CONSTANTS
  LastFd,       \* bound: descriptors are 0..LastFd (MAXFILES - 1)
  NumStd,       \* descriptors inherited at launch: 0..NumStd - 1 (3)
  Users,        \* user threads
  Files,        \* files the program opens
  Descs,        \* open file descriptions of the kernel
  NoDesc,       \* a closed descriptor
  Addrs,        \* addresses of struct fd_source
  Null,         \* the null pointer
  Ops,          \* calls the program makes: subset of FileCalls
  MaxOffset,    \* bound: file offsets
  MaxRef,       \* bound: references to an entry
  MaxCalls,     \* bound: calls, of Seek too, of one incarnation of the process
  MaxSaves,     \* bound: checkpoints of one incarnation of the process
  MaxRestarts   \* bound: restarts

FileCalls == {"open", "close", "dup", "dup2", "freopen"}

Fds == 0..LastFd
Std == 0..(NumStd - 1)

ASSUME ConstantsAssumption ==
  /\ LastFd \in Nat /\ NumStd \in 1..(LastFd + 1)
  /\ IsFiniteSet(Users)
  /\ NoDesc \notin Descs
  /\ Null \notin Addrs
  /\ Files \cap Std = {}
  /\ Ops \subseteq FileCalls
  /\ \E f \in [Std -> Descs] : \A i, j \in Std : i # j => f[i] # f[j]
  /\ MaxOffset \in Nat /\ MaxRef \in Nat \ {0} /\ Cardinality(Users) <= MaxRef
  /\ MaxCalls \in Nat /\ MaxSaves \in Nat /\ MaxRestarts \in Nat

VARIABLES
  \* the kernel
  kfd,        \* kfd[fd]: what the descriptor refers to
  desc,       \* desc[d]: file (or inherited stream) and offset
  \* the process
  table,      \* fd_table.table
  source,     \* source[a]: the struct fd_source at address a
  hook,       \* hook[u]: the call thread u has made but not yet recorded
  calls,      \* calls made so far
  apart,      \* history: a call met an unrecorded one of another thread (see Clash)
  \* checkpoint and restart
  phase,      \* "run", or the loop of fd_table_restore that is under way
  cur,        \* the descriptor that loop is at
  image,      \* what the last checkpoint saved, and what it was taken of
  saves, restarts

kernelVars == <<kfd, desc>>
tableVars  == <<table, source>>
ckptVars   == <<phase, cur, image, saves, restarts>>
vars == <<kernelVars, tableVars, hook, calls, apart, ckptVars>>

Name == Files \cup Std
Description == [name : Name, off : 0..MaxOffset]
NoFile == [name |-> 0, off |-> 0]

FdSource == [type : {"FD_NULL", "FD_INHERITED", "FD_FILE"},
             state : {"FD_STATE_NULL", "FD_STATE_SAVED", "FD_STATE_RESTORED"},
             name : Name, offset : 0..MaxOffset, ref : 0..MaxRef, root : Fds]
Unused == [type |-> "FD_NULL", state |-> "FD_STATE_NULL", name |-> 0,
           offset |-> 0, ref |-> 0, root |-> 0]

Idle == [op |-> "none", fd |-> 0, from |-> 0, name |-> 0]
Hook == [op : {"none", "open", "close", "dup", "freopen"}, fd : Fds, from : Fds,
         name : Name]

\* fd_table_init, with the inherited streams of the launcher or of xnd_restart.
StdDesc == CHOOSE f \in [Std -> Descs] : \A i, j \in Std : i # j => f[i] # f[j]
StdFds(f) == [fd \in Fds |-> IF fd \in Std THEN f[fd] ELSE NoDesc]
StdStreams(f) ==
  [d \in Descs |-> IF \E i \in Std : f[i] = d
                     THEN [name |-> CHOOSE i \in Std : f[i] = d, off |-> 0]
                     ELSE NoFile]

Init ==
  /\ kfd = StdFds(StdDesc) /\ desc = StdStreams(StdDesc)
  /\ \E f \in {g \in [Std -> Addrs] : \A i, j \in Std : i # j => g[i] # g[j]} :
       /\ table = [fd \in Fds |-> IF fd \in Std THEN f[fd] ELSE Null]
       /\ source = [a \in Addrs |->
                      IF \E i \in Std : f[i] = a
                        THEN [Unused EXCEPT !.type = "FD_INHERITED", !.ref = 1,
                                !.root = CHOOSE i \in Std : f[i] = a]
                        ELSE Unused]
  /\ hook = [u \in Users |-> Idle]
  /\ calls = 0
  /\ apart = FALSE
  /\ phase = "run"
  /\ cur = 0
  /\ image = {}
  /\ saves = 0
  /\ restarts = 0

-----------------------------------------------------------------------------
(* The kernel *)

\* The descriptors become k; a description nobody refers to is gone.
Kernel(k, d) ==
  /\ kfd' = k
  /\ desc' = [x \in Descs |-> IF \E fd \in Fds : k[fd] = x THEN d[x] ELSE NoFile]

FreeFds == {fd \in Fds : kfd[fd] = NoDesc}
LowestFree == CHOOSE fd \in FreeFds : \A g \in FreeFds : fd <= g

\* fd refers to a new description of file name, at offset off.
FreeDescs == {d \in Descs : \A fd \in Fds : kfd[fd] # d}
Open(fd, name, off) ==
  LET d == CHOOSE x \in FreeDescs : TRUE
  IN /\ FreeDescs # {}
     /\ Kernel([kfd EXCEPT ![fd] = d], [desc EXCEPT ![d] = [name |-> name, off |-> off]])

\* Bound: only calls that a checkpoint and a restart can still follow.
Called ==
  /\ calls < MaxCalls /\ saves < MaxSaves /\ restarts < MaxRestarts
  /\ calls' = calls + 1

\* Thread u outside of every hook starts call c.
Starts(u, c) == phase = "run" /\ hook[u] = Idle /\ c \in Ops /\ Called

\* What a call changes, and what it depends on.
Changes(h) == IF h.op = "none" THEN {} ELSE {h.fd}
Concerns(h) == Changes(h) \cup IF h.op = "dup" THEN {h.from} ELSE {}

\* Two calls one of which changes what the other is about: the kernel may take
\* them in one order and the table in the other.
Clash(h, g) ==
  Changes(h) \cap Concerns(g) # {} \/ Changes(g) \cap Concerns(h) # {}

\* Thread u is in the hook of call h: the kernel has made it, the table has it to record.
Entered(u, h) ==
  /\ hook' = [hook EXCEPT ![u] = h]
  /\ apart' = (apart \/ \E w \in Users \ {u} : Clash(h, hook[w]))

\* Bound: as many entries are free as calls under way may need.
EntryLeft ==
  Cardinality({a \in Addrs : source[a].type = "FD_NULL"}) >
    Cardinality({u \in Users : hook[u].op \in {"open", "freopen"}})

\* The program reads, writes or seeks.
Seek(fd) ==
  /\ phase = "run"
  /\ Called
  /\ kfd[fd] # NoDesc
  /\ desc[kfd[fd]].name \in Files
  /\ \E o \in 0..MaxOffset \ {desc[kfd[fd]].off} :
       desc' = [desc EXCEPT ![kfd[fd]].off = o]
  /\ UNCHANGED <<kfd, tableVars, hook, apart, ckptVars>>

-----------------------------------------------------------------------------
(* The hooks: first the kernel ... *)

\* openat, and open, creat and fopen which end there.
OpenHook(u, name) ==
  /\ Starts(u, "open")
  /\ FreeFds # {}
  /\ EntryLeft
  /\ Open(LowestFree, name, 0)
  /\ Entered(u, [op |-> "open", fd |-> LowestFree, from |-> 0, name |-> name])
  /\ UNCHANGED <<tableVars, ckptVars>>

\* close and fclose.
CloseHook(u, fd) ==
  /\ Starts(u, "close")
  /\ kfd[fd] # NoDesc
  /\ Kernel([kfd EXCEPT ![fd] = NoDesc], desc)
  /\ Entered(u, [Idle EXCEPT !.op = "close", !.fd = fd])
  /\ UNCHANGED <<tableVars, ckptVars>>

DupTo(u, old, new) ==
  /\ kfd[old] # NoDesc
  /\ \A a \in Addrs : source[a].ref + Cardinality(Users) <= MaxRef
  /\ Kernel([kfd EXCEPT ![new] = kfd[old]], desc)
  /\ Entered(u, [Idle EXCEPT !.op = "dup", !.fd = new, !.from = old])
  /\ UNCHANGED <<tableVars, ckptVars>>

\* dup and fcntl(F_DUPFD).
DupHook(u, old) ==
  /\ Starts(u, "dup")
  /\ FreeFds # {}
  /\ DupTo(u, old, LowestFree)

Dup2Hook(u, old, new) == Starts(u, "dup2") /\ DupTo(u, old, new)

\* freopen keeps the descriptor of the stream.
FreopenHook(u, fd, name) ==
  /\ Starts(u, "freopen")
  /\ kfd[fd] # NoDesc
  /\ EntryLeft
  /\ Open(fd, name, 0)
  /\ Entered(u, [op |-> "freopen", fd |-> fd, from |-> 0, name |-> name])
  /\ UNCHANGED <<tableVars, ckptVars>>

-----------------------------------------------------------------------------
(* ... then the table, under its lock *)

\* fd_table_open overwrites what the table has at fd.
fd_table_open(u) ==
  /\ hook[u].op = "open"
  /\ \E a \in Addrs :
       /\ source[a].type = "FD_NULL"
       /\ source' = [source EXCEPT ![a] = [Unused EXCEPT !.type = "FD_FILE",
                                             !.name = hook[u].name, !.ref = 1]]
       /\ table' = [table EXCEPT ![hook[u].fd] = a]
  /\ hook' = [hook EXCEPT ![u] = Idle]
  /\ UNCHANGED <<kernelVars, calls, apart, ckptVars>>

\* An entry loses a reference and is freed with the last one.
Released(e) == IF e.ref = 1 THEN Unused ELSE [e EXCEPT !.ref = @ - 1]

\* The slot at fd is cleared; an untracked descriptor is only warned of.
Unref(fd) ==
  /\ table' = [table EXCEPT ![fd] = Null]
  /\ source' = IF table[fd] = Null THEN source
               ELSE [source EXCEPT ![table[fd]] = Released(@)]

fd_table_close(u) ==
  /\ hook[u].op = "close"
  /\ Unref(hook[u].fd)
  /\ hook' = [hook EXCEPT ![u] = Idle]
  /\ UNCHANGED <<kernelVars, calls, apart, ckptVars>>

\* freopen closes the entry and opens it anew, in two turns of the lock.
FreopenClose(u) ==
  /\ hook[u].op = "freopen"
  /\ Unref(hook[u].fd)
  /\ hook' = [hook EXCEPT ![u].op = "open"]
  /\ UNCHANGED <<kernelVars, calls, apart, ckptVars>>

\* Mutant of fd_table_dup: no reference is counted.
fd_table_dup_uncounted(u) ==
  /\ hook[u].op = "dup"
  /\ IF table[hook[u].from] = Null
       THEN UNCHANGED table
       ELSE table' = [table EXCEPT ![hook[u].fd] = table[hook[u].from]]
  /\ hook' = [hook EXCEPT ![u] = Idle]
  /\ UNCHANGED <<source, kernelVars, calls, apart, ckptVars>>

\* The two descriptors share an entry; an untracked one is only warned of.
fd_table_dup(u) ==
  LET old == table[hook[u].from]
  IN /\ hook[u].op = "dup"
     /\ IF old = Null
          THEN UNCHANGED tableVars
          ELSE /\ table' = [table EXCEPT ![hook[u].fd] = old]
               /\ source' = [source EXCEPT ![old].ref = @ + 1]
     /\ hook' = [hook EXCEPT ![u] = Idle]
     /\ UNCHANGED <<kernelVars, calls, apart, ckptVars>>

-----------------------------------------------------------------------------
(* Checkpoint and restart *)

\* The descriptors whose file_save succeeds: lseek fails on a closed one, and
\* the offset -1 it then stores makes file_restore leave the file at its start.
Seekable(a) == {fd \in Fds : table[fd] = a /\ kfd[fd] # NoDesc}
First(S) == CHOOSE fd \in S : \A g \in S : fd <= g

\* Mutant of Saved: an entry is saved only when it is new.
SavedOnce ==
  [a \in Addrs |->
     IF source[a].type = "FD_FILE" /\ source[a].state = "FD_STATE_NULL"
          /\ Seekable(a) # {}
       THEN [source[a] EXCEPT !.offset = desc[kfd[First(Seekable(a))]].off,
                              !.state = "FD_STATE_SAVED"]
       ELSE source[a]]

\* fd_table_save, called by xnd_precheckpoint with every thread stopped outside of
\* the hooks: entries saved before are passed over.
Saved ==
  [a \in Addrs |->
     IF (\A fd \in Fds : table[fd] # a) \/ source[a].type # "FD_FILE"
          \/ source[a].state = "FD_STATE_SAVED"
       THEN source[a]
     ELSE IF Seekable(a) = {}
       THEN [source[a] EXCEPT !.offset = 0]
       ELSE [source[a] EXCEPT !.offset = desc[kfd[First(Seekable(a))]].off,
                              !.state = "FD_STATE_SAVED"]]

Inherited(fd) == table[fd] # Null /\ source[table[fd]].type = "FD_INHERITED"

\* Another inherited stream is open in the place of the one that fd is a copy of,
\* and will be there when the first loop of fd_table_restore comes to fd.
Swapped ==
  \E fd \in Fds :
    /\ Inherited(fd)
    /\ LET s == source[table[fd]].root
       IN s < fd /\ Inherited(s) /\ source[table[s]].root # s

fd_table_save ==
  /\ phase = "run"
  /\ \A u \in Users : hook[u] = Idle
  /\ saves < MaxSaves
  /\ saves' = saves + 1
  /\ source' = Saved
  /\ image' = {[table |-> table, source |-> Saved, kfd |-> kfd, desc |-> desc,
                apart |-> apart \/ Swapped,
                again |-> IF saves = 0 THEN {}
                          ELSE {a \in Addrs : source[a].state = "FD_STATE_SAVED"}]}
  /\ UNCHANGED <<kernelVars, table, hook, calls, apart, phase, cur, restarts>>

\* The memory of the image, and the inherited streams of xnd_restart.
Restart ==
  /\ restarts < MaxRestarts
  /\ restarts' = restarts + 1
  /\ saves' = 0
  /\ \E i \in image : table' = i.table /\ source' = i.source /\ apart' = i.apart
  /\ kfd' = StdFds(StdDesc) /\ desc' = StdStreams(StdDesc)
  /\ hook' = [u \in Users |-> Idle]
  /\ calls' = 0
  /\ phase' = "inherited"
  /\ cur' = 0
  /\ UNCHANGED image

\* Mutant of Advance: the loop runs past the last descriptor.
AdvancePast(next) ==
  /\ phase' = IF cur > LastFd THEN next ELSE phase
  /\ cur' = IF cur > LastFd THEN 0 ELSE cur + 1
  /\ UNCHANGED <<table, hook, calls, apart, image, saves, restarts>>

\* The loop at descriptor cur goes on, or the next phase starts.
Advance(next) ==
  /\ phase' = IF cur = LastFd THEN next ELSE phase
  /\ cur' = IF cur = LastFd THEN 0 ELSE cur + 1
  /\ UNCHANGED <<table, hook, calls, apart, image, saves, restarts>>

Type(fd) == IF table[fd] = Null THEN "FD_NULL" ELSE source[table[fd]].type

\* The first loop of fd_table_restore: copies of the inherited descriptors.
RestoreInherited ==
  /\ phase = "inherited"
  /\ IF Type(cur) = "FD_INHERITED"
       THEN LET root == source[table[cur]].root
            IN kfd[root] # NoDesc /\ Kernel([kfd EXCEPT ![cur] = kfd[root]], desc)
       ELSE UNCHANGED kernelVars
  /\ Advance("files")
  /\ UNCHANGED source

\* file_restore opens the file of cur again, at the saved offset.
file_restore ==
  /\ phase = "files"
  /\ Type(cur) = "FD_FILE"
  /\ source[table[cur]].state # "FD_STATE_RESTORED"
  /\ Open(cur, source[table[cur]].name, source[table[cur]].offset)
  /\ source' = [source EXCEPT ![table[cur]] =
                  [@ EXCEPT !.root = cur, !.state = "FD_STATE_RESTORED"]]
  /\ Advance("std")

\* A second descriptor of an entry is a copy of the first.
RestoreCopy ==
  /\ phase = "files"
  /\ Type(cur) = "FD_FILE"
  /\ source[table[cur]].state = "FD_STATE_RESTORED"
  /\ kfd[source[table[cur]].root] # NoDesc
  /\ Kernel([kfd EXCEPT ![cur] = kfd[source[table[cur]].root]], desc)
  /\ Advance("std")
  /\ UNCHANGED source

RestoreSkip ==
  /\ phase = "files"
  /\ Type(cur) # "FD_FILE"
  /\ Advance("std")
  /\ UNCHANGED <<kernelVars, source>>

\* Inherited descriptors that the program had closed.
RestoreStd ==
  /\ phase = "std"
  /\ Kernel([fd \in Fds |-> IF fd \in Std /\ table[fd] = Null THEN NoDesc ELSE kfd[fd]],
            desc)
  /\ phase' = "restored"
  /\ UNCHANGED <<tableVars, hook, calls, apart, cur, image, saves, restarts>>

\* The threads are released.
Resume ==
  /\ phase = "restored"
  /\ phase' = "run"
  /\ UNCHANGED <<kernelVars, tableVars, hook, calls, apart, cur, image, saves, restarts>>

-----------------------------------------------------------------------------
HookStep(u) ==
  \/ fd_table_open(u) \/ fd_table_close(u) \/ FreopenClose(u) \/ fd_table_dup(u)
  \/ \E name \in Files : OpenHook(u, name)
  \/ \E fd \in Fds : CloseHook(u, fd) \/ DupHook(u, fd)
  \/ \E fd, new \in Fds : Dup2Hook(u, fd, new)
  \/ \E fd \in Fds, name \in Files : FreopenHook(u, fd, name)

RestoreStep ==
  RestoreInherited \/ file_restore \/ RestoreCopy \/ RestoreSkip \/ RestoreStd
  \/ Resume

Next ==
  \/ fd_table_save
  \/ Restart
  \/ RestoreStep
  \/ \E fd \in Fds : Seek(fd)
  \/ \E u \in Users : HookStep(u)

Spec == Init /\ [][Next]_vars
-----------------------------------------------------------------------------
(* Properties *)

\* Every variable holds a value of its kind.
TypeOK ==
  /\ kfd \in [Fds -> Descs \cup {NoDesc}]
  /\ desc \in [Descs -> Description]
  /\ table \in [Fds -> Addrs \cup {Null}]
  /\ source \in [Addrs -> FdSource]
  /\ hook \in [Users -> Hook]
  /\ calls \in 0..MaxCalls
  /\ apart \in BOOLEAN
  /\ phase \in {"run", "inherited", "files", "std", "restored"}
  /\ cur \in Fds
  /\ image \subseteq [table : [Fds -> Addrs \cup {Null}], source : [Addrs -> FdSource],
                      kfd : [Fds -> Descs \cup {NoDesc}], desc : [Descs -> Description],
                      apart : BOOLEAN, again : SUBSET Addrs]
  /\ saves \in 0..MaxSaves
  /\ restarts \in 0..MaxRestarts

\* However the hooks of several threads interleave, no slot of the table
\* points to an entry that fd_table_close has freed: an entry has at least as
\* many references as slots.
NoDanglingEntry ==
  \A fd \in Fds : table[fd] # Null =>
    /\ source[table[fd]].type # "FD_NULL"
    /\ source[table[fd]].ref >= Cardinality({g \in Fds : table[g] = table[fd]})

\* The descriptors are open as they were at checkpoint i and shared with the same
\* others, on the same files; those that are not in E at the same offset, too.
BackAs(i, E) ==
  /\ \A fd \in Fds : kfd[fd] = NoDesc <=> i.kfd[fd] = NoDesc
  /\ \A fd, g \in Fds : kfd[fd] = kfd[g] <=> i.kfd[fd] = i.kfd[g]
  /\ \A fd \in Fds : kfd[fd] # NoDesc =>
       /\ desc[kfd[fd]].name = i.desc[i.kfd[fd]].name
       /\ fd \notin E => desc[kfd[fd]].off = i.desc[i.kfd[fd]].off

\* Whatever several threads do to their descriptors, and at whichever checkpoint
\* of the process: after a restart they are what they were at the checkpoint.
\* fd_table_restore cannot do so for calls that clashed and for swapped streams,
\* nor for the offset of an entry that an earlier checkpoint of this incarnation
\* had saved.
DescriptorsRestored ==
  phase = "restored" => \A i \in image :
    ~i.apart => BackAs(i, {fd \in Fds : i.table[fd] \in i.again})

\* Without these three exceptions.
AllDescriptorsRestored == phase = "restored" => \A i \in image : BackAs(i, {})
=============================================================================
