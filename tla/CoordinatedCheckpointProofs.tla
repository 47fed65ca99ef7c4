-------------------- MODULE CoordinatedCheckpointProofs --------------------
(***************************************************************************)
(* Proofs about CoordinatedCheckpoint, for any number of processes,        *)
(* rounds, calls, deaths and restarts.                                     *)
(*                                                                         *)
(* The messages a process finds, the state the coordinator has of it and   *)
(* the epochs both count are only related through each other: what the     *)
(* coordinator may send next follows from p->state, p->state follows from  *)
(* what was read, and that from what the process has sent.  IInv states    *)
(* the whole relation.  Its parts are                                      *)
(*   Types     the kinds of the variables;                                 *)
(*   Local(p)  for one process: what is under way on its connection at     *)
(*             each point of its checkpoint thread, which deaths leave     *)
(*             what behind, and what p->state says of a registered one;    *)
(*   Coord     the counters of the coordinator's loops, a fork and a       *)
(*             restart that are not over, and the states p->state can have *)
(*             at each point of coord_do_checkpoint;                       *)
(*   Counting  by how much the two counts of an epoch can differ, and that *)
(*             both stay below the number of commands;                     *)
(*   Disk      what the directory of the current epoch holds at each point *)
(*             and which manifest lists whom.                              *)
(* One lemma per kind of step shows that the step keeps IInv; the theorems *)
(* are consequences of IInv.  What a computation can be restarted from     *)
(* (RecInv) and that somebody is left to be restarted (SurviveInv) are     *)
(* shown from it at the end.                                               *)
(***************************************************************************)
EXTENDS CoordinatedCheckpoint, FiniteSetTheorems, SequenceTheorems, TLAPS

\* The messages of the protocol.
Request == msg("CKPT_REQUEST")
Start(n) == [hdr |-> "CKPT_START", peers |-> n]
Resume  == msg("RESUME_AFTER_CKPT")
Go      == msg("RESUME_AFTER_RESTART")
Ready   == msg("CKPT_READY")
Done    == msg("CKPT_DONE")
Bye     == msg("EXIT")

-----------------------------------------------------------------------------
(* Kinds of values.  The bounds on epochs and counters that TypeOK states     *)
(* follow from Counting and Counters.                                         *)

ProcType ==
  /\ life \in [Procs -> {"absent", "up", "zombie", "gone"}]
  /\ ct \in [Procs -> CkptThreadPoint]
  /\ ut \in [Procs -> {"none", "app", "call", "fork", "forking", "held"}]
  /\ epoch \in [Procs -> Nat]
  /\ num_peers \in [Procs -> Peers]
  /\ down \in [Procs -> Seq(Message)]
  /\ up \in [Procs -> Seq(Message)]

\* A coordinator that has ended has no process; only coord_atfork serves a fork.
CoordType ==
  /\ kpc \in CoordPoint
  /\ back \in {"serve", "restart"}
  /\ proc_list \subseteq Procs
  /\ pstate \in [Procs -> ProcState]
  /\ kepoch \in Nat
  /\ knum \in Peers
  /\ todo \subseteq proc_list
  /\ forker \in Procs \cup {NoProc}
  /\ child \in Procs \cup {NoProc}
  /\ CoordGone => proc_list = {}
  /\ kpc # "atfork" => forker = NoProc /\ child = NoProc

\* A loop counts each process it visits at most once.
Counters ==
  /\ ready \in Nat /\ total \in Nat
  /\ ready + Cardinality(todo) <= Cardinality(Procs)
  /\ total + Cardinality(todo) <= Cardinality(Procs)

\* A file or a manifest is in a directory.
DiskType ==
  /\ dirs \subseteq Epochs
  /\ image \in [Epochs -> [Procs -> File]]
  /\ manifest \in [Epochs -> SUBSET Procs]
  /\ \A e \in Epochs \ dirs : /\ manifest[e] = {}
                              /\ \A p \in Procs : image[e][p].data = "none"

BoundType ==
  /\ rounds \in 0..MaxRounds
  /\ calls \in 0..MaxCalls
  /\ faults \in 0..MaxFaults
  /\ restarts \in 0..MaxRestarts

-----------------------------------------------------------------------------
(* One process and its connection *)

\* Where the checkpoint thread is between the two barriers of a checkpoint.
Writing == {"suspend", "write", "writing", "written"}

\* What is under way to p: the coordinator is at most one request ahead.
DownInv(p) ==
  /\ ct[p] = "listen" => down[p] \in {<<>>, <<Request>>}
  /\ ct[p] = "ready" => down[p] = <<>> \/ \E n \in Peers : down[p] = <<Start(n)>>
  /\ ct[p] = "done" => down[p] \in {<<>>, <<Resume>>, <<Resume, Request>>}
  /\ ct[p] = "rwait" => down[p] \in {<<>>, <<Go>>, <<Go, Request>>}
  /\ ct[p] \in Writing \cup {"off", "hello", "connect"} => down[p] = <<>>

\* What is under way from p: one answer, and the two XND_EXIT of a process that
\* has ended.
UpInv(p) ==
  /\ up[p] \in {<<>>, <<Ready>>, <<Done>>, <<Bye>>, <<Bye, Bye>>, <<Ready, Bye, Bye>>,
                <<Done, Bye, Bye>>}
  /\ Up(p) => up[p] \in {<<>>, <<Ready>>, <<Done>>}

\* The user thread is held from the suspension to the end of the barrier, and a
\* process that runs is registered, or on its way to be.
LifeInv(p) ==
  /\ ~Up(p) => ct[p] = "off" /\ ut[p] \in {"none", "call", "fork"}
  /\ life[p] = "absent" => p \notin proc_list /\ ut[p] = "none" /\ up[p] = <<>>
  /\ Up(p) => /\ ct[p] \in {"write", "writing", "written", "done", "connect", "rwait"}
                   <=> ut[p] = "held"
              /\ ct[p] = "hello" <=> ut[p] = "none"
              /\ ct[p] \in {"hello", "connect"} => up[p] = <<>>
  /\ Up(p) /\ ~CoordGone =>
       /\ p \notin proc_list => ct[p] \in {"hello", "connect"}
       /\ ut[p] = "forking" => kpc = "atfork" /\ forker = p

\* What the coordinator's state of a registered process says about it.
LinkInv(p) ==
  p \in proc_list /\ Up(p) =>
    /\ pstate[p] = "PROC_RUNNING" =>
         /\ up[p] = <<>>
         /\ \/ ct[p] = "listen" /\ down[p] = <<>>
            \/ ct[p] = "done" /\ down[p] = <<Resume>>
            \/ ct[p] = "rwait" /\ down[p] = <<Go>>
    /\ pstate[p] = "PROC_RECV_CKPT_REQUEST" =>
         \/ /\ up[p] = <<>>
            /\ \/ ct[p] = "listen" /\ down[p] = <<Request>>
               \/ ct[p] = "done" /\ down[p] = <<Resume, Request>>
               \/ ct[p] = "rwait" /\ down[p] = <<Go, Request>>
         \/ up[p] = <<Ready>> /\ ct[p] = "ready" /\ down[p] = <<>>
    /\ pstate[p] = "PROC_READY_FOR_CKPT" =>
         up[p] = <<>> /\ ct[p] = "ready" /\ down[p] = <<>>
    /\ pstate[p] = "PROC_CKPT_IN_PROGRESS" =>
         \/ up[p] = <<>> /\ ct[p] = "ready" /\ down[p] = <<Start(knum)>>
         \/ up[p] = <<>> /\ ct[p] \in Writing /\ num_peers[p] = knum
         \/ up[p] = <<Done>> /\ ct[p] = "done" /\ down[p] = <<>>
    /\ pstate[p] = "PROC_CKPT_COMPLETE" =>
         up[p] = <<>> /\ ct[p] = "done" /\ down[p] = <<>>
    /\ pstate[p] = "PROC_RESTART_IN_PROGRESS" =>
         up[p] = <<>> /\ ct[p] = "rwait" /\ down[p] = <<>>

-----------------------------------------------------------------------------
(* The coordinator *)

\* The points of coord_do_checkpoint, and those at which the directory of the
\* epoch exists and its manifest does not.
Round == {"prepare", "suspend", "mkdir", "prestart", "start", "reduce", "collect",
          "manifest", "resume", "unlink", "discard"}
Dir == {"prestart", "start", "reduce", "collect", "manifest"}

\* The child that coord_atfork waits for has its parent's epoch.
AtforkInv ==
  kpc = "atfork" =>
    /\ forker \in proc_list
    /\ child # NoProc => /\ child \notin proc_list /\ life[child] # "absent"
                         /\ ut[forker] # "forking"
                         /\ Up(child) => ct[child] = "hello" /\ epoch[child] = kepoch

\* A restart that is not over, with or without a command in between.
InRestart == kpc = "restart" \/ (kpc \in Round /\ back = "restart")

\* While a restart is under way nobody is released: a command in between finds
\* nobody ready, and gets past the suspension only when everybody has gone.
RestartInv ==
  InRestart =>
    /\ \A p \in proc_list : pstate[p] = "PROC_RESTART_IN_PROGRESS"
    /\ kpc = "suspend" => ready = 0 /\ (total = 0 => todo = proc_list)
    /\ kpc \in Dir \cup {"mkdir", "discard", "resume", "unlink"} => proc_list = {}
    /\ proc_list # {} => \A p \in Procs : Up(p) /\ ct[p] = "connect" => epoch[p] + 1 = kepoch

\* The states of the registered processes at the points of a checkpoint.
PhaseInv ==
  /\ \A p \in proc_list : pstate[p] \in {"PROC_CKPT_IN_PROGRESS", "PROC_CKPT_COMPLETE"}
       => kpc \in {"start", "reduce", "collect", "manifest", "resume"}
  /\ kpc \in {"resume", "unlink"} => \A p \in proc_list \ todo : pstate[p] = "PROC_RUNNING"
  /\ kpc \notin {"suspend", "start", "collect", "resume", "rrelease"} => todo = {}
  /\ kpc = "manifest" => \A p \in proc_list : pstate[p] = "PROC_CKPT_COMPLETE"

-----------------------------------------------------------------------------
(* The two counts of an epoch *)

\* p is told to resume and has not counted yet.
Ahead(p) == ct[p] = "done" /\ pstate[p] \in {"PROC_RUNNING", "PROC_RECV_CKPT_REQUEST"}

\* The counts agree, but for a process that has not counted yet and for a
\* coordinator that has released p and not counted yet.
EpochInv(p) ==
  /\ p \in proc_list /\ Up(p) =>
       (IF Ahead(p) THEN epoch[p] + 1 ELSE epoch[p])
         = (IF kpc \in {"resume", "unlink"} /\ p \notin todo THEN kepoch + 1 ELSE kepoch)
  /\ epoch[p] <= rounds
  /\ ct[p] \in Writing \cup {"done", "connect"} \/ (ct[p] = "ready" /\ down[p] # <<>>)
       => epoch[p] < rounds

\* Each epoch was started by a command; the processes of a restart come from the
\* same epoch.
RoundsInv ==
  /\ kepoch <= rounds
  /\ kpc \in Round => kepoch < rounds
  /\ \A e \in Epochs : manifest[e] # {} => e < rounds
  /\ \A p, q \in Procs : Up(p) /\ Up(q) /\ ct[p] = "connect" /\ ct[q] = "connect"
       => epoch[p] = epoch[q]

-----------------------------------------------------------------------------
(* The disk *)

\* The directory of the epoch holds images of registered processes only, as long
\* as none of those counted in num_peers is missing.
DirInv ==
  /\ kpc \in Dir =>
       /\ kepoch \in dirs /\ manifest[kepoch] = {}
       /\ Cardinality(proc_list) <= knum
       /\ Cardinality(proc_list) = knum =>
            \A p \in Procs \ proc_list : image[kepoch][p].data = "none"
  /\ kpc \in {"collect", "manifest"} => Cardinality(proc_list) = knum
  /\ kpc = "collect" =>
       /\ total + Cardinality(todo) <= knum
       /\ total + Cardinality(todo) = knum =>
            \A p \in proc_list \ todo : pstate[p] = "PROC_CKPT_COMPLETE"
  /\ kpc = "resume" => manifest[kepoch] = proc_list

\* A process that is told to resume is listed; one that is told to write, or
\* writes, is not yet.
ListedInv(p) ==
  /\ Up(p) /\ ct[p] = "done" /\ down[p] # <<>> => p \in manifest[epoch[p]]
  /\ Up(p) /\ (ct[p] \in {"suspend", "write", "writing"} \/ (ct[p] = "ready" /\ down[p] # <<>>))
       => p \notin manifest[epoch[p]]
  /\ Up(p) /\ ct[p] = "writing" => epoch[p] \in dirs

WholeFile == [data |-> "whole", peers |-> knum]

\* On a disk that does not fail, a process that has said XND_CKPT_DONE has left a
\* whole image, with the number of peers it was told.
ImageInv(p) ==
  ~DiskFails /\ kpc \in Dir /\ p \in proc_list =>
    /\ pstate[p] = "PROC_CKPT_COMPLETE" => image[kepoch][p] = WholeFile
    /\ pstate[p] = "PROC_CKPT_IN_PROGRESS" =>
         /\ up[p] # <<>> /\ Head(up[p]) = Done => image[kepoch][p] = WholeFile
         /\ Up(p) =>
              /\ ct[p] \in {"ready", "suspend", "write"} => image[kepoch][p].data = "none"
              /\ ct[p] = "written" => image[kepoch][p] = WholeFile
    /\ kpc \in {"prestart", "start"} /\ pstate[p] # "PROC_CKPT_IN_PROGRESS" =>
         image[kepoch][p].data = "none"

\* What a manifest lists is whole, or is being removed.
TruthInv ==
  ~DiskFails => \A e \in Epochs : \A p \in manifest[e] : Whole(e, p) \/ image[e][p] = NoFile

-----------------------------------------------------------------------------
(* The inductive invariant *)

Types == ProcType /\ CoordType /\ DiskType /\ BoundType

Local(p) == DownInv(p) /\ UpInv(p) /\ LifeInv(p) /\ LinkInv(p)

Coord == Counters /\ AtforkInv /\ RestartInv /\ PhaseInv

Counting == RoundsInv /\ \A p \in Procs : EpochInv(p)

Disk == DirInv /\ TruthInv /\ \A p \in Procs : ListedInv(p) /\ ImageInv(p)

IInv == Types /\ (\A p \in Procs : Local(p)) /\ Coord /\ Counting /\ Disk

-----------------------------------------------------------------------------
\* Appending one message to at most one other.
LEMMA OneMore ==
  ASSUME NEW S, NEW a \in S, NEW b \in S
  PROVE  /\ Append(<<>>, a) = <<a>>
         /\ Append(<<a>>, b) = <<a, b>>
<1>1. Append(<<>>, a) = <<a>>
  <2>1. <<>> \in Seq(S) /\ <<a>> \in Seq(S) /\ Len(<<>>) = 0
    OBVIOUS
  <2>2. Append(<<>>, a) \in Seq(S) /\ Len(Append(<<>>, a)) = 1 /\ Append(<<>>, a)[1] = a
    BY <2>1, AppendProperties
  <2>3. \A i \in 1 .. 1 : Append(<<>>, a)[i] = <<a>>[i]
    BY <2>2
  <2> QED
    BY <2>1, <2>2, <2>3, SeqEqual
<1>2. Append(<<a>>, b) = <<a, b>>
  <2>1. <<a>> \in Seq(S) /\ <<a, b>> \in Seq(S) /\ Len(<<a>>) = 1 /\ Len(<<a, b>>) = 2
    OBVIOUS
  <2>2. /\ Append(<<a>>, b) \in Seq(S) /\ Len(Append(<<a>>, b)) = 2
        /\ Append(<<a>>, b)[1] = a /\ Append(<<a>>, b)[2] = b
    BY <2>1, AppendProperties
  <2>3. \A i \in 1 .. 2 : Append(<<a>>, b)[i] = <<a, b>>[i]
    BY <2>2
  <2> QED
    BY <2>1, <2>2, <2>3, SeqEqual
<1> QED
  BY <1>1, <1>2

\* Appending two messages to at most one other.
LEMMA TwoMore ==
  ASSUME NEW S, NEW a \in S, NEW b \in S, NEW c \in S
  PROVE  /\ <<>> \o <<b, c>> = <<b, c>>
         /\ <<a>> \o <<b, c>> = <<a, b, c>>
<1>1. /\ <<>> \in Seq(S) /\ <<a>> \in Seq(S) /\ <<b, c>> \in Seq(S) /\ <<a, b, c>> \in Seq(S)
      /\ Len(<<a>>) = 1 /\ Len(<<b, c>>) = 2 /\ Len(<<a, b, c>>) = 3
  OBVIOUS
<1>2. <<>> \o <<b, c>> = <<b, c>>
  BY <1>1, ConcatEmptySeq
<1>3. /\ <<a>> \o <<b, c>> \in Seq(S) /\ Len(<<a>> \o <<b, c>>) = 3
      /\ \A i \in 1 .. 3 : (<<a>> \o <<b, c>>)[i] = IF i <= 1 THEN <<a>>[i] ELSE <<b, c>>[i - 1]
  BY <1>1, ConcatProperties
<1>4. \A i \in 1 .. 3 : (<<a>> \o <<b, c>>)[i] = <<a, b, c>>[i]
  BY <1>3
<1>5. <<a>> \o <<b, c>> = <<a, b, c>>
  BY <1>1, <1>3, <1>4, SeqEqual
<1> QED
  BY <1>2, <1>5

\* Sets of processes are finite, and their sizes are numbers of peers.
LEMMA PeersFinite ==
  /\ Cardinality(Procs) \in Nat /\ 0 \in Peers
  /\ \A S \in SUBSET Procs : /\ IsFiniteSet(S) /\ Cardinality(S) \in Peers
                             /\ Cardinality(S) = 0 <=> S = {}
BY ConstantsAssumption, FS_CardinalityType, FS_Subset, FS_EmptySet DEF Peers

\* The messages are messages.
LEMMA MessageType ==
  /\ Request \in Message /\ Resume \in Message /\ Go \in Message
  /\ Ready \in Message /\ Done \in Message /\ Bye \in Message
  /\ \A n \in Peers : Start(n) \in Message
BY PeersFinite DEF Message, Header, Request, Resume, Go, Ready, Done, Bye, Start, msg

\* The contents of connections are sequences of messages.
LEMMA TrafficType ==
  /\ <<>> \in Seq(Message) /\ <<Request>> \in Seq(Message)
  /\ <<Resume, Request>> \in Seq(Message) /\ <<Go, Request>> \in Seq(Message)
  /\ <<Bye>> \in Seq(Message)
  /\ <<Bye, Bye>> \in Seq(Message)
  /\ <<Ready, Bye, Bye>> \in Seq(Message)
  /\ <<Done, Bye, Bye>> \in Seq(Message)
BY MessageType

\* The headers tell the messages apart.
LEMMA Headers ==
  /\ Request.hdr = "CKPT_REQUEST" /\ Resume.hdr = "RESUME_AFTER_CKPT"
  /\ Go.hdr = "RESUME_AFTER_RESTART" /\ Ready.hdr = "CKPT_READY"
  /\ Done.hdr = "CKPT_DONE" /\ Bye.hdr = "EXIT"
  /\ \A n : Start(n).hdr = "CKPT_START" /\ Start(n).peers = n
BY DEF Request, Resume, Go, Ready, Done, Bye, Start, msg

\* The contents a connection has after each message that is sent.
LEMMA Traffic ==
  /\ Append(<<>>, Request) = <<Request>>
  /\ Append(<<Resume>>, Request) = <<Resume, Request>>
  /\ Append(<<Go>>, Request) = <<Go, Request>>
  /\ \A n \in Peers : Append(<<>>, Start(n)) = <<Start(n)>>
  /\ Append(<<>>, Resume) = <<Resume>>
  /\ Append(<<>>, Go) = <<Go>>
  /\ Append(<<>>, Ready) = <<Ready>>
  /\ Append(<<>>, Done) = <<Done>>
  /\ <<>> \o <<Bye, Bye>> = <<Bye, Bye>>
  /\ <<Ready>> \o <<Bye, Bye>> = <<Ready, Bye, Bye>>
  /\ <<Done>> \o <<Bye, Bye>> = <<Done, Bye, Bye>>
BY MessageType, OneMore, TwoMore

-----------------------------------------------------------------------------
\* Abbreviations that every step expands.
USE DEF procVars, chanVars, coordVars, loopVars, forkVars, diskVars, boundVars, Up, Gone, CoordGone

\* A process ends.
LEMMA Dying ==
  ASSUME IInv, NEW p \in Procs, Up(p), Dies(p),
         up' = up \/ up' = [up EXCEPT ![p] = @ \o <<Bye, Bye>>],
         UNCHANGED <<coordVars, diskVars, rounds>>, BoundType' 
  PROVE  IInv'
<1> USE DEF IInv
<1>1. /\ life' = [life EXCEPT ![p] = "zombie"]
      /\ ct' = [ct EXCEPT ![p] = "off"]
      /\ \E u \in {"none", "call", "fork"} : ut' = [ut EXCEPT ![p] = u]
      /\ down' = [down EXCEPT ![p] = <<>>]
      /\ UNCHANGED <<epoch, num_peers>>
  BY DEF Dies
<1>2. PICK u \in {"none", "call", "fork"} : ut' = [ut EXCEPT ![p] = u]
  BY <1>1
<1>3. \E s \in {<<Bye, Bye>>, <<Ready, Bye, Bye>>, <<Done, Bye, Bye>>} \cup {up[p]} :
        up' = [up EXCEPT ![p] = s] /\ (s = <<Done, Bye, Bye>> => up[p] = <<Done>>)
  <2>1. CASE up' = up
    <3>1. up' = [up EXCEPT ![p] = up[p]]
      BY <2>1 DEF Types, ProcType
    <3>2. up[p] # <<Done, Bye, Bye>>
      BY DEF Local, UpInv
    <3> QED
      BY <3>1, <3>2
  <2>2. CASE up' = [up EXCEPT ![p] = @ \o <<Bye, Bye>>]
    <3>1. up[p] \in {<<>>, <<Ready>>, <<Done>>}
      BY DEF Local, UpInv
    <3>2. <<Ready, Bye, Bye>> # <<Done, Bye, Bye>> /\ <<Bye, Bye>> # <<Done, Bye, Bye>>
      BY Headers
    <3> QED
      BY <2>2, <3>1, <3>2, Traffic
  <2> QED
    BY <2>1, <2>2
<1>4. PICK s \in {<<Bye, Bye>>, <<Ready, Bye, Bye>>, <<Done, Bye, Bye>>} \cup {up[p]} :
        up' = [up EXCEPT ![p] = s] /\ (s = <<Done, Bye, Bye>> => up[p] = <<Done>>)
  BY <1>3
<1>5. up[p] \in Seq(Message)
  BY DEF Types, ProcType
<1>6. s \in Seq(Message)
  BY <1>4, <1>5, TrafficType
<1>7. Types'
  BY <1>1, <1>2, <1>4, <1>6, SMTT(30) DEF Types, ProcType, CoordType, DiskType, BoundType,
     CkptThreadPoint
<1>8. ASSUME NEW q \in Procs PROVE Local(q)'
  <2>1. Local(q)
    OBVIOUS
  <2>2. CASE q = p
    BY <1>1, <1>2, <1>4, <1>6, <2>1, <2>2 DEF Types, ProcType, CoordType, Local,
       DownInv, UpInv, LifeInv, LinkInv, Writing
  <2>3. CASE q # p
    BY <1>1, <1>2, <1>4, <1>6, <2>1, <2>3, SMTT(30) DEF Types, ProcType, CoordType, Local,
       DownInv, UpInv, LifeInv, LinkInv, Writing
  <2> QED
    BY <2>2, <2>3
<1>9. Coord'
  BY <1>1, <1>2, <1>4, <1>6 DEF Types, ProcType, CoordType, Coord, Counters, AtforkInv,
     RestartInv, PhaseInv, InRestart
<1>10. Counting'
  <2>1. RoundsInv'
    BY <1>1, <1>2 DEF Types, ProcType, CoordType, BoundType, Counting, RoundsInv
  <2>2. ASSUME NEW q \in Procs PROVE EpochInv(q)'
    <3>1. EpochInv(q)
      BY DEF Counting
    <3>2. CASE q = p
      BY <1>1, <1>2, <3>1, <3>2 DEF Types, ProcType, CoordType, BoundType, EpochInv,
         Ahead, Writing
    <3>3. CASE q # p
      BY <1>1, <1>2, <3>1, <3>3 DEF Types, ProcType, CoordType, BoundType, EpochInv,
         Ahead, Writing
    <3> QED
      BY <3>2, <3>3
  <2> QED
    BY <2>1, <2>2 DEF Counting
<1>11. Disk'
  BY <1>1, <1>2, <1>4, <1>6, Headers DEF Types, ProcType, CoordType, Disk, DirInv,
     TruthInv, Whole, ListedInv, ImageInv, WholeFile
<1> QED
  BY <1>7, <1>8, <1>9, <1>10, <1>11

\* An ended process is waited for.
LEMMA Reaping ==
  ASSUME IInv, NEW p \in Procs, Reaped(p)
  PROVE  IInv'
<1> USE DEF IInv
<1>1. /\ life[p] = "zombie" /\ life' = [life EXCEPT ![p] = "gone"]
      /\ UNCHANGED <<ct, ut, epoch, num_peers, chanVars, coordVars, diskVars, boundVars>>
  BY DEF Reaped
<1>2. Types'
  BY <1>1 DEF Types, ProcType, CoordType, DiskType, BoundType
<1>3. ASSUME NEW q \in Procs PROVE Local(q)'
  <2>1. Local(q)
    OBVIOUS
  <2>2. CASE q = p
    BY <1>1, <2>1, <2>2 DEF Types, ProcType, CoordType, Local, DownInv, UpInv, LifeInv,
       LinkInv, Writing
  <2>3. CASE q # p
    BY <1>1, <2>1, <2>3 DEF Types, ProcType, CoordType, Local, DownInv, UpInv, LifeInv,
       LinkInv, Writing
  <2> QED
    BY <2>2, <2>3
<1>4. Coord'
  BY <1>1 DEF Types, ProcType, CoordType, Coord, Counters, AtforkInv, RestartInv,
     PhaseInv, InRestart
<1>5. Counting'
  BY <1>1 DEF Types, ProcType, CoordType, BoundType, Counting, RoundsInv, EpochInv,
     Ahead, Writing
<1>6. Disk'
  BY <1>1 DEF Types, ProcType, CoordType, Disk, DirInv, TruthInv, Whole,
     ListedInv, ImageInv, WholeFile
<1> QED
  BY <1>2, <1>3, <1>4, <1>5, <1>6

\* The checkpoint thread gets a request.
LEMMA Receiving ==
  ASSUME IInv, NEW p \in Procs, ReceiveRequest(p), ~CoordGone
  PROVE  IInv'
<1> USE DEF IInv
<1>1. /\ Up(p) /\ ct[p] = "listen" /\ down[p] = <<Request>> /\ p \in proc_list
  BY DEF ReceiveRequest, Local, LifeInv, DownInv
<1>2. pstate[p] = "PROC_RECV_CKPT_REQUEST" /\ up[p] = <<>>
  BY <1>1 DEF Types, CoordType, ProcState, Local, LinkInv, Writing
<1>3. /\ down' = [down EXCEPT ![p] = <<>>]
      /\ up' = [up EXCEPT ![p] = <<Ready>>]
      /\ ct' = [ct EXCEPT ![p] = "ready"]
      /\ UNCHANGED <<life, ut, epoch, num_peers, coordVars, diskVars, boundVars>>
  BY <1>1, <1>2, Traffic DEF ReceiveRequest, Ready
<1>4. Types'
  BY <1>1, <1>2, <1>3, MessageType DEF Types, ProcType, CoordType, DiskType, BoundType,
     CkptThreadPoint
<1>5. ASSUME NEW q \in Procs PROVE Local(q)'
  <2>1. Local(q)
    OBVIOUS
  <2>2. CASE q = p
    BY <1>1, <1>2, <1>3, <2>1, <2>2 DEF Types, ProcType, CoordType, Local, DownInv,
       UpInv, LifeInv, LinkInv, Writing
  <2>3. CASE q # p
    BY <1>1, <1>2, <1>3, <2>1, <2>3 DEF Types, ProcType, CoordType, Local, DownInv,
       UpInv, LifeInv, LinkInv, Writing
  <2> QED
    BY <2>2, <2>3
<1>6. Coord'
  BY <1>1, <1>2, <1>3 DEF Types, ProcType, CoordType, Coord, Counters, AtforkInv,
     RestartInv, PhaseInv, InRestart
<1>7. Counting'
  BY <1>1, <1>2, <1>3 DEF Types, ProcType, CoordType, BoundType, Counting, RoundsInv,
     EpochInv, Ahead, Writing
<1>8. Disk'
  BY <1>1, <1>2, <1>3, Headers DEF Types, ProcType, CoordType, Disk, DirInv, TruthInv,
     Whole, ListedInv, ImageInv, WholeFile
<1> QED
  BY <1>4, <1>5, <1>6, <1>7, <1>8

\* The checkpoint thread ends with the coordinator.
LEMMA Losing ==
  ASSUME IInv, NEW p \in Procs, RequestEOF(p)
  PROVE  IInv'
<1> USE DEF IInv
<1>1. /\ Up(p) /\ CoordGone /\ ct[p] = "listen" /\ down[p] = <<>>
      /\ ct' = [ct EXCEPT ![p] = "off"]
      /\ UNCHANGED <<life, ut, epoch, num_peers, chanVars, coordVars, diskVars, boundVars>>
  BY DEF RequestEOF
<1>2. Types'
  BY <1>1 DEF Types, ProcType, CoordType, DiskType, BoundType, CkptThreadPoint
<1>3. ASSUME NEW q \in Procs PROVE Local(q)'
  <2>1. Local(q)
    OBVIOUS
  <2>2. CASE q = p
    BY <1>1, <2>1, <2>2 DEF Types, ProcType, CoordType, Local, DownInv, UpInv, LifeInv,
       LinkInv, Writing
  <2>3. CASE q # p
    BY <1>1, <2>1, <2>3 DEF Types, ProcType, CoordType, Local, DownInv, UpInv, LifeInv,
       LinkInv, Writing
  <2> QED
    BY <2>2, <2>3
<1>4. Coord'
  BY <1>1 DEF Types, ProcType, CoordType, Coord, Counters, AtforkInv, RestartInv,
     PhaseInv, InRestart
<1>5. Counting'
  BY <1>1 DEF Types, ProcType, CoordType, BoundType, Counting, RoundsInv, EpochInv,
     Ahead, Writing
<1>6. Disk'
  BY <1>1 DEF Types, ProcType, CoordType, Disk, DirInv, TruthInv, Whole,
     ListedInv, ImageInv, WholeFile
<1> QED
  BY <1>2, <1>3, <1>4, <1>5, <1>6

\* The PRECKPT barrier opens.
LEMMA LeavingPreckpt ==
  ASSUME IInv, NEW p \in Procs, LeavePreckptBarrier(p)
  PROVE  IInv'
<1> USE DEF IInv
<1>1. \E n \in Peers : down[p] = <<Start(n)>>
  BY DEF LeavePreckptBarrier, Released, Local, DownInv
<1>2. PICK n \in Peers : down[p] = <<Start(n)>>
  BY <1>1
<1>3. Head(down[p]).peers = n /\ Tail(down[p]) = <<>> /\ down[p] # <<>>
  BY <1>2, Headers
<1>4. /\ Up(p) /\ ct[p] = "ready"
      /\ num_peers' = [num_peers EXCEPT ![p] = n]
      /\ down' = [down EXCEPT ![p] = <<>>]
      /\ ct' = [ct EXCEPT ![p] = "suspend"]
      /\ UNCHANGED <<life, ut, epoch, up, coordVars, diskVars, boundVars>>
  BY <1>3 DEF LeavePreckptBarrier, Released
<1>5. p \in proc_list => pstate[p] = "PROC_CKPT_IN_PROGRESS" /\ n = knum
  BY <1>2, <1>4, Headers DEF Types, CoordType, ProcState, Local, LinkInv, Writing
<1>6. Types'
  BY <1>2, <1>3, <1>4, <1>5 DEF Types, ProcType, CoordType, DiskType, BoundType,
     CkptThreadPoint
<1>7. ASSUME NEW q \in Procs PROVE Local(q)'
  <2>1. Local(q)
    OBVIOUS
  <2>2. CASE q = p
    BY <1>2, <1>3, <1>4, <1>5, <2>1, <2>2 DEF Types, ProcType, CoordType, Local,
       DownInv, UpInv, LifeInv, LinkInv, Writing
  <2>3. CASE q # p
    BY <1>2, <1>3, <1>4, <1>5, <2>1, <2>3 DEF Types, ProcType, CoordType, Local,
       DownInv, UpInv, LifeInv, LinkInv, Writing
  <2> QED
    BY <2>2, <2>3
<1>8. Coord'
  BY <1>2, <1>3, <1>4, <1>5 DEF Types, ProcType, CoordType, Coord, Counters, AtforkInv,
     RestartInv, PhaseInv, InRestart
<1>9. Counting'
  BY <1>2, <1>3, <1>4, <1>5 DEF Types, ProcType, CoordType, BoundType, Counting,
     RoundsInv, EpochInv, Ahead, Writing
<1>10. Disk'
  BY <1>2, <1>3, <1>4, <1>5 DEF Types, ProcType, CoordType, Disk, DirInv, TruthInv,
     Whole, ListedInv, ImageInv, WholeFile
<1> QED
  BY <1>6, <1>7, <1>8, <1>9, <1>10

\* The user threads are stopped.
LEMMA Suspending ==
  ASSUME IInv, NEW p \in Procs, SuspendUser(p)
  PROVE  IInv'
<1> USE DEF IInv
<1>1. /\ Up(p) /\ ct[p] = "suspend" /\ ut[p] = "app"
      /\ ut' = [ut EXCEPT ![p] = "held"]
      /\ ct' = [ct EXCEPT ![p] = "write"]
      /\ UNCHANGED <<life, epoch, num_peers, chanVars, coordVars, diskVars, boundVars>>
  BY DEF SuspendUser
<1>2. Types'
  BY <1>1 DEF Types, ProcType, CoordType, DiskType, BoundType, CkptThreadPoint
<1>3. ASSUME NEW q \in Procs PROVE Local(q)'
  <2>1. Local(q)
    OBVIOUS
  <2>2. CASE q = p
    BY <1>1, <2>1, <2>2 DEF Types, ProcType, CoordType, Local, DownInv, UpInv, LifeInv,
       LinkInv, Writing
  <2>3. CASE q # p
    BY <1>1, <2>1, <2>3 DEF Types, ProcType, CoordType, Local, DownInv, UpInv, LifeInv,
       LinkInv, Writing
  <2> QED
    BY <2>2, <2>3
<1>4. Coord'
  BY <1>1 DEF Types, ProcType, CoordType, Coord, Counters, AtforkInv, RestartInv,
     PhaseInv, InRestart
<1>5. Counting'
  BY <1>1 DEF Types, ProcType, CoordType, BoundType, Counting, RoundsInv, EpochInv,
     Ahead, Writing
<1>6. Disk'
  BY <1>1 DEF Types, ProcType, CoordType, Disk, DirInv, TruthInv, Whole,
     ListedInv, ImageInv, WholeFile
<1> QED
  BY <1>2, <1>3, <1>4, <1>5, <1>6

\* The image file is new.
LEMMA Creating ==
  ASSUME IInv, NEW p \in Procs, Up(p), ct[p] = "write",
         epoch[p] \in dirs, image[epoch[p]][p].data = "none",
         image' = [image EXCEPT ![epoch[p]][p].data = "partial"],
         ct' = [ct EXCEPT ![p] = "writing"],
         UNCHANGED <<life, ut, epoch, num_peers, chanVars, coordVars, dirs, manifest,
                     boundVars>>
  PROVE  IInv'
<1> USE DEF IInv
<1>1. Up(p) /\ ct[p] = "write"
  OBVIOUS
<1>2. ~CoordGone => /\ p \in proc_list /\ pstate[p] = "PROC_CKPT_IN_PROGRESS"
                    /\ num_peers[p] = knum /\ up[p] = <<>>
  BY <1>1 DEF Types, CoordType, ProcState, Local, LifeInv, LinkInv, Writing
<1>3. epoch[p] \in Epochs /\ epoch[p] < rounds
  BY <1>1, ConstantsAssumption DEF Types, ProcType, BoundType, Counting, EpochInv,
     Epochs, Writing
<1>4. ~CoordGone => kpc \in {"start", "reduce", "collect", "manifest", "resume"}
  BY <1>2 DEF Coord, PhaseInv
<1>5. ~CoordGone /\ kpc \in Dir => epoch[p] = kepoch
  BY <1>1, <1>2 DEF Counting, EpochInv, Ahead, Dir
<1>6. image[epoch[p]] \in [Procs -> File] /\ image[epoch[p]][p] \in File
  BY <1>3 DEF Types, DiskType
<1>7. image'[epoch[p]] = [image[epoch[p]] EXCEPT ![p].data = "partial"]
      /\ \A e \in Epochs : e # epoch[p] => image'[e] = image[e]
  BY <1>3 DEF Types, DiskType
<1>8. image'[epoch[p]][p] = [image[epoch[p]][p] EXCEPT !.data = "partial"]
      /\ \A q \in Procs : q # p => image'[epoch[p]][q] = image[epoch[p]][q]
  BY <1>6, <1>7
<1>9. image'[epoch[p]][p].data = "partial" /\ image'[epoch[p]][p] \in File
  BY <1>6, <1>8 DEF File
<1>10. image'[epoch[p]] \in [Procs -> File]
  BY <1>6, <1>7, <1>9 DEF File
<1>11. image' \in [Epochs -> [Procs -> File]]
  BY <1>3, <1>7, <1>10 DEF Types, DiskType
<1>12. \A e \in Epochs, q \in Procs : e # epoch[p] \/ q # p => image'[e][q] = image[e][q]
  BY <1>7, <1>8
<1>13. p \notin manifest[epoch[p]]
  BY DEF Disk, ListedInv
<1>14. Types'
  BY <1>1, <1>2, <1>3, <1>4, <1>5, <1>9, <1>11, <1>12, <1>13 DEF Types, ProcType,
     CoordType, DiskType, BoundType, CkptThreadPoint
<1>15. ASSUME NEW q \in Procs PROVE Local(q)'
  <2>1. Local(q)
    OBVIOUS
  <2>2. CASE q = p
    BY <1>1, <1>2, <1>3, <1>4, <1>5, <1>9, <1>11, <1>12, <1>13, <2>1, <2>2 DEF Types,
       ProcType, CoordType, Local, DownInv, UpInv, LifeInv, LinkInv, Writing
  <2>3. CASE q # p
    BY <1>1, <1>2, <1>3, <1>4, <1>5, <1>9, <1>11, <1>12, <1>13, <2>1, <2>3 DEF Types,
       ProcType, CoordType, Local, DownInv, UpInv, LifeInv, LinkInv, Writing
  <2> QED
    BY <2>2, <2>3
<1>16. Coord'
  BY <1>1, <1>2, <1>3, <1>4, <1>5, <1>9, <1>11, <1>12, <1>13 DEF Types, ProcType,
     CoordType, Coord, Counters, AtforkInv, RestartInv, PhaseInv, InRestart
<1>17. Counting'
  BY <1>1, <1>2, <1>3, <1>4, <1>5, <1>9, <1>11, <1>12, <1>13 DEF Types, ProcType,
     CoordType, BoundType, Counting, RoundsInv, EpochInv, Ahead, Writing
<1>18. Disk'
  <2>1. DirInv'
    BY <1>1, <1>2, <1>3, <1>4, <1>5, <1>9, <1>11, <1>12, <1>13 DEF Types, ProcType,
       CoordType, DiskType, Disk, DirInv, Dir
  <2>2. TruthInv'
    BY <1>1, <1>2, <1>3, <1>4, <1>5, <1>9, <1>11, <1>12, <1>13 DEF Types, ProcType,
       CoordType, DiskType, Disk, TruthInv, Whole
  <2>3. ASSUME NEW q \in Procs PROVE ListedInv(q)'
    BY <1>1, <1>2, <1>3, <1>4, <1>5, <1>9, <1>11, <1>12, <1>13 DEF Types, ProcType,
       CoordType, DiskType, Disk, ListedInv
  <2>4. ASSUME NEW q \in Procs PROVE ImageInv(q)'
    <3>1. CASE q = p
      BY <1>1, <1>2, <1>3, <1>4, <1>5, <1>9, <1>11, <1>12, <1>13, <3>1 DEF Types,
         ProcType, CoordType, DiskType, Disk, ImageInv, WholeFile, Dir
    <3>2. CASE q # p
      BY <1>1, <1>2, <1>3, <1>4, <1>5, <1>9, <1>11, <1>12, <1>13, <3>2 DEF Types,
         ProcType, CoordType, DiskType, Disk, ImageInv, WholeFile, Dir
    <3> QED
      BY <3>1, <3>2
  <2> QED
    BY <2>1, <2>2, <2>3, <2>4 DEF Disk
<1> QED
  BY <1>14, <1>15, <1>16, <1>17, <1>18

\* The image file cannot be created.
LEMMA NotCreating ==
  ASSUME IInv, NEW p \in Procs, Up(p), ct[p] = "write",
         DiskFails \/ epoch[p] \notin dirs \/ image[epoch[p]][p].data # "none",
         ct' = [ct EXCEPT ![p] = "written"],
         UNCHANGED <<life, ut, epoch, num_peers, chanVars, coordVars, diskVars, boundVars>>
  PROVE  IInv'
<1> USE DEF IInv
<1>1. Up(p) /\ ct[p] = "write"
  OBVIOUS
<1>2. ~CoordGone => /\ p \in proc_list /\ pstate[p] = "PROC_CKPT_IN_PROGRESS"
                    /\ num_peers[p] = knum /\ up[p] = <<>>
  BY <1>1 DEF Types, CoordType, ProcState, Local, LifeInv, LinkInv, Writing
<1>3. epoch[p] \in Epochs /\ epoch[p] < rounds
  BY <1>1, ConstantsAssumption DEF Types, ProcType, BoundType, Counting, EpochInv,
     Epochs, Writing
<1>4. ~CoordGone => kpc \in {"start", "reduce", "collect", "manifest", "resume"}
  BY <1>2 DEF Coord, PhaseInv
<1>5. ~CoordGone /\ kpc \in Dir => epoch[p] = kepoch
  BY <1>1, <1>2 DEF Counting, EpochInv, Ahead, Dir
<1>6. ~DiskFails => kpc \notin Dir
  BY <1>1, <1>2, <1>4, <1>5 DEF Disk, DirInv, ImageInv, Dir
<1>7. Types'
  BY <1>1, <1>2, <1>3, <1>4, <1>5, <1>6 DEF Types, ProcType, CoordType, DiskType,
     BoundType, CkptThreadPoint
<1>8. ASSUME NEW q \in Procs PROVE Local(q)'
  <2>1. Local(q)
    OBVIOUS
  <2>2. CASE q = p
    BY <1>1, <1>2, <1>3, <1>4, <1>5, <1>6, <2>1, <2>2 DEF Types, ProcType, CoordType,
       Local, DownInv, UpInv, LifeInv, LinkInv, Writing
  <2>3. CASE q # p
    BY <1>1, <1>2, <1>3, <1>4, <1>5, <1>6, <2>1, <2>3 DEF Types, ProcType, CoordType,
       Local, DownInv, UpInv, LifeInv, LinkInv, Writing
  <2> QED
    BY <2>2, <2>3
<1>9. Coord'
  BY <1>1, <1>2, <1>3, <1>4, <1>5, <1>6 DEF Types, ProcType, CoordType, Coord,
     Counters, AtforkInv, RestartInv, PhaseInv, InRestart
<1>10. Counting'
  BY <1>1, <1>2, <1>3, <1>4, <1>5, <1>6 DEF Types, ProcType, CoordType, BoundType,
     Counting, RoundsInv, EpochInv, Ahead, Writing
<1>11. Disk'
  BY <1>1, <1>2, <1>3, <1>4, <1>5, <1>6 DEF Types, ProcType, CoordType, Disk, DirInv,
     TruthInv, Whole, ListedInv, ImageInv, WholeFile
<1> QED
  BY <1>7, <1>8, <1>9, <1>10, <1>11

\* The image is written.
LEMMA Filling ==
  ASSUME IInv, NEW p \in Procs, Up(p), ct[p] = "writing",
         image' = [image EXCEPT ![epoch[p]][p] = [data |-> "whole", peers |-> num_peers[p]]],
         ct' = [ct EXCEPT ![p] = "written"],
         UNCHANGED <<life, ut, epoch, num_peers, chanVars, coordVars, dirs, manifest,
                     boundVars>>
  PROVE  IInv'
<1> USE DEF IInv
<1>1. Up(p) /\ ct[p] = "writing"
  OBVIOUS
<1>2. ~CoordGone => /\ p \in proc_list /\ pstate[p] = "PROC_CKPT_IN_PROGRESS"
                    /\ num_peers[p] = knum /\ up[p] = <<>>
  BY <1>1 DEF Types, CoordType, ProcState, Local, LifeInv, LinkInv, Writing
<1>3. epoch[p] \in Epochs /\ epoch[p] < rounds
  BY <1>1, ConstantsAssumption DEF Types, ProcType, BoundType, Counting, EpochInv,
     Epochs, Writing
<1>4. ~CoordGone => kpc \in {"start", "reduce", "collect", "manifest", "resume"}
  BY <1>2 DEF Coord, PhaseInv
<1>5. ~CoordGone /\ kpc \in Dir => epoch[p] = kepoch
  BY <1>1, <1>2 DEF Counting, EpochInv, Ahead, Dir
<1>6. [data |-> "whole", peers |-> num_peers[p]] \in File
  BY DEF Types, ProcType, File
<1>7. image'[epoch[p]] = [image[epoch[p]] EXCEPT ![p] = [data |-> "whole", peers |-> num_peers[p]]]
      /\ \A e \in Epochs : e # epoch[p] => image'[e] = image[e]
  BY <1>3 DEF Types, DiskType
<1>8. image[epoch[p]] \in [Procs -> File]
  BY <1>3 DEF Types, DiskType
<1>9. image'[epoch[p]][p] = [data |-> "whole", peers |-> num_peers[p]]
      /\ \A q \in Procs : q # p => image'[epoch[p]][q] = image[epoch[p]][q]
  BY <1>7, <1>8
<1>10. image'[epoch[p]] \in [Procs -> File]
  BY <1>6, <1>7, <1>8
<1>11. image' \in [Epochs -> [Procs -> File]]
  BY <1>3, <1>7, <1>10 DEF Types, DiskType
<1>12. \A e \in Epochs, q \in Procs : e # epoch[p] \/ q # p => image'[e][q] = image[e][q]
  BY <1>7, <1>9
<1>13. p \notin manifest[epoch[p]] /\ epoch[p] \in dirs
  BY <1>1, <1>3 DEF Types, DiskType, Disk, ListedInv
<1>14. Types'
  BY <1>1, <1>2, <1>3, <1>4, <1>5, <1>6, <1>9, <1>11, <1>12, <1>13 DEF Types, ProcType,
     CoordType, DiskType, BoundType, CkptThreadPoint
<1>15. ASSUME NEW q \in Procs PROVE Local(q)'
  <2>1. Local(q)
    OBVIOUS
  <2>2. CASE q = p
    BY <1>1, <1>2, <1>3, <1>4, <1>5, <1>6, <1>9, <1>11, <1>12, <1>13, <2>1, <2>2 DEF
       Types, ProcType, CoordType, Local, DownInv, UpInv, LifeInv, LinkInv, Writing
  <2>3. CASE q # p
    BY <1>1, <1>2, <1>3, <1>4, <1>5, <1>6, <1>9, <1>11, <1>12, <1>13, <2>1, <2>3 DEF
       Types, ProcType, CoordType, Local, DownInv, UpInv, LifeInv, LinkInv, Writing
  <2> QED
    BY <2>2, <2>3
<1>16. Coord'
  BY <1>1, <1>2, <1>3, <1>4, <1>5, <1>6, <1>9, <1>11, <1>12, <1>13 DEF Types, ProcType,
     CoordType, Coord, Counters, AtforkInv, RestartInv, PhaseInv, InRestart
<1>17. Counting'
  BY <1>1, <1>2, <1>3, <1>4, <1>5, <1>6, <1>9, <1>11, <1>12, <1>13 DEF Types, ProcType,
     CoordType, BoundType, Counting, RoundsInv, EpochInv, Ahead, Writing
<1>18. Disk'
  <2>1. DirInv'
    BY <1>1, <1>2, <1>3, <1>4, <1>5, <1>6, <1>9, <1>11, <1>12, <1>13 DEF Types,
       ProcType, CoordType, DiskType, Disk, DirInv, Dir
  <2>2. TruthInv'
    BY <1>1, <1>2, <1>3, <1>4, <1>5, <1>6, <1>9, <1>11, <1>12, <1>13 DEF Types,
       ProcType, CoordType, DiskType, Disk, TruthInv, Whole
  <2>3. ASSUME NEW q \in Procs PROVE ListedInv(q)'
    BY <1>1, <1>2, <1>3, <1>4, <1>5, <1>6, <1>9, <1>11, <1>12, <1>13 DEF Types,
       ProcType, CoordType, DiskType, Disk, ListedInv
  <2>4. ASSUME NEW q \in Procs PROVE ImageInv(q)'
    <3>1. CASE q = p
      BY <1>1, <1>2, <1>3, <1>4, <1>5, <1>6, <1>9, <1>11, <1>12, <1>13, <3>1 DEF Types,
         ProcType, CoordType, DiskType, Disk, ImageInv, WholeFile, Dir
    <3>2. CASE q # p
      BY <1>1, <1>2, <1>3, <1>4, <1>5, <1>6, <1>9, <1>11, <1>12, <1>13, <3>2 DEF Types,
         ProcType, CoordType, DiskType, Disk, ImageInv, WholeFile, Dir
    <3> QED
      BY <3>1, <3>2
  <2> QED
    BY <2>1, <2>2, <2>3, <2>4 DEF Disk
<1> QED
  BY <1>14, <1>15, <1>16, <1>17, <1>18

\* The image stays incomplete.
LEMMA NotFilling ==
  ASSUME IInv, NEW p \in Procs, Up(p), ct[p] = "writing", DiskFails,
         ct' = [ct EXCEPT ![p] = "written"],
         UNCHANGED <<life, ut, epoch, num_peers, chanVars, coordVars, diskVars, boundVars>>
  PROVE  IInv'
<1> USE DEF IInv
<1>1. Up(p) /\ ct[p] = "writing"
  OBVIOUS
<1>2. ~CoordGone => /\ p \in proc_list /\ pstate[p] = "PROC_CKPT_IN_PROGRESS"
                    /\ num_peers[p] = knum /\ up[p] = <<>>
  BY <1>1 DEF Types, CoordType, ProcState, Local, LifeInv, LinkInv, Writing
<1>3. Types'
  BY <1>1, <1>2 DEF Types, ProcType, CoordType, DiskType, BoundType, CkptThreadPoint
<1>4. ASSUME NEW q \in Procs PROVE Local(q)'
  <2>1. Local(q)
    OBVIOUS
  <2>2. CASE q = p
    BY <1>1, <1>2, <2>1, <2>2 DEF Types, ProcType, CoordType, Local, DownInv, UpInv,
       LifeInv, LinkInv, Writing
  <2>3. CASE q # p
    BY <1>1, <1>2, <2>1, <2>3 DEF Types, ProcType, CoordType, Local, DownInv, UpInv,
       LifeInv, LinkInv, Writing
  <2> QED
    BY <2>2, <2>3
<1>5. Coord'
  BY <1>1, <1>2 DEF Types, ProcType, CoordType, Coord, Counters, AtforkInv, RestartInv,
     PhaseInv, InRestart
<1>6. Counting'
  BY <1>1, <1>2 DEF Types, ProcType, CoordType, BoundType, Counting, RoundsInv,
     EpochInv, Ahead, Writing
<1>7. Disk'
  BY <1>1, <1>2 DEF Types, ProcType, CoordType, Disk, DirInv, TruthInv,
     Whole, ListedInv, ImageInv, WholeFile
<1> QED
  BY <1>3, <1>4, <1>5, <1>6, <1>7

\* XND_CKPT_DONE is sent.
LEMMA Finishing ==
  ASSUME IInv, NEW p \in Procs, EnterPostckptBarrier(p), ~CoordGone
  PROVE  IInv'
<1> USE DEF IInv
<1>1. Up(p) /\ ct[p] = "written" /\ down[p] = <<>>
  BY DEF EnterPostckptBarrier, Local, DownInv, Writing
<1>2. ~CoordGone => /\ p \in proc_list /\ pstate[p] = "PROC_CKPT_IN_PROGRESS"
                    /\ num_peers[p] = knum /\ up[p] = <<>>
  BY <1>1 DEF Types, CoordType, ProcState, Local, LifeInv, LinkInv, Writing
<1>3. /\ up' = [up EXCEPT ![p] = <<Done>>]
      /\ ct' = [ct EXCEPT ![p] = "done"]
      /\ UNCHANGED <<life, ut, epoch, num_peers, down, coordVars, diskVars, boundVars>>
  BY <1>1, <1>2, Traffic DEF EnterPostckptBarrier, Done
<1>4. Types'
  BY <1>1, <1>2, <1>3, MessageType DEF Types, ProcType, CoordType, DiskType, BoundType,
     CkptThreadPoint
<1>5. ASSUME NEW q \in Procs PROVE Local(q)'
  <2>1. Local(q)
    OBVIOUS
  <2>2. CASE q = p
    BY <1>1, <1>2, <1>3, <2>1, <2>2 DEF Types, ProcType, CoordType, Local, DownInv,
       UpInv, LifeInv, LinkInv, Writing
  <2>3. CASE q # p
    <3>1. /\ life'[q] = life[q] /\ ct'[q] = ct[q] /\ ut'[q] = ut[q] /\ epoch'[q] = epoch[q]
          /\ num_peers'[q] = num_peers[q] /\ up'[q] = up[q] /\ down'[q] = down[q]
      BY <1>1, <1>2, <1>3, <2>3 DEF Types, ProcType
    <3> QED
      BY <1>3, <2>1, <3>1 DEF Local, DownInv, UpInv, LifeInv, LinkInv
  <2> QED
    BY <2>2, <2>3
<1>6. Coord'
  BY <1>1, <1>2, <1>3 DEF Types, ProcType, CoordType, Coord, Counters, AtforkInv,
     RestartInv, PhaseInv, InRestart
<1>7. Counting'
  BY <1>1, <1>2, <1>3 DEF Types, ProcType, CoordType, BoundType, Counting, RoundsInv,
     EpochInv, Ahead, Writing
<1>8. Disk'
  BY <1>1, <1>2, <1>3 DEF Types, ProcType, CoordType, Disk, DirInv, TruthInv,
     Whole, ListedInv, ImageInv, WholeFile
<1> QED
  BY <1>4, <1>5, <1>6, <1>7, <1>8

\* The POSTCKPT barrier opens.
LEMMA LeavingPostckpt ==
  ASSUME IInv, NEW p \in Procs, LeavePostckptBarrier(p)
  PROVE  IInv'
<1> USE DEF IInv
<1>1. /\ Up(p) /\ ct[p] = "done" /\ down[p] # <<>>
      /\ down[p] \in {<<Resume>>, <<Resume, Request>>}
  BY DEF LeavePostckptBarrier, Released, Local, DownInv
<1>2. p \in proc_list => /\ down[p] = <<Resume>> => pstate[p] = "PROC_RUNNING"
                         /\ down[p] = <<Resume, Request>> => pstate[p] = "PROC_RECV_CKPT_REQUEST"
                         /\ up[p] = <<>>
  BY <1>1, Headers DEF Types, CoordType, ProcState, Local, LinkInv, Writing
<1>3. \E r \in {<<>>, <<Request>>} :
        /\ down[p] = <<Resume>> <=> r = <<>>
        /\ down[p] = <<Resume, Request>> <=> r = <<Request>>
        /\ down' = [down EXCEPT ![p] = r]
  <2>1. down' = [down EXCEPT ![p] = Tail(down[p])]
    BY DEF LeavePostckptBarrier, Released
  <2>2. CASE down[p] = <<Resume>>
    <3>1. Tail(down[p]) = <<>> /\ down[p] # <<Resume, Request>>
      BY <2>2
    <3> QED
      BY <2>1, <2>2, <3>1
  <2>3. CASE down[p] = <<Resume, Request>>
    <3>1. Tail(down[p]) = <<Request>> /\ down[p] # <<Resume>>
      BY <2>3
    <3> QED
      BY <2>1, <2>3, <3>1
  <2> QED
    BY <1>1, <2>2, <2>3
<1>4. PICK r \in {<<>>, <<Request>>} :
        /\ down[p] = <<Resume>> <=> r = <<>>
        /\ down[p] = <<Resume, Request>> <=> r = <<Request>>
        /\ down' = [down EXCEPT ![p] = r]
  BY <1>3
<1>5. r \in Seq(Message)
  BY <1>4, TrafficType
<1>6. /\ epoch' = [epoch EXCEPT ![p] = @ + 1]
      /\ ut' = [ut EXCEPT ![p] = "app"]
      /\ ct' = [ct EXCEPT ![p] = "listen"]
      /\ UNCHANGED <<life, num_peers, up, coordVars, diskVars, boundVars>>
  BY DEF LeavePostckptBarrier
<1>7. Types'
  <2>1. ProcType'
    BY <1>1, <1>2, <1>4, <1>5, <1>6 DEF Types, ProcType, CkptThreadPoint
  <2> QED
    BY <2>1, <1>6 DEF Types, CoordType, DiskType, BoundType
<1>8. ASSUME NEW q \in Procs PROVE Local(q)'
  <2>1. Local(q)
    OBVIOUS
  <2>2. CASE q = p
    BY <1>1, <1>2, <1>4, <1>5, <1>6, <2>1, <2>2 DEF Types, ProcType, CoordType, Local,
       DownInv, UpInv, LifeInv, LinkInv, Writing
  <2>3. CASE q # p
    BY <1>1, <1>2, <1>4, <1>5, <1>6, <2>1, <2>3 DEF Types, ProcType, CoordType, Local,
       DownInv, UpInv, LifeInv, LinkInv, Writing
  <2> QED
    BY <2>2, <2>3
<1>9. Coord'
  BY <1>1, <1>2, <1>4, <1>5, <1>6 DEF Types, ProcType, CoordType, Coord, Counters,
     AtforkInv, RestartInv, PhaseInv, InRestart
<1>10. Counting'
  BY <1>1, <1>2, <1>4, <1>5, <1>6 DEF Types, ProcType, CoordType, BoundType, Counting,
     RoundsInv, EpochInv, Ahead, Writing
<1>11. Disk'
  BY <1>1, <1>2, <1>4, <1>5, <1>6 DEF Types, ProcType, CoordType, Disk, DirInv,
     TruthInv, Whole, ListedInv, ImageInv, WholeFile
<1> QED
  BY <1>7, <1>8, <1>9, <1>10, <1>11

\* The barrier of a restart opens.
LEMMA LeavingRestart ==
  ASSUME IInv, NEW p \in Procs, LeaveRestartBarrier(p)
  PROVE  IInv'
<1> USE DEF IInv
<1>1. /\ Up(p) /\ ct[p] = "rwait" /\ down[p] # <<>>
      /\ down[p] \in {<<Go>>, <<Go, Request>>}
  BY DEF LeaveRestartBarrier, Released, Local, DownInv
<1>2. p \in proc_list => /\ down[p] = <<Go>> => pstate[p] = "PROC_RUNNING"
                         /\ down[p] = <<Go, Request>> => pstate[p] = "PROC_RECV_CKPT_REQUEST"
                         /\ up[p] = <<>>
  BY <1>1, Headers DEF Types, CoordType, ProcState, Local, LinkInv, Writing
<1>3. \E r \in {<<>>, <<Request>>} :
        /\ down[p] = <<Go>> <=> r = <<>>
        /\ down[p] = <<Go, Request>> <=> r = <<Request>>
        /\ down' = [down EXCEPT ![p] = r]
  <2>1. down' = [down EXCEPT ![p] = Tail(down[p])]
    BY DEF LeaveRestartBarrier, Released
  <2>2. CASE down[p] = <<Go>>
    <3>1. Tail(down[p]) = <<>> /\ down[p] # <<Go, Request>>
      BY <2>2
    <3> QED
      BY <2>1, <2>2, <3>1
  <2>3. CASE down[p] = <<Go, Request>>
    <3>1. Tail(down[p]) = <<Request>> /\ down[p] # <<Go>>
      BY <2>3
    <3> QED
      BY <2>1, <2>3, <3>1
  <2> QED
    BY <1>1, <2>2, <2>3
<1>4. PICK r \in {<<>>, <<Request>>} :
        /\ down[p] = <<Go>> <=> r = <<>>
        /\ down[p] = <<Go, Request>> <=> r = <<Request>>
        /\ down' = [down EXCEPT ![p] = r]
  BY <1>3
<1>5. r \in Seq(Message)
  BY <1>4, TrafficType
<1>6. /\ ut' = [ut EXCEPT ![p] = "app"]
      /\ ct' = [ct EXCEPT ![p] = "listen"]
      /\ UNCHANGED <<life, epoch, num_peers, up, coordVars, diskVars, boundVars>>
  BY DEF LeaveRestartBarrier
<1>7. Types'
  BY <1>1, <1>2, <1>4, <1>5, <1>6, MessageType DEF Types, ProcType, CoordType,
     DiskType, BoundType, CkptThreadPoint
<1>8. ASSUME NEW q \in Procs PROVE Local(q)'
  <2>1. Local(q)
    OBVIOUS
  <2>2. CASE q = p
    BY <1>1, <1>2, <1>4, <1>5, <1>6, <2>1, <2>2 DEF Types, ProcType, CoordType, Local,
       DownInv, UpInv, LifeInv, LinkInv, Writing
  <2>3. CASE q # p
    BY <1>1, <1>2, <1>4, <1>5, <1>6, <2>1, <2>3 DEF Types, ProcType, CoordType, Local,
       DownInv, UpInv, LifeInv, LinkInv, Writing
  <2> QED
    BY <2>2, <2>3
<1>9. Coord'
  BY <1>1, <1>2, <1>4, <1>5, <1>6 DEF Types, ProcType, CoordType, Coord, Counters,
     AtforkInv, RestartInv, PhaseInv, InRestart
<1>10. Counting'
  BY <1>1, <1>2, <1>4, <1>5, <1>6 DEF Types, ProcType, CoordType, BoundType, Counting,
     RoundsInv, EpochInv, Ahead, Writing
<1>11. Disk'
  BY <1>1, <1>2, <1>4, <1>5, <1>6 DEF Types, ProcType, CoordType, Disk, DirInv,
     TruthInv, Whole, ListedInv, ImageInv, WholeFile
<1> QED
  BY <1>7, <1>8, <1>9, <1>10, <1>11

\* A user thread asks the coordinator.
LEMMA Calling ==
  ASSUME IInv, NEW p \in Procs, NEW u \in {"call", "fork"}, Up(p), ut[p] = "app",
         ut' = [ut EXCEPT ![p] = u],
         UNCHANGED <<life, ct, epoch, num_peers, chanVars, coordVars, diskVars, rounds>>,
         BoundType' 
  PROVE  IInv'
<1> USE DEF IInv
<1>1. Types'
  BY DEF Types, ProcType, CoordType, DiskType, BoundType
<1>2. ASSUME NEW q \in Procs PROVE Local(q)'
  <2>1. Local(q)
    OBVIOUS
  <2>2. CASE q = p
    BY <2>1, <2>2 DEF Types, ProcType, CoordType, Local, DownInv, UpInv, LifeInv,
       LinkInv, Writing
  <2>3. CASE q # p
    BY <2>1, <2>3 DEF Types, ProcType, CoordType, Local, DownInv, UpInv, LifeInv,
       LinkInv, Writing
  <2> QED
    BY <2>2, <2>3
<1>3. Coord'
  BY DEF Types, ProcType, CoordType, Coord, Counters, AtforkInv, RestartInv, PhaseInv,
     InRestart
<1>4. Counting'
  BY DEF Types, ProcType, CoordType, BoundType, Counting, RoundsInv, EpochInv, Ahead,
     Writing
<1>5. Disk'
  BY DEF Types, ProcType, CoordType, Disk, DirInv, TruthInv, Whole,
     ListedInv, ImageInv, WholeFile
<1> QED
  BY <1>1, <1>2, <1>3, <1>4, <1>5

\* A user thread goes on: its call has failed or was answered.
LEMMA Returning ==
  ASSUME IInv, NEW p \in Procs, Up(p), ut[p] \in {"call", "forking"},
         ut' = [ut EXCEPT ![p] = "app"],
         UNCHANGED <<life, ct, epoch, num_peers, chanVars, coordVars, diskVars, boundVars>>
  PROVE  IInv'
<1> USE DEF IInv
<1>1. Types'
  BY DEF Types, ProcType, CoordType, DiskType, BoundType
<1>2. ASSUME NEW q \in Procs PROVE Local(q)'
  <2>1. Local(q)
    OBVIOUS
  <2>2. CASE q = p
    BY <2>1, <2>2 DEF Types, ProcType, CoordType, Local, DownInv, UpInv, LifeInv,
       LinkInv, Writing
  <2>3. CASE q # p
    BY <2>1, <2>3 DEF Types, ProcType, CoordType, Local, DownInv, UpInv, LifeInv,
       LinkInv, Writing
  <2> QED
    BY <2>2, <2>3
<1>3. Coord'
  BY DEF Types, ProcType, CoordType, Coord, Counters, AtforkInv, RestartInv, PhaseInv,
     InRestart
<1>4. Counting'
  BY DEF Types, ProcType, CoordType, BoundType, Counting, RoundsInv, EpochInv, Ahead,
     Writing
<1>5. Disk'
  BY DEF Types, ProcType, CoordType, Disk, DirInv, TruthInv, Whole,
     ListedInv, ImageInv, WholeFile
<1> QED
  BY <1>1, <1>2, <1>3, <1>4, <1>5

\* A process is created.
LEMMA Forking ==
  ASSUME IInv, NEW p \in Procs, NEW c \in Procs, Fork(p, c)
  PROVE  IInv'
<1> USE DEF IInv
<1>1. /\ Up(p) /\ ut[p] = "forking" /\ life[c] = "absent" /\ c # p
      /\ life' = [life EXCEPT ![c] = "up"]
      /\ ct' = [ct EXCEPT ![c] = "hello"]
      /\ ut' = [ut EXCEPT ![p] = "app"]
      /\ epoch' = [epoch EXCEPT ![c] = epoch[p]]
      /\ num_peers' = [num_peers EXCEPT ![c] = num_peers[p]]
      /\ child' = IF forker = p THEN c ELSE child
      /\ UNCHANGED <<chanVars, kpc, back, proc_list, pstate, kepoch, knum, loopVars, forker,
                     diskVars, boundVars>>
  BY DEF Fork
<1>2. c \notin proc_list /\ ut[c] = "none" /\ ct[c] = "off" /\ up[c] = <<>>
  BY <1>1 DEF Local, LifeInv
<1>3. down[c] = <<>>
  BY <1>2 DEF Local, DownInv
<1>4. ~CoordGone => kpc = "atfork" /\ forker = p /\ p \in proc_list
  BY <1>1 DEF Local, LifeInv
<1>5. CoordGone => forker = NoProc /\ NoProc # p
  BY ConstantsAssumption DEF Types, CoordType
<1>6. ct[p] # "done" /\ (~CoordGone => epoch[p] = kepoch)
  BY <1>1, <1>4 DEF Local, LifeInv, Counting, EpochInv, Ahead
<1>7. Types'
  BY <1>1, <1>2, <1>3, <1>4, <1>5, <1>6 DEF Types, ProcType, CoordType, DiskType,
     BoundType, CkptThreadPoint
<1>8. ASSUME NEW q \in Procs PROVE Local(q)'
  <2>1. Local(q)
    OBVIOUS
  <2>2. CASE q = c
    BY <1>1, <1>2, <1>3, <1>4, <1>5, <1>6, <2>2 DEF Types, ProcType, CoordType, Local,
       DownInv, UpInv, LifeInv, LinkInv, Writing
  <2>3. CASE q = p
    BY <1>1, <1>2, <1>3, <1>4, <1>5, <1>6, <2>1, <2>3 DEF Types, ProcType, CoordType,
       Local, DownInv, UpInv, LifeInv, LinkInv, Writing
  <2>4. CASE q # c /\ q # p
    BY <1>1, <1>2, <1>3, <1>4, <1>5, <1>6, <2>1, <2>4 DEF Types, ProcType, CoordType,
       Local, DownInv, UpInv, LifeInv, LinkInv, Writing
  <2> QED
    BY <2>2, <2>3, <2>4
<1>9. Coord'
  BY <1>1, <1>2, <1>3, <1>4, <1>5, <1>6 DEF Types, ProcType, CoordType, Coord,
     Counters, AtforkInv, RestartInv, PhaseInv, InRestart
<1>10. Counting'
  BY <1>1, <1>2, <1>3, <1>4, <1>5, <1>6 DEF Types, ProcType, CoordType, BoundType,
     Counting, RoundsInv, EpochInv, Ahead, Writing
<1>11. Disk'
  BY <1>1, <1>2, <1>3, <1>4, <1>5, <1>6 DEF Types, ProcType, CoordType, Disk, DirInv,
     TruthInv, Whole, ListedInv, ImageInv, WholeFile
<1> QED
  BY <1>7, <1>8, <1>9, <1>10, <1>11

\* A restarted process registers.
LEMMA Connecting ==
  ASSUME IInv, NEW p \in Procs, ConnectRestart(p)
  PROVE  IInv'
<1> USE DEF IInv
<1>1. /\ kpc = "restart" /\ Up(p) /\ ct[p] = "connect"
      /\ epoch' = [epoch EXCEPT ![p] = @ + 1]
      /\ ct' = [ct EXCEPT ![p] = "rwait"]
      /\ proc_list' = proc_list \cup {p}
      /\ pstate' = [pstate EXCEPT ![p] = "PROC_RESTART_IN_PROGRESS"]
      /\ UNCHANGED <<life, ut, num_peers, chanVars, kpc, back, loopVars, forkVars, diskVars,
                     boundVars>>
  BY DEF ConnectRestart
<1>2. kepoch' = epoch[p] + 1 /\ (proc_list # {} => kepoch' = kepoch)
  BY <1>1 DEF ConnectRestart, Coord, RestartInv, InRestart
<1>3. knum' \in Peers
  BY DEF ConnectRestart, Types, ProcType, CoordType
<1>4. down[p] = <<>> /\ up[p] = <<>> /\ ut[p] = "held" /\ epoch[p] < rounds
  BY <1>1 DEF Local, DownInv, LifeInv, Counting, EpochInv
<1>5. \A q \in Procs : q # p /\ q \in proc_list => proc_list # {}
  OBVIOUS
<1>6. \A q \in proc_list : pstate[q] = "PROC_RESTART_IN_PROGRESS"
  BY <1>1 DEF Coord, RestartInv, InRestart
<1>7. \A q \in Procs : Up(q) /\ ct[q] = "connect" => epoch[q] = epoch[p]
  BY <1>1 DEF Counting, RoundsInv
<1>8. Types'
  BY <1>1, <1>2, <1>3, <1>4, <1>5, <1>6, <1>7 DEF Types, ProcType, CoordType, DiskType,
     BoundType, CkptThreadPoint, ProcState
<1>9. ASSUME NEW q \in Procs PROVE Local(q)'
  <2>1. Local(q)
    OBVIOUS
  <2>2. CASE q = p
    BY <1>1, <1>2, <1>3, <1>4, <1>5, <1>6, <1>7, <2>1, <2>2 DEF Types, ProcType,
       CoordType, Local, DownInv, UpInv, LifeInv, LinkInv, Writing
  <2>3. CASE q # p
    BY <1>1, <1>2, <1>3, <1>4, <1>5, <1>6, <1>7, <2>1, <2>3 DEF Types, ProcType,
       CoordType, Local, DownInv, UpInv, LifeInv, LinkInv, Writing
  <2> QED
    BY <2>2, <2>3
<1>10. Coord'
  <2>1. Counters'
    BY <1>1, <1>2, <1>3, <1>4, <1>5, <1>6, <1>7 DEF Coord, Counters
  <2>2. AtforkInv'
    BY <1>1, <1>2, <1>3, <1>4, <1>5, <1>6, <1>7 DEF Types, ProcType, CoordType,
       DiskType, BoundType, Coord, AtforkInv
  <2>3. RestartInv'
    BY <1>1, <1>2, <1>3, <1>4, <1>5, <1>6, <1>7 DEF Types, ProcType, CoordType,
       DiskType, BoundType, Coord, RestartInv, InRestart, Round, Dir
  <2>4. PhaseInv'
    BY <1>1, <1>2, <1>3, <1>4, <1>5, <1>6, <1>7 DEF Types, ProcType, CoordType,
       DiskType, BoundType, Coord, PhaseInv
  <2> QED
    BY <2>1, <2>2, <2>3, <2>4 DEF Coord
<1>11. Counting'
  <2>1. RoundsInv'
    BY <1>1, <1>2, <1>3, <1>4, <1>5, <1>6, <1>7 DEF Types, ProcType, CoordType,
       DiskType, BoundType, Counting, RoundsInv, Round
  <2>2. ASSUME NEW q \in Procs PROVE EpochInv(q)'
    <3>1. EpochInv(q)
      BY DEF Counting
    <3>2. CASE q = p
      BY <1>1, <1>2, <1>3, <1>4, <1>5, <1>6, <1>7, <3>1, <3>2 DEF Types, ProcType,
         CoordType, DiskType, BoundType, EpochInv, Ahead, Writing
    <3>3. CASE q # p
      BY <1>1, <1>2, <1>3, <1>4, <1>5, <1>6, <1>7, <3>1, <3>3 DEF Types, ProcType,
         CoordType, DiskType, BoundType, EpochInv, Ahead, Writing
    <3> QED
      BY <3>2, <3>3
  <2> QED
    BY <2>1, <2>2 DEF Counting
<1>12. Disk'
  <2>1. DirInv'
    BY <1>1, <1>2, <1>3, <1>4, <1>5, <1>6, <1>7 DEF Types, ProcType, CoordType,
       DiskType, BoundType, Disk, DirInv, Dir
  <2>2. TruthInv'
    BY <1>1, <1>2, <1>3, <1>4, <1>5, <1>6, <1>7 DEF Types, ProcType, CoordType,
       DiskType, BoundType, Disk, TruthInv, Whole
  <2>3. ASSUME NEW q \in Procs PROVE ListedInv(q)'
    BY <1>1, <1>2, <1>3, <1>4, <1>5, <1>6, <1>7 DEF Types, ProcType, CoordType,
       DiskType, BoundType, Disk, ListedInv
  <2>4. ASSUME NEW q \in Procs PROVE ImageInv(q)'
    <3>1. ImageInv(q)
      BY DEF Disk
    <3>2. CASE q = p
      BY <1>1, <1>2, <1>3, <1>4, <1>5, <1>6, <1>7, <3>1, <3>2 DEF Types, ProcType,
         CoordType, DiskType, BoundType, ImageInv, WholeFile, Dir
    <3>3. CASE q # p
      BY <1>1, <1>2, <1>3, <1>4, <1>5, <1>6, <1>7, <3>1, <3>3 DEF Types, ProcType,
         CoordType, DiskType, BoundType, ImageInv, WholeFile, Dir
    <3> QED
      BY <3>2, <3>3
  <2> QED
    BY <2>1, <2>2, <2>3, <2>4 DEF Disk
<1> QED
  BY <1>8, <1>9, <1>10, <1>11, <1>12

\* EOF or XND_EXIT: p leaves the list.
LEMMA Removing ==
  ASSUME IInv, NEW p \in proc_list, kpc = "serve", Readable(p),
         up[p] = <<>> \/ Head(up[p]).hdr = "EXIT",
         proc_list_remove(p),
         UNCHANGED <<procVars, down, kpc, back, pstate, kepoch, knum, loopVars, forkVars,
                     diskVars, boundVars>>
  PROVE  IInv'
<1> USE DEF IInv
<1>1. p \in Procs
  BY DEF Types, CoordType
<1>2. ~Up(p)
  BY <1>1, Headers DEF Readable, Local, UpInv
<1>3. proc_list' = proc_list \ {p} /\ up' = [up EXCEPT ![p] = <<>>]
  BY DEF proc_list_remove
<1>4. todo = {} /\ kpc # "exited"
  BY DEF Coord, PhaseInv
<1>5. Types'
  BY <1>1, <1>2, <1>3, <1>4, TrafficType DEF Types, ProcType, CoordType, DiskType,
     BoundType
<1>6. ASSUME NEW q \in Procs PROVE Local(q)'
  <2>1. Local(q)
    OBVIOUS
  <2>2. CASE q = p
    BY <1>1, <1>2, <1>3, <1>4, <2>1, <2>2 DEF Types, ProcType, CoordType, Local,
       DownInv, UpInv, LifeInv, LinkInv, Writing
  <2>3. CASE q # p
    BY <1>1, <1>2, <1>3, <1>4, <2>1, <2>3 DEF Types, ProcType, CoordType, Local,
       DownInv, UpInv, LifeInv, LinkInv, Writing
  <2> QED
    BY <2>2, <2>3
<1>7. Coord'
  <2>1. Counters'
    BY <1>1, <1>2, <1>3, <1>4 DEF Coord, Counters
  <2>2. AtforkInv'
    BY <1>1, <1>2, <1>3, <1>4 DEF Types, ProcType, CoordType, DiskType, BoundType,
       Coord, AtforkInv
  <2>3. RestartInv'
    BY <1>1, <1>2, <1>3, <1>4 DEF Types, ProcType, CoordType, DiskType, BoundType,
       Coord, RestartInv, InRestart, Round, Dir
  <2>4. PhaseInv'
    BY <1>1, <1>2, <1>3, <1>4 DEF Types, ProcType, CoordType, DiskType, BoundType,
       Coord, PhaseInv
  <2> QED
    BY <2>1, <2>2, <2>3, <2>4 DEF Coord
<1>8. Counting'
  <2>1. RoundsInv'
    BY <1>1, <1>2, <1>3, <1>4 DEF Types, ProcType, CoordType, DiskType, BoundType,
       Counting, RoundsInv, Round
  <2>2. ASSUME NEW q \in Procs PROVE EpochInv(q)'
    <3>1. EpochInv(q)
      BY DEF Counting
    <3>2. CASE q = p
      BY <1>1, <1>2, <1>3, <1>4, <3>1, <3>2 DEF Types, ProcType, CoordType, DiskType,
         BoundType, EpochInv, Ahead, Writing
    <3>3. CASE q # p
      BY <1>1, <1>2, <1>3, <1>4, <3>1, <3>3 DEF Types, ProcType, CoordType, DiskType,
         BoundType, EpochInv, Ahead, Writing
    <3> QED
      BY <3>2, <3>3
  <2> QED
    BY <2>1, <2>2 DEF Counting
<1>9. Disk'
  <2>1. DirInv'
    BY <1>1, <1>2, <1>3, <1>4 DEF Types, ProcType, CoordType, DiskType, BoundType, Disk,
       DirInv, Dir
  <2>2. TruthInv'
    BY <1>1, <1>2, <1>3, <1>4 DEF Types, ProcType, CoordType, DiskType, BoundType, Disk,
       TruthInv, Whole
  <2>3. ASSUME NEW q \in Procs PROVE ListedInv(q)'
    BY <1>1, <1>2, <1>3, <1>4 DEF Types, ProcType, CoordType, DiskType, BoundType, Disk,
       ListedInv
  <2>4. ASSUME NEW q \in Procs PROVE ImageInv(q)'
    <3>1. ImageInv(q)
      BY DEF Disk
    <3>2. CASE q = p
      BY <1>1, <1>2, <1>3, <1>4, <3>1, <3>2 DEF Types, ProcType, CoordType, DiskType,
         BoundType, ImageInv, WholeFile, Dir
    <3>3. CASE q # p
      BY <1>1, <1>2, <1>3, <1>4, <3>1, <3>3 DEF Types, ProcType, CoordType, DiskType,
         BoundType, ImageInv, WholeFile, Dir
    <3> QED
      BY <3>2, <3>3
  <2> QED
    BY <2>1, <2>2, <2>3, <2>4 DEF Disk
<1> QED
  BY <1>5, <1>6, <1>7, <1>8, <1>9

\* The answer to a fork: the coordinator waits for the child.
LEMMA Answering ==
  ASSUME IInv, NEW p \in proc_list, kpc = "serve", ut[p] = "fork", Up(p),
         kpc' = "atfork", forker' = p, ut' = [ut EXCEPT ![p] = "forking"],
         UNCHANGED <<life, ct, epoch, num_peers, chanVars, back, proc_list, pstate, kepoch,
                     knum, loopVars, child, diskVars, boundVars>>
  PROVE  IInv'
<1> USE DEF IInv
<1>1. p \in Procs /\ child = NoProc /\ todo = {}
  BY DEF Types, CoordType, Coord, PhaseInv
<1>2. Types'
  BY <1>1 DEF Types, ProcType, CoordType, DiskType, BoundType, CoordPoint
<1>3. ASSUME NEW q \in Procs PROVE Local(q)'
  <2>1. Local(q)
    OBVIOUS
  <2>2. CASE q = p
    BY <1>1, <2>1, <2>2 DEF Types, ProcType, CoordType, Local, DownInv, UpInv, LifeInv,
       LinkInv, Writing
  <2>3. CASE q # p
    BY <1>1, <2>1, <2>3 DEF Types, ProcType, CoordType, Local, DownInv, UpInv, LifeInv,
       LinkInv, Writing
  <2> QED
    BY <2>2, <2>3
<1>4. Coord'
  <2>1. Counters'
    BY <1>1 DEF Coord, Counters
  <2>2. AtforkInv'
    BY <1>1 DEF Types, ProcType, CoordType, DiskType, BoundType, Coord, AtforkInv
  <2>3. RestartInv'
    BY <1>1 DEF Types, ProcType, CoordType, DiskType, BoundType, Coord, RestartInv,
       InRestart, Round, Dir
  <2>4. PhaseInv'
    BY <1>1 DEF Types, ProcType, CoordType, DiskType, BoundType, Coord, PhaseInv
  <2> QED
    BY <2>1, <2>2, <2>3, <2>4 DEF Coord
<1>5. Counting'
  <2>1. RoundsInv'
    BY <1>1 DEF Types, ProcType, CoordType, DiskType, BoundType, Counting, RoundsInv,
       Round
  <2>2. ASSUME NEW q \in Procs PROVE EpochInv(q)'
    <3>1. EpochInv(q)
      BY DEF Counting
    <3>2. CASE q = p
      BY <1>1, <3>1, <3>2 DEF Types, ProcType, CoordType, DiskType, BoundType, EpochInv,
         Ahead, Writing
    <3>3. CASE q # p
      BY <1>1, <3>1, <3>3 DEF Types, ProcType, CoordType, DiskType, BoundType, EpochInv,
         Ahead, Writing
    <3> QED
      BY <3>2, <3>3
  <2> QED
    BY <2>1, <2>2 DEF Counting
<1>6. Disk'
  <2>1. DirInv'
    BY <1>1 DEF Types, ProcType, CoordType, DiskType, BoundType, Disk, DirInv, Dir
  <2>2. TruthInv'
    BY <1>1 DEF Types, ProcType, CoordType, DiskType, BoundType, Disk, TruthInv,
       Whole
  <2>3. ASSUME NEW q \in Procs PROVE ListedInv(q)'
    BY <1>1 DEF Types, ProcType, CoordType, DiskType, BoundType, Disk, ListedInv
  <2>4. ASSUME NEW q \in Procs PROVE ImageInv(q)'
    <3>1. ImageInv(q)
      BY DEF Disk
    <3>2. CASE q = p
      BY <1>1, <3>1, <3>2 DEF Types, ProcType, CoordType, DiskType, BoundType, ImageInv,
         WholeFile, Dir
    <3>3. CASE q # p
      BY <1>1, <3>1, <3>3 DEF Types, ProcType, CoordType, DiskType, BoundType, ImageInv,
         WholeFile, Dir
    <3> QED
      BY <3>2, <3>3
  <2> QED
    BY <2>1, <2>2, <2>3, <2>4 DEF Disk
<1> QED
  BY <1>2, <1>3, <1>4, <1>5, <1>6

\* A forked process is registered.
LEMMA Greeting ==
  ASSUME IInv, NEW c \in Procs, AtforkChild(c), ~CoordDies
  PROVE  IInv'
<1> USE DEF IInv
<1>1. /\ kpc = "atfork" /\ child = c
      /\ kpc' = "serve"
      /\ proc_list' = proc_list \cup {c}
      /\ pstate' = [pstate EXCEPT ![c] = "PROC_RUNNING"]
      /\ forker' = NoProc /\ child' = NoProc
      /\ ct' = [ct EXCEPT ![c] = "listen"]
      /\ ut' = [ut EXCEPT ![c] = "app"]
      /\ UNCHANGED <<back, kepoch, knum, loopVars>>
      /\ UNCHANGED <<life, epoch, num_peers, chanVars, diskVars, boundVars>>
      /\ Up(c)
  BY DEF AtforkChild
<1>2. c \notin proc_list /\ ct[c] = "hello" /\ epoch[c] = kepoch /\ todo = {} /\ ut[forker] # "forking"
  BY <1>1, ConstantsAssumption DEF Coord, AtforkInv, PhaseInv
<1>3. down[c] = <<>> /\ up[c] = <<>>
  BY <1>1, <1>2 DEF Local, DownInv, LifeInv
<1>4. Types'
  BY <1>1, <1>2, <1>3 DEF Types, ProcType, CoordType, DiskType, BoundType,
     CkptThreadPoint, CoordPoint, ProcState
<1>5. ASSUME NEW q \in Procs PROVE Local(q)'
  <2>1. Local(q)
    OBVIOUS
  <2>2. CASE q = c
    BY <1>1, <1>2, <1>3, <2>1, <2>2 DEF Types, ProcType, CoordType, Local, DownInv,
       UpInv, LifeInv, LinkInv, Writing
  <2>3. CASE q # c
    BY <1>1, <1>2, <1>3, <2>1, <2>3 DEF Types, ProcType, CoordType, Local, DownInv,
       UpInv, LifeInv, LinkInv, Writing
  <2> QED
    BY <2>2, <2>3
<1>6. Coord'
  <2>1. Counters'
    BY <1>1, <1>2, <1>3 DEF Coord, Counters
  <2>2. AtforkInv'
    BY <1>1, <1>2, <1>3 DEF Types, ProcType, CoordType, DiskType, BoundType, Coord,
       AtforkInv
  <2>3. RestartInv'
    BY <1>1, <1>2, <1>3 DEF Types, ProcType, CoordType, DiskType, BoundType, Coord,
       RestartInv, InRestart, Round, Dir
  <2>4. PhaseInv'
    BY <1>1, <1>2, <1>3 DEF Types, ProcType, CoordType, DiskType, BoundType, Coord, PhaseInv
  <2> QED
    BY <2>1, <2>2, <2>3, <2>4 DEF Coord
<1>7. Counting'
  <2>1. RoundsInv'
    BY <1>1, <1>2, <1>3 DEF Types, ProcType, CoordType, DiskType, BoundType, Counting,
       RoundsInv, Round
  <2>2. ASSUME NEW q \in Procs PROVE EpochInv(q)'
    <3>1. EpochInv(q)
      BY DEF Counting
    <3>2. CASE q = c
      BY <1>1, <1>2, <1>3, <3>1, <3>2 DEF Types, ProcType, CoordType, DiskType,
         BoundType, EpochInv, Ahead, Writing
    <3>3. CASE q # c
      BY <1>1, <1>2, <1>3, <3>1, <3>3 DEF Types, ProcType, CoordType, DiskType,
         BoundType, EpochInv, Ahead, Writing
    <3> QED
      BY <3>2, <3>3
  <2> QED
    BY <2>1, <2>2 DEF Counting
<1>8. Disk'
  <2>1. DirInv'
    BY <1>1, <1>2, <1>3 DEF Types, ProcType, CoordType, DiskType, BoundType, Disk,
       DirInv, Dir
  <2>2. TruthInv'
    BY <1>1, <1>2, <1>3 DEF Types, ProcType, CoordType, DiskType, BoundType, Disk, TruthInv,
       Whole
  <2>3. ASSUME NEW q \in Procs PROVE ListedInv(q)'
    BY <1>1, <1>2, <1>3 DEF Types, ProcType, CoordType, DiskType, BoundType, Disk, ListedInv
  <2>4. ASSUME NEW q \in Procs PROVE ImageInv(q)'
    <3>1. ImageInv(q)
      BY DEF Disk
    <3>2. CASE q = c
      BY <1>1, <1>2, <1>3, <3>1, <3>2 DEF Types, ProcType, CoordType, DiskType,
         BoundType, ImageInv, WholeFile, Dir
    <3>3. CASE q # c
      BY <1>1, <1>2, <1>3, <3>1, <3>3 DEF Types, ProcType, CoordType, DiskType,
         BoundType, ImageInv, WholeFile, Dir
    <3> QED
      BY <3>2, <3>3
  <2> QED
    BY <2>1, <2>2, <2>3, <2>4 DEF Disk
<1> QED
  BY <1>4, <1>5, <1>6, <1>7, <1>8

\* A checkpoint is asked for.
LEMMA Commanding ==
  ASSUME IInv, Command
  PROVE  IInv'
<1> USE DEF IInv
<1>1. /\ kpc \in {"serve", "restart"}
      /\ rounds' = rounds + 1 /\ rounds' \in 0 .. MaxRounds
      /\ back' = kpc /\ kpc' = "prepare"
      /\ UNCHANGED <<procVars, chanVars, proc_list, pstate, kepoch, knum, loopVars, forkVars,
                     diskVars, calls, faults, restarts>>
  BY ConstantsAssumption DEF Command, Types, BoundType
<1>2. Types'
  BY <1>1 DEF Types, ProcType, CoordType, DiskType, BoundType, CoordPoint
<1>3. ASSUME NEW q \in Procs PROVE Local(q)'
  <2>1. Local(q)
    OBVIOUS
  <2> QED
    BY <1>1, <2>1 DEF Types, ProcType, CoordType, Local, DownInv, UpInv, LifeInv,
       LinkInv, Writing
<1>4. Coord'
  <2>1. Counters'
    BY <1>1 DEF Coord, Counters
  <2>2. AtforkInv'
    BY <1>1 DEF Types, ProcType, CoordType, DiskType, BoundType, Coord, AtforkInv, Epochs
  <2>3. RestartInv'
    BY <1>1 DEF Types, ProcType, CoordType, DiskType, BoundType, Coord, RestartInv,
       InRestart, Round, Dir, Epochs
  <2>4. PhaseInv'
    BY <1>1 DEF Types, ProcType, CoordType, DiskType, BoundType, Coord, PhaseInv, Epochs
  <2> QED
    BY <2>1, <2>2, <2>3, <2>4 DEF Coord
<1>5. Counting'
  <2>1. RoundsInv'
    BY <1>1, ConstantsAssumption DEF Types, ProcType, CoordType, DiskType, BoundType,
       Counting, RoundsInv, Round, Epochs
  <2>2. ASSUME NEW q \in Procs PROVE EpochInv(q)'
    BY <1>1, ConstantsAssumption DEF Types, ProcType, CoordType, DiskType, BoundType,
       Counting, EpochInv, Ahead, Writing, Epochs
  <2> QED
    BY <2>1, <2>2 DEF Counting
<1>6. Disk'
  <2>1. DirInv'
    BY <1>1 DEF Types, ProcType, CoordType, DiskType, BoundType, Disk, DirInv, Dir,
       Epochs
  <2>2. TruthInv'
    BY <1>1 DEF Types, ProcType, CoordType, DiskType, BoundType, Disk, TruthInv,
       Whole, Epochs
  <2>3. ASSUME NEW q \in Procs PROVE ListedInv(q)'
    BY <1>1 DEF Types, ProcType, CoordType, DiskType, BoundType, Disk, ListedInv, Epochs
  <2>4. ASSUME NEW q \in Procs PROVE ImageInv(q)'
    BY <1>1 DEF Types, ProcType, CoordType, DiskType, BoundType, Disk, ImageInv,
       WholeFile, Dir, Epochs
  <2> QED
    BY <2>1, <2>2, <2>3, <2>4 DEF Disk
<1> QED
  BY <1>2, <1>3, <1>4, <1>5, <1>6

\* One process less, or a part of a set of processes: what Cardinality says.
LEMMA Visiting ==
  ASSUME NEW S \in SUBSET Procs
  PROVE  /\ \A p \in S : Cardinality(S \ {p}) = Cardinality(S) - 1
         /\ \A T \in SUBSET S : /\ Cardinality(T) <= Cardinality(S)
                                /\ Cardinality(T) = Cardinality(S) => T = S
BY PeersFinite, FS_RemoveElement, FS_Subset, FS_CardinalityType

\* The sizes of the sets the coordinator counts.
LEMMA Sizes ==
  ASSUME IInv
  PROVE  /\ Cardinality(Procs) \in Nat /\ Cardinality({}) = 0
         /\ Cardinality(proc_list) \in Nat /\ Cardinality(proc_list) <= Cardinality(Procs)
         /\ Cardinality(todo) \in Nat /\ Cardinality(todo) <= Cardinality(proc_list)
         /\ \A p \in todo : Cardinality(todo \ {p}) = Cardinality(todo) - 1
         /\ \A S \in SUBSET proc_list : /\ Cardinality(S) \in Nat
                                        /\ Cardinality(S) <= Cardinality(proc_list)
                                        /\ Cardinality(S) = Cardinality(proc_list) => S = proc_list
<1>1. proc_list \in SUBSET Procs /\ todo \in SUBSET Procs /\ todo \in SUBSET proc_list /\ Procs \in SUBSET Procs
  BY DEF IInv, Types, CoordType
<1>2. \A S \in SUBSET proc_list : S \in SUBSET Procs
  BY <1>1
<1>3. /\ \A p \in todo : Cardinality(todo \ {p}) = Cardinality(todo) - 1
      /\ Cardinality(todo) <= Cardinality(proc_list) /\ Cardinality(proc_list) <= Cardinality(Procs)
  BY <1>1, Visiting
<1>4. \A S \in SUBSET proc_list : /\ Cardinality(S) <= Cardinality(proc_list)
                                  /\ Cardinality(S) = Cardinality(proc_list) => S = proc_list
  BY <1>1, Visiting
<1>5. Cardinality({}) = 0 /\ \A S \in SUBSET Procs : Cardinality(S) \in Nat
  BY PeersFinite, FS_EmptySet DEF Peers
<1> QED
  BY <1>1, <1>2, <1>3, <1>4, <1>5, PeersFinite

\* The processes that are gone leave the list.
LEMMA Filtering ==
  ASSUME IInv, kpc \in {"serve", "reduce"}, proc_list' = Survivors,
         UNCHANGED <<procVars, chanVars, kpc, back, pstate, kepoch, knum, loopVars, forkVars,
                     diskVars, boundVars>>
  PROVE  IInv'
<1> USE DEF IInv
<1>1. /\ proc_list' \subseteq proc_list
      /\ \A q \in proc_list : Up(q) => q \in proc_list' 
  BY DEF Survivors
<1>2. todo = {}
  BY DEF Coord, PhaseInv
<1>3. /\ Cardinality(proc_list') <= Cardinality(proc_list)
      /\ Cardinality(proc_list') = Cardinality(proc_list) => proc_list' = proc_list
  BY <1>1, Visiting DEF Types, CoordType
<1>4. /\ Cardinality(proc_list) \in Nat /\ Cardinality(proc_list') \in Nat /\ knum \in Nat
  BY <1>1, PeersFinite DEF Types, CoordType, Peers
<1>5. Types'
  BY <1>1, <1>2, <1>3, <1>4 DEF Types, ProcType, CoordType, DiskType, BoundType
<1>6. ASSUME NEW q \in Procs PROVE Local(q)'
  <2>1. Local(q)
    OBVIOUS
  <2> QED
    BY <1>1, <1>2, <1>3, <1>4, <2>1 DEF Types, ProcType, CoordType, Local, DownInv,
       UpInv, LifeInv, LinkInv, Writing
<1>7. Coord'
  <2>1. Counters'
    BY <1>1, <1>2, <1>3, <1>4 DEF Coord, Counters
  <2>2. AtforkInv'
    BY <1>1, <1>2, <1>3, <1>4 DEF Types, ProcType, CoordType, DiskType, BoundType,
       Coord, AtforkInv
  <2>3. RestartInv'
    BY <1>1, <1>2, <1>3, <1>4 DEF Types, ProcType, CoordType, DiskType, BoundType,
       Coord, RestartInv, InRestart, Round, Dir
  <2>4. PhaseInv'
    BY <1>1, <1>2, <1>3, <1>4 DEF Types, ProcType, CoordType, DiskType, BoundType,
       Coord, PhaseInv
  <2> QED
    BY <2>1, <2>2, <2>3, <2>4 DEF Coord
<1>8. Counting'
  <2>1. RoundsInv'
    BY <1>1, <1>2, <1>3, <1>4 DEF Types, ProcType, CoordType, DiskType, BoundType,
       Counting, RoundsInv, Round
  <2>2. ASSUME NEW q \in Procs PROVE EpochInv(q)'
    BY <1>1, <1>2, <1>3, <1>4 DEF Types, ProcType, CoordType, DiskType, BoundType,
       Counting, EpochInv, Ahead, Writing
  <2> QED
    BY <2>1, <2>2 DEF Counting
<1>9. Disk'
  <2>1. DirInv'
    BY <1>1, <1>2, <1>3, <1>4 DEF Types, ProcType, CoordType, DiskType, BoundType, Disk,
       DirInv, Dir
  <2>2. TruthInv'
    BY <1>1, <1>2, <1>3, <1>4 DEF Types, ProcType, CoordType, DiskType, BoundType, Disk,
       TruthInv, Whole
  <2>3. ASSUME NEW q \in Procs PROVE ListedInv(q)'
    BY <1>1, <1>2, <1>3, <1>4 DEF Types, ProcType, CoordType, DiskType, BoundType, Disk,
       ListedInv
  <2>4. ASSUME NEW q \in Procs PROVE ImageInv(q)'
    BY <1>1, <1>2, <1>3, <1>4 DEF Types, ProcType, CoordType, DiskType, BoundType, Disk,
       ImageInv, WholeFile, Dir
  <2> QED
    BY <2>1, <2>2, <2>3, <2>4 DEF Disk
<1> QED
  BY <1>5, <1>6, <1>7, <1>8, <1>9

\* coord_collective_prepare.
LEMMA Preparing ==
  ASSUME IInv, coord_collective_prepare
  PROVE  IInv'
<1> USE DEF IInv
<1>1. /\ kpc = "prepare" /\ proc_list' = Survivors
      /\ UNCHANGED <<procVars, chanVars, back, pstate, kepoch, knum, forkVars, diskVars, boundVars>>
  BY DEF coord_collective_prepare
<1>2. /\ proc_list' \subseteq proc_list
      /\ \A q \in proc_list : Up(q) => q \in proc_list' 
  BY <1>1 DEF Survivors
<1>3. todo = {}
  BY <1>1 DEF Coord, PhaseInv
<1>4. \/ kpc' = back /\ todo' = {} /\ ready' = ready /\ total' = total
      \/ kpc' = "suspend" /\ todo' = proc_list' /\ ready' = 0 /\ total' = 0
  BY <1>1, <1>3 DEF coord_collective_prepare, StartLoop
<1>5. /\ Cardinality(proc_list') \in Nat /\ Cardinality(proc_list') <= Cardinality(Procs) /\ Cardinality(Procs) \in Nat
      /\ Cardinality({}) = 0 /\ Cardinality(todo) = 0
  BY <1>2, <1>3, Sizes
<1>6. back \in {"serve", "restart"}
  BY DEF Types, CoordType
<1>7. /\ ready' \in Nat /\ ready' + Cardinality(todo') <= Cardinality(Procs)
      /\ total' \in Nat /\ total' + Cardinality(todo') <= Cardinality(Procs)
  <2>1. CASE todo' = {} /\ ready' = ready /\ total' = total
    BY <1>5, <2>1 DEF Coord, Counters
  <2>2. CASE todo' = proc_list' /\ ready' = 0 /\ total' = 0
    <3>1. Cardinality(todo') = Cardinality(proc_list')
      BY <2>2
    <3> QED
      BY <1>5, <2>2, <3>1
  <2> QED
    BY <1>4, <2>1, <2>2
<1>8. Types'
  BY <1>1, <1>2, <1>3, <1>4, <1>5, <1>6, <1>7 DEF Types, ProcType, CoordType, DiskType,
     BoundType, CoordPoint
<1>9. ASSUME NEW q \in Procs PROVE Local(q)'
  <2>1. Local(q)
    OBVIOUS
  <2> QED
    BY <1>1, <1>2, <1>3, <1>4, <1>5, <1>6, <1>7, <2>1 DEF Types, ProcType, CoordType,
       Local, DownInv, UpInv, LifeInv, LinkInv, Writing
<1>10. Coord'
  <2>1. Counters'
    BY <1>1, <1>2, <1>3, <1>4, <1>5, <1>6, <1>7 DEF Coord, Counters
  <2>2. AtforkInv'
    BY <1>1, <1>2, <1>3, <1>4, <1>5, <1>6, <1>7 DEF Types, ProcType, CoordType,
       DiskType, BoundType, Coord, AtforkInv
  <2>3. RestartInv'
    BY <1>1, <1>2, <1>3, <1>4, <1>5, <1>6, <1>7 DEF Types, ProcType, CoordType,
       DiskType, BoundType, Coord, RestartInv, InRestart, Round, Dir
  <2>4. PhaseInv'
    BY <1>1, <1>2, <1>3, <1>4, <1>5, <1>6, <1>7 DEF Types, ProcType, CoordType,
       DiskType, BoundType, Coord, PhaseInv
  <2> QED
    BY <2>1, <2>2, <2>3, <2>4 DEF Coord
<1>11. Counting'
  <2>1. RoundsInv'
    BY <1>1, <1>2, <1>3, <1>4, <1>5, <1>6, <1>7 DEF Types, ProcType, CoordType,
       DiskType, BoundType, Counting, RoundsInv, Round
  <2>2. ASSUME NEW q \in Procs PROVE EpochInv(q)'
    BY <1>1, <1>2, <1>3, <1>4, <1>5, <1>6, <1>7 DEF Types, ProcType, CoordType,
       DiskType, BoundType, Counting, EpochInv, Ahead, Writing
  <2> QED
    BY <2>1, <2>2 DEF Counting
<1>12. Disk'
  <2>1. DirInv'
    BY <1>1, <1>2, <1>3, <1>4, <1>5, <1>6, <1>7 DEF Types, ProcType, CoordType,
       DiskType, BoundType, Disk, DirInv, Dir
  <2>2. TruthInv'
    BY <1>1, <1>2, <1>3, <1>4, <1>5, <1>6, <1>7 DEF Types, ProcType, CoordType,
       DiskType, BoundType, Disk, TruthInv, Whole
  <2>3. ASSUME NEW q \in Procs PROVE ListedInv(q)'
    BY <1>1, <1>2, <1>3, <1>4, <1>5, <1>6, <1>7 DEF Types, ProcType, CoordType,
       DiskType, BoundType, Disk, ListedInv
  <2>4. ASSUME NEW q \in Procs PROVE ImageInv(q)'
    BY <1>1, <1>2, <1>3, <1>4, <1>5, <1>6, <1>7 DEF Types, ProcType, CoordType,
       DiskType, BoundType, Disk, ImageInv, WholeFile, Dir
  <2> QED
    BY <2>1, <2>2, <2>3, <2>4 DEF Disk
<1> QED
  BY <1>8, <1>9, <1>10, <1>11, <1>12

\* XND_CKPT_REQUEST is sent.
LEMMA Asking ==
  ASSUME IInv, NEW p \in todo, SuspendAsk(p), Up(p)
  PROVE  IInv'
<1> USE DEF IInv
<1>1. p \in Procs /\ p \in proc_list
  BY DEF Types, CoordType
<1>2. kpc = "suspend" /\ pstate[p] = "PROC_RUNNING"
  BY DEF SuspendAsk
<1>3. /\ up[p] = <<>>
      /\ \/ ct[p] = "listen" /\ down[p] = <<>>
         \/ ct[p] = "done" /\ down[p] = <<Resume>>
         \/ ct[p] = "rwait" /\ down[p] = <<Go>>
  BY <1>1, <1>2 DEF Local, LinkInv
<1>4. down' = [down EXCEPT ![p] = Append(down[p], Request)]
  BY DEF SuspendAsk, Request
<1>5. PICK s \in {<<Request>>, <<Resume, Request>>, <<Go, Request>>} :
        /\ down' = [down EXCEPT ![p] = s]
        /\ ct[p] = "listen" <=> s = <<Request>>
        /\ ct[p] = "done" <=> s = <<Resume, Request>>
        /\ ct[p] = "rwait" <=> s = <<Go, Request>>
        /\ ct[p] = "listen" \/ (ct[p] = "done" /\ down[p] # <<>>) \/ ct[p] = "rwait"
  <2>1. <<Resume, Request>> # <<Go, Request>> /\ <<Request>> # <<Resume, Request>> /\ <<Request>> # <<Go, Request>>
    BY Headers
  <2>2. CASE ct[p] = "listen" /\ down[p] = <<>>
    <3>1. down' = [down EXCEPT ![p] = <<Request>>]
      BY <2>2, <1>4, Traffic
    <3> QED
      BY <3>1, <2>2, <2>1
  <2>3. CASE ct[p] = "done" /\ down[p] = <<Resume>>
    <3>1. down' = [down EXCEPT ![p] = <<Resume, Request>>]
      BY <2>3, <1>4, Traffic
    <3> QED
      BY <3>1, <2>3, <2>1
  <2>4. CASE ct[p] = "rwait" /\ down[p] = <<Go>>
    <3>1. down' = [down EXCEPT ![p] = <<Go, Request>>]
      BY <2>4, <1>4, Traffic
    <3> QED
      BY <3>1, <2>4, <2>1
  <2> QED
    BY <1>3, <2>2, <2>3, <2>4
<1>6. s \in Seq(Message)
  BY <1>5, TrafficType
<1>7. /\ pstate' = [pstate EXCEPT ![p] = "PROC_RECV_CKPT_REQUEST"]
      /\ todo' = todo \ {p} /\ proc_list' = proc_list /\ total' = total + 1 /\ ready' = ready
      /\ UNCHANGED <<kpc, back, kepoch, knum, forkVars>>
      /\ UNCHANGED <<procVars, up, diskVars, boundVars>>
  BY DEF SuspendAsk, CountOrRemove
<1>8. /\ Cardinality(todo \ {p}) = Cardinality(todo) - 1 /\ Cardinality(todo) \in Nat
      /\ Cardinality(Procs) \in Nat /\ total \in Nat /\ ready \in Nat
  BY Sizes DEF Coord, Counters
<1>9. back # "restart"
  BY <1>1, <1>2 DEF Coord, RestartInv, InRestart, Round
<1>10. Types'
  BY <1>1, <1>2, <1>3, <1>5, <1>6, <1>7, <1>8, <1>9 DEF Types, ProcType, CoordType,
     DiskType, BoundType, ProcState
<1>11. ASSUME NEW q \in Procs PROVE Local(q)'
  <2>1. Local(q)
    OBVIOUS
  <2>2. CASE q = p
    BY <1>1, <1>2, <1>3, <1>5, <1>6, <1>7, <1>8, <1>9, <2>1, <2>2 DEF Types, ProcType,
       CoordType, Local, DownInv, UpInv, LifeInv, LinkInv, Writing
  <2>3. CASE q # p
    BY <1>1, <1>2, <1>3, <1>5, <1>6, <1>7, <1>8, <1>9, <2>1, <2>3 DEF Types, ProcType,
       CoordType, Local, DownInv, UpInv, LifeInv, LinkInv, Writing
  <2> QED
    BY <2>2, <2>3
<1>12. Coord'
  <2>1. Counters'
    BY <1>1, <1>2, <1>3, <1>5, <1>6, <1>7, <1>8, <1>9 DEF Coord, Counters
  <2>2. AtforkInv'
    BY <1>1, <1>2, <1>3, <1>5, <1>6, <1>7, <1>8, <1>9 DEF Types, ProcType, CoordType,
       DiskType, BoundType, Coord, AtforkInv
  <2>3. RestartInv'
    BY <1>1, <1>2, <1>3, <1>5, <1>6, <1>7, <1>8, <1>9 DEF Types, ProcType, CoordType,
       DiskType, BoundType, Coord, RestartInv, InRestart, Round, Dir
  <2>4. PhaseInv'
    BY <1>1, <1>2, <1>3, <1>5, <1>6, <1>7, <1>8, <1>9 DEF Types, ProcType, CoordType,
       DiskType, BoundType, Coord, PhaseInv
  <2> QED
    BY <2>1, <2>2, <2>3, <2>4 DEF Coord
<1>13. Counting'
  <2>1. RoundsInv'
    BY <1>1, <1>2, <1>3, <1>5, <1>6, <1>7, <1>8, <1>9 DEF Types, ProcType, CoordType,
       DiskType, BoundType, Counting, RoundsInv, Round
  <2>2. ASSUME NEW q \in Procs PROVE EpochInv(q)'
    <3>1. EpochInv(q)
      BY DEF Counting
    <3>2. CASE q = p
      BY <1>1, <1>2, <1>3, <1>5, <1>6, <1>7, <1>8, <1>9, <3>1, <3>2 DEF Types, ProcType,
         CoordType, DiskType, BoundType, EpochInv, Ahead, Writing
    <3>3. CASE q # p
      BY <1>1, <1>2, <1>3, <1>5, <1>6, <1>7, <1>8, <1>9, <3>1, <3>3 DEF Types, ProcType,
         CoordType, DiskType, BoundType, EpochInv, Ahead, Writing
    <3> QED
      BY <3>2, <3>3
  <2> QED
    BY <2>1, <2>2 DEF Counting
<1>14. Disk'
  <2>1. DirInv'
    BY <1>1, <1>2, <1>3, <1>5, <1>6, <1>7, <1>8, <1>9 DEF Types, ProcType, CoordType,
       DiskType, BoundType, Disk, DirInv, Dir
  <2>2. TruthInv'
    BY <1>1, <1>2, <1>3, <1>5, <1>6, <1>7, <1>8, <1>9 DEF Types, ProcType, CoordType,
       DiskType, BoundType, Disk, TruthInv, Whole
  <2>3. ASSUME NEW q \in Procs PROVE ListedInv(q)'
    BY <1>1, <1>2, <1>3, <1>5, <1>6, <1>7, <1>8, <1>9 DEF Types, ProcType, CoordType,
       DiskType, BoundType, Disk, ListedInv
  <2>4. ASSUME NEW q \in Procs PROVE ImageInv(q)'
    <3>1. ImageInv(q)
      BY DEF Disk
    <3>2. CASE q = p
      BY <1>1, <1>2, <1>3, <1>5, <1>6, <1>7, <1>8, <1>9, <3>1, <3>2 DEF Types, ProcType,
         CoordType, DiskType, BoundType, ImageInv, WholeFile, Dir
    <3>3. CASE q # p
      BY <1>1, <1>2, <1>3, <1>5, <1>6, <1>7, <1>8, <1>9, <3>1, <3>3 DEF Types, ProcType,
         CoordType, DiskType, BoundType, ImageInv, WholeFile, Dir
    <3> QED
      BY <3>2, <3>3
  <2> QED
    BY <2>1, <2>2, <2>3, <2>4 DEF Disk
<1> QED
  BY <1>10, <1>11, <1>12, <1>13, <1>14

\* The answer to the request is read.
LEMMA Hearing ==
  ASSUME IInv, NEW p \in todo, SuspendAnswer(p)
  PROVE  IInv'
<1> USE DEF IInv
<1>1. p \in Procs /\ p \in proc_list
  BY DEF Types, CoordType
<1>2. kpc = "suspend" /\ pstate[p] = "PROC_RECV_CKPT_REQUEST" /\ Readable(p)
  BY DEF SuspendAnswer
<1>3. Up(p) => up[p] = <<Ready>> /\ ct[p] = "ready" /\ down[p] = <<>> 
  BY <1>1, <1>2 DEF Readable, Local, LinkInv
<1>4. PICK s \in {<<>>, <<Bye>>, <<Bye, Bye>>} :
        up' = [up EXCEPT ![p] = s] /\ (Up(p) => s = <<>>)
  <2>1. up' = [up EXCEPT ![p] = IF up[p] = <<>> THEN up[p] ELSE Tail(up[p])]
    BY DEF SuspendAnswer
  <2>2. up[p] \in {<<>>, <<Ready>>, <<Done>>, <<Bye>>, <<Bye, Bye>>, <<Ready, Bye, Bye>>,
                   <<Done, Bye, Bye>>}
    BY <1>1 DEF Local, UpInv
  <2>3. /\ Tail(<<Ready>>) = <<>> /\ Tail(<<Done>>) = <<>> /\ Tail(<<Bye>>) = <<>>
        /\ Tail(<<Bye, Bye>>) = <<Bye>> /\ Tail(<<Ready, Bye, Bye>>) = <<Bye, Bye>>
        /\ Tail(<<Done, Bye, Bye>>) = <<Bye, Bye>>
    OBVIOUS
  <2> QED
    BY <1>3, <2>1, <2>2, <2>3
<1>5. s \in Seq(Message)
  BY <1>4, TrafficType
<1>6. Head(<<Ready>>) = Ready /\ <<Ready>> # <<>>
  OBVIOUS
<1>7. \/ pstate' = [pstate EXCEPT ![p] = "PROC_READY_FOR_CKPT"] /\ ready' = ready + 1
      \/ pstate' = pstate /\ ready' = ready /\ ~Up(p)
  BY <1>3, <1>6, Headers DEF SuspendAnswer
<1>8. /\ todo' = todo \ {p}
      /\ \/ proc_list' = proc_list \ {p} /\ total' = total /\ Gone(p)
         \/ proc_list' = proc_list /\ total' = total + 1
      /\ UNCHANGED <<kpc, back, kepoch, knum, forkVars>>
  BY DEF SuspendAnswer, CountOrRemove
<1>9. /\ pstate' \in [Procs -> ProcState] /\ todo' \subseteq proc_list' /\ proc_list' \subseteq proc_list
  BY <1>7, <1>8 DEF Types, CoordType, ProcState
<1>10. UNCHANGED <<procVars, down, diskVars, boundVars>>
  BY DEF SuspendAnswer
<1>11. /\ Cardinality(todo \ {p}) = Cardinality(todo) - 1 /\ Cardinality(todo) \in Nat
       /\ Cardinality(Procs) \in Nat /\ total \in Nat /\ ready \in Nat
  BY Sizes DEF Coord, Counters
<1>12. back # "restart"
  BY <1>1, <1>2 DEF Coord, RestartInv, InRestart, Round
<1>13. Types'
  BY <1>1, <1>2, <1>3, <1>4, <1>5, <1>7, <1>8, <1>9, <1>10, <1>11, <1>12 DEF Types,
     ProcType, CoordType, DiskType, BoundType, ProcState
<1>14. ASSUME NEW q \in Procs PROVE Local(q)'
  <2>1. Local(q)
    OBVIOUS
  <2>2. CASE q = p
    BY <1>1, <1>2, <1>3, <1>4, <1>5, <1>7, <1>8, <1>9, <1>10, <1>11, <1>12, <2>1, <2>2
       DEF Types, ProcType, CoordType, Local, DownInv, UpInv, LifeInv, LinkInv, Writing
  <2>3. CASE q # p
    <3>1. /\ life'[q] = life[q] /\ ct'[q] = ct[q] /\ ut'[q] = ut[q] /\ epoch'[q] = epoch[q]
          /\ num_peers'[q] = num_peers[q] /\ up'[q] = up[q] /\ down'[q] = down[q]
          /\ pstate'[q] = pstate[q] /\ (q \in proc_list' <=> q \in proc_list)
      BY <1>1, <1>2, <1>3, <1>4, <1>5, <1>7, <1>8, <1>9, <1>10, <1>11, <1>12, <2>3 DEF
         Types, ProcType, CoordType
    <3> QED
      BY <1>8, <2>1, <3>1 DEF Local, DownInv, UpInv, LifeInv, LinkInv
  <2> QED
    BY <2>2, <2>3
<1>15. Coord'
  <2>1. Counters'
    BY <1>1, <1>2, <1>3, <1>4, <1>5, <1>7, <1>8, <1>9, <1>10, <1>11, <1>12 DEF Coord,
       Counters
  <2>2. AtforkInv'
    BY <1>1, <1>2, <1>3, <1>4, <1>5, <1>7, <1>8, <1>9, <1>10, <1>11, <1>12 DEF Types,
       ProcType, CoordType, DiskType, BoundType, Coord, AtforkInv
  <2>3. RestartInv'
    BY <1>1, <1>2, <1>3, <1>4, <1>5, <1>7, <1>8, <1>9, <1>10, <1>11, <1>12 DEF Types,
       ProcType, CoordType, DiskType, BoundType, Coord, RestartInv, InRestart, Round,
       Dir
  <2>4. PhaseInv'
    BY <1>1, <1>2, <1>3, <1>4, <1>5, <1>7, <1>8, <1>9, <1>10, <1>11, <1>12 DEF Types,
       ProcType, CoordType, DiskType, BoundType, Coord, PhaseInv
  <2> QED
    BY <2>1, <2>2, <2>3, <2>4 DEF Coord
<1>16. Counting'
  <2>1. RoundsInv'
    BY <1>1, <1>2, <1>3, <1>4, <1>5, <1>7, <1>8, <1>9, <1>10, <1>11, <1>12 DEF Types,
       ProcType, CoordType, DiskType, BoundType, Counting, RoundsInv, Round
  <2>2. ASSUME NEW q \in Procs PROVE EpochInv(q)'
    <3>1. EpochInv(q)
      BY DEF Counting
    <3>2. CASE q = p
      BY <1>1, <1>2, <1>3, <1>4, <1>5, <1>7, <1>8, <1>9, <1>10, <1>11, <1>12, <3>1, <3>2
         DEF Types, ProcType, CoordType, DiskType, BoundType, EpochInv, Ahead, Writing
    <3>3. CASE q # p
      BY <1>1, <1>2, <1>3, <1>4, <1>5, <1>7, <1>8, <1>9, <1>10, <1>11, <1>12, <3>1, <3>3
         DEF Types, ProcType, CoordType, DiskType, BoundType, EpochInv, Ahead, Writing
    <3> QED
      BY <3>2, <3>3
  <2> QED
    BY <2>1, <2>2 DEF Counting
<1>17. Disk'
  <2>1. DirInv'
    BY <1>1, <1>2, <1>3, <1>4, <1>5, <1>7, <1>8, <1>9, <1>10, <1>11, <1>12 DEF Types,
       ProcType, CoordType, DiskType, BoundType, Disk, DirInv, Dir
  <2>2. TruthInv'
    BY <1>1, <1>2, <1>3, <1>4, <1>5, <1>7, <1>8, <1>9, <1>10, <1>11, <1>12 DEF Types,
       ProcType, CoordType, DiskType, BoundType, Disk, TruthInv, Whole
  <2>3. ASSUME NEW q \in Procs PROVE ListedInv(q)'
    BY <1>1, <1>2, <1>3, <1>4, <1>5, <1>7, <1>8, <1>9, <1>10, <1>11, <1>12 DEF Types,
       ProcType, CoordType, DiskType, BoundType, Disk, ListedInv
  <2>4. ASSUME NEW q \in Procs PROVE ImageInv(q)'
    <3>1. ImageInv(q)
      BY DEF Disk
    <3>2. CASE q = p
      BY <1>1, <1>2, <1>3, <1>4, <1>5, <1>7, <1>8, <1>9, <1>10, <1>11, <1>12, <3>1, <3>2
         DEF Types, ProcType, CoordType, DiskType, BoundType, ImageInv, WholeFile, Dir
    <3>3. CASE q # p
      BY <1>1, <1>2, <1>3, <1>4, <1>5, <1>7, <1>8, <1>9, <1>10, <1>11, <1>12, <3>1, <3>3
         DEF Types, ProcType, CoordType, DiskType, BoundType, ImageInv, WholeFile, Dir
    <3> QED
      BY <3>2, <3>3
  <2> QED
    BY <2>1, <2>2, <2>3, <2>4 DEF Disk
<1> QED
  BY <1>13, <1>14, <1>15, <1>16, <1>17

\* A process of another state is counted.
LEMMA Passing ==
  ASSUME IInv, NEW p \in todo, SuspendOther(p)
  PROVE  IInv'
<1> USE DEF IInv
<1>1. p \in Procs /\ p \in proc_list
  BY DEF Types, CoordType
<1>2. /\ kpc = "suspend"
      /\ \/ pstate[p] = "PROC_READY_FOR_CKPT" /\ ready' = ready + 1
         \/ pstate[p] # "PROC_READY_FOR_CKPT" /\ ready' = ready
      /\ UNCHANGED <<procVars, chanVars, pstate, diskVars, boundVars>>
  BY DEF SuspendOther
<1>3. /\ todo' = todo \ {p}
      /\ \/ proc_list' = proc_list \ {p} /\ total' = total /\ Gone(p)
         \/ proc_list' = proc_list /\ total' = total + 1
      /\ UNCHANGED <<kpc, back, kepoch, knum, forkVars>>
  BY DEF SuspendOther, CountOrRemove
<1>4. /\ Cardinality(todo \ {p}) = Cardinality(todo) - 1 /\ Cardinality(todo) \in Nat
      /\ Cardinality(Procs) \in Nat /\ total \in Nat /\ ready \in Nat
  BY Sizes DEF Coord, Counters
<1>5. Types'
  BY <1>1, <1>2, <1>3, <1>4 DEF Types, ProcType, CoordType, DiskType, BoundType
<1>6. ASSUME NEW q \in Procs PROVE Local(q)'
  <2>1. Local(q)
    OBVIOUS
  <2>2. CASE q = p
    BY <1>1, <1>2, <1>3, <1>4, <2>1, <2>2 DEF Types, ProcType, CoordType, Local,
       DownInv, UpInv, LifeInv, LinkInv, Writing
  <2>3. CASE q # p
    BY <1>1, <1>2, <1>3, <1>4, <2>1, <2>3 DEF Types, ProcType, CoordType, Local,
       DownInv, UpInv, LifeInv, LinkInv, Writing
  <2> QED
    BY <2>2, <2>3
<1>7. Coord'
  <2>1. Counters'
    BY <1>1, <1>2, <1>3, <1>4 DEF Coord, Counters
  <2>2. AtforkInv'
    BY <1>1, <1>2, <1>3, <1>4 DEF Types, ProcType, CoordType, DiskType, BoundType,
       Coord, AtforkInv
  <2>3. RestartInv'
    BY <1>1, <1>2, <1>3, <1>4 DEF Types, ProcType, CoordType, DiskType, BoundType,
       Coord, RestartInv, InRestart, Round, Dir
  <2>4. PhaseInv'
    BY <1>1, <1>2, <1>3, <1>4 DEF Types, ProcType, CoordType, DiskType, BoundType,
       Coord, PhaseInv
  <2> QED
    BY <2>1, <2>2, <2>3, <2>4 DEF Coord
<1>8. Counting'
  <2>1. RoundsInv'
    BY <1>1, <1>2, <1>3, <1>4 DEF Types, ProcType, CoordType, DiskType, BoundType,
       Counting, RoundsInv, Round
  <2>2. ASSUME NEW q \in Procs PROVE EpochInv(q)'
    <3>1. EpochInv(q)
      BY DEF Counting
    <3>2. CASE q = p
      BY <1>1, <1>2, <1>3, <1>4, <3>1, <3>2 DEF Types, ProcType, CoordType, DiskType,
         BoundType, EpochInv, Ahead, Writing
    <3>3. CASE q # p
      BY <1>1, <1>2, <1>3, <1>4, <3>1, <3>3 DEF Types, ProcType, CoordType, DiskType,
         BoundType, EpochInv, Ahead, Writing
    <3> QED
      BY <3>2, <3>3
  <2> QED
    BY <2>1, <2>2 DEF Counting
<1>9. Disk'
  <2>1. DirInv'
    BY <1>1, <1>2, <1>3, <1>4 DEF Types, ProcType, CoordType, DiskType, BoundType, Disk,
       DirInv, Dir
  <2>2. TruthInv'
    BY <1>1, <1>2, <1>3, <1>4 DEF Types, ProcType, CoordType, DiskType, BoundType, Disk,
       TruthInv, Whole
  <2>3. ASSUME NEW q \in Procs PROVE ListedInv(q)'
    BY <1>1, <1>2, <1>3, <1>4 DEF Types, ProcType, CoordType, DiskType, BoundType, Disk,
       ListedInv
  <2>4. ASSUME NEW q \in Procs PROVE ImageInv(q)'
    <3>1. ImageInv(q)
      BY DEF Disk
    <3>2. CASE q = p
      BY <1>1, <1>2, <1>3, <1>4, <3>1, <3>2 DEF Types, ProcType, CoordType, DiskType,
         BoundType, ImageInv, WholeFile, Dir
    <3>3. CASE q # p
      BY <1>1, <1>2, <1>3, <1>4, <3>1, <3>3 DEF Types, ProcType, CoordType, DiskType,
         BoundType, ImageInv, WholeFile, Dir
    <3> QED
      BY <3>2, <3>3
  <2> QED
    BY <2>1, <2>2, <2>3, <2>4 DEF Disk
<1> QED
  BY <1>5, <1>6, <1>7, <1>8, <1>9

\* A pass of coord_suspend_processes is over.
LEMMA PassEnding ==
  ASSUME IInv, SuspendPassEnd
  PROVE  IInv'
<1> USE DEF IInv
<1>1. /\ kpc = "suspend" /\ todo = {}
      /\ UNCHANGED <<procVars, chanVars, back, proc_list, pstate, kepoch, knum, forkVars, diskVars, boundVars>>
  BY DEF SuspendPassEnd
<1>2. \/ kpc' = "mkdir" /\ todo' = {} /\ ready = total /\ ready' = ready /\ total' = total
      \/ kpc' = "suspend" /\ todo' = proc_list /\ ready' = 0 /\ total' = 0
  BY <1>1 DEF SuspendPassEnd, StartLoop
<1>3. /\ Cardinality(proc_list) \in Nat /\ Cardinality(proc_list) <= Cardinality(Procs) /\ Cardinality(Procs) \in Nat
      /\ Cardinality({}) = 0 /\ Cardinality(todo) = 0
  BY <1>1, Sizes
<1>4. Types'
  BY <1>1, <1>2, <1>3 DEF Types, ProcType, CoordType, DiskType, BoundType, CoordPoint
<1>5. ASSUME NEW q \in Procs PROVE Local(q)'
  <2>1. Local(q)
    OBVIOUS
  <2> QED
    BY <1>1, <1>2, <1>3, <2>1 DEF Types, ProcType, CoordType, Local, DownInv, UpInv,
       LifeInv, LinkInv, Writing
<1>6. Coord'
  <2>1. Counters'
    BY <1>1, <1>2, <1>3 DEF Coord, Counters
  <2>2. AtforkInv'
    BY <1>1, <1>2, <1>3 DEF Types, ProcType, CoordType, DiskType, BoundType, Coord,
       AtforkInv
  <2>3. RestartInv'
    BY <1>1, <1>2, <1>3 DEF Types, ProcType, CoordType, DiskType, BoundType, Coord,
       RestartInv, InRestart, Round, Dir
  <2>4. PhaseInv'
    BY <1>1, <1>2, <1>3 DEF Types, ProcType, CoordType, DiskType, BoundType, Coord, PhaseInv
  <2> QED
    BY <2>1, <2>2, <2>3, <2>4 DEF Coord
<1>7. Counting'
  <2>1. RoundsInv'
    BY <1>1, <1>2, <1>3 DEF Types, ProcType, CoordType, DiskType, BoundType, Counting,
       RoundsInv, Round
  <2>2. ASSUME NEW q \in Procs PROVE EpochInv(q)'
    BY <1>1, <1>2, <1>3 DEF Types, ProcType, CoordType, DiskType, BoundType, Counting,
       EpochInv, Ahead, Writing
  <2> QED
    BY <2>1, <2>2 DEF Counting
<1>8. Disk'
  <2>1. DirInv'
    BY <1>1, <1>2, <1>3 DEF Types, ProcType, CoordType, DiskType, BoundType, Disk,
       DirInv, Dir
  <2>2. TruthInv'
    BY <1>1, <1>2, <1>3 DEF Types, ProcType, CoordType, DiskType, BoundType, Disk, TruthInv,
       Whole
  <2>3. ASSUME NEW q \in Procs PROVE ListedInv(q)'
    BY <1>1, <1>2, <1>3 DEF Types, ProcType, CoordType, DiskType, BoundType, Disk, ListedInv
  <2>4. ASSUME NEW q \in Procs PROVE ImageInv(q)'
    BY <1>1, <1>2, <1>3 DEF Types, ProcType, CoordType, DiskType, BoundType, Disk, ImageInv,
       WholeFile, Dir
  <2> QED
    BY <2>1, <2>2, <2>3, <2>4 DEF Disk
<1> QED
  BY <1>4, <1>5, <1>6, <1>7, <1>8

\* The directory is made.
LEMMA MakingDirectory ==
  ASSUME IInv, kpc = "mkdir", kepoch \notin dirs,
         dirs' = dirs \cup {kepoch}, knum' = Cardinality(proc_list), kpc' = "prestart",
         UNCHANGED <<image, manifest>>,
         UNCHANGED <<procVars, chanVars, back, proc_list, pstate, kepoch, loopVars, forkVars,
                     boundVars>>
  PROVE  IInv'
<1> USE DEF IInv
<1>1. kpc = "mkdir"
  OBVIOUS
<1>2. kepoch \in Epochs /\ kepoch \in Nat /\ kepoch < rounds
  BY <1>1, ConstantsAssumption DEF Types, CoordType, BoundType, Counting, RoundsInv,
     Round, Epochs
<1>3. todo = {} /\ \A q \in proc_list : pstate[q] \notin {"PROC_CKPT_IN_PROGRESS", "PROC_CKPT_COMPLETE"}
  BY <1>1 DEF Coord, PhaseInv
<1>4. manifest[kepoch] = {} /\ \A q \in Procs : image[kepoch][q].data = "none"
  BY <1>2 DEF Types, DiskType
<1>5. knum' \in Peers /\ knum' \in Nat
  BY PeersFinite DEF Types, CoordType, Peers
<1>6. Types'
  BY <1>1, <1>2, <1>3, <1>4, <1>5 DEF Types, ProcType, CoordType, DiskType, BoundType,
     CoordPoint
<1>7. ASSUME NEW q \in Procs PROVE Local(q)'
  <2>1. Local(q)
    OBVIOUS
  <2> QED
    BY <1>1, <1>2, <1>3, <1>4, <1>5, <2>1 DEF Types, ProcType, CoordType, Local,
       DownInv, UpInv, LifeInv, LinkInv, Writing
<1>8. Coord'
  <2>1. Counters'
    BY <1>1, <1>2, <1>3, <1>4, <1>5 DEF Coord, Counters
  <2>2. AtforkInv'
    BY <1>1, <1>2, <1>3, <1>4, <1>5 DEF Types, ProcType, CoordType, DiskType, BoundType,
       Coord, AtforkInv
  <2>3. RestartInv'
    BY <1>1, <1>2, <1>3, <1>4, <1>5 DEF Types, ProcType, CoordType, DiskType, BoundType,
       Coord, RestartInv, InRestart, Round, Dir
  <2>4. PhaseInv'
    BY <1>1, <1>2, <1>3, <1>4, <1>5 DEF Types, ProcType, CoordType, DiskType, BoundType,
       Coord, PhaseInv
  <2> QED
    BY <2>1, <2>2, <2>3, <2>4 DEF Coord
<1>9. Counting'
  <2>1. RoundsInv'
    BY <1>1, <1>2, <1>3, <1>4, <1>5 DEF Types, ProcType, CoordType, DiskType, BoundType,
       Counting, RoundsInv, Round
  <2>2. ASSUME NEW q \in Procs PROVE EpochInv(q)'
    BY <1>1, <1>2, <1>3, <1>4, <1>5 DEF Types, ProcType, CoordType, DiskType, BoundType,
       Counting, EpochInv, Ahead, Writing
  <2> QED
    BY <2>1, <2>2 DEF Counting
<1>10. Disk'
  <2>1. DirInv'
    BY <1>1, <1>2, <1>3, <1>4, <1>5 DEF Types, ProcType, CoordType, DiskType, BoundType,
       Disk, DirInv, Dir
  <2>2. TruthInv'
    BY <1>1, <1>2, <1>3, <1>4, <1>5 DEF Types, ProcType, CoordType, DiskType, BoundType,
       Disk, TruthInv, Whole
  <2>3. ASSUME NEW q \in Procs PROVE ListedInv(q)'
    BY <1>1, <1>2, <1>3, <1>4, <1>5 DEF Types, ProcType, CoordType, DiskType, BoundType,
       Disk, ListedInv
  <2>4. ASSUME NEW q \in Procs PROVE ImageInv(q)'
    BY <1>1, <1>2, <1>3, <1>4, <1>5 DEF Types, ProcType, CoordType, DiskType, BoundType,
       Disk, ImageInv, WholeFile, Dir
  <2> QED
    BY <2>1, <2>2, <2>3, <2>4 DEF Disk
<1> QED
  BY <1>6, <1>7, <1>8, <1>9, <1>10

\* The directory cannot be made.
LEMMA NotMakingDirectory ==
  ASSUME IInv, kpc = "mkdir", kpc' = "discard", UNCHANGED knum, UNCHANGED diskVars,
         UNCHANGED <<procVars, chanVars, back, proc_list, pstate, kepoch, loopVars, forkVars,
                     boundVars>>
  PROVE  IInv'
<1> USE DEF IInv
<1>1. Types'
  BY DEF Types, ProcType, CoordType, DiskType, BoundType, CoordPoint
<1>2. ASSUME NEW q \in Procs PROVE Local(q)'
  <2>1. Local(q)
    OBVIOUS
  <2> QED
    BY <2>1 DEF Local, DownInv, UpInv, LifeInv, LinkInv, Writing
<1>3. Coord'
  <2>1. Counters' /\ AtforkInv' /\ PhaseInv'
    BY DEF Coord, Counters, AtforkInv, PhaseInv
  <2>2. RestartInv'
    BY DEF Coord, RestartInv, InRestart, Round, Dir
  <2> QED
    BY <2>1, <2>2 DEF Coord
<1>4. Counting'
  BY DEF Counting, RoundsInv, EpochInv, Ahead, Round
<1>5. Disk'
  BY DEF Disk, DirInv, TruthInv, Whole, ListedInv, ImageInv, WholeFile, Dir
<1> QED
  BY <1>1, <1>2, <1>3, <1>4, <1>5

\* Where a directory is removed nobody writes into it, and a process that is told to
\* resume is listed in another one.
LEMMA Unlinked ==
  ASSUME IInv, NEW e \in Epochs, Unlinking(e)
  PROVE  /\ e \in Nat /\ todo = {} /\ ~CoordGone /\ kpc \notin Dir \cup {"resume"}
         /\ \A q \in Procs : Up(q) =>
              /\ ct[q] \notin {"suspend", "write", "writing"}
              /\ ct[q] = "ready" => down[q] = <<>>
              /\ ct[q] = "done" /\ down[q] # <<>> =>
                   epoch[q] = (IF kpc = "unlink" THEN kepoch ELSE kepoch - 1)
<1> USE DEF IInv
<1>1. /\ kpc \in {"unlink", "discard"} /\ kepoch \in Nat /\ e \in Nat
      /\ kpc = "unlink" => kepoch = e + 1
      /\ kpc = "discard" => kepoch = e
  BY ConstantsAssumption DEF Unlinking, Types, CoordType, Epochs
<1>2. /\ todo = {} /\ \A q \in proc_list : pstate[q] \notin {"PROC_CKPT_IN_PROGRESS", "PROC_CKPT_COMPLETE"}
      /\ kpc = "unlink" => \A q \in proc_list : pstate[q] = "PROC_RUNNING"
  BY <1>1 DEF Coord, PhaseInv
<1>3. ASSUME NEW q \in Procs, Up(q)
      PROVE  q \in proc_list \/ ct[q] \in {"hello", "connect"}
  BY <1>1, <1>3 DEF Local, LifeInv, CoordGone
<1>4. ASSUME NEW q \in Procs, Up(q)
      PROVE  ct[q] \notin {"suspend", "write", "writing"} /\ (ct[q] = "ready" => down[q] = <<>>)
  BY <1>2, <1>3, <1>4 DEF Local, LinkInv, Types, CoordType, ProcState
<1>5. ASSUME NEW q \in Procs, Up(q), ct[q] = "done", down[q] # <<>>
      PROVE  epoch[q] = IF kpc = "unlink" THEN kepoch ELSE kepoch - 1
  <2>1. q \in proc_list
    BY <1>3, <1>5
  <2>2. Ahead(q)
    BY <2>1, <1>5, <1>2 DEF Local, LinkInv, Ahead, Types, CoordType, ProcState
  <2>3. epoch[q] + 1 = IF kpc = "unlink" THEN kepoch + 1 ELSE kepoch
    BY <1>1, <1>2, <1>5, <2>1, <2>2 DEF Counting, EpochInv
  <2> QED
    BY <1>1, <2>3 DEF Types, ProcType, CoordType
<1> QED
  BY <1>1, <1>2, <1>4, <1>5 DEF CoordGone, Dir

\* A file of the directory goes.
LEMMA RemovingFile ==
  ASSUME IInv, NEW e \in Epochs, UnlinkFile(e)
  PROVE  IInv'
<1> USE DEF IInv
<1>1. /\ Unlinking(e)
      /\ UNCHANGED <<procVars, chanVars, coordVars, dirs, boundVars>>
  BY DEF UnlinkFile
<1>2. NoFile \in File /\ NoFile.data = "none"
  BY PeersFinite DEF NoFile, File
<1>3. manifest \in [Epochs -> SUBSET Procs] /\ image \in [Epochs -> [Procs -> File]]
  BY DEF Types, DiskType
<1>4. /\ manifest' \in [Epochs -> SUBSET Procs]
      /\ \A f \in Epochs : manifest'[f] = manifest[f] \/ (f = e /\ manifest'[f] = {})
  BY <1>3 DEF UnlinkFile
<1>5. /\ image' \in [Epochs -> [Procs -> File]]
      /\ \A f \in Epochs : /\ f # e => image'[f] = image[f]
                           /\ \A q \in Procs : image'[f][q] = image[f][q] \/ image'[f][q] = NoFile
  <2>1. CASE UNCHANGED image
    BY <1>3, <2>1
  <2>2. ASSUME NEW p \in Procs, image' = [image EXCEPT ![e][p] = NoFile], UNCHANGED manifest
        PROVE  /\ image' \in [Epochs -> [Procs -> File]]
               /\ \A f \in Epochs :
                    /\ f # e => image'[f] = image[f]
                    /\ \A q \in Procs : image'[f][q] = image[f][q] \/ image'[f][q] = NoFile
    <3>1. image[e] \in [Procs -> File]
      BY <1>3
    <3>2. image'[e] = [image[e] EXCEPT ![p] = NoFile] /\ \A f \in Epochs : f # e => image'[f] = image[f]
      BY <1>3, <2>2
    <3>3. image'[e] \in [Procs -> File] /\ \A q \in Procs : image'[e][q] = image[e][q] \/ image'[e][q] = NoFile
      BY <3>1, <3>2, <1>2
    <3>4. image' \in [Epochs -> [Procs -> File]]
      BY <1>3, <2>2, <3>2, <3>3
    <3> QED
      BY <3>2, <3>3, <3>4
  <2> QED
    BY <2>1, <2>2 DEF UnlinkFile
<1>12. ASSUME NEW f \in Epochs, NEW q \in Procs
       PROVE  image'[f][q] = image[f][q] \/ image'[f][q] = NoFile
  <2>1. \A r \in Procs : image'[f][r] = image[f][r] \/ image'[f][r] = NoFile
    BY <1>5
  <2> QED
    BY <2>1
<1>6. Types'
  <2>1. DiskType'
    <3>1. \A f \in Epochs \ dirs : manifest'[f] = {}
      BY <1>4 DEF Types, DiskType
    <3>2. ASSUME NEW f \in Epochs \ dirs, NEW q \in Procs PROVE image'[f][q].data = "none"
      <4>1. image[f][q].data = "none"
        BY DEF Types, DiskType
      <4>2. image'[f][q] = image[f][q] \/ image'[f][q] = NoFile
        BY <1>12
      <4> QED
        BY <1>2, <4>1, <4>2
    <3> QED
      BY <1>1, <1>4, <1>5, <3>1, <3>2 DEF Types, DiskType
  <2> QED
    BY <1>1, <2>1 DEF Types, ProcType, CoordType, BoundType
<1>7. ASSUME NEW q \in Procs PROVE Local(q)'
  <2>1. Local(q)
    OBVIOUS
  <2> QED
    BY <1>1, <2>1 DEF Local, DownInv, UpInv, LifeInv, LinkInv
<1>8. Coord'
  BY <1>1 DEF Coord, Counters, AtforkInv, RestartInv, PhaseInv, InRestart
<1>9. Counting'
  <2>1. RoundsInv'
    <3>1. \A f \in Epochs : manifest'[f] # {} => f < rounds
      BY <1>4 DEF Counting, RoundsInv
    <3> QED
      BY <1>1, <3>1 DEF Counting, RoundsInv
  <2>2. ASSUME NEW q \in Procs PROVE EpochInv(q)'
    BY <1>1 DEF Counting, EpochInv, Ahead
  <2> QED
    BY <2>1, <2>2 DEF Counting
<1>10. Disk'
  <2>1. kpc \notin Dir \cup {"resume"} /\ UNCHANGED <<kpc, kepoch>>
    BY <1>1, Unlinked
  <2>2. DirInv'
    BY <2>1 DEF DirInv, Dir
  <2>3. TruthInv'
    <3>1. SUFFICES ASSUME ~DiskFails, NEW f \in Epochs, NEW p \in manifest'[f]
                   PROVE  Whole(f, p)' \/ image'[f][p] = NoFile
      BY DEF TruthInv
    <3>2. manifest'[f] = manifest[f] /\ p \in Procs
      BY <1>3, <1>4, <3>1
    <3>3. Whole(f, p) \/ image[f][p] = NoFile
      BY <3>1, <3>2 DEF Disk, TruthInv
    <3>4. image'[f][p] = image[f][p] \/ image'[f][p] = NoFile
      BY <1>12, <3>2
    <3> QED
      BY <3>2, <3>3, <3>4 DEF Whole
  <2>4. ASSUME NEW q \in Procs PROVE ListedInv(q)'
    <3>1. Up(q) /\ ct[q] = "done" /\ down[q] # <<>> => q \in manifest'[epoch[q]]
      <4>1. SUFFICES ASSUME Up(q), ct[q] = "done", down[q] # <<>>
                     PROVE  q \in manifest'[epoch[q]]
        OBVIOUS
      <4>2. epoch[q] # e /\ q \in manifest[epoch[q]]
        BY <1>1, <4>1, Unlinked DEF Unlinking, Disk, ListedInv
      <4>3. epoch[q] \in Epochs
        BY ConstantsAssumption DEF Types, ProcType, BoundType, Counting, EpochInv, Epochs
      <4> QED
        BY <1>4, <4>2, <4>3
    <3> QED
      BY <1>1, <3>1, Unlinked DEF ListedInv, Up
  <2>5. ASSUME NEW q \in Procs PROVE ImageInv(q)'
    BY <2>1 DEF ImageInv
  <2> QED
    BY <2>2, <2>3, <2>4, <2>5 DEF Disk
<1> QED
  BY <1>6, <1>7, <1>8, <1>9, <1>10

\* The directory goes, or stays.
LEMMA Removed ==
  ASSUME NEW e \in Epochs, xnd_ckptdir_unlink(e)
  PROVE  /\ UNCHANGED <<image, manifest>>
         /\ dirs' \subseteq dirs
         /\ \A f \in dirs \ dirs' : manifest[f] = {} /\ \A q \in Procs : image[f][q] = NoFile
BY DEF xnd_ckptdir_unlink

\* The directory that could not be made is removed.
LEMMA Discarding ==
  ASSUME IInv, CheckpointFailed
  PROVE  IInv'
<1> USE DEF IInv
<1>1. /\ kpc = "discard" /\ kpc' = back
      /\ UNCHANGED <<procVars, chanVars, back, proc_list, pstate, kepoch, knum, loopVars,
                     forkVars, boundVars>>
  BY DEF CheckpointFailed
<1>2. kepoch \in Epochs
  BY <1>1, ConstantsAssumption DEF Types, CoordType, BoundType, Counting, RoundsInv,
     Round, Epochs
<1>3. /\ UNCHANGED <<image, manifest>> /\ dirs' \subseteq dirs
      /\ \A f \in dirs \ dirs' : manifest[f] = {} /\ \A q \in Procs : image[f][q].data = "none"
  BY <1>2, Removed DEF CheckpointFailed, NoFile
<1>4. /\ todo = {} /\ ~CoordGone
      /\ \A q \in Procs : Up(q) => ct[q] # "writing"
  BY <1>1, <1>2, Unlinked DEF Unlinking
<1>5. back \in {"serve", "restart"}
  BY DEF Types, CoordType
<1>6. Types'
  BY <1>1, <1>3, <1>5 DEF Types, ProcType, CoordType, DiskType, BoundType, CoordPoint
<1>7. ASSUME NEW q \in Procs PROVE Local(q)'
  <2>1. Local(q)
    OBVIOUS
  <2> QED
    BY <1>1, <1>5, <2>1 DEF Local, DownInv, UpInv, LifeInv, LinkInv, CoordGone
<1>8. Coord'
  <2>1. Counters' /\ AtforkInv'
    BY <1>1, <1>5 DEF Coord, Counters, AtforkInv
  <2>2. RestartInv'
    BY <1>1, <1>5 DEF Coord, RestartInv, InRestart, Round, Dir
  <2>3. PhaseInv'
    BY <1>1, <1>4, <1>5 DEF Coord, PhaseInv
  <2> QED
    BY <2>1, <2>2, <2>3 DEF Coord
<1>9. Counting'
  <2>1. RoundsInv'
    BY <1>1, <1>3, <1>5 DEF Counting, RoundsInv, Round
  <2>2. ASSUME NEW q \in Procs PROVE EpochInv(q)'
    <3>1. EpochInv(q) /\ Ahead(q)' = Ahead(q)
      BY <1>1 DEF Counting, Ahead
    <3> QED
      BY <1>1, <1>5, <3>1 DEF EpochInv
  <2> QED
    BY <2>1, <2>2 DEF Counting
<1>10. Disk'
  BY <1>1, <1>3, <1>4, <1>5
     DEF Disk, DirInv, TruthInv, Whole, ListedInv, ImageInv, Dir, Up
<1> QED
  BY <1>6, <1>7, <1>8, <1>9, <1>10

\* The PRECKPT barrier is about to open.
LEMMA Starting ==
  ASSUME IInv, kpc = "prestart", StartLoop("start", proc_list, "reduce"),
         UNCHANGED <<back, proc_list, pstate, kepoch, knum, forkVars>>,
         UNCHANGED <<procVars, chanVars, diskVars, boundVars>>
  PROVE  IInv'
<1> USE DEF IInv
<1>1. /\ kpc' = IF proc_list = {} THEN "reduce" ELSE "start"
      /\ todo' = proc_list /\ ready' = 0 /\ total' = 0
  BY DEF StartLoop
<1>2. /\ Cardinality(proc_list) \in Nat /\ Cardinality(proc_list) <= Cardinality(Procs)
      /\ Cardinality(Procs) \in Nat
  BY Sizes
<1>3. Types'
  BY <1>1, <1>2 DEF Types, ProcType, CoordType, DiskType, BoundType, CoordPoint
<1>4. ASSUME NEW q \in Procs PROVE Local(q)'
  <2>1. Local(q)
    OBVIOUS
  <2> QED
    BY <1>1, <1>2, <2>1 DEF Types, ProcType, CoordType, Local, DownInv, UpInv, LifeInv,
       LinkInv, Writing
<1>5. Coord'
  <2>1. Counters'
    BY <1>1, <1>2 DEF Coord, Counters
  <2>2. AtforkInv'
    BY <1>1, <1>2 DEF Types, ProcType, CoordType, DiskType, BoundType, Coord, AtforkInv
  <2>3. RestartInv'
    BY <1>1, <1>2 DEF Types, ProcType, CoordType, DiskType, BoundType, Coord, RestartInv,
       InRestart, Round, Dir
  <2>4. PhaseInv'
    BY <1>1, <1>2 DEF Types, ProcType, CoordType, DiskType, BoundType, Coord, PhaseInv
  <2> QED
    BY <2>1, <2>2, <2>3, <2>4 DEF Coord
<1>6. Counting'
  <2>1. RoundsInv'
    BY <1>1, <1>2 DEF Types, ProcType, CoordType, DiskType, BoundType, Counting, RoundsInv,
       Round
  <2>2. ASSUME NEW q \in Procs PROVE EpochInv(q)'
    BY <1>1, <1>2 DEF Types, ProcType, CoordType, DiskType, BoundType, Counting, EpochInv,
       Ahead, Writing
  <2> QED
    BY <2>1, <2>2 DEF Counting
<1>7. Disk'
  <2>1. DirInv'
    BY <1>1, <1>2 DEF Types, ProcType, CoordType, DiskType, BoundType, Disk, DirInv, Dir
  <2>2. TruthInv'
    BY <1>1, <1>2 DEF Types, ProcType, CoordType, DiskType, BoundType, Disk, TruthInv,
       Whole
  <2>3. ASSUME NEW q \in Procs PROVE ListedInv(q)'
    BY <1>1, <1>2 DEF Types, ProcType, CoordType, DiskType, BoundType, Disk, ListedInv
  <2>4. ASSUME NEW q \in Procs PROVE ImageInv(q)'
    BY <1>1, <1>2 DEF Types, ProcType, CoordType, DiskType, BoundType, Disk, ImageInv,
       WholeFile, Dir
  <2> QED
    BY <2>1, <2>2, <2>3, <2>4 DEF Disk
<1> QED
  BY <1>3, <1>4, <1>5, <1>6, <1>7

\* Every connection is readable.
LEMMA Reducing ==
  ASSUME IInv, kpc = "reduce", StartLoop("collect", proc_list, "manifest"), Cardinality(proc_list) = knum,
         UNCHANGED <<back, proc_list, pstate, kepoch, knum, forkVars>>,
         UNCHANGED <<procVars, chanVars, diskVars, boundVars>>
  PROVE  IInv'
<1> USE DEF IInv
<1>1. /\ kpc' = IF proc_list = {} THEN "manifest" ELSE "collect"
      /\ todo' = proc_list /\ ready' = 0 /\ total' = 0
  BY DEF StartLoop
<1>2. /\ Cardinality(proc_list) \in Nat /\ Cardinality(proc_list) <= Cardinality(Procs)
      /\ Cardinality(Procs) \in Nat
  BY Sizes
<1>3. Types'
  BY <1>1, <1>2 DEF Types, ProcType, CoordType, DiskType, BoundType, CoordPoint
<1>4. ASSUME NEW q \in Procs PROVE Local(q)'
  <2>1. Local(q)
    OBVIOUS
  <2> QED
    BY <1>1, <1>2, <2>1 DEF Types, ProcType, CoordType, Local, DownInv, UpInv, LifeInv,
       LinkInv, Writing
<1>5. Coord'
  <2>1. Counters'
    BY <1>1, <1>2 DEF Coord, Counters
  <2>2. AtforkInv'
    BY <1>1, <1>2 DEF Types, ProcType, CoordType, DiskType, BoundType, Coord, AtforkInv
  <2>3. RestartInv'
    BY <1>1, <1>2 DEF Types, ProcType, CoordType, DiskType, BoundType, Coord, RestartInv,
       InRestart, Round, Dir
  <2>4. PhaseInv'
    BY <1>1, <1>2 DEF Types, ProcType, CoordType, DiskType, BoundType, Coord, PhaseInv
  <2> QED
    BY <2>1, <2>2, <2>3, <2>4 DEF Coord
<1>6. Counting'
  <2>1. RoundsInv'
    BY <1>1, <1>2 DEF Types, ProcType, CoordType, DiskType, BoundType, Counting, RoundsInv,
       Round
  <2>2. ASSUME NEW q \in Procs PROVE EpochInv(q)'
    BY <1>1, <1>2 DEF Types, ProcType, CoordType, DiskType, BoundType, Counting, EpochInv,
       Ahead, Writing
  <2> QED
    BY <2>1, <2>2 DEF Counting
<1>7. Disk'
  <2>1. DirInv'
    BY <1>1, <1>2 DEF Types, ProcType, CoordType, DiskType, BoundType, Disk, DirInv, Dir
  <2>2. TruthInv'
    BY <1>1, <1>2 DEF Types, ProcType, CoordType, DiskType, BoundType, Disk, TruthInv,
       Whole
  <2>3. ASSUME NEW q \in Procs PROVE ListedInv(q)'
    BY <1>1, <1>2 DEF Types, ProcType, CoordType, DiskType, BoundType, Disk, ListedInv
  <2>4. ASSUME NEW q \in Procs PROVE ImageInv(q)'
    BY <1>1, <1>2 DEF Types, ProcType, CoordType, DiskType, BoundType, Disk, ImageInv,
       WholeFile, Dir
  <2> QED
    BY <2>1, <2>2, <2>3, <2>4 DEF Disk
<1> QED
  BY <1>3, <1>4, <1>5, <1>6, <1>7

\* The barrier of the restart is about to open.
LEMMA Resuming ==
  ASSUME IInv, kpc = "restart", StartLoop("rrelease", proc_list, "serve"),
         UNCHANGED <<back, proc_list, pstate, kepoch, knum, forkVars>>,
         UNCHANGED <<procVars, chanVars, diskVars, boundVars>>
  PROVE  IInv'
<1> USE DEF IInv
<1>1. /\ kpc' = IF proc_list = {} THEN "serve" ELSE "rrelease"
      /\ todo' = proc_list /\ ready' = 0 /\ total' = 0
  BY DEF StartLoop
<1>2. /\ Cardinality(proc_list) \in Nat /\ Cardinality(proc_list) <= Cardinality(Procs)
      /\ Cardinality(Procs) \in Nat
  BY Sizes
<1>3. Types'
  BY <1>1, <1>2 DEF Types, ProcType, CoordType, DiskType, BoundType, CoordPoint
<1>4. ASSUME NEW q \in Procs PROVE Local(q)'
  <2>1. Local(q)
    OBVIOUS
  <2> QED
    BY <1>1, <1>2, <2>1 DEF Types, ProcType, CoordType, Local, DownInv, UpInv, LifeInv,
       LinkInv, Writing
<1>5. Coord'
  <2>1. Counters'
    BY <1>1, <1>2 DEF Coord, Counters
  <2>2. AtforkInv'
    BY <1>1, <1>2 DEF Types, ProcType, CoordType, DiskType, BoundType, Coord, AtforkInv
  <2>3. RestartInv'
    BY <1>1, <1>2 DEF Types, ProcType, CoordType, DiskType, BoundType, Coord, RestartInv,
       InRestart, Round, Dir
  <2>4. PhaseInv'
    BY <1>1, <1>2 DEF Types, ProcType, CoordType, DiskType, BoundType, Coord, PhaseInv
  <2> QED
    BY <2>1, <2>2, <2>3, <2>4 DEF Coord
<1>6. Counting'
  <2>1. RoundsInv'
    BY <1>1, <1>2 DEF Types, ProcType, CoordType, DiskType, BoundType, Counting, RoundsInv,
       Round
  <2>2. ASSUME NEW q \in Procs PROVE EpochInv(q)'
    BY <1>1, <1>2 DEF Types, ProcType, CoordType, DiskType, BoundType, Counting, EpochInv,
       Ahead, Writing
  <2> QED
    BY <2>1, <2>2 DEF Counting
<1>7. Disk'
  <2>1. DirInv'
    BY <1>1, <1>2 DEF Types, ProcType, CoordType, DiskType, BoundType, Disk, DirInv, Dir
  <2>2. TruthInv'
    BY <1>1, <1>2 DEF Types, ProcType, CoordType, DiskType, BoundType, Disk, TruthInv,
       Whole
  <2>3. ASSUME NEW q \in Procs PROVE ListedInv(q)'
    BY <1>1, <1>2 DEF Types, ProcType, CoordType, DiskType, BoundType, Disk, ListedInv
  <2>4. ASSUME NEW q \in Procs PROVE ImageInv(q)'
    BY <1>1, <1>2 DEF Types, ProcType, CoordType, DiskType, BoundType, Disk, ImageInv,
       WholeFile, Dir
  <2> QED
    BY <2>1, <2>2, <2>3, <2>4 DEF Disk
<1> QED
  BY <1>3, <1>4, <1>5, <1>6, <1>7

\* XND_CKPT_START is sent.
LEMMA OpeningPreckpt ==
  ASSUME IInv, NEW p \in todo, kpc = "start", Up(p), pstate[p] = "PROC_READY_FOR_CKPT",
         down' = [down EXCEPT ![p] = Append(@, Start(knum))],
         pstate' = [pstate EXCEPT ![p] = "PROC_CKPT_IN_PROGRESS"],
         todo' = todo \ {p}, kpc' = IF todo = {p} THEN "reduce" ELSE kpc,
         UNCHANGED <<back, proc_list, kepoch, knum, ready, total, forkVars>>,
         UNCHANGED <<procVars, up, diskVars, boundVars>>
  PROVE  IInv'
<1> USE DEF IInv
<1>1. p \in Procs /\ p \in proc_list
  BY DEF Types, CoordType
<1>2. up[p] = <<>> /\ ct[p] = "ready" /\ down[p] = <<>>
  BY <1>1 DEF Local, LinkInv
<1>3. down' = [down EXCEPT ![p] = <<Start(knum)>>]
  BY <1>2, Traffic DEF Types, CoordType
<1>4. <<Start(knum)>> \in Seq(Message) /\ <<Start(knum)>> # <<>>
  BY MessageType DEF Types, CoordType
<1>5. /\ Cardinality(todo \ {p}) = Cardinality(todo) - 1 /\ Cardinality(todo) \in Nat
      /\ Cardinality(Procs) \in Nat /\ total \in Nat /\ ready \in Nat
  BY Sizes DEF Coord, Counters
<1>6. kpc' = "reduce" => todo' = {} 
  OBVIOUS
<1>7. back # "restart"
  BY <1>1 DEF Coord, RestartInv, InRestart, Round, Dir
<1>8. epoch[p] = kepoch /\ kepoch < rounds
  BY <1>1, <1>2 DEF Counting, EpochInv, RoundsInv, Ahead, Round
<1>9. Types'
  BY <1>1, <1>2, <1>3, <1>4, <1>5, <1>6, <1>7, <1>8 DEF Types, ProcType, CoordType,
     DiskType, BoundType, CoordPoint, ProcState
<1>10. ASSUME NEW q \in Procs PROVE Local(q)'
  <2>1. Local(q)
    OBVIOUS
  <2>2. CASE q = p
    BY <1>1, <1>2, <1>3, <1>4, <1>5, <1>6, <1>7, <1>8, <2>1, <2>2 DEF Types, ProcType,
       CoordType, Local, DownInv, UpInv, LifeInv, LinkInv, Writing
  <2>3. CASE q # p
    BY <1>1, <1>2, <1>3, <1>4, <1>5, <1>6, <1>7, <1>8, <2>1, <2>3 DEF Types, ProcType,
       CoordType, Local, DownInv, UpInv, LifeInv, LinkInv, Writing
  <2> QED
    BY <2>2, <2>3
<1>11. Coord'
  <2>1. Counters'
    BY <1>1, <1>2, <1>3, <1>4, <1>5, <1>6, <1>7, <1>8 DEF Coord, Counters
  <2>2. AtforkInv'
    BY <1>1, <1>2, <1>3, <1>4, <1>5, <1>6, <1>7, <1>8 DEF Types, ProcType, CoordType,
       DiskType, BoundType, Coord, AtforkInv
  <2>3. RestartInv'
    BY <1>1, <1>2, <1>3, <1>4, <1>5, <1>6, <1>7, <1>8 DEF Types, ProcType, CoordType,
       DiskType, BoundType, Coord, RestartInv, InRestart, Round, Dir
  <2>4. PhaseInv'
    BY <1>1, <1>2, <1>3, <1>4, <1>5, <1>6, <1>7, <1>8 DEF Types, ProcType, CoordType,
       DiskType, BoundType, Coord, PhaseInv
  <2> QED
    BY <2>1, <2>2, <2>3, <2>4 DEF Coord
<1>12. Counting'
  <2>1. RoundsInv'
    BY <1>1, <1>2, <1>3, <1>4, <1>5, <1>6, <1>7, <1>8 DEF Types, ProcType, CoordType,
       DiskType, BoundType, Counting, RoundsInv, Round
  <2>2. ASSUME NEW q \in Procs PROVE EpochInv(q)'
    <3>1. EpochInv(q)
      BY DEF Counting
    <3>2. CASE q = p
      BY <1>1, <1>2, <1>3, <1>4, <1>5, <1>6, <1>7, <1>8, <3>1, <3>2 DEF Types, ProcType,
         CoordType, DiskType, BoundType, EpochInv, Ahead, Writing
    <3>3. CASE q # p
      BY <1>1, <1>2, <1>3, <1>4, <1>5, <1>6, <1>7, <1>8, <3>1, <3>3 DEF Types, ProcType,
         CoordType, DiskType, BoundType, EpochInv, Ahead, Writing
    <3> QED
      BY <3>2, <3>3
  <2> QED
    BY <2>1, <2>2 DEF Counting
<1>13. Disk'
  <2>1. DirInv'
    BY <1>1, <1>2, <1>3, <1>4, <1>5, <1>6, <1>7, <1>8 DEF Types, ProcType, CoordType,
       DiskType, BoundType, Disk, DirInv, Dir
  <2>2. TruthInv'
    BY <1>1, <1>2, <1>3, <1>4, <1>5, <1>6, <1>7, <1>8 DEF Types, ProcType, CoordType,
       DiskType, BoundType, Disk, TruthInv, Whole
  <2>3. ASSUME NEW q \in Procs PROVE ListedInv(q)'
    <3>1. ListedInv(q) /\ manifest[kepoch] = {}
      BY DEF Disk, DirInv, Dir
    <3>2. CASE q = p
      BY <1>2, <1>8, <3>1, <3>2 DEF ListedInv
    <3>3. CASE q # p
      BY <1>1, <1>3, <3>1, <3>3 DEF ListedInv, Up, Types, ProcType
    <3> QED
      BY <3>2, <3>3
  <2>4. ASSUME NEW q \in Procs PROVE ImageInv(q)'
    <3>1. ImageInv(q)
      BY DEF Disk
    <3>2. CASE q = p
      BY <1>1, <1>2, <1>3, <1>4, <1>5, <1>6, <1>7, <1>8, <3>1, <3>2 DEF Types, ProcType,
         CoordType, DiskType, BoundType, ImageInv, WholeFile, Dir
    <3>3. CASE q # p
      BY <1>1, <1>2, <1>3, <1>4, <1>5, <1>6, <1>7, <1>8, <3>1, <3>3 DEF Types, ProcType,
         CoordType, DiskType, BoundType, ImageInv, WholeFile, Dir
    <3> QED
      BY <3>2, <3>3
  <2> QED
    BY <2>1, <2>2, <2>3, <2>4 DEF Disk
<1> QED
  BY <1>9, <1>10, <1>11, <1>12, <1>13

\* XND_RESUME_AFTER_CKPT is sent.
LEMMA OpeningPostckpt ==
  ASSUME IInv, NEW p \in todo, kpc = "resume", Up(p), pstate[p] = "PROC_CKPT_COMPLETE",
         down' = [down EXCEPT ![p] = Append(@, Resume)],
         pstate' = [pstate EXCEPT ![p] = "PROC_RUNNING"],
         todo' = todo \ {p}, kpc' = IF todo = {p} THEN "unlink" ELSE kpc,
         UNCHANGED <<back, proc_list, kepoch, knum, ready, total, forkVars>>,
         UNCHANGED <<procVars, up, diskVars, boundVars>>
  PROVE  IInv'
<1> USE DEF IInv
<1>1. p \in Procs /\ p \in proc_list
  BY DEF Types, CoordType
<1>2. up[p] = <<>> /\ ct[p] = "done" /\ down[p] = <<>>
  BY <1>1 DEF Local, LinkInv
<1>3. down' = [down EXCEPT ![p] = <<Resume>>]
  BY <1>2, Traffic DEF Types, CoordType
<1>4. <<Resume>> \in Seq(Message) /\ <<Resume>> # <<>>
  BY MessageType DEF Types, CoordType
<1>5. /\ Cardinality(todo \ {p}) = Cardinality(todo) - 1 /\ Cardinality(todo) \in Nat
      /\ Cardinality(Procs) \in Nat /\ total \in Nat /\ ready \in Nat
  BY Sizes DEF Coord, Counters
<1>6. kpc' = "unlink" => todo' = {} 
  OBVIOUS
<1>7. back # "restart"
  BY <1>1 DEF Coord, RestartInv, InRestart, Round, Dir
<1>8. epoch[p] = kepoch /\ p \in manifest[epoch[p]]
  BY <1>1 DEF Counting, EpochInv, Ahead, Disk, DirInv
<1>9. Types'
  BY <1>1, <1>2, <1>3, <1>4, <1>5, <1>6, <1>7, <1>8, SMTT(30) DEF Types, ProcType, CoordType,
     DiskType, BoundType, CoordPoint, ProcState
<1>10. ASSUME NEW q \in Procs PROVE Local(q)'
  <2>1. Local(q)
    OBVIOUS
  <2>2. CASE q = p
    BY <1>1, <1>2, <1>3, <1>4, <1>5, <1>6, <1>7, <1>8, <2>1, <2>2 DEF Types, ProcType,
       CoordType, Local, DownInv, UpInv, LifeInv, LinkInv, Writing
  <2>3. CASE q # p
    BY <1>1, <1>2, <1>3, <1>4, <1>5, <1>6, <1>7, <1>8, <2>1, <2>3 DEF Types, ProcType,
       CoordType, Local, DownInv, UpInv, LifeInv, LinkInv, Writing
  <2> QED
    BY <2>2, <2>3
<1>11. Coord'
  <2>1. Counters'
    BY <1>1, <1>2, <1>3, <1>4, <1>5, <1>6, <1>7, <1>8 DEF Coord, Counters
  <2>2. AtforkInv'
    BY <1>1, <1>2, <1>3, <1>4, <1>5, <1>6, <1>7, <1>8 DEF Types, ProcType, CoordType,
       DiskType, BoundType, Coord, AtforkInv
  <2>3. RestartInv'
    BY <1>1, <1>2, <1>3, <1>4, <1>5, <1>6, <1>7, <1>8 DEF Types, ProcType, CoordType,
       DiskType, BoundType, Coord, RestartInv, InRestart, Round, Dir
  <2>4. PhaseInv'
    BY <1>1, <1>2, <1>3, <1>4, <1>5, <1>6, <1>7, <1>8 DEF Types, ProcType, CoordType,
       DiskType, BoundType, Coord, PhaseInv
  <2> QED
    BY <2>1, <2>2, <2>3, <2>4 DEF Coord
<1>12. Counting'
  <2>1. RoundsInv'
    BY <1>1, <1>2, <1>3, <1>4, <1>5, <1>6, <1>7, <1>8 DEF Types, ProcType, CoordType,
       DiskType, BoundType, Counting, RoundsInv, Round
  <2>2. ASSUME NEW q \in Procs PROVE EpochInv(q)'
    <3>1. EpochInv(q)
      BY DEF Counting
    <3>2. CASE q = p
      BY <1>1, <1>2, <1>3, <1>4, <1>5, <1>6, <1>7, <1>8, <3>1, <3>2 DEF Types, ProcType,
         CoordType, DiskType, BoundType, EpochInv, Ahead, Writing
    <3>3. CASE q # p
      BY <1>1, <1>2, <1>3, <1>4, <1>5, <1>6, <1>7, <1>8, <3>1, <3>3 DEF Types, ProcType,
         CoordType, DiskType, BoundType, EpochInv, Ahead, Writing
    <3> QED
      BY <3>2, <3>3
  <2> QED
    BY <2>1, <2>2 DEF Counting
<1>13. Disk'
  <2>1. DirInv'
    BY <1>1, <1>2, <1>3, <1>4, <1>5, <1>6, <1>7, <1>8 DEF Types, ProcType, CoordType,
       DiskType, BoundType, Disk, DirInv, Dir
  <2>2. TruthInv'
    BY <1>1, <1>2, <1>3, <1>4, <1>5, <1>6, <1>7, <1>8 DEF Types, ProcType, CoordType,
       DiskType, BoundType, Disk, TruthInv, Whole
  <2>3. ASSUME NEW q \in Procs PROVE ListedInv(q)'
    BY <1>1, <1>2, <1>3, <1>4, <1>5, <1>6, <1>7, <1>8 DEF Types, ProcType, CoordType,
       DiskType, BoundType, Disk, ListedInv
  <2>4. ASSUME NEW q \in Procs PROVE ImageInv(q)'
    <3>1. ImageInv(q)
      BY DEF Disk
    <3>2. CASE q = p
      BY <1>1, <1>2, <1>3, <1>4, <1>5, <1>6, <1>7, <1>8, <3>1, <3>2 DEF Types, ProcType,
         CoordType, DiskType, BoundType, ImageInv, WholeFile, Dir
    <3>3. CASE q # p
      BY <1>1, <1>2, <1>3, <1>4, <1>5, <1>6, <1>7, <1>8, <3>1, <3>3 DEF Types, ProcType,
         CoordType, DiskType, BoundType, ImageInv, WholeFile, Dir
    <3> QED
      BY <3>2, <3>3
  <2> QED
    BY <2>1, <2>2, <2>3, <2>4 DEF Disk
<1> QED
  BY <1>9, <1>10, <1>11, <1>12, <1>13

\* XND_RESUME_AFTER_RESTART is sent.
LEMMA OpeningRestart ==
  ASSUME IInv, NEW p \in todo, kpc = "rrelease", Up(p), pstate[p] = "PROC_RESTART_IN_PROGRESS",
         down' = [down EXCEPT ![p] = Append(@, Go)],
         pstate' = [pstate EXCEPT ![p] = "PROC_RUNNING"],
         todo' = todo \ {p}, kpc' = IF todo = {p} THEN "serve" ELSE kpc,
         UNCHANGED <<back, proc_list, kepoch, knum, ready, total, forkVars>>,
         UNCHANGED <<procVars, up, diskVars, boundVars>>
  PROVE  IInv'
<1> USE DEF IInv
<1>1. p \in Procs /\ p \in proc_list
  BY DEF Types, CoordType
<1>2. up[p] = <<>> /\ ct[p] = "rwait" /\ down[p] = <<>>
  BY <1>1 DEF Local, LinkInv
<1>3. down' = [down EXCEPT ![p] = <<Go>>]
  BY <1>2, Traffic DEF Types, CoordType
<1>4. <<Go>> \in Seq(Message) /\ <<Go>> # <<>>
  BY MessageType DEF Types, CoordType
<1>5. /\ Cardinality(todo \ {p}) = Cardinality(todo) - 1 /\ Cardinality(todo) \in Nat
      /\ Cardinality(Procs) \in Nat /\ total \in Nat /\ ready \in Nat
  BY Sizes DEF Coord, Counters
<1>6. kpc' = "serve" => todo' = {} 
  OBVIOUS
<1>7. Types'
  BY <1>1, <1>2, <1>3, <1>4, <1>5, <1>6, SMTT(30) DEF Types, ProcType, CoordType, DiskType,
     BoundType, CoordPoint, ProcState
<1>8. ASSUME NEW q \in Procs PROVE Local(q)'
  <2>1. Local(q)
    OBVIOUS
  <2>2. CASE q = p
    BY <1>1, <1>2, <1>3, <1>4, <1>5, <1>6, <2>1, <2>2 DEF Types, ProcType, CoordType,
       Local, DownInv, UpInv, LifeInv, LinkInv, Writing
  <2>3. CASE q # p
    BY <1>1, <1>2, <1>3, <1>4, <1>5, <1>6, <2>1, <2>3 DEF Types, ProcType, CoordType,
       Local, DownInv, UpInv, LifeInv, LinkInv, Writing
  <2> QED
    BY <2>2, <2>3
<1>9. Coord'
  <2>1. Counters'
    BY <1>1, <1>2, <1>3, <1>4, <1>5, <1>6 DEF Coord, Counters
  <2>2. AtforkInv'
    BY <1>1, <1>2, <1>3, <1>4, <1>5, <1>6 DEF Types, ProcType, CoordType, DiskType,
       BoundType, Coord, AtforkInv
  <2>3. RestartInv'
    BY <1>1, <1>2, <1>3, <1>4, <1>5, <1>6 DEF Types, ProcType, CoordType, DiskType,
       BoundType, Coord, RestartInv, InRestart, Round, Dir
  <2>4. PhaseInv'
    BY <1>1, <1>2, <1>3, <1>4, <1>5, <1>6 DEF Types, ProcType, CoordType, DiskType,
       BoundType, Coord, PhaseInv
  <2> QED
    BY <2>1, <2>2, <2>3, <2>4 DEF Coord
<1>10. Counting'
  <2>1. RoundsInv'
    BY <1>1, <1>2, <1>3, <1>4, <1>5, <1>6 DEF Types, ProcType, CoordType, DiskType,
       BoundType, Counting, RoundsInv, Round
  <2>2. ASSUME NEW q \in Procs PROVE EpochInv(q)'
    <3>1. EpochInv(q)
      BY DEF Counting
    <3>2. CASE q = p
      BY <1>1, <1>2, <1>3, <1>4, <1>5, <1>6, <3>1, <3>2 DEF Types, ProcType, CoordType,
         DiskType, BoundType, EpochInv, Ahead, Writing
    <3>3. CASE q # p
      BY <1>1, <1>2, <1>3, <1>4, <1>5, <1>6, <3>1, <3>3 DEF Types, ProcType, CoordType,
         DiskType, BoundType, EpochInv, Ahead, Writing
    <3> QED
      BY <3>2, <3>3
  <2> QED
    BY <2>1, <2>2 DEF Counting
<1>11. Disk'
  <2>1. DirInv'
    BY <1>1, <1>2, <1>3, <1>4, <1>5, <1>6 DEF Types, ProcType, CoordType, DiskType,
       BoundType, Disk, DirInv, Dir
  <2>2. TruthInv'
    BY <1>1, <1>2, <1>3, <1>4, <1>5, <1>6 DEF Types, ProcType, CoordType, DiskType,
       BoundType, Disk, TruthInv, Whole
  <2>3. ASSUME NEW q \in Procs PROVE ListedInv(q)'
    BY <1>1, <1>2, <1>3, <1>4, <1>5, <1>6, SMTT(30) DEF Types, ProcType, CoordType, DiskType,
       BoundType, Disk, ListedInv
  <2>4. ASSUME NEW q \in Procs PROVE ImageInv(q)'
    <3>1. ImageInv(q)
      BY DEF Disk
    <3>2. CASE q = p
      BY <1>1, <1>2, <1>3, <1>4, <1>5, <1>6, <3>1, <3>2 DEF Types, ProcType, CoordType,
         DiskType, BoundType, ImageInv, WholeFile, Dir
    <3>3. CASE q # p
      BY <1>1, <1>2, <1>3, <1>4, <1>5, <1>6, <3>1, <3>3 DEF Types, ProcType, CoordType,
         DiskType, BoundType, ImageInv, WholeFile, Dir
    <3> QED
      BY <3>2, <3>3
  <2> QED
    BY <2>1, <2>2, <2>3, <2>4 DEF Disk
<1> QED
  BY <1>7, <1>8, <1>9, <1>10, <1>11

\* A message of each process is read, to be XND_CKPT_DONE.
LEMMA Collecting ==
  ASSUME IInv, NEW p \in todo, CollectDone(p), pstate[p] = "PROC_CKPT_IN_PROGRESS",
         kpc' # "exited"
  PROVE  IInv'
<1> USE DEF IInv
<1>1. p \in Procs /\ p \in proc_list
  BY DEF Types, CoordType
<1>2. kpc = "collect" /\ UNCHANGED <<procVars, down, diskVars, boundVars>>
  BY DEF CollectDone
<1>3. Up(p) /\ up[p] # <<>> => up[p] = <<Done>> /\ ct[p] = "done" /\ down[p] = <<>> 
  BY <1>1 DEF Local, LinkInv
<1>4. PICK s \in {<<>>, <<Bye>>, <<Bye, Bye>>} :
        up' = [up EXCEPT ![p] = s]
  <2>1. up' = [up EXCEPT ![p] = IF up[p] = <<>> THEN up[p] ELSE Tail(up[p])]
    BY DEF CollectDone
  <2>2. up[p] \in {<<>>, <<Ready>>, <<Done>>, <<Bye>>, <<Bye, Bye>>, <<Ready, Bye, Bye>>,
                   <<Done, Bye, Bye>>}
    BY <1>1 DEF Local, UpInv
  <2>3. /\ Tail(<<Ready>>) = <<>> /\ Tail(<<Done>>) = <<>> /\ Tail(<<Bye>>) = <<>>
        /\ Tail(<<Bye, Bye>>) = <<Bye>> /\ Tail(<<Ready, Bye, Bye>>) = <<Bye, Bye>>
        /\ Tail(<<Done, Bye, Bye>>) = <<Bye, Bye>>
    OBVIOUS
  <2> QED
    BY <2>1, <2>2, <2>3
<1>5. s \in Seq(Message)
  BY <1>4, TrafficType
<1>6. Up(p) => up'[p] = <<>>
  <2>1. CASE up[p] = <<>>
    BY <2>1, <1>1 DEF CollectDone, Types, ProcType
  <2>2. CASE up[p] # <<>> /\ Up(p)
    <3>1. Tail(<<Done>>) = <<>>
      OBVIOUS
    <3> QED
      BY <2>2, <1>1, <1>3, <3>1 DEF CollectDone, Types, ProcType
  <2> QED
    BY <2>1, <2>2
<1>7. Head(<<Done>>) = Done
  OBVIOUS
<1>8. /\ todo' = todo \ {p} /\ kpc' = IF todo = {p} THEN "manifest" ELSE kpc
      /\ UNCHANGED <<back, proc_list, kepoch, knum, ready, forkVars>>
      /\ \/ /\ up[p] # <<>> /\ Head(up[p]).hdr = "CKPT_DONE"
            /\ pstate' = [pstate EXCEPT ![p] = "PROC_CKPT_COMPLETE"] /\ total' = total + 1
         \/ /\ Up(p) => up[p] = <<>>
            /\ pstate' = pstate /\ total' = total
      /\ todo = {p} => total' = knum
  BY <1>2, <1>3, <1>7, Headers DEF CollectDone, CoordDies
<1>9. /\ Cardinality(todo \ {p}) = Cardinality(todo) - 1 /\ Cardinality(todo) \in Nat
      /\ Cardinality(Procs) \in Nat /\ total \in Nat /\ ready \in Nat
  BY Sizes DEF Coord, Counters
<1>10. knum \in Nat /\ total + Cardinality(todo) <= knum
  BY <1>2, PeersFinite DEF Types, CoordType, Peers, Disk, DirInv
<1>11. todo = {p} => /\ total' = total + 1
                      /\ \A q \in proc_list : pstate'[q] = "PROC_CKPT_COMPLETE"
  <2>1. SUFFICES ASSUME todo = {p}
                 PROVE  /\ total' = total + 1
                        /\ \A q \in proc_list : pstate'[q] = "PROC_CKPT_COMPLETE"
    OBVIOUS
  <2>2. Cardinality(todo) = 1
    <3>1. todo \ {p} = {}
      BY <2>1
    <3> QED
      BY <1>9, <3>1, Sizes
  <2>3. total' = total + 1 /\ total + 1 = knum /\ pstate' = [pstate EXCEPT ![p] = "PROC_CKPT_COMPLETE"]
    BY <2>1, <2>2, <1>8, <1>9, <1>10
  <2>4. \A q \in proc_list \ todo : pstate[q] = "PROC_CKPT_COMPLETE"
    BY <2>2, <2>3, <1>2 DEF Disk, DirInv
  <2> QED
    BY <2>1, <2>3, <2>4 DEF Types, CoordType
<1>12. pstate' \in [Procs -> ProcState]
  BY <1>8 DEF Types, CoordType, ProcState
<1>13. up[p] # <<>> /\ Head(up[p]).hdr = "CKPT_DONE" => Head(up[p]) = Done
  BY <1>1, Headers DEF Local, UpInv
<1>14. back # "restart"
  BY <1>1, <1>2 DEF Coord, RestartInv, InRestart, Round, Dir
<1>15. /\ \A q \in Procs : q # p => pstate'[q] = pstate[q]
       /\ \/ /\ pstate'[p] = "PROC_CKPT_COMPLETE" /\ total' = total + 1
             /\ up[p] # <<>> /\ Head(up[p]) = Done
          \/ /\ pstate'[p] = pstate[p] /\ total' = total /\ (Up(p) => up[p] = <<>>)
  BY <1>1, <1>8, <1>13 DEF Types, CoordType
<1>16. /\ kpc' \in {"collect", "manifest"}
       /\ \A q \in proc_list \ todo' : q \in proc_list \ todo \/ q = p
  BY <1>2, <1>8
<1>17. Types'
  BY <1>1, <1>2, <1>4, <1>5, <1>8, <1>12, <1>16 DEF Types, ProcType, CoordType, DiskType,
     BoundType, CoordPoint
<1>18. ASSUME NEW q \in Procs PROVE Local(q)'
  <2>1. Local(q)
    OBVIOUS
  <2>2. CASE q = p
    <3>1. /\ life'[p] = life[p] /\ ct'[p] = ct[p] /\ ut'[p] = ut[p] /\ epoch'[p] = epoch[p]
          /\ num_peers'[p] = num_peers[p] /\ up'[p] = s /\ down'[p] = down[p]
      BY <1>1, <1>2, <1>4 DEF Types, ProcType
    <3>2. DownInv(p)' /\ LifeInv(p)'
      BY <2>1, <2>2, <3>1, <1>1, <1>2, <1>6, <1>8 DEF Local, DownInv, LifeInv
    <3>3. UpInv(p)'
      BY <3>1, <1>2, <1>4, <1>6 DEF UpInv
    <3>4. LinkInv(p)'
      BY <2>1, <2>2, <3>1, <1>1, <1>2, <1>3, <1>6, <1>8, <1>15 DEF Local, LinkInv
    <3> QED
      BY <2>2, <3>2, <3>3, <3>4 DEF Local
  <2>3. CASE q # p
    <3>1. /\ life'[q] = life[q] /\ ct'[q] = ct[q] /\ ut'[q] = ut[q] /\ epoch'[q] = epoch[q]
          /\ num_peers'[q] = num_peers[q] /\ up'[q] = up[q] /\ down'[q] = down[q]
          /\ pstate'[q] = pstate[q] /\ (q \in proc_list' <=> q \in proc_list)
      BY <1>1, <1>2, <1>3, <1>4, <1>5, <1>6, <1>8, <1>9, <1>10, <1>11, <1>12, <1>13,
         <1>14, <1>15, <1>16, <2>3 DEF Types, ProcType, CoordType
    <3> QED
      BY <1>2, <1>8, <2>1, <3>1 DEF Local, DownInv, UpInv, LifeInv, LinkInv
  <2> QED
    BY <2>2, <2>3
<1>19. Coord'
  <2>1. Counters'
    BY <1>1, <1>2, <1>3, <1>4, <1>5, <1>6, <1>8, <1>9, <1>10, <1>11, <1>12, <1>13,
       <1>14, <1>15, <1>16 DEF Coord, Counters
  <2>2. AtforkInv'
    BY <1>1, <1>2, <1>3, <1>4, <1>5, <1>6, <1>8, <1>9, <1>10, <1>11, <1>12, <1>13,
       <1>14, <1>15, <1>16 DEF Types, ProcType, CoordType, DiskType, BoundType, Coord,
       AtforkInv
  <2>3. RestartInv'
    BY <1>1, <1>2, <1>3, <1>4, <1>5, <1>6, <1>8, <1>9, <1>10, <1>11, <1>12, <1>13,
       <1>14, <1>15, <1>16 DEF Types, ProcType, CoordType, DiskType, BoundType, Coord,
       RestartInv, InRestart, Round, Dir
  <2>4. PhaseInv'
    BY <1>1, <1>2, <1>3, <1>4, <1>5, <1>6, <1>8, <1>9, <1>10, <1>11, <1>12, <1>13,
       <1>14, <1>15, <1>16 DEF Types, ProcType, CoordType, DiskType, BoundType, Coord,
       PhaseInv
  <2> QED
    BY <2>1, <2>2, <2>3, <2>4 DEF Coord
<1>20. Counting'
  <2>1. RoundsInv'
    BY <1>2, <1>8, <1>16 DEF Counting, RoundsInv, Round
  <2>2. ASSUME NEW q \in Procs PROVE EpochInv(q)'
    <3>1. EpochInv(q) /\ Ahead(q)' = Ahead(q)
      BY <1>1, <1>2, <1>15 DEF Counting, Ahead
    <3> QED
      BY <1>2, <1>8, <1>16, <3>1 DEF EpochInv
  <2> QED
    BY <2>1, <2>2 DEF Counting
<1>21. Disk'
  <2>1. DirInv'
    <3>1. /\ kepoch \in dirs /\ Cardinality(proc_list) = knum /\ manifest[kepoch] = {}
          /\ \A q \in Procs \ proc_list : image[kepoch][q].data = "none"
      BY <1>2 DEF Disk, DirInv, Dir
    <3>2. total' + Cardinality(todo') <= knum
      BY <1>8, <1>9, <1>10, <1>15
    <3>3. ASSUME total' + Cardinality(todo') = knum, NEW q \in proc_list \ todo'
          PROVE  pstate'[q] = "PROC_CKPT_COMPLETE"
      <4>1. total + Cardinality(todo) = knum /\ total' = total + 1
        BY <3>3, <1>8, <1>9, <1>10, <1>15
      <4>2. CASE q = p
        BY <4>1, <4>2, <1>9, <1>15
      <4>3. CASE q # p
        BY <3>3, <4>1, <4>3, <1>2, <1>15, <1>16 DEF Disk, DirInv, Types, CoordType
      <4> QED
        BY <4>2, <4>3
    <3>4. UNCHANGED <<proc_list, kepoch, knum, dirs, image, manifest>>
      BY <1>2, <1>8
    <3>5. \A q \in Procs \ proc_list' : image'[kepoch'][q].data = "none"
      BY <3>1, <3>4
    <3>6. /\ kepoch' \in dirs' /\ Cardinality(proc_list') <= knum' /\ manifest'[kepoch'] = {}
          /\ Cardinality(proc_list') = knum'
      BY <3>1, <3>4, <1>10
    <3> QED
      BY <1>16, <3>2, <3>3, <3>4, <3>5, <3>6 DEF DirInv, Dir
  <2>2. TruthInv'
    BY <1>2 DEF Disk, TruthInv, Whole
  <2>3. ASSUME NEW q \in Procs PROVE ListedInv(q)'
    BY <1>2 DEF Disk, ListedInv
  <2>4. ASSUME NEW q \in Procs PROVE ImageInv(q)'
    <3>1. ImageInv(q) /\ (q # p => up'[q] = up[q] /\ pstate'[q] = pstate[q])
      BY <1>4, <1>15 DEF Disk, Types, ProcType
    <3>2. CASE q # p
      BY <1>2, <1>8, <1>16, <3>1, <3>2 DEF ImageInv, WholeFile, Dir
    <3>3. CASE q = p /\ pstate'[p] = "PROC_CKPT_COMPLETE"
      BY <1>1, <1>2, <1>8, <1>15, <1>16, <3>1, <3>3 DEF ImageInv, WholeFile, Dir
    <3>4. CASE q = p /\ pstate'[p] = pstate[p]
      <4>1. up'[p] = <<>> \/ Head(up'[p]) = Bye
        BY <1>1, <1>4 DEF Types, ProcType
      <4>2. Bye # Done
        BY Headers
      <4> QED
        BY <1>1, <1>2, <1>8, <1>16, <3>1, <3>4, <4>1, <4>2 DEF ImageInv, WholeFile, Dir
    <3> QED
      BY <1>15, <3>2, <3>3, <3>4
  <2> QED
    BY <2>1, <2>2, <2>3, <2>4 DEF Disk
<1> QED
  BY <1>17, <1>18, <1>19, <1>20, <1>21

\* The manifest is written.
LEMMA WritingManifest ==
  ASSUME IInv, kpc = "manifest", NEW files,
         files = {p \in Procs : image[kepoch][p].data # "none"},
         Cardinality(files) = knum,
         manifest' = [manifest EXCEPT ![kepoch] = files],
         StartLoop("resume", proc_list, "unlink"),
         UNCHANGED <<back, proc_list, pstate, kepoch, knum, forkVars>>,
         UNCHANGED <<procVars, chanVars, dirs, image, boundVars>>
  PROVE  IInv'
<1> USE DEF IInv
<1>1. kpc = "manifest"
  OBVIOUS
<1>2. kepoch \in Epochs /\ kepoch \in Nat /\ kepoch < rounds
  BY <1>1, ConstantsAssumption DEF Types, CoordType, BoundType, Counting, RoundsInv,
     Round, Epochs
<1>3. /\ kpc' = IF proc_list = {} THEN "unlink" ELSE "resume"
      /\ todo' = proc_list /\ ready' = 0 /\ total' = 0
  BY DEF StartLoop
<1>4. /\ Cardinality(proc_list) \in Nat /\ Cardinality(proc_list) <= Cardinality(Procs)
      /\ Cardinality(Procs) \in Nat
  BY Sizes
<1>5. Cardinality(proc_list) = knum /\ files \subseteq proc_list /\ kepoch \in dirs
  BY <1>1 DEF Disk, DirInv, Dir
<1>6. files = proc_list
  BY <1>5, Sizes
<1>7. \A q \in proc_list : pstate[q] = "PROC_CKPT_COMPLETE"
  BY <1>1 DEF Coord, PhaseInv
<1>8. \A q \in Procs : Up(q) => \/ q \in proc_list /\ ct[q] = "done" /\ down[q] = <<>>
                               \/ ct[q] \in {"hello", "connect"}
  BY <1>1, <1>7 DEF Local, LinkInv, LifeInv
<1>9. /\ manifest' \in [Epochs -> SUBSET Procs] /\ manifest'[kepoch] = proc_list
      /\ \A e \in Epochs : e # kepoch => manifest'[e] = manifest[e]
  BY <1>2, <1>6 DEF Types, CoordType, DiskType
<1>10. \A q \in proc_list : image[kepoch][q].data # "none" 
  BY <1>6
<1>11. ~DiskFails => \A q \in proc_list : image[kepoch][q] = [data |-> "whole", peers |-> Cardinality(proc_list)] 
  BY <1>1, <1>5, <1>7 DEF Types, CoordType, Disk, ImageInv, WholeFile, Dir
<1>12. Types'
  BY <1>2, <1>3, <1>9, <1>10, <1>5, SMTT(30)
     DEF Types, ProcType, CoordType, DiskType, BoundType, CoordPoint
<1>13. ASSUME NEW q \in Procs PROVE Local(q)'
  <2>1. Local(q)
    OBVIOUS
  <2> QED
    BY <1>1, <1>2, <1>3, <1>4, <1>5, <1>6, <1>7, <1>8, <1>9, <1>10, <1>11, <2>1 DEF
       Types, ProcType, CoordType, Local, DownInv, UpInv, LifeInv, LinkInv, Writing
<1>14. Coord'
  <2>1. Counters'
    BY <1>1, <1>2, <1>3, <1>4, <1>5, <1>6, <1>7, <1>8, <1>9, <1>10, <1>11 DEF Coord,
       Counters
  <2>2. AtforkInv'
    BY <1>1, <1>2, <1>3, <1>4, <1>5, <1>6, <1>7, <1>8, <1>9, <1>10, <1>11 DEF Types,
       ProcType, CoordType, DiskType, BoundType, Coord, AtforkInv
  <2>3. RestartInv'
    BY <1>1, <1>2, <1>3, <1>4, <1>5, <1>6, <1>7, <1>8, <1>9, <1>10, <1>11 DEF Types,
       ProcType, CoordType, DiskType, BoundType, Coord, RestartInv, InRestart, Round,
       Dir
  <2>4. PhaseInv'
    BY <1>1, <1>2, <1>3, <1>4, <1>5, <1>6, <1>7, <1>8, <1>9, <1>10, <1>11 DEF Types,
       ProcType, CoordType, DiskType, BoundType, Coord, PhaseInv
  <2> QED
    BY <2>1, <2>2, <2>3, <2>4 DEF Coord
<1>15. Counting'
  <2>1. RoundsInv'
    BY <1>1, <1>2, <1>3, <1>4, <1>5, <1>6, <1>7, <1>8, <1>9, <1>10, <1>11 DEF Types,
       ProcType, CoordType, DiskType, BoundType, Counting, RoundsInv, Round
  <2>2. ASSUME NEW q \in Procs PROVE EpochInv(q)'
    BY <1>1, <1>2, <1>3, <1>4, <1>5, <1>6, <1>7, <1>8, <1>9, <1>10, <1>11 DEF Types,
       ProcType, CoordType, DiskType, BoundType, Counting, EpochInv, Ahead, Writing
  <2> QED
    BY <2>1, <2>2 DEF Counting
<1>16. Disk'
  <2>1. DirInv'
    BY <1>1, <1>2, <1>3, <1>4, <1>5, <1>6, <1>7, <1>8, <1>9, <1>10, <1>11 DEF Types,
       ProcType, CoordType, DiskType, BoundType, Disk, DirInv, Dir
  <2>2. TruthInv'
    BY <1>1, <1>2, <1>3, <1>4, <1>5, <1>6, <1>7, <1>8, <1>9, <1>10, <1>11 DEF Types,
       ProcType, CoordType, DiskType, BoundType, Disk, TruthInv, Whole
  <2>3. ASSUME NEW q \in Procs PROVE ListedInv(q)'
    BY <1>1, <1>2, <1>3, <1>4, <1>5, <1>6, <1>7, <1>8, <1>9, <1>10, <1>11 DEF Types,
       ProcType, CoordType, DiskType, BoundType, Disk, ListedInv
  <2>4. ASSUME NEW q \in Procs PROVE ImageInv(q)'
    BY <1>1, <1>2, <1>3, <1>4, <1>5, <1>6, <1>7, <1>8, <1>9, <1>10, <1>11 DEF Types,
       ProcType, CoordType, DiskType, BoundType, Disk, ImageInv, WholeFile, Dir
  <2> QED
    BY <2>1, <2>2, <2>3, <2>4 DEF Disk
<1> QED
  BY <1>12, <1>13, <1>14, <1>15, <1>16

\* The checkpoint is over.
LEMMA Ending ==
  ASSUME IInv, CheckpointEnd
  PROVE  IInv'
<1> USE DEF IInv
<1>1. /\ kpc = "unlink" /\ kepoch' = kepoch + 1 /\ kpc' = back
      /\ UNCHANGED <<procVars, chanVars, back, proc_list, pstate, knum, loopVars, forkVars, boundVars>>
  BY DEF CheckpointEnd
<1>2. kepoch \in Epochs /\ kepoch \in Nat /\ kepoch < rounds
  BY <1>1, ConstantsAssumption DEF Types, CoordType, BoundType, Counting, RoundsInv,
     Round, Epochs
<1>3. todo = {} /\ \A q \in proc_list : pstate[q] = "PROC_RUNNING"
  BY <1>1 DEF Coord, PhaseInv
<1>4. \/ UNCHANGED diskVars
      \/ kepoch - 1 \in Epochs /\ xnd_ckptdir_unlink(kepoch - 1)
  BY <1>1, <1>2, ConstantsAssumption DEF CheckpointEnd, Epochs
<1>5. /\ UNCHANGED <<image, manifest>> /\ dirs' \subseteq dirs
      /\ \A f \in dirs \ dirs' : manifest[f] = {} /\ \A q \in Procs : image[f][q].data = "none"
  BY <1>4, Removed DEF diskVars, NoFile
<1>6. \A q \in Procs : Up(q) => q \in proc_list \/ ct[q] \in {"hello", "connect"}
  BY <1>1 DEF Local, LifeInv
<1>7. ASSUME NEW q \in Procs, Up(q), ct[q] = "done"
      PROVE  epoch[q] \in Epochs /\ epoch[q] = kepoch
  <2>1. q \in proc_list
    BY <1>6, <1>7
  <2>2. Ahead(q)
    BY <2>1, <1>7, <1>3 DEF Ahead
  <2>3. epoch[q] + 1 = kepoch + 1
    BY <1>1, <1>3, <1>7, <2>1, <2>2 DEF Counting, EpochInv
  <2> QED
    BY <2>3, <1>2 DEF Types, ProcType
<1>8. ASSUME NEW q \in Procs, Up(q)
      PROVE  ct[q] \notin {"suspend", "write", "writing"} /\ (ct[q] = "ready" => down[q] = <<>>)
  BY <1>8, <1>6, <1>3 DEF Local, LinkInv
<1>9. back \in {"serve", "restart"} /\ kepoch + 1 \in Nat /\ kepoch + 1 # kepoch
  BY <1>2 DEF Types, CoordType
<1>10. Types'
  <2>1. DiskType'
    BY <1>5 DEF Types, DiskType
  <2> QED
    BY <1>1, <1>9, <2>1 DEF Types, ProcType, CoordType, BoundType, CoordPoint
<1>11. ASSUME NEW q \in Procs PROVE Local(q)'
  <2>1. Local(q)
    OBVIOUS
  <2> QED
    BY <1>1, <1>2, <1>3, <1>5, <1>6, <1>7, <1>8, <1>9, <2>1 DEF Types, ProcType,
       CoordType, Local, DownInv, UpInv, LifeInv, LinkInv, Writing
<1>12. Coord'
  <2>1. Counters'
    BY <1>1, <1>2, <1>3, <1>5, <1>6, <1>7, <1>8, <1>9 DEF Coord, Counters
  <2>2. AtforkInv'
    BY <1>1, <1>2, <1>3, <1>5, <1>6, <1>7, <1>8, <1>9 DEF Types, ProcType, CoordType,
       DiskType, BoundType, Coord, AtforkInv
  <2>3. RestartInv'
    BY <1>1, <1>2, <1>3, <1>5, <1>6, <1>7, <1>8, <1>9 DEF Types, ProcType, CoordType,
       DiskType, BoundType, Coord, RestartInv, InRestart, Round, Dir
  <2>4. PhaseInv'
    BY <1>1, <1>2, <1>3, <1>5, <1>6, <1>7, <1>8, <1>9 DEF Types, ProcType, CoordType,
       DiskType, BoundType, Coord, PhaseInv
  <2> QED
    BY <2>1, <2>2, <2>3, <2>4 DEF Coord
<1>13. Counting'
  <2>1. RoundsInv'
    BY <1>1, <1>2, <1>3, <1>5, <1>6, <1>7, <1>8, <1>9 DEF Types, ProcType, CoordType,
       DiskType, BoundType, Counting, RoundsInv, Round
  <2>2. ASSUME NEW q \in Procs PROVE EpochInv(q)'
    BY <1>1, <1>2, <1>3, <1>5, <1>6, <1>7, <1>8, <1>9 DEF Types, ProcType, CoordType,
       DiskType, BoundType, Counting, EpochInv, Ahead, Writing
  <2> QED
    BY <2>1, <2>2 DEF Counting
<1>14. Disk'
  <2>1. DirInv'
    BY <1>1, <1>2, <1>3, <1>5, <1>6, <1>7, <1>8, <1>9 DEF Types, ProcType, CoordType,
       DiskType, BoundType, Disk, DirInv, Dir
  <2>2. TruthInv'
    BY <1>1, <1>2, <1>3, <1>5, <1>6, <1>7, <1>8, <1>9 DEF Types, ProcType, CoordType,
       DiskType, BoundType, Disk, TruthInv, Whole
  <2>3. ASSUME NEW q \in Procs PROVE ListedInv(q)'
    BY <1>1, <1>2, <1>3, <1>5, <1>6, <1>7, <1>8, <1>9 DEF Types, ProcType, CoordType,
       DiskType, BoundType, Disk, ListedInv
  <2>4. ASSUME NEW q \in Procs PROVE ImageInv(q)'
    BY <1>1, <1>2, <1>3, <1>5, <1>6, <1>7, <1>8, <1>9 DEF Types, ProcType, CoordType,
       DiskType, BoundType, Disk, ImageInv, WholeFile, Dir
  <2> QED
    BY <2>1, <2>2, <2>3, <2>4 DEF Disk
<1> QED
  BY <1>10, <1>11, <1>12, <1>13, <1>14

\* The coordinator ends.
LEMMA CoordDying ==
  ASSUME IInv, CoordDies, ~CoordGone,
         \A p \in Procs : \/ ut'[p] = ut[p]
                          \/ ~Up(p) /\ ut[p] # "none" /\ ut'[p] = "none",
         ut' \in [Procs -> {"none", "app", "call", "fork", "forking", "held"}],
         up' = up \/ \E p \in proc_list :
                       up' = [up EXCEPT ![p] = IF @ = <<>> THEN @ ELSE Tail(@)],
         UNCHANGED <<life, ct, epoch, num_peers, down, diskVars, rounds>>, BoundType' 
  PROVE  IInv'
<1> USE DEF IInv
<1>1. /\ kpc' = "exited" /\ proc_list' = {} /\ todo' = {} /\ forker' = NoProc /\ child' = NoProc
      /\ UNCHANGED <<back, pstate, kepoch, knum, ready, total>>
  BY DEF CoordDies
<1>2. ASSUME NEW q \in Procs
      PROVE  \/ up'[q] = up[q]
             \/ up[q] # <<>> /\ up'[q] = Tail(up[q]) /\ life[q] # "absent"
  <2>1. CASE up' = up
    BY <2>1
  <2>2. ASSUME NEW p \in proc_list, up' = [up EXCEPT ![p] = IF @ = <<>> THEN @ ELSE Tail(@)]
        PROVE  \/ up'[q] = up[q]
               \/ up[q] # <<>> /\ up'[q] = Tail(up[q]) /\ life[q] # "absent"
    <3>1. q = p => life[q] # "absent"
      BY DEF Local, LifeInv
    <3>2. CASE q = p
      BY <2>2, <3>1, <3>2 DEF Types, ProcType
    <3>3. CASE q # p
      BY <2>2, <3>3 DEF Types, ProcType
    <3> QED
      BY <3>2, <3>3
  <2> QED
    BY <2>1, <2>2
<1>3. up' \in [Procs -> Seq(Message)]
  <2>1. CASE up' = up
    BY <2>1 DEF Types, ProcType
  <2>2. ASSUME NEW p \in proc_list, up' = [up EXCEPT ![p] = IF @ = <<>> THEN @ ELSE Tail(@)]
        PROVE  up' \in [Procs -> Seq(Message)]
    <3>1. p \in Procs /\ up[p] \in Seq(Message)
      BY DEF Types, ProcType, CoordType
    <3>2. (IF up[p] = <<>> THEN up[p] ELSE Tail(up[p])) \in Seq(Message)
      BY <3>1
    <3> QED
      BY <2>2, <3>1, <3>2 DEF Types, ProcType
  <2> QED
    BY <2>1, <2>2
<1>4. Cardinality(todo') = 0
  BY <1>1, Sizes
<1>5. Types'
  BY <1>1, <1>3, SMTT(30) DEF Types, ProcType, CoordType, DiskType, BoundType, CoordPoint
<1>6. ASSUME NEW q \in Procs PROVE Local(q)'
  <2>1. Local(q) /\ (ut'[q] = ut[q] \/ (~Up(q) /\ ut[q] # "none" /\ ut'[q] = "none"))
    OBVIOUS
  <2>2. DownInv(q)' /\ LinkInv(q)'
    BY <1>1, <2>1 DEF Local, DownInv, LinkInv
  <2>3. UpInv(q)'
    <3>1. /\ up[q] \in {<<>>, <<Ready>>, <<Done>>, <<Bye>>, <<Bye, Bye>>, <<Ready, Bye, Bye>>,
                        <<Done, Bye, Bye>>}
          /\ Up(q) => up[q] \in {<<>>, <<Ready>>, <<Done>>}
      BY <2>1 DEF Local, UpInv
    <3>2. /\ Tail(<<Ready>>) = <<>> /\ Tail(<<Done>>) = <<>> /\ Tail(<<Bye>>) = <<>>
          /\ Tail(<<Bye, Bye>>) = <<Bye>> /\ Tail(<<Ready, Bye, Bye>>) = <<Bye, Bye>>
          /\ Tail(<<Done, Bye, Bye>>) = <<Bye, Bye>>
      OBVIOUS
    <3> QED
      BY <1>2, <3>1, <3>2 DEF UpInv
  <2>4. LifeInv(q)'
    <3>1. up[q] = <<>> => up'[q] = <<>>
      BY <1>2
    <3> QED
      BY <1>1, <1>2, <2>1, <3>1 DEF Local, LifeInv
  <2> QED
    BY <2>2, <2>3, <2>4 DEF Local
<1>7. Coord'
  <2>1. Counters'
    BY <1>1, <1>4, Sizes DEF Coord, Counters
  <2> QED
    BY <1>1, <2>1 DEF Coord, AtforkInv, RestartInv, InRestart, PhaseInv, Round
<1>8. Counting'
  BY <1>1 DEF Counting, RoundsInv, EpochInv, Round
<1>9. Disk'
  BY <1>1 DEF Disk, DirInv, TruthInv, Whole, ListedInv, ImageInv, Dir
<1> QED
  BY <1>5, <1>6, <1>7, <1>8, <1>9

\* xnd_restart: the processes of a manifest come back, all others are absent.
LEMMA Restarting ==
  ASSUME IInv, NEW e \in Epochs, xnd_restart(e)
  PROVE  IInv'
<1> USE DEF IInv
<1> DEFINE S == {p \in manifest[e] : image[e][p].data = "whole"}
<1>1. /\ CoordGone /\ manifest[e] # {} /\ kpc' = "restart" /\ kepoch' = 0 /\ knum' = 0
      /\ restarts' = restarts + 1 /\ restarts < MaxRestarts
      /\ life' = [p \in Procs |-> IF p \in S THEN "up" ELSE "absent"]
      /\ ct' = [p \in Procs |-> IF p \in S THEN "connect" ELSE "off"]
      /\ ut' = [p \in Procs |-> IF p \in S THEN "held" ELSE "none"]
      /\ epoch' = [p \in Procs |-> IF p \in S THEN e ELSE 0]
      /\ num_peers' = [p \in Procs |-> IF p \in S THEN image[e][p].peers ELSE 0]
      /\ down' = [p \in Procs |-> <<>>]
      /\ up' = [p \in Procs |-> <<>>]
      /\ UNCHANGED <<back, proc_list, pstate, loopVars, forkVars, diskVars, rounds, calls,
                     faults>>
  BY DEF xnd_restart
<1> HIDE DEF S
<1>2. proc_list = {} /\ todo = {}
  BY <1>1 DEF Types, CoordType
<1>3. e \in Nat /\ rounds \in Nat /\ e < rounds
  BY <1>1, ConstantsAssumption DEF Counting, RoundsInv, Epochs, Types, BoundType
<1>4. \A p \in Procs : image[e][p].peers \in Peers
  BY DEF Types, DiskType, File
<1>5. Types'
  <2>1. ProcType'
    BY <1>1, <1>3, <1>4, PeersFinite, TrafficType DEF ProcType, CkptThreadPoint
  <2> QED
    BY <1>1, <1>2, <2>1, ConstantsAssumption, PeersFinite
       DEF Types, CoordType, DiskType, BoundType, CoordPoint
<1>6. ASSUME NEW q \in Procs PROVE Local(q)'
  BY <1>1, <1>2 DEF Local, DownInv, UpInv, LifeInv, LinkInv, Writing
<1>7. Coord'
  BY <1>1, <1>2 DEF Coord, Counters, AtforkInv, RestartInv, InRestart, PhaseInv, Dir
<1>8. Counting'
  <2>1. RoundsInv'
    BY <1>1, <1>3 DEF Counting, RoundsInv, Round
  <2>2. ASSUME NEW q \in Procs PROVE EpochInv(q)'
    <3>1. CASE q \in S
      BY <1>1, <1>2, <1>3, <3>1 DEF EpochInv, Writing
    <3>2. CASE q \notin S
      <4>1. ct'[q] = "off" /\ epoch'[q] = 0 /\ rounds' = rounds
        BY <1>1, <3>2
      <4> QED
        BY <1>1, <1>2, <1>3, <4>1 DEF EpochInv, Writing
    <3> QED
      BY <3>1, <3>2
  <2> QED
    BY <2>1, <2>2 DEF Counting
<1>9. Disk'
  BY <1>1, <1>2 DEF Disk, DirInv, TruthInv, Whole, ListedInv, ImageInv, Dir
<1> QED
  BY <1>5, <1>6, <1>7, <1>8, <1>9

\* The initial state satisfies the invariant.
LEMMA Initially == Init => IInv
<1> SUFFICES ASSUME Init PROVE IInv
  OBVIOUS
<1> USE DEF Init
<1>1. NoFile \in File /\ NoFile.data = "none"
  BY PeersFinite DEF NoFile, File
<1>2. Types
  <2>1. ProcType
    BY PeersFinite, TrafficType DEF ProcType, CkptThreadPoint
  <2>2. CoordType
    BY PeersFinite, ConstantsAssumption DEF CoordType, CoordPoint, ProcState
  <2>3. DiskType
    BY <1>1 DEF DiskType
  <2>4. BoundType
    BY ConstantsAssumption DEF BoundType
  <2> QED
    BY <2>1, <2>2, <2>3, <2>4 DEF Types
<1>3. ASSUME NEW p \in Procs PROVE Local(p)
  BY DEF Local, DownInv, UpInv, LifeInv, LinkInv, Writing
<1>4. Coord
  <2>1. Cardinality({}) = 0 /\ Cardinality(Procs) \in Nat
    BY FS_EmptySet, PeersFinite
  <2>2. Counters
    BY <2>1 DEF Counters
  <2>3. AtforkInv /\ RestartInv
    BY DEF AtforkInv, RestartInv, InRestart, Round
  <2>4. PhaseInv
    BY ConstantsAssumption DEF PhaseInv
  <2> QED
    BY <2>2, <2>3, <2>4 DEF Coord
<1>5. Counting
  BY DEF Counting, RoundsInv, EpochInv, Ahead, Round, Writing
<1>6. Disk
  BY DEF Disk, DirInv, Dir, TruthInv, Whole, ListedInv, ImageInv
<1> QED
  BY <1>2, <1>3, <1>4, <1>5, <1>6 DEF IInv

\* The coordinator ends in one of its own steps, or is killed.
LEMMA CoordEnding ==
  ASSUME IInv, CoordDies, ~CoordGone,
         UNCHANGED <<procVars, down, diskVars, rounds>>, BoundType',
         up' = up \/ \E p \in proc_list :
                       up' = [up EXCEPT ![p] = IF @ = <<>> THEN @ ELSE Tail(@)]
  PROVE  IInv'
<1>1. ut' \in [Procs -> {"none", "app", "call", "fork", "forking", "held"}]
  BY DEF IInv, Types, ProcType
<1> QED
  BY <1>1, CoordDying

\* The bounds are respected.
LEMMA Bounds ==
  ASSUME IInv
  PROVE  /\ UNCHANGED boundVars => BoundType'
         /\ calls < MaxCalls /\ calls' = calls + 1 /\ UNCHANGED <<rounds, faults, restarts>>
              => BoundType'
         /\ faults < MaxFaults /\ faults' = faults + 1 /\ UNCHANGED <<rounds, calls, restarts>>
              => BoundType'
BY ConstantsAssumption DEF IInv, Types, BoundType

\* Every step of a checkpoint thread keeps the invariant.
LEMMA CkptThreadStepKeeps ==
  ASSUME IInv, NEW p \in Procs, CkptThreadStep(p)
  PROVE  IInv'
<1>1. CASE ReceiveRequest(p)
  <2>1. CASE CoordGone
    <3>1. Up(p) /\ Dies(p) /\ up' = up /\ UNCHANGED <<coordVars, diskVars, boundVars>>
      BY <1>1, <2>1 DEF ReceiveRequest
    <3> QED
      BY <3>1, Bounds, Dying
  <2>2. CASE ~CoordGone
    BY <1>1, <2>2, Receiving
  <2> QED
    BY <2>1, <2>2
<1>2. CASE RequestEOF(p)
  BY <1>2, Losing
<1>3. CASE BarrierEOF(p)
  <2>1. Up(p) /\ Dies(p) /\ up' = up /\ UNCHANGED <<coordVars, diskVars, boundVars>>
    BY <1>3 DEF BarrierEOF
  <2> QED
    BY <2>1, Bounds, Dying
<1>4. CASE LeavePreckptBarrier(p)
  BY <1>4, LeavingPreckpt
<1>5. CASE SuspendUser(p)
  BY <1>5, Suspending
<1>6. CASE CreateImage(p)
  <2>1. CASE /\ epoch[p] \in dirs
             /\ image[epoch[p]][p].data = "none"
             /\ image' = [image EXCEPT ![epoch[p]][p].data = "partial"]
             /\ ct' = [ct EXCEPT ![p] = "writing"]
    BY <1>6, <2>1, Creating DEF CreateImage
  <2>2. CASE /\ DiskFails \/ epoch[p] \notin dirs \/ image[epoch[p]][p].data # "none"
             /\ ct' = [ct EXCEPT ![p] = "written"]
             /\ UNCHANGED image
    BY <1>6, <2>2, NotCreating DEF CreateImage
  <2> QED
    BY <1>6, <2>1, <2>2 DEF CreateImage
<1>7. CASE WriteImage(p)
  BY <1>7, Filling, NotFilling DEF WriteImage
<1>8. CASE EnterPostckptBarrier(p)
  <2>1. CASE CoordGone
    <3>1. Up(p) /\ Dies(p) /\ up' = up /\ UNCHANGED <<coordVars, diskVars, boundVars>>
      BY <1>8, <2>1 DEF EnterPostckptBarrier
    <3> QED
      BY <3>1, Bounds, Dying
  <2>2. CASE ~CoordGone
    BY <1>8, <2>2, Finishing
  <2> QED
    BY <2>1, <2>2
<1>9. CASE LeavePostckptBarrier(p)
  BY <1>9, LeavingPostckpt
<1>10. CASE ConnectRestart(p)
  BY <1>10, Connecting
<1>11. CASE ConnectFails(p)
  <2>1. Up(p) /\ Dies(p) /\ up' = up /\ UNCHANGED <<coordVars, diskVars, boundVars>>
    BY <1>11 DEF ConnectFails
  <2> QED
    BY <2>1, Bounds, Dying
<1>12. CASE LeaveRestartBarrier(p)
  BY <1>12, LeavingRestart
<1> QED
  BY <1>1, <1>2, <1>3, <1>4, <1>5, <1>6, <1>7, <1>8, <1>9, <1>10, <1>11, <1>12
     DEF CkptThreadStep

\* Every step of a user thread inside a call keeps the invariant.
LEMMA CallStepKeeps ==
  ASSUME IInv, NEW p \in Procs, CallStep(p)
  PROVE  IInv'
<1>1. CASE CallEOF(p)
  <2>1. CASE ut[p] = "call"
    BY <1>1, <2>1, Returning DEF CallEOF
  <2>2. CASE ut[p] = "fork"
    <3>1. Up(p) /\ Dies(p) /\ up' = up /\ UNCHANGED <<coordVars, diskVars, boundVars>>
      BY <1>1, <2>2 DEF CallEOF
    <3> QED
      BY <3>1, Bounds, Dying
  <2> QED
    BY <1>1, <2>1, <2>2 DEF CallEOF
<1>2. CASE ForkFails(p)
  BY <1>2, Returning DEF ForkFails
<1>3. CASE HelloEOF(p)
  <2>1. Up(p) /\ Dies(p) /\ up' = up /\ UNCHANGED <<coordVars, diskVars, boundVars>>
    BY <1>3 DEF HelloEOF
  <2> QED
    BY <2>1, Bounds, Dying
<1>4. ASSUME NEW c \in Procs, Fork(p, c) PROVE IInv'
  BY <1>4, Forking
<1> QED
  BY <1>1, <1>2, <1>3, <1>4 DEF CallStep

\* Commands, calls, deaths and restarts keep the invariant.
LEMMA EnvStepKeeps ==
  ASSUME IInv, EnvStep
  PROVE  IInv'
<1>1. CASE Command
  BY <1>1, Commanding
<1>2. CASE CoordKilled
  BY <1>2, Bounds, CoordEnding DEF CoordKilled
<1>3. ASSUME NEW e \in Epochs, xnd_restart(e) PROVE IInv'
  BY <1>3, Restarting
<1>4. ASSUME NEW p \in Procs, TranslateRequest(p) PROVE IInv'
  <2>1. /\ Up(p) /\ ut[p] = "app" /\ ut' = [ut EXCEPT ![p] = "call"]
        /\ calls < MaxCalls /\ calls' = calls + 1
        /\ UNCHANGED <<life, ct, epoch, num_peers, chanVars, coordVars, diskVars, rounds,
                       faults, restarts>>
    BY <1>4 DEF TranslateRequest, UserStarts
  <2> QED
    BY <2>1, Bounds, Calling
<1>5. ASSUME NEW p \in Procs, AtforkPrepare(p) PROVE IInv'
  <2>1. /\ Up(p) /\ ut[p] = "app" /\ ut' = [ut EXCEPT ![p] = "fork"]
        /\ calls < MaxCalls /\ calls' = calls + 1
        /\ UNCHANGED <<life, ct, epoch, num_peers, chanVars, coordVars, diskVars, rounds,
                       faults, restarts>>
    BY <1>5 DEF AtforkPrepare, UserStarts
  <2> QED
    BY <2>1, Bounds, Calling
<1>6. ASSUME NEW p \in Procs, Exit(p) PROVE IInv'
  <2>1. /\ Up(p) /\ Dies(p) /\ calls < MaxCalls /\ calls' = calls + 1
        /\ up' = up \/ up' = [up EXCEPT ![p] = @ \o <<Bye, Bye>>]
        /\ UNCHANGED <<coordVars, diskVars, rounds, faults, restarts>>
    BY <1>6 DEF Exit, UserStarts, Bye
  <2> QED
    BY <2>1, Bounds, Dying
<1>7. ASSUME NEW p \in Procs, Killed(p) PROVE IInv'
  <2>1. /\ Up(p) /\ Dies(p) /\ faults < MaxFaults /\ faults' = faults + 1 /\ up' = up
        /\ UNCHANGED <<coordVars, diskVars, rounds, calls, restarts>>
    BY <1>7 DEF Killed
  <2> QED
    BY <2>1, Bounds, Dying
<1>8. ASSUME NEW p \in Procs, Reaped(p) PROVE IInv'
  BY <1>8, Reaping
<1> QED
  BY <1>1, <1>2, <1>3, <1>4, <1>5, <1>6, <1>7, <1>8 DEF EnvStep

\* Every step of the coordinator keeps the invariant.
LEMMA CoordStepKeeps ==
  ASSUME IInv, CoordStep
  PROVE  IInv'
<1>1. CASE proc_list_filter
  BY <1>1, Filtering DEF proc_list_filter, Survivors
<1>2. CASE CoordFinished
  BY <1>2, Bounds, CoordEnding DEF CoordFinished
<1>3. CASE AtforkEOF
  BY <1>3, Bounds, CoordEnding DEF AtforkEOF
<1>4. CASE coord_collective_prepare
  BY <1>4, Preparing
<1>5. CASE SuspendPassEnd
  BY <1>5, PassEnding
<1>6. CASE xnd_ckptdir_create
  <2>1. CASE /\ kepoch \notin dirs
             /\ dirs' = dirs \cup {kepoch}
             /\ knum' = Cardinality(proc_list)
             /\ kpc' = "prestart"
    BY <1>6, <2>1, MakingDirectory DEF xnd_ckptdir_create
  <2>2. CASE kpc' = "discard" /\ UNCHANGED <<dirs, knum>>
    BY <1>6, <2>2, NotMakingDirectory DEF xnd_ckptdir_create, diskVars
  <2> QED
    BY <1>6, <2>1, <2>2 DEF xnd_ckptdir_create
<1>7. CASE PrepareStart
  <2>1. CASE Cardinality(Survivors) = knum
    BY <1>7, <2>1, Starting DEF PrepareStart
  <2>2. CASE Cardinality(Survivors) # knum
    BY <1>7, <2>2, Bounds, CoordEnding DEF PrepareStart
  <2> QED
    BY <2>1, <2>2
<1>8. CASE ReducePoll
  BY <1>8, Filtering DEF ReducePoll
<1>9. CASE ReduceReady
  <2>1. CASE Cardinality(proc_list) = knum
    BY <1>9, <2>1, Reducing DEF ReduceReady
  <2>2. CASE Cardinality(proc_list) # knum
    BY <1>9, <2>2, Bounds, CoordEnding DEF ReduceReady
  <2> QED
    BY <2>1, <2>2
<1>10. CASE coord_write_ckpt_manifest
  <2> DEFINE files == {p \in Procs : image[kepoch][p].data # "none"}
  <2>1. CASE Cardinality(files) = knum /\ ~CoordDies
    <3>1. /\ kpc = "manifest" /\ manifest' = [manifest EXCEPT ![kepoch] = files]
          /\ StartLoop("resume", proc_list, "unlink")
          /\ UNCHANGED <<back, proc_list, pstate, kepoch, knum, forkVars>>
          /\ UNCHANGED <<procVars, chanVars, dirs, image, boundVars>>
      BY <1>10, <2>1 DEF coord_write_ckpt_manifest
    <3>2. \E S : /\ S = files /\ Cardinality(S) = knum
                 /\ manifest' = [manifest EXCEPT ![kepoch] = S]
      BY <2>1, <3>1
    <3> QED
      BY <3>1, <3>2, WritingManifest
  <2>2. CASE CoordDies
    <3>1. kpc = "manifest" /\ kpc' \notin {"resume", "unlink"}
      BY <1>10, <2>2 DEF coord_write_ckpt_manifest, CoordDies
    <3>2. UNCHANGED <<procVars, chanVars, diskVars, boundVars>>
      BY <1>10, <3>1 DEF coord_write_ckpt_manifest, StartLoop, diskVars
    <3> QED
      BY <2>2, <3>1, <3>2, Bounds, CoordEnding DEF CoordGone, chanVars, boundVars
  <2> QED
    BY <1>10, <2>1, <2>2 DEF coord_write_ckpt_manifest
<1>11. CASE CheckpointEnd
  BY <1>11, Ending
<1>12. CASE RestartPrepare
  <2>1. CASE Cardinality(Survivors) = knum
    BY <1>12, <2>1, Resuming DEF RestartPrepare
  <2>2. CASE Cardinality(Survivors) # knum
    BY <1>12, <2>2, Bounds, CoordEnding DEF RestartPrepare
  <2> QED
    BY <2>1, <2>2
<1>13. CASE RestartBails
  BY <1>13, Bounds, CoordEnding DEF RestartBails
<1>14. ASSUME NEW p \in Procs, coord_wait_for_msg(p) PROVE IInv'
  <2>1. CASE up[p] = <<>> \/ Head(up[p]).hdr = "EXIT"
    BY <1>14, <2>1, Removing DEF coord_wait_for_msg
  <2>2. CASE ~(up[p] = <<>> \/ Head(up[p]).hdr = "EXIT")
    BY <1>14, <2>2, Bounds, CoordEnding DEF coord_wait_for_msg
  <2> QED
    BY <2>1, <2>2
<1>15. ASSUME NEW p \in Procs, coord_send_translation(p) PROVE IInv'
  <2>1. CASE Up(p)
    BY <1>15, <2>1, Returning DEF coord_send_translation
  <2>2. CASE ~Up(p)
    <3>1. /\ CoordDies /\ ~CoordGone /\ ut' = [ut EXCEPT ![p] = "none"] /\ ut[p] = "call"
          /\ up' = up /\ UNCHANGED <<life, ct, epoch, num_peers, down, diskVars, rounds>>
          /\ UNCHANGED boundVars
      BY <1>15, <2>2 DEF coord_send_translation
    <3>2. /\ \A q \in Procs : ut'[q] = ut[q] \/ (~Up(q) /\ ut[q] # "none" /\ ut'[q] = "none")
          /\ ut' \in [Procs -> {"none", "app", "call", "fork", "forking", "held"}]
      BY <2>2, <3>1 DEF IInv, Types, ProcType
    <3> QED
      BY <3>1, <3>2, Bounds, CoordDying
  <2> QED
    BY <2>1, <2>2
<1>16. ASSUME NEW p \in Procs, coord_atfork(p) PROVE IInv'
  <2>1. CASE Up(p) /\ p \in proc_list
    BY <1>16, <2>1, Answering DEF coord_atfork
  <2>2. CASE ~(Up(p) /\ p \in proc_list)
    <3>1. /\ CoordDies /\ ~CoordGone /\ ut' = [ut EXCEPT ![p] = "none"] /\ ut[p] = "fork"
          /\ up' = up /\ UNCHANGED <<life, ct, epoch, num_peers, down, diskVars, rounds>>
          /\ UNCHANGED boundVars
      BY <1>16, <2>2 DEF coord_atfork
    <3>2. ~Up(p)
      BY <2>2, <3>1 DEF IInv, Local, LifeInv
    <3>3. /\ \A q \in Procs : ut'[q] = ut[q] \/ (~Up(q) /\ ut[q] # "none" /\ ut'[q] = "none")
          /\ ut' \in [Procs -> {"none", "app", "call", "fork", "forking", "held"}]
      BY <3>1, <3>2 DEF IInv, Types, ProcType
    <3> QED
      BY <3>1, <3>3, Bounds, CoordDying
  <2> QED
    BY <2>1, <2>2
<1>17. ASSUME NEW c \in Procs, AtforkChild(c) PROVE IInv'
  <2>1. CASE ~CoordDies
    BY <1>17, <2>1, Greeting
  <2>2. CASE CoordDies
    <3>1. kpc' # "serve" /\ kpc = "atfork"
      BY <1>17, <2>2 DEF AtforkChild, CoordDies
    <3>2. UNCHANGED <<procVars, chanVars, diskVars, boundVars>>
      BY <1>17, <3>1 DEF AtforkChild, procVars
    <3> QED
      BY <2>2, <3>1, <3>2, Bounds, CoordEnding DEF CoordGone, chanVars, boundVars
  <2> QED
    BY <2>1, <2>2
<1>18. ASSUME NEW p \in Procs, SuspendAsk(p) PROVE IInv'
  <2>1. CASE Up(p)
    BY <1>18, <2>1, Asking DEF SuspendAsk
  <2>2. CASE ~Up(p)
    BY <1>18, <2>2, Bounds, CoordEnding DEF SuspendAsk
  <2> QED
    BY <2>1, <2>2
<1>19. ASSUME NEW p \in Procs, SuspendAnswer(p) PROVE IInv'
  BY <1>19, Hearing DEF SuspendAnswer
<1>20. ASSUME NEW p \in Procs, SuspendOther(p) PROVE IInv'
  BY <1>20, Passing DEF SuspendOther
<1>21. ASSUME NEW p \in Procs, ReleasePreckpt(p) PROVE IInv'
  <2>1. CASE Up(p) /\ pstate[p] = "PROC_READY_FOR_CKPT"
    BY <1>21, <2>1, OpeningPreckpt DEF ReleasePreckpt, coord_release_barrier, Start
  <2>2. CASE ~(Up(p) /\ pstate[p] = "PROC_READY_FOR_CKPT")
    BY <1>21, <2>2, Bounds, CoordEnding DEF ReleasePreckpt, coord_release_barrier
  <2> QED
    BY <2>1, <2>2
<1>22. ASSUME NEW p \in Procs, CollectDone(p) PROVE IInv'
  <2>1. CASE pstate[p] = "PROC_CKPT_IN_PROGRESS" /\ kpc' # "exited"
    BY <1>22, <2>1, Collecting DEF CollectDone
  <2>2. CASE pstate[p] # "PROC_CKPT_IN_PROGRESS" \/ kpc' = "exited"
    <3>1. kpc = "collect" /\ CoordDies /\ UNCHANGED <<procVars, down, diskVars, boundVars>>
      BY <1>22, <2>2 DEF CollectDone
    <3>2. p \in proc_list /\ up' = [up EXCEPT ![p] = IF @ = <<>> THEN @ ELSE Tail(@)]
      BY <1>22 DEF CollectDone, IInv, Types, CoordType
    <3> QED
      BY <3>1, <3>2, Bounds, CoordEnding
  <2> QED
    BY <2>1, <2>2
<1>23. ASSUME NEW p \in Procs, ReleasePostckpt(p) PROVE IInv'
  <2>1. CASE Up(p) /\ pstate[p] = "PROC_CKPT_COMPLETE"
    BY <1>23, <2>1, OpeningPostckpt DEF ReleasePostckpt, coord_release_barrier, Resume
  <2>2. CASE ~(Up(p) /\ pstate[p] = "PROC_CKPT_COMPLETE")
    BY <1>23, <2>2, Bounds, CoordEnding DEF ReleasePostckpt, coord_release_barrier
  <2> QED
    BY <2>1, <2>2
<1>24. ASSUME NEW p \in Procs, ReleaseRestart(p) PROVE IInv'
  <2>1. CASE Up(p) /\ pstate[p] = "PROC_RESTART_IN_PROGRESS"
    BY <1>24, <2>1, OpeningRestart DEF ReleaseRestart, coord_release_barrier, Go
  <2>2. CASE ~(Up(p) /\ pstate[p] = "PROC_RESTART_IN_PROGRESS")
    BY <1>24, <2>2, Bounds, CoordEnding DEF ReleaseRestart, coord_release_barrier
  <2> QED
    BY <2>1, <2>2
<1>25. ASSUME NEW e \in Epochs, UnlinkFile(e) PROVE IInv'
  BY <1>25, RemovingFile
<1>26. CASE CheckpointFailed
  BY <1>26, Discarding
<1> QED
  BY <1>1, <1>2, <1>3, <1>4, <1>5, <1>6, <1>7, <1>8, <1>9, <1>10, <1>11, <1>12, <1>13,
     <1>14, <1>15, <1>16, <1>17, <1>18, <1>19, <1>20, <1>21, <1>22, <1>23, <1>24, <1>25,
     <1>26 DEF CoordStep

\* A step that changes nothing keeps the invariant.
LEMMA Stuttering == ASSUME IInv, UNCHANGED vars PROVE IInv'
<1> USE DEF IInv, vars
<1>1. Types'
  BY DEF Types, ProcType, CoordType, DiskType, BoundType
<1>2. ASSUME NEW p \in Procs PROVE Local(p)'
  BY DEF Local, DownInv, UpInv, LifeInv, LinkInv
<1>3. Coord'
  BY DEF Coord, Counters, AtforkInv, RestartInv, InRestart, PhaseInv
<1>4. Counting'
  BY DEF Counting, RoundsInv, EpochInv, Ahead
<1>5. Disk'
  BY DEF Disk, DirInv, TruthInv, Whole, ListedInv, ImageInv, WholeFile
<1> QED
  BY <1>1, <1>2, <1>3, <1>4, <1>5

\* The invariant holds in every reachable state.
THEOREM Inductive == Spec => []IInv
<1>1. ASSUME IInv, [Next]_vars PROVE IInv'
  BY <1>1, CoordStepKeeps, EnvStepKeeps, CkptThreadStepKeeps, CallStepKeeps, Stuttering
     DEF Next
<1> QED
  BY Initially, <1>1, PTL DEF Spec

\* TypeOK of the model: every variable keeps its kind, the epochs stay below the
\* number of commands, the loop counters of the coordinator below the number of
\* processes, and a connection holds at most two messages to a process and three
\* from it.
THEOREM TypeCorrect == Spec => []TypeOK
<1>1. IInv => TypeOK
  <2> SUFFICES ASSUME IInv PROVE TypeOK
    OBVIOUS
  <2> USE DEF IInv
  <2>1. \A p \in Procs : epoch[p] \in Epochs
    BY ConstantsAssumption DEF Types, ProcType, BoundType, Counting, EpochInv, Epochs
  <2>2. kepoch \in Epochs
    BY ConstantsAssumption DEF Types, CoordType, BoundType, Counting, RoundsInv, Epochs
  <2>3. ASSUME NEW p \in Procs
        PROVE  /\ Len(down[p]) <= 2 /\ \A i \in DOMAIN down[p] : down[p][i] \in Message
               /\ Len(up[p]) <= 3 /\ \A i \in DOMAIN up[p] : up[p][i] \in Message
    <3>1. down[p] \in Seq(Message) /\ up[p] \in Seq(Message)
      BY DEF Types, ProcType
    <3>2. Len(down[p]) <= 2
      <4>1. \/ down[p] \in {<<>>, <<Request>>, <<Resume>>, <<Go>>}
            \/ down[p] \in {<<Resume, Request>>, <<Go, Request>>}
            \/ \E n \in Peers : down[p] = <<Start(n)>>
        BY DEF Types, ProcType, CkptThreadPoint, Local, DownInv, Writing
      <4>2. CASE down[p] = <<>>
        BY <4>2
      <4>3. CASE down[p] = <<Request>>
        BY <4>3
      <4>4. CASE down[p] = <<Resume>>
        BY <4>4
      <4>5. CASE down[p] = <<Go>>
        BY <4>5
      <4>6. CASE down[p] = <<Resume, Request>>
        BY <4>6
      <4>7. CASE down[p] = <<Go, Request>>
        BY <4>7
      <4>8. ASSUME NEW n \in Peers, down[p] = <<Start(n)>> PROVE Len(down[p]) <= 2
        BY <4>8
      <4> QED
        BY <4>1, <4>2, <4>3, <4>4, <4>5, <4>6, <4>7, <4>8
    <3>3. Len(up[p]) <= 3
      <4>1. up[p] \in {<<>>, <<Ready>>, <<Done>>, <<Bye>>, <<Bye, Bye>>, <<Ready, Bye, Bye>>,
                       <<Done, Bye, Bye>>}
        BY DEF Local, UpInv
      <4>2. CASE up[p] = <<>>
        BY <4>2
      <4>3. CASE up[p] = <<Ready>>
        BY <4>3
      <4>4. CASE up[p] = <<Done>>
        BY <4>4
      <4>5. CASE up[p] = <<Bye>>
        BY <4>5
      <4>6. CASE up[p] = <<Bye, Bye>>
        BY <4>6
      <4>7. CASE up[p] = <<Ready, Bye, Bye>>
        BY <4>7
      <4>8. CASE up[p] = <<Done, Bye, Bye>>
        BY <4>8
      <4> QED
        BY <4>1, <4>2, <4>3, <4>4, <4>5, <4>6, <4>7, <4>8
    <3> QED
      BY <3>1, <3>2, <3>3
  <2>4. ready \in Peers /\ total \in Peers
    BY Sizes DEF Coord, Counters, Peers
  <2> QED
    BY <2>1, <2>2, <2>3, <2>4
       DEF TypeOK, Types, ProcType, CoordType, DiskType, BoundType
<1> QED
  BY Inductive, <1>1, PTL

\* What enter_coord_barrier and wait_for_ckpt_request_from_coord treat as an error
\* does not happen: a process finds the message it waits for, whoever dies, forks or
\* restarts, and although the coordinator may be a round ahead.
THEOREM MessagesAreExpected == Spec => []MessagesExpected
<1>1. ASSUME IInv PROVE MessagesExpected
  <2>1. SUFFICES ASSUME NEW p \in Procs, Up(p), down[p] # <<>>
                 PROVE  /\ ct[p] = "listen" => Head(down[p]).hdr = "CKPT_REQUEST"
                        /\ ct[p] \in DOMAIN Expected => Head(down[p]).hdr = Expected[ct[p]]
    BY DEF MessagesExpected
  <2>2. DownInv(p)
    BY <1>1 DEF IInv, Local
  <2>3. /\ DOMAIN Expected = {"ready", "done", "rwait"}
        /\ Expected["ready"] = "CKPT_START" /\ Expected["done"] = "RESUME_AFTER_CKPT"
        /\ Expected["rwait"] = "RESUME_AFTER_RESTART"
    BY DEF Expected
  <2>4. CASE ct[p] = "listen"
    BY <2>1, <2>2, <2>3, <2>4, Headers DEF DownInv
  <2>5. CASE ct[p] = "ready"
    BY <2>1, <2>2, <2>3, <2>5, Headers DEF DownInv
  <2>6. CASE ct[p] = "done"
    BY <2>1, <2>2, <2>3, <2>6, Headers DEF DownInv
  <2>7. CASE ct[p] = "rwait"
    BY <2>1, <2>2, <2>3, <2>7, Headers DEF DownInv
  <2> QED
    BY <2>3, <2>4, <2>5, <2>6, <2>7
<1> QED
  BY Inductive, <1>1, PTL

\* xnd_lib.c and xnd_coord.c count the epochs each on their own; a process that
\* writes an image writes it into the directory the coordinator made.
THEOREM EpochsAgree == Spec => []EpochAgreement
<1>1. ASSUME IInv PROVE EpochAgreement
  <2>1. SUFFICES ASSUME NEW p \in proc_list, Up(p), ct[p] \in Writing
                 PROVE  epoch[p] = kepoch
    BY DEF EpochAgreement, Writing
  <2>2. p \in Procs /\ pstate[p] \in ProcState
    BY <1>1 DEF IInv, Types, CoordType
  <2>3. pstate[p] = "PROC_CKPT_IN_PROGRESS"
    BY <1>1, <2>1, <2>2 DEF IInv, Local, LinkInv, Writing, ProcState
  <2>4. kpc \in {"start", "reduce", "collect", "manifest", "resume"}
    BY <1>1, <2>3 DEF IInv, Coord, PhaseInv
  <2>5. kpc = "resume" => p \in todo
    BY <1>1, <2>3 DEF IInv, Coord, PhaseInv
  <2> QED
    BY <1>1, <2>1, <2>2, <2>4, <2>5 DEF IInv, Counting, EpochInv, Ahead, Writing
<1> QED
  BY Inductive, <1>1, PTL

\* No user thread goes on after a checkpoint before the manifest lists the image of
\* its process.
THEOREM NoneResumesEarly == Spec => NoEarlyResume
<1> DEFINE Resumes == \A p \in Procs : ct[p] # "rwait" /\ ut[p] = "held" /\ ut'[p] = "app"
                                         => p \in manifest[epoch[p]]
<1>1. ASSUME IInv, [Next]_vars PROVE [Resumes]_vars
  <2>1. SUFFICES ASSUME NEW p \in Procs, ct[p] # "rwait", ut[p] = "held", ut'[p] = "app"
                 PROVE  p \in manifest[epoch[p]]
    OBVIOUS
  <2>2. ut \in [Procs -> {"none", "app", "call", "fork", "forking", "held"}]
    BY <1>1 DEF IInv, Types, ProcType
  <2>3. ASSUME NEW q \in Procs, LeavePostckptBarrier(q) PROVE p \in manifest[epoch[p]]
    <3>1. q = p
      BY <2>1, <2>2, <2>3 DEF LeavePostckptBarrier
    <3> QED
      BY <1>1, <2>3, <3>1 DEF LeavePostckptBarrier, Released, IInv, Disk, ListedInv
  <2>4. ASSUME NEW q \in Procs, CkptThreadStep(q) \/ CallStep(q), ~LeavePostckptBarrier(q)
        PROVE  FALSE
    <3>1. ~LeaveRestartBarrier(q)
      BY <2>1, <2>2 DEF LeaveRestartBarrier, Released
    <3>2. CASE CkptThreadStep(q)
      BY <2>1, <2>2, <2>4, <3>1, <3>2 DEF CkptThreadStep, ReceiveRequest, RequestEOF,
         BarrierEOF, LeavePreckptBarrier, SuspendUser, CreateImage, WriteImage,
         EnterPostckptBarrier, ConnectRestart, ConnectFails, Dies
    <3>3. CASE CallStep(q)
      BY <2>1, <2>2, <3>3 DEF CallStep, CallEOF, ForkFails, HelloEOF, Fork, Dies
    <3> QED
      BY <2>4, <3>2, <3>3
  <2>5. CASE CoordStep
    <3>1. ut' # ut
      BY <2>1, <2>2
    <3>2. ~(\/ proc_list_filter \/ CoordFinished \/ AtforkEOF
            \/ coord_collective_prepare \/ SuspendPassEnd \/ xnd_ckptdir_create
            \/ PrepareStart \/ ReducePoll \/ ReduceReady \/ coord_write_ckpt_manifest
            \/ CheckpointEnd \/ CheckpointFailed \/ RestartPrepare \/ RestartBails
            \/ \E e \in Epochs : UnlinkFile(e))
      BY <3>1 DEF UnlinkFile, CheckpointFailed, proc_list_filter, CoordFinished, AtforkEOF, coord_collective_prepare,
         SuspendPassEnd, xnd_ckptdir_create, PrepareStart, ReducePoll, ReduceReady,
         coord_write_ckpt_manifest, CheckpointEnd, RestartPrepare, RestartBails
    <3>3. ASSUME NEW q \in Procs
          PROVE  ~(\/ coord_wait_for_msg(q) \/ SuspendAsk(q) \/ SuspendAnswer(q)
                   \/ SuspendOther(q) \/ ReleasePreckpt(q) \/ CollectDone(q)
                   \/ ReleasePostckpt(q) \/ ReleaseRestart(q))
      BY <3>1 DEF coord_wait_for_msg, SuspendAsk, SuspendAnswer, SuspendOther,
         ReleasePreckpt, CollectDone, ReleasePostckpt, ReleaseRestart,
         coord_release_barrier
    <3>4. ASSUME NEW q \in Procs
          PROVE  ~(coord_send_translation(q) \/ coord_atfork(q))
      BY <2>1, <2>2 DEF coord_send_translation, coord_atfork
    <3>5. ASSUME NEW q \in Procs, AtforkChild(q)
          PROVE  FALSE
      <4>1. q = p /\ Up(q) /\ kpc = "atfork" /\ child = q /\ child # NoProc
        BY <2>1, <2>2, <3>5, ConstantsAssumption DEF AtforkChild
      <4> QED
        BY <1>1, <2>1, <4>1 DEF IInv, Coord, AtforkInv, Local, LifeInv
    <3> QED
      BY <2>5, <3>2, <3>3, <3>4, <3>5 DEF CoordStep
  <2>6. CASE EnvStep
    BY <2>1, <2>2, <2>6 DEF EnvStep, Command, CoordKilled, xnd_restart, TranslateRequest,
       AtforkPrepare, UserStarts, Exit, Killed, Reaped, Dies
  <2>7. CASE UNCHANGED vars
    BY <2>1, <2>7 DEF vars
  <2> QED
    BY <1>1, <2>3, <2>4, <2>5, <2>6, <2>7 DEF Next
<1> QED
  BY Inductive, <1>1, PTL DEF Spec, NoEarlyResume

-----------------------------------------------------------------------------
(* What a computation can be restarted from *)

\* No checkpoint is completed for which nobody was left.
NeverEmpty == kpc = "unlink" => manifest[kepoch] # {}

\* Processes of a restart that have not connected yet.
Waiting == {q \in Procs : Up(q) /\ ct[q] = "connect"}

\* Children that have not been registered yet.
Newborn == {p \in Procs : Up(p) /\ ct[p] = "hello"}

\* Processes that are told to resume and have not counted yet.
Told == {p \in Procs : Up(p) /\ ct[p] = "done" /\ down[p] # <<>>}

\* The directory before the coordinator's epoch is there, until that of its epoch is
\* complete; each process has one that is recent enough, also when it has ended; and
\* where there is a manifest at all, there is a directory to restart from.
KeptInv ==
  /\ ~CoordGone /\ kepoch > 0 /\ kpc # "unlink" => Restartable(kepoch - 1)
  /\ kpc \in {"resume", "unlink"} => Restartable(kepoch)
  /\ \A p \in Procs : epoch[p] > 0 =>
       \E e \in Epochs : e >= epoch[p] - 1 /\ Restartable(e)
  /\ \A p \in Told : \E e \in Epochs : e >= epoch[p] /\ Restartable(e)
  /\ \A e \in Epochs : manifest[e] # {} => \E f \in Epochs : Restartable(f)

\* Before its first process has told the epoch, a restart does not touch the disk; a
\* coordinator that counts from 0 otherwise has seen no manifest yet.
Untold == InRestart /\ kpc \in {"restart", "prepare"} /\ proc_list = {}

FirstInv ==
  ~CoordGone /\ kepoch = 0 /\ kpc \notin {"resume", "unlink"} =>
    Untold \/ \A e \in Epochs : manifest[e] = {}

\* No process, ended or not, is ahead of the coordinator, but for one it has
\* just released, and before the first process of a restart tells the epoch.
AgeInv ==
  ~CoordGone => \A p \in Procs :
    \/ epoch[p] <= kepoch
    \/ kpc \in {"resume", "unlink"} /\ epoch[p] = kepoch + 1
    \/ Untold

\* A process that has still to connect finds its manifest as it was, and no
\* process comes from another epoch.
BackInv ==
  InRestart =>
    /\ kpc # "unlink"
    /\ \A q \in Waiting :
         /\ Restartable(epoch[q])
         /\ \A p \in Procs : epoch[p] <= epoch[q] + 1
         /\ kepoch = epoch[q] + 1 \/ Untold

\* All of it for a disk that does not fail.
RecInv == ~DiskFails /\ KeptInv /\ FirstInv /\ AgeInv /\ BackInv

\* What can be restarted from stays so.
DiskKept == UNCHANGED manifest /\ \A e \in Epochs : Restartable(e) => Restartable(e)'

\* A step that concerns neither the epochs nor the coordinator keeps it ...
LEMMA KeptAside ==
  ASSUME IInv, RecInv, UNCHANGED <<epoch, kpc, back, proc_list, kepoch>>, DiskKept,
         Waiting' \subseteq Waiting, Told' \subseteq Told
  PROVE  RecInv'
<1> USE DEF RecInv, DiskKept
<1>1. kepoch \in Nat /\ epoch \in [Procs -> Nat] /\ kepoch <= rounds /\ rounds \in 0..MaxRounds
  BY DEF IInv, Types, CoordType, ProcType, Counting, RoundsInv, BoundType
<1>2. kepoch \in Epochs /\ (kepoch > 0 => kepoch - 1 \in Epochs)
  BY <1>1, ConstantsAssumption DEF Epochs
<1>3. KeptInv'
  BY <1>2 DEF KeptInv, CoordGone
<1>4. FirstInv' /\ AgeInv'
  BY DEF FirstInv, AgeInv, Untold, InRestart, CoordGone
<1>5. BackInv'
  <2>1. \A q \in Waiting : epoch[q] \in Epochs
    BY <1>1, ConstantsAssumption DEF Waiting, IInv, Counting, EpochInv, Epochs
  <2> QED
    BY <2>1 DEF BackInv, InRestart, Untold
<1> QED
  BY <1>3, <1>4, <1>5

\* ... and so does the end of the coordinator ...
CoordEnds == kpc' = "exited" /\ UNCHANGED <<epoch, image, manifest>> /\ Told' = Told

LEMMA KeptAtEnd ==
  ASSUME RecInv, CoordEnds
  PROVE  RecInv'
BY DEF RecInv, CoordEnds, CoordGone, KeptInv, FirstInv, AgeInv, BackInv, InRestart, Round,
   Restartable, Whole

\* ... and any of its steps that neither enters a restart nor ends a checkpoint.
CoordMoves ==
  /\ ~CoordGone
  /\ UNCHANGED <<epoch, image, manifest, kepoch>>
  /\ Waiting' \subseteq Waiting
  /\ \A p \in Told' : p \in Told \/ (kpc = "resume" /\ epoch[p] = kepoch)
  /\ InRestart' => InRestart /\ kpc' # "unlink"
  /\ kpc \in {"resume", "unlink"} <=> kpc' \in {"resume", "unlink"}
  /\ kpc = "unlink" => kpc' = "unlink"
  /\ Untold => Untold'

LEMMA KeptOnMove ==
  ASSUME IInv, RecInv, CoordMoves
  PROVE  RecInv'
<1> USE DEF RecInv, CoordMoves
<1>1. \A e : Restartable(e)' <=> Restartable(e)
  BY DEF Restartable, Whole
<1>2. KeptInv'
  <2>1. kpc = "resume" => kepoch \in Epochs /\ kepoch \in Nat
    BY ConstantsAssumption DEF IInv, Types, CoordType, BoundType, Counting, RoundsInv, Round,
       Epochs
  <2>2. \A p \in Told' : \E e \in Epochs : e >= epoch[p] /\ Restartable(e)
    BY <2>1 DEF KeptInv
  <2> QED
    BY <1>1, <2>2 DEF KeptInv
<1>3. FirstInv' /\ AgeInv'
  BY DEF FirstInv, AgeInv
<1>4. BackInv'
  BY <1>1 DEF BackInv
<1> QED
  BY <1>2, <1>3, <1>4

\* The coordinator's steps outside the disk.
LEMMA CoordStepsMove ==
  ASSUME IInv, RecInv, CoordStep
  PROVE  \/ CoordEnds \/ CoordMoves
         \/ coord_write_ckpt_manifest \/ CheckpointEnd
         \/ \E e \in Epochs : UnlinkFile(e)
<1>0. UNCHANGED <<life, ct, down>> => Told' = Told
  BY DEF Told, Up
<1> USE <1>0 DEF CoordEnds, CoordMoves, Untold, CoordGone, CoordDies, InRestart, Round, Waiting, Up
<1>1. CASE proc_list_filter
  BY <1>1 DEF proc_list_filter, procVars, chanVars, coordVars, loopVars, forkVars,
     diskVars, boundVars
<1>2. CASE CoordFinished
  BY <1>2 DEF CoordFinished, procVars, chanVars, coordVars, loopVars, forkVars,
     diskVars, boundVars
<1>3. CASE AtforkEOF
  BY <1>3 DEF AtforkEOF, procVars, chanVars, coordVars, loopVars, forkVars, diskVars,
     boundVars
<1>4. CASE coord_collective_prepare
  <2>1. back \in {"serve", "restart"} /\ (proc_list = {} => Survivors = {})
    BY DEF IInv, Types, CoordType, Survivors
  <2> QED
    BY <1>4, <2>1 DEF coord_collective_prepare, StartLoop, procVars, chanVars,
       coordVars, loopVars, forkVars, diskVars, boundVars
<1>5. CASE SuspendPassEnd
  BY <1>5 DEF SuspendPassEnd, StartLoop, procVars, chanVars, coordVars, loopVars,
     forkVars, diskVars, boundVars
<1>6. CASE PrepareStart
  BY <1>6 DEF PrepareStart, StartLoop, procVars, chanVars, coordVars, loopVars,
     forkVars, diskVars, boundVars
<1>7. CASE ReducePoll
  BY <1>7 DEF ReducePoll, procVars, chanVars, coordVars, loopVars, forkVars,
     diskVars, boundVars
<1>8. CASE ReduceReady
  BY <1>8 DEF ReduceReady, StartLoop, procVars, chanVars, coordVars, loopVars,
     forkVars, diskVars, boundVars
<1>9. CASE RestartPrepare
  BY <1>9 DEF RestartPrepare, StartLoop, procVars, chanVars, coordVars, loopVars,
     forkVars, diskVars, boundVars
<1>10. CASE RestartBails
  BY <1>10 DEF RestartBails, procVars, chanVars, coordVars, loopVars, forkVars,
     diskVars, boundVars
<1>11. ASSUME NEW p \in Procs, coord_wait_for_msg(p) PROVE CoordEnds \/ CoordMoves
  BY <1>11 DEF coord_wait_for_msg, proc_list_remove, procVars, chanVars, coordVars,
     loopVars, forkVars, diskVars, boundVars
<1>12. ASSUME NEW p \in Procs, coord_send_translation(p) PROVE CoordEnds \/ CoordMoves
  BY <1>12 DEF coord_send_translation, procVars, chanVars, coordVars, loopVars,
     forkVars, diskVars, boundVars
<1>13. ASSUME NEW p \in Procs, coord_atfork(p) PROVE CoordEnds \/ CoordMoves
  BY <1>13 DEF coord_atfork, procVars, chanVars, coordVars, loopVars, forkVars,
     diskVars, boundVars
<1>14. ASSUME NEW p \in Procs, AtforkChild(p) PROVE CoordEnds \/ CoordMoves
  <2>1. ct \in [Procs -> CkptThreadPoint]
    BY DEF IInv, Types, ProcType
  <2>2. ct' = ct \/ ct' = [ct EXCEPT ![p] = "listen"]
    BY <1>14 DEF AtforkChild
  <2>3. Told' \subseteq Told /\ (kpc' = "exited" => Told' = Told)
    BY <1>14, <2>1, <2>2 DEF AtforkChild, Told, Up, chanVars
  <2> QED
    BY <1>14, <2>1, <2>3 DEF AtforkChild, procVars, chanVars, coordVars, loopVars,
       forkVars, diskVars, boundVars
<1>15. ASSUME NEW p \in Procs, SuspendAsk(p) PROVE CoordEnds \/ CoordMoves
  <2>1. down' # down => Told' \subseteq Told
    <3>1. SUFFICES ASSUME down' # down PROVE Told' \subseteq Told
      OBVIOUS
    <3>2. /\ p \in proc_list /\ Up(p) /\ pstate[p] = "PROC_RUNNING" /\ UNCHANGED <<life, ct>>
          /\ down' = [down EXCEPT ![p] = Append(@, Request)]
      BY <1>15, <3>1 DEF SuspendAsk, IInv, Types, CoordType, procVars, Request
    <3>3. ct[p] = "done" => down[p] # <<>>
      BY <3>2 DEF IInv, Local, LinkInv
    <3> QED
      BY <3>2, <3>3 DEF Told, Up, IInv, Types, ProcType
  <2>2. kpc' = "exited" => down' = down
    BY <1>15 DEF SuspendAsk, CountOrRemove
  <2> QED
  BY <1>15, <2>1, <2>2 DEF SuspendAsk, CountOrRemove, procVars, chanVars, coordVars, loopVars,
     forkVars, diskVars, boundVars
<1>16. ASSUME NEW p \in Procs, SuspendAnswer(p) PROVE CoordEnds \/ CoordMoves
  BY <1>16 DEF SuspendAnswer, CountOrRemove, procVars, chanVars, coordVars, loopVars,
     forkVars, diskVars, boundVars
<1>17. ASSUME NEW p \in Procs, SuspendOther(p) PROVE CoordEnds \/ CoordMoves
  BY <1>17 DEF SuspendOther, CountOrRemove, procVars, chanVars, coordVars, loopVars,
     forkVars, diskVars, boundVars
<1>18. ASSUME NEW p \in Procs, ReleasePreckpt(p) PROVE CoordEnds \/ CoordMoves
  <2>1. down' # down => Told' \subseteq Told
    <3>1. SUFFICES ASSUME down' # down PROVE Told' \subseteq Told
      OBVIOUS
    <3>2. ct[p] = "ready" /\ UNCHANGED <<life, ct>> /\ \A q \in Procs : q # p => down'[q] = down[q]
      BY <1>18, <3>1 DEF ReleasePreckpt, coord_release_barrier, IInv, Types, CoordType, ProcType, Local,
         LinkInv, procVars
    <3> QED
      BY <3>2 DEF Told, Up
  <2>2. kpc' = "exited" => down' = down
    BY <1>18 DEF ReleasePreckpt, coord_release_barrier
  <2> QED
  BY <1>18, <2>1, <2>2 DEF ReleasePreckpt, coord_release_barrier, procVars, chanVars, coordVars,
     loopVars, forkVars, diskVars, boundVars
<1>19. ASSUME NEW p \in Procs, CollectDone(p) PROVE CoordEnds \/ CoordMoves
  BY <1>19 DEF CollectDone, procVars, chanVars, coordVars, loopVars, forkVars,
     diskVars, boundVars
<1>20. ASSUME NEW p \in Procs, ReleasePostckpt(p) PROVE CoordEnds \/ CoordMoves
  <2>1. kpc = "resume" /\ proc_list # {}
    BY <1>20 DEF ReleasePostckpt, coord_release_barrier, IInv, Types, CoordType
  <2>2. back # "restart"
    BY <2>1 DEF IInv, Coord, RestartInv
  <2>3. down' # down => \A q \in Told' : q \in Told \/ epoch[q] = kepoch
    <3>1. SUFFICES ASSUME down' # down PROVE \A q \in Told' : q \in Told \/ q = p
      <4>1. down' # down => /\ p \in Procs /\ p \in proc_list /\ p \in todo /\ Up(p)
                            /\ pstate[p] = "PROC_CKPT_COMPLETE"
        BY <1>20 DEF ReleasePostckpt, coord_release_barrier, IInv, Types, CoordType
      <4>2. down' # down => epoch[p] = kepoch
        BY <2>1, <4>1 DEF IInv, Counting, EpochInv, Ahead
      <4> QED
        BY <4>2
    <3>2. UNCHANGED <<life, ct>> /\ \A q \in Procs : q # p => down'[q] = down[q]
      BY <1>20, <3>1 DEF ReleasePostckpt, coord_release_barrier, IInv, Types, ProcType, procVars
    <3> QED
      BY <3>2 DEF Told, Up
  <2>4. kpc' = "exited" => down' = down
    BY <1>20 DEF ReleasePostckpt, coord_release_barrier
  <2> QED
    BY <1>20, <2>1, <2>2, <2>3, <2>4 DEF ReleasePostckpt, coord_release_barrier, procVars,
       chanVars, coordVars, loopVars, forkVars, diskVars, boundVars
<1>21. ASSUME NEW p \in Procs, ReleaseRestart(p) PROVE CoordEnds \/ CoordMoves
  <2>1. down' # down => Told' \subseteq Told
    <3>1. SUFFICES ASSUME down' # down PROVE Told' \subseteq Told
      OBVIOUS
    <3>2. ct[p] = "rwait" /\ UNCHANGED <<life, ct>> /\ \A q \in Procs : q # p => down'[q] = down[q]
      BY <1>21, <3>1 DEF ReleaseRestart, coord_release_barrier, IInv, Types, CoordType, ProcType, Local,
         LinkInv, procVars
    <3> QED
      BY <3>2 DEF Told, Up
  <2>2. kpc' = "exited" => down' = down
    BY <1>21 DEF ReleaseRestart, coord_release_barrier
  <2> QED
  BY <1>21, <2>1, <2>2 DEF ReleaseRestart, coord_release_barrier, procVars, chanVars, coordVars,
     loopVars, forkVars, diskVars, boundVars
<1>22. CASE xnd_ckptdir_create
  BY <1>22 DEF xnd_ckptdir_create, procVars, chanVars, coordVars, loopVars, forkVars,
     diskVars, boundVars
<1>23. CASE CheckpointFailed
  <2>1. back \in {"serve", "restart"} /\ (back = "restart" => proc_list = {})
    BY <1>23 DEF CheckpointFailed, IInv, Types, CoordType, Coord, RestartInv
  <2> QED
    BY <1>23, <2>1 DEF CheckpointFailed, xnd_ckptdir_unlink, procVars, chanVars, coordVars,
       loopVars, forkVars, diskVars, boundVars
<1> QED
  BY <1>22, <1>23, <1>1, <1>2, <1>3, <1>4, <1>5, <1>6, <1>7, <1>8, <1>9, <1>10, <1>11, <1>12,
     <1>13, <1>14, <1>15, <1>16, <1>17, <1>18, <1>19, <1>20, <1>21 DEF CoordStep

\* A file is removed from a directory that is not needed: a later one is complete, or
\* the one before, from which the processes come, is still there.
LEMMA KeptOnUnlink ==
  ASSUME IInv, RecInv, NEW e \in Epochs, UnlinkFile(e)
  PROVE  RecInv'
<1>1. /\ ~CoordGone /\ kepoch \in Nat /\ kepoch \in Epochs /\ e \in Nat
      /\ epoch \in [Procs -> Nat]
      /\ \/ kpc = "unlink" /\ e + 1 = kepoch
         \/ kpc = "discard" /\ e = kepoch
  <2>1. kepoch < rounds /\ kepoch \in Nat /\ rounds \in 0..MaxRounds /\ epoch \in [Procs -> Nat]
    BY DEF UnlinkFile, Unlinking, IInv, Types, CoordType, ProcType, BoundType, Counting,
       RoundsInv, Round
  <2> QED
    BY <2>1, ConstantsAssumption DEF UnlinkFile, Unlinking, CoordGone, Epochs
<1>2. UNCHANGED <<epoch, kpc, back, proc_list, kepoch, life, ct, down>>
  BY DEF UnlinkFile, procVars, coordVars, chanVars
<1>3. Told' = Told /\ Waiting' = Waiting /\ (InRestart' <=> InRestart) /\ (Untold' <=> Untold) /\ ~Untold
  BY <1>1, <1>2 DEF Told, Waiting, Up, InRestart, Untold
<1>4. ASSUME NEW f \in Epochs, f # e, Restartable(f) PROVE Restartable(f)'
  <2>1. manifest'[f] = manifest[f] /\ image'[f] = image[f]
    BY <1>4 DEF UnlinkFile, IInv, Types, DiskType
  <2> QED
    BY <1>4, <2>1 DEF Restartable, Whole
<1>5. \A f \in Epochs : manifest'[f] # {} => manifest[f] # {}
  BY DEF UnlinkFile, IInv, Types, DiskType
<1>6. CASE kpc = "unlink" /\ e + 1 = kepoch
  <2>1. Restartable(kepoch) /\ Restartable(kepoch)'
    BY <1>1, <1>2, <1>4, <1>6 DEF RecInv, KeptInv
  <2>2. \A p \in Procs : epoch[p] <= kepoch + 1
    BY <1>1, <1>3 DEF RecInv, AgeInv
  <2>3. KeptInv'
    <3>1. \A p \in Told : epoch[p] <= kepoch
      BY <1>6, Unlinked DEF UnlinkFile, Told
    <3> QED
      BY <1>1, <1>2, <1>3, <1>6, <2>1, <2>2, <3>1 DEF KeptInv
  <2>4. FirstInv' /\ AgeInv'
    BY <1>2, <1>3, <1>6 DEF RecInv, FirstInv, AgeInv
  <2>5. BackInv'
    BY <1>2, <1>3, <1>6 DEF RecInv, BackInv
  <2> QED
    BY <2>3, <2>4, <2>5 DEF RecInv
<1>7. CASE kpc = "discard" /\ e = kepoch
  <2>1. \A p \in Procs : epoch[p] <= kepoch
    BY <1>1, <1>3, <1>7 DEF RecInv, AgeInv
  <2>2. kepoch > 0 => kepoch - 1 \in Epochs /\ Restartable(kepoch - 1)'
    <3>1. kepoch > 0 => kepoch - 1 \in Epochs /\ kepoch - 1 # e
      BY <1>1, <1>7, ConstantsAssumption DEF Epochs
    <3> QED
      BY <1>1, <1>2, <1>4, <1>7, <3>1 DEF RecInv, KeptInv
  <2>3. kepoch = 0 => \A f \in Epochs : manifest'[f] = {}
    BY <1>1, <1>3, <1>5, <1>7 DEF RecInv, FirstInv
  <2>4. KeptInv'
    <3>1. ASSUME NEW p \in Procs, epoch[p] > 0
          PROVE  \E f \in Epochs : f >= epoch[p] - 1 /\ Restartable(f)'
      BY <1>1, <1>2, <2>1, <2>2, <3>1
    <3>2. ASSUME NEW f \in Epochs, manifest'[f] # {}
          PROVE  \E g \in Epochs : Restartable(g)'
      BY <1>1, <1>2, <2>2, <2>3, <3>2
    <3>3. ASSUME NEW p \in Told PROVE \E f \in Epochs : f >= epoch[p] /\ Restartable(f)'
      <4>1. epoch[p] + 1 <= kepoch /\ epoch[p] \in Nat
        BY <1>1, <1>7, <3>3, Unlinked DEF UnlinkFile, Told
      <4> QED
        BY <1>1, <1>2, <2>2, <4>1
    <3> QED
      BY <1>2, <1>3, <1>7, <2>2, <3>1, <3>2, <3>3 DEF KeptInv
  <2>5. FirstInv' /\ AgeInv'
    BY <1>2, <1>3, <1>5, <2>1, <2>3 DEF FirstInv, AgeInv
  <2>6. BackInv'
    <3>1. ASSUME NEW q \in Waiting, InRestart
          PROVE  /\ epoch[q] \in Epochs /\ epoch[q] # e /\ Restartable(epoch[q])
                 /\ \A p \in Procs : epoch[p] <= epoch[q] + 1
                 /\ kepoch = epoch[q] + 1
      <4>1. epoch[q] \in Nat /\ kepoch = epoch[q] + 1
        BY <1>1, <1>3, <3>1 DEF RecInv, BackInv, Waiting
      <4>2. epoch[q] \in Epochs /\ epoch[q] # e
        BY <1>1, <1>7, <4>1, ConstantsAssumption DEF Epochs
      <4> QED
        BY <3>1, <4>1, <4>2 DEF RecInv, BackInv
    <3> QED
      BY <1>2, <1>3, <1>4, <1>7, <3>1 DEF BackInv
  <2> QED
    BY <2>4, <2>5, <2>6 DEF RecInv
<1> QED
  BY <1>1, <1>6, <1>7

\* The manifest makes the directory of the epoch complete.
LEMMA KeptOnManifest ==
  ASSUME IInv, RecInv, coord_write_ckpt_manifest, NeverEmpty'
  PROVE  RecInv' 
<1> DEFINE files == {p \in Procs : image[kepoch][p].data # "none"}
<1>1. kpc = "manifest" /\ kepoch \in Nat /\ kepoch \in Epochs
  BY ConstantsAssumption DEF coord_write_ckpt_manifest, IInv, Types, CoordType, BoundType,
     Counting, RoundsInv, Round, Epochs
<1>2. CASE Cardinality(files) = knum /\ ~CoordDies
  <2>1. /\ manifest' = [manifest EXCEPT ![kepoch] = files]
        /\ kpc' = IF proc_list = {} THEN "unlink" ELSE "resume"
        /\ UNCHANGED <<back, proc_list, kepoch, epoch, life, ct, down, image>>
        /\ manifest \in [Epochs -> SUBSET Procs] /\ epoch \in [Procs -> Nat]
    BY <1>2 DEF coord_write_ckpt_manifest, StartLoop, procVars, chanVars, IInv, Types,
       DiskType, ProcType
  <2>2. files = proc_list
    <3>1. files \subseteq proc_list /\ Cardinality(proc_list) = knum
      BY <1>1 DEF IInv, Disk, DirInv, Dir
    <3> QED
      BY <1>2, <3>1, Sizes DEF IInv, Types, CoordType
  <2>3. manifest'[kepoch] = proc_list /\ \A e \in Epochs : e # kepoch => manifest'[e] = manifest[e]
    BY <1>1, <2>1, <2>2
  <2>4. proc_list # {} /\ kpc' = "resume"
    BY <2>1, <2>3 DEF NeverEmpty
  <2>5. back # "restart"
    BY <1>1, <2>4 DEF IInv, Coord, RestartInv, InRestart, Round, Dir
  <2>6. Restartable(kepoch)'
    <3>1. \A p \in proc_list : image[kepoch][p] = [data |-> "whole", peers |-> Cardinality(proc_list)]
      <4>1. \A p \in proc_list : pstate[p] = "PROC_CKPT_COMPLETE"
        BY <1>1 DEF IInv, Coord, PhaseInv
      <4>2. Cardinality(proc_list) = knum /\ proc_list \subseteq Procs
        BY <1>2, <2>2 DEF IInv, Types, CoordType
      <4> QED
        BY <1>1, <4>1, <4>2 DEF RecInv, IInv, Disk, ImageInv, WholeFile, Dir
    <3> QED
      BY <2>1, <2>3, <2>4, <3>1 DEF Restartable, Whole
  <2>7. \A e \in Epochs : Restartable(e) => Restartable(e)'
    <3>1. \A e \in Epochs : e # kepoch /\ Restartable(e) => Restartable(e)'
      BY <2>1, <2>3 DEF Restartable, Whole
    <3> QED
      BY <2>1, <2>6, <3>1
  <2>8. KeptInv'
    <3>1. kepoch > 0 => kepoch - 1 \in Epochs /\ Restartable(kepoch - 1)
      BY <1>1, ConstantsAssumption DEF RecInv, KeptInv, CoordGone, Epochs
    <3>2. \A p \in Procs : epoch[p] > 0 =>
            \E e \in Epochs : e >= epoch[p] - 1 /\ Restartable(e)
      BY DEF RecInv, KeptInv
    <3>3. Told' = Told /\ \A p \in Told : \E e \in Epochs : e >= epoch[p] /\ Restartable(e)
      BY <2>1 DEF RecInv, KeptInv, Told, Up
    <3> QED
      BY <1>1, <2>1, <2>4, <2>6, <2>7, <3>1, <3>2, <3>3 DEF KeptInv
  <2>9. FirstInv' /\ AgeInv'
    <3>1. ~Untold
      BY <1>1 DEF Untold
    <3> QED
      BY <1>1, <2>1, <2>4, <3>1 DEF RecInv, FirstInv, AgeInv, CoordGone
  <2>10. BackInv'
    BY <2>1, <2>4, <2>5 DEF BackInv, InRestart
  <2> QED
    BY <2>8, <2>9, <2>10 DEF RecInv
<1>3. CASE CoordDies
  <2>1. kpc' = "exited"
    BY <1>3 DEF CoordDies
  <2>2. CoordEnds
    BY <2>1 DEF coord_write_ckpt_manifest, StartLoop, CoordEnds, Told, Up, procVars, chanVars
  <2> QED
    BY <2>2, KeptAtEnd
<1> QED
  BY <1>2, <1>3 DEF coord_write_ckpt_manifest

\* The epoch is over; its directory is the one before the next.
LEMMA KeptOnEnd ==
  ASSUME IInv, RecInv, CheckpointEnd
  PROVE  RecInv'
<1>1. /\ kpc = "unlink" /\ kepoch \in Nat /\ back # "restart" /\ back \in {"serve", "restart"}
      /\ Restartable(kepoch) /\ epoch \in [Procs -> Nat]
  BY DEF CheckpointEnd, IInv, Types, CoordType, ProcType, RecInv, KeptInv, BackInv, InRestart,
     Round
<1>2. /\ UNCHANGED <<back, proc_list, epoch, life, ct, down, image, manifest>>
      /\ kepoch' = kepoch + 1 /\ kpc' = back
  BY DEF CheckpointEnd, xnd_ckptdir_unlink, diskVars, procVars, chanVars
<1>3. \A e : Restartable(e)' <=> Restartable(e)
  BY <1>2 DEF Restartable, Whole
<1>4. KeptInv'
  <2>1. kepoch' - 1 = kepoch /\ kpc' = "serve"
    BY <1>1, <1>2
  <2>2. Told' = Told
    BY <1>2 DEF Told, Up
  <2> QED
    BY <1>1, <1>2, <1>3, <2>1, <2>2 DEF RecInv, KeptInv
<1>5. FirstInv'
  BY <1>1, <1>2 DEF FirstInv
<1>6. AgeInv'
  <2>1. \A p \in Procs : epoch[p] <= kepoch + 1
    BY <1>1 DEF RecInv, AgeInv, CoordGone, Untold
  <2> QED
    BY <1>2, <2>1 DEF AgeInv
<1>7. BackInv'
  BY <1>1, <1>2 DEF BackInv, InRestart, Round
<1> QED
  BY <1>4, <1>5, <1>6, <1>7 DEF RecInv

\* An image that is created or filled is not yet listed.
LEMMA ImagesKept ==
  ASSUME IInv, NEW p \in Procs, CreateImage(p) \/ WriteImage(p)
  PROVE  DiskKept
<1>1. /\ UNCHANGED manifest /\ p \notin manifest[epoch[p]]
      /\ image \in [Epochs -> [Procs -> File]] /\ manifest \in [Epochs -> SUBSET Procs]
  BY DEF CreateImage, WriteImage, IInv, Disk, ListedInv, Types, DiskType
<1>2. ASSUME NEW e \in Epochs, NEW q \in manifest[e] PROVE image'[e][q] = image[e][q]
  <2>1. e # epoch[p] \/ q # p
    BY <1>1
  <2>2. q \in Procs /\ image[e] \in [Procs -> File]
    BY <1>1
  <2> QED
    BY <1>1, <2>1, <2>2 DEF CreateImage, WriteImage
<1> QED
  BY <1>1, <1>2 DEF DiskKept, Restartable, Whole

\* A step of a process other than the three below is not about the epochs.
LEMMA Aside ==
  ASSUME IInv, NEW p \in Procs,
         \/ ReceiveRequest(p) \/ RequestEOF(p) \/ BarrierEOF(p) \/ LeavePreckptBarrier(p)
         \/ SuspendUser(p) \/ CreateImage(p) \/ WriteImage(p) \/ EnterPostckptBarrier(p)
         \/ ConnectFails(p) \/ LeaveRestartBarrier(p)
         \/ CallEOF(p) \/ ForkFails(p) \/ HelloEOF(p)
         \/ TranslateRequest(p) \/ AtforkPrepare(p) \/ Exit(p) \/ Killed(p) \/ Reaped(p)
  PROVE  /\ UNCHANGED <<epoch, manifest, kpc, back, proc_list, kepoch, knum, child>>
         /\ DiskKept /\ Told' \subseteq Told
         /\ Waiting' \subseteq Waiting /\ Newborn' \subseteq Newborn
         /\ \A q \in Waiting' : num_peers'[q] = num_peers[q]
<1>1. ct \in [Procs -> CkptThreadPoint] /\ down \in [Procs -> Seq(Message)]
      /\ life \in [Procs -> {"absent", "up", "zombie", "gone"}]
      /\ num_peers \in [Procs -> Peers]
  BY DEF IInv, Types, ProcType
<1>2. UNCHANGED <<image, manifest>> => DiskKept
  BY DEF DiskKept, Restartable, Whole
<1>8. ct[p] = "written" => down[p] = <<>>
  BY DEF IInv, Local, DownInv, Writing
<1> USE <1>1, <1>2, <1>8 DEF Told, Waiting, Newborn, chanVars, Up, Dies, Released, UserStarts, coordVars, diskVars,
    forkVars
<1>3. CASE ReceiveRequest(p) \/ RequestEOF(p) \/ BarrierEOF(p) \/ LeavePreckptBarrier(p)
  BY <1>3 DEF ReceiveRequest, RequestEOF, BarrierEOF, LeavePreckptBarrier
<1>4. CASE SuspendUser(p) \/ CreateImage(p) \/ WriteImage(p) \/ EnterPostckptBarrier(p)
  BY <1>4, ImagesKept DEF SuspendUser, CreateImage, WriteImage, EnterPostckptBarrier
<1>5. CASE ConnectFails(p) \/ LeaveRestartBarrier(p)
  BY <1>5 DEF ConnectFails, LeaveRestartBarrier
<1>6. CASE CallEOF(p) \/ ForkFails(p) \/ HelloEOF(p)
  BY <1>6 DEF CallEOF, ForkFails, HelloEOF
<1>7. CASE TranslateRequest(p) \/ AtforkPrepare(p) \/ Exit(p) \/ Killed(p) \/ Reaped(p)
  BY <1>7 DEF TranslateRequest, AtforkPrepare, Exit, Killed, Reaped
<1> QED
  BY <1>3, <1>4, <1>5, <1>6, <1>7

\* A process that counts an epoch has been told to resume.
LEMMA KeptOnCount ==
  ASSUME IInv, RecInv, NEW p \in Procs, LeavePostckptBarrier(p)
  PROVE  RecInv'
<1>1. /\ Up(p) /\ ct[p] = "done" /\ down[p] # <<>>
      /\ epoch' = [epoch EXCEPT ![p] = epoch[p] + 1] /\ ct' = [ct EXCEPT ![p] = "listen"]
      /\ UNCHANGED <<kpc, back, proc_list, kepoch, image, manifest, life>>
  BY DEF LeavePostckptBarrier, Released, coordVars, diskVars
<1>2. /\ ct \in [Procs -> CkptThreadPoint] /\ epoch \in [Procs -> Nat]
      /\ kepoch \in Nat /\ pstate[p] \in ProcState /\ manifest \in [Epochs -> SUBSET Procs]
  BY DEF IInv, Types, ProcType, CoordType, DiskType
<1>3. p \in Told /\ Told' \subseteq Told /\ p \notin Told'
  BY <1>1, <1>2 DEF Told, LeavePostckptBarrier, Released, Up
<1>4. ~CoordGone => /\ p \in proc_list
                    /\ epoch[p] + 1 = IF kpc \in {"resume", "unlink"} /\ p \notin todo
                                        THEN kepoch + 1 ELSE kepoch
  <2>1. ~CoordGone => p \in proc_list
    BY <1>1 DEF IInv, Local, LifeInv
  <2>2. p \in proc_list => Ahead(p)
    BY <1>1, <1>2 DEF IInv, Local, LinkInv, Ahead, Writing, ProcState
  <2> QED
    BY <1>1, <2>1, <2>2 DEF IInv, Counting, EpochInv
<1>5. KeptInv'
  <2>1. \A e : Restartable(e)' <=> Restartable(e)
    BY <1>1 DEF Restartable, Whole
  <2>2. ASSUME NEW q \in Procs, epoch'[q] > 0
        PROVE  \E e \in Epochs : e >= epoch'[q] - 1 /\ Restartable(e)
    <3>1. CASE q = p
      BY <1>1, <1>2, <1>3, <3>1 DEF RecInv, KeptInv
    <3>2. CASE q # p
      BY <1>1, <1>2, <2>2, <3>2 DEF RecInv, KeptInv
    <3> QED
      BY <3>1, <3>2
  <2>3. ASSUME NEW q \in Told' PROVE \E e \in Epochs : e >= epoch'[q] /\ Restartable(e)
    <3>1. q \in Told /\ epoch'[q] = epoch[q]
      BY <1>1, <1>2, <1>3, <2>3 DEF Told
    <3> QED
      BY <3>1 DEF RecInv, KeptInv
  <2> QED
    BY <1>1, <2>1, <2>2, <2>3 DEF RecInv, KeptInv, CoordGone
<1>6. FirstInv' /\ AgeInv'
  BY <1>1, <1>2, <1>4 DEF RecInv, FirstInv, AgeInv, CoordGone, Untold, InRestart
<1>7. BackInv'
  <2>1. ~InRestart
    <3>1. InRestart => ~CoordGone
      BY DEF InRestart, Round, CoordGone
    <3>2. p \in proc_list => pstate[p] # "PROC_RESTART_IN_PROGRESS"
      BY <1>1 DEF IInv, Local, LinkInv
    <3> QED
      BY <1>4, <3>1, <3>2 DEF IInv, Coord, RestartInv
  <2> QED
    BY <1>1, <2>1 DEF BackInv, InRestart
<1> QED
  BY <1>5, <1>6, <1>7 DEF RecInv

\* A process that connects brings the epoch whose manifest it was restarted from.
LEMMA KeptOnConnection ==
  ASSUME IInv, RecInv, NEW p \in Procs, ConnectRestart(p)
  PROVE  RecInv'
<1>1. /\ kpc = "restart" /\ Up(p) /\ ct[p] = "connect"
      /\ epoch' = [epoch EXCEPT ![p] = epoch[p] + 1] /\ ct' = [ct EXCEPT ![p] = "rwait"]
      /\ proc_list' = proc_list \cup {p} /\ (proc_list = {} => kepoch' = epoch[p] + 1)
      /\ (proc_list # {} => kepoch' = kepoch)
      /\ UNCHANGED <<kpc, back, image, manifest, life, down>>
  BY DEF ConnectRestart, diskVars, chanVars
<1>2. /\ ct \in [Procs -> CkptThreadPoint] /\ epoch \in [Procs -> Nat] /\ kepoch \in Nat
  BY DEF IInv, Types, ProcType, CoordType
<1>3. /\ InRestart /\ InRestart' /\ ~CoordGone /\ ~CoordGone' /\ p \in Waiting
  BY <1>1 DEF InRestart, CoordGone, Waiting
<1>4. /\ Restartable(epoch[p]) /\ (\A q \in Procs : epoch[q] <= epoch[p] + 1)
      /\ epoch[p] \in Epochs
  <2>1. epoch[p] <= rounds
    BY DEF IInv, Counting, EpochInv
  <2> QED
    BY <1>2, <1>3, <2>1, ConstantsAssumption
       DEF RecInv, BackInv, IInv, Types, BoundType, Epochs
<1>5. kepoch' = epoch[p] + 1
  BY <1>1, <1>3 DEF RecInv, BackInv, Untold
<1>6. /\ Waiting' \subseteq Waiting /\ p \notin Waiting'
      /\ \A q \in Waiting' : epoch'[q] = epoch[q] /\ epoch[q] = epoch[p]
  <2>1. Waiting' \subseteq Waiting /\ p \notin Waiting'
    BY <1>1, <1>2 DEF Waiting, Up
  <2>2. \A q \in Waiting : epoch[q] = epoch[p]
    BY <1>3 DEF IInv, Counting, RoundsInv, Waiting
  <2> QED
    BY <1>1, <1>2, <2>1, <2>2 DEF Waiting
<1>7. \A e : Restartable(e)' <=> Restartable(e)
  BY <1>1 DEF Restartable, Whole
<1>8. KeptInv'
  <2>1. ASSUME NEW q \in Procs, epoch'[q] > 0
        PROVE  \E e \in Epochs : e >= epoch'[q] - 1 /\ Restartable(e)
    <3>1. CASE q = p
      BY <1>1, <1>2, <1>4, <3>1
    <3>2. CASE q # p
      BY <1>1, <1>2, <2>1, <3>2 DEF RecInv, KeptInv
    <3> QED
      BY <3>1, <3>2
  <2>2. kepoch' - 1 = epoch[p]
    BY <1>2, <1>5
  <2>3. Told' = Told /\ \A q \in Told : epoch'[q] = epoch[q]
    BY <1>1, <1>2 DEF Told, Up
  <2> QED
    BY <1>1, <1>4, <1>7, <2>1, <2>2, <2>3 DEF RecInv, KeptInv
<1>9. FirstInv' /\ AgeInv'
  BY <1>1, <1>2, <1>4, <1>5 DEF FirstInv, AgeInv
<1>10. BackInv'
  <2>1. \A q \in Procs : epoch'[q] <= epoch[p] + 1
    BY <1>1, <1>2, <1>4
  <2> QED
    BY <1>1, <1>4, <1>5, <1>6, <1>7, <2>1 DEF BackInv
<1> QED
  BY <1>8, <1>9, <1>10 DEF RecInv

\* A child starts with the epoch of its parent.
LEMMA KeptOnFork ==
  ASSUME IInv, RecInv, NEW p \in Procs, NEW c \in Procs, Fork(p, c)
  PROVE  RecInv'
<1>1. /\ life[c] = "absent" /\ life' = [life EXCEPT ![c] = "up"]
      /\ epoch' = [epoch EXCEPT ![c] = epoch[p]] /\ ct' = [ct EXCEPT ![c] = "hello"]
      /\ UNCHANGED <<kpc, back, proc_list, kepoch, image, manifest, down>>
  BY DEF Fork, diskVars, chanVars
<1>2. /\ ct \in [Procs -> CkptThreadPoint] /\ epoch \in [Procs -> Nat]
      /\ life \in [Procs -> {"absent", "up", "zombie", "gone"}]
  BY DEF IInv, Types, ProcType
<1>3. /\ Waiting' \subseteq Waiting /\ c \notin Waiting'
      /\ \A q \in Waiting' : epoch'[q] = epoch[q]
  BY <1>1, <1>2 DEF Waiting, Up
<1>4. \A q \in Procs : epoch'[q] = epoch[q] \/ epoch'[q] = epoch[p]
  BY <1>1, <1>2
<1>5. \A e : Restartable(e)' <=> Restartable(e)
  BY <1>1 DEF Restartable, Whole
<1>6. Told' \subseteq Told /\ \A q \in Told' : epoch'[q] = epoch[q]
  BY <1>1, <1>2 DEF Told, Up
<1>7. KeptInv'
  BY <1>1, <1>4, <1>5, <1>6 DEF RecInv, KeptInv, CoordGone
<1>8. FirstInv' /\ AgeInv'
  BY <1>1, <1>4 DEF RecInv, FirstInv, AgeInv, Untold, InRestart, CoordGone
<1>9. BackInv'
  BY <1>1, <1>3, <1>4, <1>5 DEF RecInv, BackInv, Untold, InRestart
<1> QED
  BY <1>7, <1>8, <1>9 DEF RecInv

\* A restart starts from a directory in which nothing is missing.
LEMMA KeptOnRestart ==
  ASSUME IInv, RecInv, NEW e \in Epochs, xnd_restart(e)
  PROVE  RecInv'
<1>1. /\ UNCHANGED <<image, manifest, proc_list>> /\ proc_list = {}
      /\ kpc' = "restart" /\ kepoch' = 0
      /\ \A p \in Procs : /\ ct'[p] \in {"connect", "off"}
                          /\ \/ epoch'[p] = e
                             \/ epoch'[p] = 0 /\ ct'[p] = "off"
  BY DEF xnd_restart, diskVars, IInv, Types, CoordType
<1>2. e \in Nat
  BY ConstantsAssumption DEF Epochs
<1>3. Restartable(e)
  BY DEF xnd_restart, RecInv, IInv, Disk, TruthInv, Restartable
<1>4. \A f : Restartable(f)' <=> Restartable(f)
  BY <1>1 DEF Restartable, Whole
<1>5. KeptInv'
  <2>1. Told' = {}
    BY <1>1 DEF Told
  <2> QED
    BY <1>1, <1>2, <1>3, <1>4, <2>1 DEF RecInv, KeptInv
<1>6. Untold'
  BY <1>1 DEF Untold, InRestart
<1>7. BackInv'
  <2>1. \A q \in Waiting' : epoch'[q] = e
    BY <1>1 DEF Waiting
  <2> QED
    BY <1>1, <1>2, <1>3, <1>4, <1>6, <2>1 DEF BackInv
<1> QED
  BY <1>5, <1>6, <1>7 DEF RecInv, FirstInv, AgeInv

\* It holds in every reachable state, unless a checkpoint of nobody is completed.
LEMMA KeptByStep ==
  ASSUME IInv, RecInv, NeverEmpty', [Next]_vars
  PROVE  RecInv'
<1>1. CASE CoordStep
  BY <1>1, CoordStepsMove, KeptAtEnd, KeptOnMove, KeptOnUnlink, KeptOnManifest, KeptOnEnd
<1>2. CASE Command
  <2>1. CoordMoves
    BY <1>2 DEF Command, CoordMoves, CoordGone, InRestart, Untold, Round, Waiting, Told, Up,
       procVars, chanVars, diskVars
  <2> QED
    BY <2>1, KeptOnMove
<1>3. CASE CoordKilled
  <2>1. CoordEnds
    BY <1>3 DEF CoordKilled, CoordDies, CoordEnds, Told, Up, procVars, chanVars, diskVars
  <2> QED
    BY <2>1, KeptAtEnd
<1>4. CASE EnvStep /\ ~Command /\ ~CoordKilled
  BY <1>4, Aside, KeptAside, KeptOnRestart DEF EnvStep
<1>5. ASSUME NEW p \in Procs, CkptThreadStep(p) \/ CallStep(p) PROVE RecInv'
  BY <1>5, Aside, KeptAside, KeptOnCount, KeptOnConnection, KeptOnFork
     DEF CkptThreadStep, CallStep
<1>6. CASE UNCHANGED vars
  <2>1. DiskKept /\ Waiting' = Waiting /\ Told' = Told
    BY <1>6 DEF vars, procVars, chanVars, diskVars, DiskKept, Restartable, Whole, Waiting,
       Told, Up
  <2> QED
    BY <1>6, <2>1, KeptAside DEF vars, procVars, coordVars
<1> QED
  BY <1>1, <1>2, <1>3, <1>4, <1>5, <1>6 DEF Next

LEMMA KeptInitially ==
  ASSUME ~DiskFails, Init
  PROVE  RecInv
<1>1. Waiting = {} /\ Told = {}
  BY ConstantsAssumption DEF Init, Waiting, Told
<1>2. KeptInv
  BY <1>1 DEF Init, KeptInv
<1> QED
  BY <1>1, <1>2 DEF Init, RecInv, FirstInv, AgeInv, BackInv, InRestart, Round

LEMMA Kept ==
  ASSUME ~DiskFails
  PROVE  Spec /\ []NeverEmpty => [](IInv /\ RecInv)
<1>1. Init => RecInv
  BY KeptInitially
<1>2. IInv /\ RecInv /\ NeverEmpty' /\ [Next]_vars => RecInv'
  BY KeptByStep
<1> QED
  BY <1>1, <1>2, Inductive, PTL DEF Spec

\* On a disk that does not fail, and as long as no checkpoint is completed when nobody
\* is left: whatever dies, forks or exits, also between the removal of one file of an
\* old directory and the next, and whatever epoch is restarted, each image that a
\* manifest lists is whole and was taken with as many peers as the manifest lists, the
\* number for which coord_do_restart waits, or it has been removed and there is another
\* directory to restart from.  (With a failing disk it is false: write_ckpt's result is
\* not looked at, and an incomplete file is listed.)
THEOREM ManifestsAreTruthful ==
  ASSUME ~DiskFails
  PROVE  Spec /\ []NeverEmpty => []ManifestTruthful
<1>1. IInv /\ RecInv => ManifestTruthful
  <2>1. SUFFICES ASSUME IInv, RecInv, NEW e \in Epochs, NEW p \in manifest[e]
                 PROVE  Whole(e, p) \/ (image[e][p] = NoFile /\ \E f \in Epochs : Restartable(f))
    BY DEF ManifestTruthful
  <2>2. Whole(e, p) \/ image[e][p] = NoFile
    BY <2>1 DEF IInv, Disk, TruthInv
  <2>3. \E f \in Epochs : Restartable(f)
    BY <2>1 DEF RecInv, KeptInv
  <2> QED
    BY <2>2, <2>3
<1> QED
  BY <1>1, Kept, PTL

\* Under the same conditions a computation that went past a checkpoint can be restarted
\* from it or from a later one: a manifest is there, and every image that it lists is
\* whole.
THEOREM AlwaysRecoverable ==
  ASSUME ~DiskFails
  PROVE  Spec /\ []NeverEmpty => []Recoverable
<1>1. RecInv => Recoverable
  BY DEF RecInv, KeptInv, Recoverable
<1> QED
  BY <1>1, Kept, PTL

-----------------------------------------------------------------------------
(* When there is always somebody left *)

\* No process exits by itself, fewer are killed than were launched, no command
\* comes during a restart, and the disk does not fail.
Surviving ==
  /\ "exit" \notin Calls /\ ~EarlyCommands /\ ~DiskFails
  /\ MaxFaults < Cardinality(Launched)

\* Without commands during a restart nobody is left out of what runs: a restart
\* waits for all its processes, and coord_atfork for the child.
CompleteInv ==
  /\ back = "serve"
  /\ ~CoordGone => /\ \A c \in Newborn : kpc = "atfork" /\ child = c
                   /\ kpc # "restart" => Waiting = {}
  /\ kpc = "restart" =>
       /\ proc_list = {} => \A q \in Waiting : Cardinality(Waiting) <= num_peers[q]
       /\ proc_list # {} => Cardinality(proc_list \cup Waiting) <= knum

\* What runs, and what each manifest lists, is everybody but the killed.
Running == {p \in Procs : Up(p)}

EnoughInv ==
  /\ ~CoordGone => Cardinality(Running) + faults >= Cardinality(Launched)
  /\ \A e \in Epochs : manifest[e] # {} =>
       Cardinality(manifest[e]) + faults >= Cardinality(Launched)

\* Sizes of sets of processes.
LEMMA SizesOfSets ==
  \A S, T \in SUBSET Procs :
    /\ Cardinality(S) \in Nat
    /\ S \subseteq T => /\ Cardinality(S) <= Cardinality(T)
                        /\ Cardinality(S) = Cardinality(T) => S = T
    /\ \A p \in S : Cardinality(S \ {p}) = Cardinality(S) - 1
BY PeersFinite, Visiting DEF Peers

\* When the manifest is written, the registered processes are at least all that
\* run, so that somebody is registered.
LEMMA SomebodyLeft ==
  ASSUME Surviving, IInv, CompleteInv, EnoughInv, kpc = "manifest"
  PROVE  /\ Cardinality(proc_list) = knum /\ proc_list # {}
         /\ Cardinality(proc_list) + faults >= Cardinality(Launched)
<1>1. Cardinality(proc_list) = knum /\ ~CoordGone
  BY DEF IInv, Disk, DirInv, CoordGone
<1>2. Running \subseteq proc_list
  <2>1. ASSUME NEW p \in Running PROVE p \in proc_list
    <3>1. p \in Procs /\ Up(p) /\ ct[p] # "hello" /\ ct[p] # "connect"
      BY <1>1, <2>1 DEF CompleteInv, Running, Waiting, Newborn
    <3> QED
      BY <1>1, <3>1 DEF IInv, Local, LifeInv
  <2> QED
    BY <2>1
<1>3. proc_list \in SUBSET Procs /\ Running \in SUBSET Procs /\ {} \in SUBSET Procs
  BY DEF IInv, Types, CoordType, Running
<1>4. Cardinality(Running) <= Cardinality(proc_list) /\ Cardinality(Running) \in Nat
      /\ Cardinality(proc_list) \in Nat
  BY <1>2, <1>3, SizesOfSets
<1>5. Cardinality(Launched) \in Nat /\ faults \in Nat /\ faults < Cardinality(Launched)
  BY SizesOfSets, ConstantsAssumption DEF Surviving, IInv, Types, BoundType
<1>6. Cardinality(proc_list) + faults >= Cardinality(Launched)
  BY <1>1, <1>4, <1>5 DEF EnoughInv
<1>7. proc_list # {}
  <2>1. Cardinality({}) = 0
    BY FS_EmptySet
  <2> QED
    BY <1>5, <1>6, <2>1
<1> QED
  BY <1>1, <1>6, <1>7

\* A step of a process other than connecting, counting and forking leaves it so.
LEMMA CompleteAside ==
  ASSUME IInv, CompleteInv,
         UNCHANGED <<kpc, back, proc_list, knum, child>>,
         Waiting' \subseteq Waiting, Newborn' \subseteq Newborn,
         \A q \in Waiting' : num_peers'[q] = num_peers[q]
  PROVE  CompleteInv'
<1>1. /\ Waiting \in SUBSET Procs /\ Waiting' \in SUBSET Procs
      /\ proc_list \cup Waiting \in SUBSET Procs /\ proc_list \cup Waiting' \in SUBSET Procs
      /\ proc_list \cup Waiting' \subseteq proc_list \cup Waiting
  BY DEF Waiting, IInv, Types, CoordType
<1>2. /\ Cardinality(Waiting) \in Nat /\ Cardinality(Waiting') \in Nat
      /\ Cardinality(Waiting') <= Cardinality(Waiting)
      /\ Cardinality(proc_list \cup Waiting) \in Nat
      /\ Cardinality(proc_list \cup Waiting') \in Nat
      /\ Cardinality(proc_list \cup Waiting') <= Cardinality(proc_list \cup Waiting)
  BY <1>1, SizesOfSets
<1>3. knum \in Nat /\ \A q \in Procs : num_peers[q] \in Nat
  BY DEF IInv, Types, CoordType, ProcType, Peers
<1>4. back' = "serve"
  BY DEF CompleteInv
<1>5. ~CoordGone' => /\ \A c \in Newborn' : kpc' = "atfork" /\ child' = c
                     /\ kpc' # "restart" => Waiting' = {}
  BY DEF CompleteInv, CoordGone
<1>6. kpc' = "restart" /\ proc_list' # {} => Cardinality(proc_list' \cup Waiting') <= knum'
  BY <1>2, <1>3 DEF CompleteInv
<1>7. ASSUME kpc' = "restart", proc_list' = {}, NEW q \in Waiting'
      PROVE  Cardinality(Waiting') <= num_peers'[q]
  <2>1. q \in Waiting /\ q \in Procs /\ num_peers'[q] = num_peers[q]
    BY <1>1, <1>7
  <2>2. Cardinality(Waiting) <= num_peers[q]
    BY <1>7, <2>1 DEF CompleteInv
  <2> QED
    BY <1>2, <1>3, <2>1, <2>2
<1> QED
  BY <1>4, <1>5, <1>6, <1>7 DEF CompleteInv

SurviveInv == CompleteInv /\ EnoughInv /\ NeverEmpty

\* What most steps of the coordinator have in common.
CoordStays ==
  /\ UNCHANGED <<life, faults, manifest, back>>
  /\ kpc' # "unlink" /\ ~CoordGone
  /\ kpc' # "exited" => /\ kpc # "restart" /\ kpc' # "restart"
                        /\ Waiting' = {} /\ Newborn' = {}

LEMMA SurviveOnStay ==
  ASSUME SurviveInv, CoordStays
  PROVE  SurviveInv'
<1> USE DEF SurviveInv, CoordStays
<1>1. CompleteInv'
  BY DEF CompleteInv, CoordGone
<1>2. EnoughInv'
  BY DEF EnoughInv, Running, Up
<1>3. NeverEmpty'
  BY DEF NeverEmpty
<1> QED
  BY <1>1, <1>2, <1>3

\* A restart goes on when all its processes have connected.
LEMMA AllConnected ==
  ASSUME IInv, CompleteInv, kpc = "restart", proc_list # {}, Cardinality(Survivors) = knum
  PROVE  Waiting = {}
<1>1. /\ Survivors \in SUBSET Procs /\ proc_list \in SUBSET Procs
      /\ proc_list \cup Waiting \in SUBSET Procs /\ Survivors \subseteq proc_list
  BY DEF IInv, Types, CoordType, Survivors, Waiting
<1>2. /\ Cardinality(Survivors) <= Cardinality(proc_list)
      /\ Cardinality(proc_list) <= Cardinality(proc_list \cup Waiting)
      /\ Cardinality(proc_list) = Cardinality(proc_list \cup Waiting)
           => proc_list = proc_list \cup Waiting
      /\ Cardinality(Survivors) \in Nat /\ Cardinality(proc_list) \in Nat
      /\ Cardinality(proc_list \cup Waiting) \in Nat
  BY <1>1, SizesOfSets
<1>3. Cardinality(proc_list \cup Waiting) <= knum
  BY DEF CompleteInv
<1>4. proc_list = proc_list \cup Waiting
  BY <1>2, <1>3
<1>5. ASSUME NEW q \in Waiting PROVE FALSE
  <2>1. q \in proc_list /\ Up(q) /\ ct[q] = "connect"
    BY <1>4 DEF Waiting
  <2>2. pstate[q] = "PROC_RESTART_IN_PROGRESS"
    BY <2>1 DEF IInv, Coord, RestartInv, InRestart
  <2> QED
    BY <1>1, <2>1, <2>2 DEF IInv, Local, LinkInv
<1> QED
  BY <1>5

\* Every step of the coordinator keeps somebody.
LEMMA SurviveCoordStep ==
  ASSUME Surviving, IInv, SurviveInv, CoordStep
  PROVE  SurviveInv'
<1>1. /\ CompleteInv /\ EnoughInv /\ back = "serve"
      /\ kpc \notin {"exited", "atfork", "restart"} => Waiting = {} /\ Newborn = {}
      /\ kpc = "atfork" => Waiting = {} /\ Newborn \subseteq {child}
  BY DEF SurviveInv, CompleteInv, CoordGone
<1>2. ct \in [Procs -> CkptThreadPoint]
  BY DEF IInv, Types, ProcType
<1>3. UNCHANGED <<life, ct>> => Waiting' = Waiting /\ Newborn' = Newborn
  BY DEF Waiting, Newborn, Up
<1> USE <1>1, <1>3 DEF CoordStays, CoordGone, CoordDies
<1>4. CASE proc_list_filter
  BY <1>4, SurviveOnStay DEF proc_list_filter, procVars, chanVars, coordVars,
     loopVars, forkVars, diskVars, boundVars
<1>5. CASE CoordFinished
  BY <1>5, SurviveOnStay DEF CoordFinished, procVars, chanVars, coordVars, loopVars,
     forkVars, diskVars, boundVars
<1>6. CASE AtforkEOF
  BY <1>6, SurviveOnStay DEF AtforkEOF, procVars, chanVars, coordVars, loopVars,
     forkVars, diskVars, boundVars
<1>7. CASE coord_collective_prepare
  BY <1>7, SurviveOnStay DEF coord_collective_prepare, StartLoop, procVars, chanVars,
     coordVars, loopVars, forkVars, diskVars, boundVars
<1>8. CASE SuspendPassEnd
  BY <1>8, SurviveOnStay DEF SuspendPassEnd, StartLoop, procVars, chanVars,
     coordVars, loopVars, forkVars, diskVars, boundVars
<1>9. CASE PrepareStart
  BY <1>9, SurviveOnStay DEF PrepareStart, StartLoop, procVars, chanVars, coordVars,
     loopVars, forkVars, diskVars, boundVars
<1>10. CASE ReducePoll
  BY <1>10, SurviveOnStay DEF ReducePoll, procVars, chanVars, coordVars, loopVars,
     forkVars, diskVars, boundVars
<1>11. CASE ReduceReady
  BY <1>11, SurviveOnStay DEF ReduceReady, StartLoop, procVars, chanVars, coordVars,
     loopVars, forkVars, diskVars, boundVars
<1>12. CASE RestartBails
  BY <1>12, SurviveOnStay DEF RestartBails, procVars, chanVars, coordVars, loopVars,
     forkVars, diskVars, boundVars
<1>13. ASSUME NEW p \in Procs, coord_wait_for_msg(p) PROVE SurviveInv'
  BY <1>13, SurviveOnStay DEF coord_wait_for_msg, proc_list_remove, procVars,
     chanVars, coordVars, loopVars, forkVars, diskVars, boundVars
<1>14. ASSUME NEW p \in Procs, coord_send_translation(p) PROVE SurviveInv'
  BY <1>14, SurviveOnStay DEF coord_send_translation, procVars, chanVars, coordVars,
     loopVars, forkVars, diskVars, boundVars
<1>15. ASSUME NEW p \in Procs, coord_atfork(p) PROVE SurviveInv'
  BY <1>15, SurviveOnStay DEF coord_atfork, procVars, chanVars, coordVars, loopVars,
     forkVars, diskVars, boundVars
<1>16. ASSUME NEW p \in Procs, SuspendAsk(p) PROVE SurviveInv'
  BY <1>16, SurviveOnStay DEF SuspendAsk, CountOrRemove, procVars, chanVars,
     coordVars, loopVars, forkVars, diskVars, boundVars
<1>17. ASSUME NEW p \in Procs, SuspendAnswer(p) PROVE SurviveInv'
  BY <1>17, SurviveOnStay DEF SuspendAnswer, CountOrRemove, procVars, chanVars,
     coordVars, loopVars, forkVars, diskVars, boundVars
<1>18. ASSUME NEW p \in Procs, SuspendOther(p) PROVE SurviveInv'
  BY <1>18, SurviveOnStay DEF SuspendOther, CountOrRemove, procVars, chanVars,
     coordVars, loopVars, forkVars, diskVars, boundVars
<1>19. ASSUME NEW p \in Procs, ReleasePreckpt(p) PROVE SurviveInv'
  BY <1>19, SurviveOnStay DEF ReleasePreckpt, coord_release_barrier, procVars,
     chanVars, coordVars, loopVars, forkVars, diskVars, boundVars
<1>20. ASSUME NEW p \in Procs, CollectDone(p) PROVE SurviveInv'
  BY <1>20, SurviveOnStay DEF CollectDone, procVars, chanVars, coordVars, loopVars,
     forkVars, diskVars, boundVars
<1>21. ASSUME NEW p \in Procs, ReleaseRestart(p) PROVE SurviveInv'
  BY <1>21, SurviveOnStay DEF ReleaseRestart, coord_release_barrier, procVars,
     chanVars, coordVars, loopVars, forkVars, diskVars, boundVars
<1>22. ASSUME NEW c \in Procs, AtforkChild(c) PROVE SurviveInv'
  <2>1. CASE ct' = [ct EXCEPT ![c] = "listen"] /\ UNCHANGED life /\ child = c /\ kpc = "atfork"
    <3>1. Waiting' \subseteq Waiting /\ Newborn' = {}
      BY <1>2, <2>1 DEF Waiting, Newborn, Up
    <3> QED
      BY <1>22, <2>1, <3>1, SurviveOnStay DEF AtforkChild, procVars, chanVars,
         coordVars, loopVars, forkVars, diskVars, boundVars
  <2>2. CASE CoordDies /\ UNCHANGED <<ct, ut>>
    BY <1>22, <2>2, SurviveOnStay DEF AtforkChild, procVars, chanVars, coordVars,
       loopVars, forkVars, diskVars, boundVars
  <2> QED
    BY <1>22, <2>1, <2>2 DEF AtforkChild
<1>23. CASE RestartPrepare
  <2>1. CASE Cardinality(Survivors) = knum
    <3>1. Waiting = {} /\ Newborn = {}
      BY <1>23, <2>1, AllConnected DEF RestartPrepare, CompleteInv
    <3>2. /\ UNCHANGED <<life, ct, faults, manifest, back>> /\ kpc' \in {"rrelease", "serve"}
      BY <1>23, <2>1 DEF RestartPrepare, StartLoop, procVars, chanVars, coordVars,
         loopVars, forkVars, diskVars, boundVars
    <3>3. CompleteInv'
      BY <3>1, <3>2 DEF CompleteInv
    <3>4. kpc = "restart" /\ EnoughInv' /\ NeverEmpty'
      BY <1>23, <3>2 DEF RestartPrepare, EnoughInv, NeverEmpty, Running, Up
    <3> QED
      BY <3>3, <3>4 DEF SurviveInv
  <2>2. CASE Cardinality(Survivors) # knum
    BY <1>23, <2>2, SurviveOnStay DEF RestartPrepare, procVars, chanVars, coordVars,
       loopVars, forkVars, diskVars, boundVars
  <2> QED
    BY <2>1, <2>2
<1>24. CASE xnd_ckptdir_create \/ CheckpointFailed
  BY <1>24, SurviveOnStay DEF xnd_ckptdir_create, CheckpointFailed, xnd_ckptdir_unlink,
     procVars, chanVars, coordVars, loopVars, forkVars, diskVars, boundVars
<1>25. CASE coord_write_ckpt_manifest
  <2> DEFINE files == {p \in Procs : image[kepoch][p].data # "none"}
  <2>1. /\ Cardinality(proc_list) = knum /\ proc_list # {}
        /\ Cardinality(proc_list) + faults >= Cardinality(Launched)
    BY <1>25, SomebodyLeft DEF coord_write_ckpt_manifest
  <2>2. CASE /\ Cardinality(files) = knum
             /\ manifest' = [manifest EXCEPT ![kepoch] = files]
             /\ StartLoop("resume", proc_list, "unlink")
             /\ UNCHANGED back
    <3>1. /\ UNCHANGED <<life, ct, faults, back>> /\ kpc = "manifest" /\ kpc' = "resume"
          /\ manifest' = [manifest EXCEPT ![kepoch] = files]
      BY <1>25, <2>1, <2>2 DEF coord_write_ckpt_manifest, StartLoop, procVars,
         chanVars, coordVars, loopVars, forkVars, diskVars, boundVars
    <3>2. \A e \in Epochs : \/ manifest'[e] = manifest[e]
                           \/ Cardinality(manifest'[e]) + faults >= Cardinality(Launched)
      BY <2>1, <2>2, <3>1 DEF IInv, Types, DiskType
    <3> QED
      BY <3>1, <3>2 DEF SurviveInv, CompleteInv, EnoughInv, NeverEmpty, Running, Up
  <2>3. CASE CoordDies /\ UNCHANGED manifest
    BY <1>25, <2>3, SurviveOnStay DEF coord_write_ckpt_manifest, procVars, chanVars,
       coordVars, loopVars, forkVars, diskVars, boundVars
  <2> QED
    BY <1>25, <2>2, <2>3 DEF coord_write_ckpt_manifest
<1>26. CASE CheckpointEnd
  <2>1. /\ UNCHANGED <<life, ct, faults, back>> /\ kpc = "unlink" /\ kpc' = "serve"
        /\ \A e \in Epochs : manifest'[e] = {} \/ manifest'[e] = manifest[e]
    BY <1>26 DEF CheckpointEnd, xnd_ckptdir_unlink, procVars, chanVars, coordVars,
       loopVars, forkVars, diskVars, boundVars, IInv, Types, DiskType
  <2> QED
    BY <2>1 DEF SurviveInv, CompleteInv, EnoughInv, NeverEmpty, Running, Up
<1>28. ASSUME NEW e \in Epochs, UnlinkFile(e) PROVE SurviveInv'
  <2>1. /\ UNCHANGED <<life, ct, num_peers, kpc, back, proc_list, kepoch, knum, child, faults>>
        /\ kpc \in {"unlink", "discard"}
        /\ \A f \in Epochs : manifest'[f] = manifest[f] \/ (manifest'[f] = {} /\ f = e)
    BY <1>28 DEF UnlinkFile, Unlinking, procVars, chanVars, coordVars, forkVars, boundVars,
       IInv, Types, DiskType
  <2>2. kpc = "unlink" => kepoch \in Epochs /\ kepoch # e
    BY <1>28, ConstantsAssumption DEF UnlinkFile, Unlinking, IInv, Types, CoordType,
       BoundType, Counting, RoundsInv, Round, Epochs
  <2> QED
    BY <2>1, <2>2 DEF SurviveInv, CompleteInv, EnoughInv, NeverEmpty, Running, Up
<1>27. ASSUME NEW p \in Procs, ReleasePostckpt(p) PROVE SurviveInv'
  <2>1. manifest[kepoch] # {}
    BY <1>27 DEF ReleasePostckpt, coord_release_barrier, IInv, Types, CoordType,
       Disk, DirInv
  <2>2. /\ UNCHANGED <<life, ct, faults, back, manifest>> /\ kpc = "resume"
        /\ kpc' \in {"resume", "unlink", "exited"} /\ UNCHANGED kepoch
    BY <1>27 DEF ReleasePostckpt, coord_release_barrier, procVars, chanVars,
       coordVars, loopVars, forkVars, diskVars, boundVars
  <2> QED
    BY <2>1, <2>2 DEF SurviveInv, CompleteInv, EnoughInv, NeverEmpty, Running, Up
<1> QED
  BY <1>4, <1>5, <1>6, <1>7, <1>8, <1>9, <1>10, <1>11, <1>12, <1>13, <1>14, <1>15,
     <1>16, <1>17, <1>18, <1>19, <1>20, <1>21, <1>22, <1>23, <1>24, <1>25, <1>26, <1>27,
     <1>28 DEF CoordStep

\* Processes end while the coordinator runs only when they are killed.
LEMMA SurviveAside ==
  ASSUME Surviving, IInv, SurviveInv, NEW p \in Procs,
         \/ ReceiveRequest(p) \/ RequestEOF(p) \/ BarrierEOF(p) \/ LeavePreckptBarrier(p)
         \/ SuspendUser(p) \/ CreateImage(p) \/ WriteImage(p) \/ EnterPostckptBarrier(p)
         \/ ConnectFails(p) \/ LeaveRestartBarrier(p)
         \/ CallEOF(p) \/ ForkFails(p) \/ HelloEOF(p)
         \/ TranslateRequest(p) \/ AtforkPrepare(p) \/ Exit(p) \/ Killed(p) \/ Reaped(p)
  PROVE  SurviveInv'
<1>1. /\ UNCHANGED <<epoch, manifest, kpc, back, proc_list, kepoch, knum, child>>
      /\ Waiting' \subseteq Waiting /\ Newborn' \subseteq Newborn
      /\ \A q \in Waiting' : num_peers'[q] = num_peers[q]
  BY Aside
<1>2. CompleteInv' /\ NeverEmpty'
  BY <1>1, CompleteAside DEF SurviveInv, NeverEmpty
<1>3. /\ life \in [Procs -> {"absent", "up", "zombie", "gone"}] /\ faults \in Nat
      /\ manifest \in [Epochs -> SUBSET Procs] /\ Running \in SUBSET Procs
  BY ConstantsAssumption DEF IInv, Types, ProcType, DiskType, BoundType, Running
<1>4. /\ Cardinality(Running) \in Nat /\ Cardinality(Launched) \in Nat
      /\ \A e \in Epochs : Cardinality(manifest[e]) \in Nat
  BY <1>3, SizesOfSets, ConstantsAssumption
<1>5. CASE Killed(p)
  <2>1. faults' = faults + 1 /\ Running' = Running \ {p} /\ p \in Running
    BY <1>3, <1>5 DEF Killed, Dies, Running, Up
  <2>2. Cardinality(Running') = Cardinality(Running) - 1
    BY <1>3, <2>1, SizesOfSets
  <2>3. EnoughInv'
    BY <1>1, <1>3, <1>4, <2>1, <2>2 DEF SurviveInv, EnoughInv, CoordGone
  <2> QED
    BY <1>2, <2>3 DEF SurviveInv
<1>6. CASE ~Killed(p)
  <2>1. /\ faults' = faults
        /\ CoordGone \/ UNCHANGED life \/ (life[p] = "zombie" /\ life' = [life EXCEPT ![p] = "gone"])
    BY <1>6 DEF Surviving, ReceiveRequest, RequestEOF, BarrierEOF, LeavePreckptBarrier,
       SuspendUser, CreateImage, WriteImage, EnterPostckptBarrier, ConnectFails,
       LeaveRestartBarrier, CallEOF, ForkFails, HelloEOF, TranslateRequest, AtforkPrepare,
       Exit, Reaped, Released, UserStarts, boundVars
  <2>2. CoordGone \/ Running' = Running
    BY <1>3, <2>1 DEF Running, Up
  <2>3. EnoughInv'
    BY <1>1, <2>1, <2>2 DEF SurviveInv, EnoughInv, CoordGone
  <2> QED
    BY <1>2, <2>3 DEF SurviveInv
<1> QED
  BY <1>5, <1>6

\* The child of a fork is the one the coordinator waits for.
LEMMA SurviveFork ==
  ASSUME Surviving, IInv, SurviveInv, NEW p \in Procs, NEW c \in Procs, Fork(p, c)
  PROVE  SurviveInv'
<1>1. /\ Up(p) /\ ut[p] = "forking" /\ life[c] = "absent"
      /\ life' = [life EXCEPT ![c] = "up"] /\ ct' = [ct EXCEPT ![c] = "hello"]
      /\ num_peers' = [num_peers EXCEPT ![c] = num_peers[p]]
      /\ child' = IF forker = p THEN c ELSE child
      /\ UNCHANGED <<kpc, back, proc_list, kepoch, knum, manifest, faults>>
  BY DEF Fork, diskVars, boundVars
<1>2. /\ ct \in [Procs -> CkptThreadPoint] /\ num_peers \in [Procs -> Peers]
      /\ life \in [Procs -> {"absent", "up", "zombie", "gone"}]
  BY DEF IInv, Types, ProcType
<1>3. /\ Waiting' \subseteq Waiting /\ c \notin Waiting'
      /\ Newborn' \subseteq Newborn \cup {c}
  BY <1>1, <1>2 DEF Waiting, Newborn, Up
<1>4. ~CoordGone => kpc = "atfork" /\ forker = p /\ Newborn = {}
  <2>1. ~CoordGone => kpc = "atfork" /\ forker = p
    BY <1>1 DEF IInv, Local, LifeInv
  <2>2. kpc = "atfork" /\ forker = p => child = NoProc
    BY <1>1 DEF IInv, Coord, AtforkInv
  <2>3. Newborn \subseteq Procs /\ NoProc \notin Procs
    BY ConstantsAssumption DEF Newborn
  <2> QED
    BY <2>1, <2>2, <2>3 DEF SurviveInv, CompleteInv
<1>5. CompleteInv'
  <2>1. kpc # "restart"
    BY <1>4 DEF CoordGone
  <2> QED
    BY <1>1, <1>3, <1>4, <2>1 DEF SurviveInv, CompleteInv, CoordGone
<1>6. EnoughInv'
  <2>1. Running \subseteq Running' /\ Running \in SUBSET Procs /\ Running' \in SUBSET Procs
    BY <1>1, <1>2 DEF Running, Up
  <2>2. /\ Cardinality(Running) <= Cardinality(Running') /\ Cardinality(Running) \in Nat
        /\ Cardinality(Running') \in Nat /\ Cardinality(Launched) \in Nat
    BY <2>1, SizesOfSets, ConstantsAssumption
  <2>3. faults \in Nat
    BY ConstantsAssumption DEF IInv, Types, BoundType
  <2> QED
    BY <1>1, <2>2, <2>3 DEF SurviveInv, EnoughInv, CoordGone
<1>7. NeverEmpty'
  BY <1>1 DEF SurviveInv, NeverEmpty
<1> QED
  BY <1>5, <1>6, <1>7 DEF SurviveInv

\* A connection moves a process from those that are waited for to the registered.
LEMMA SurviveConnection ==
  ASSUME Surviving, IInv, SurviveInv, NEW p \in Procs, ConnectRestart(p)
  PROVE  SurviveInv'
<1>1. /\ kpc = "restart" /\ Up(p) /\ ct[p] = "connect"
      /\ ct' = [ct EXCEPT ![p] = "rwait"]
      /\ proc_list' = proc_list \cup {p} /\ (proc_list = {} => knum' = num_peers[p])
      /\ (proc_list # {} => knum' = knum)
      /\ UNCHANGED <<kpc, back, manifest, life, child, faults, num_peers>>
  BY DEF ConnectRestart, diskVars, boundVars, forkVars
<1>2. ct \in [Procs -> CkptThreadPoint]
  BY DEF IInv, Types, ProcType
<1>3. /\ p \in Waiting /\ Waiting' = Waiting \ {p} /\ Newborn' = Newborn
  BY <1>1, <1>2 DEF Waiting, Newborn, Up
<1>4. proc_list' \cup Waiting' = proc_list \cup Waiting
  BY <1>1, <1>3
<1>5. Cardinality(proc_list' \cup Waiting') <= knum'
  <2>1. CASE proc_list = {}
    <3>1. proc_list \cup Waiting = Waiting
      BY <2>1
    <3> QED
      BY <1>1, <1>3, <1>4, <2>1, <3>1 DEF SurviveInv, CompleteInv
  <2>2. CASE proc_list # {}
    BY <1>1, <1>4, <2>2 DEF SurviveInv, CompleteInv
  <2> QED
    BY <2>1, <2>2
<1>6. CompleteInv'
  <2>1. proc_list' # {}
    BY <1>1
  <2> QED
    BY <1>1, <1>3, <1>5, <2>1 DEF SurviveInv, CompleteInv, CoordGone
<1>7. EnoughInv' /\ NeverEmpty'
  BY <1>1 DEF SurviveInv, EnoughInv, NeverEmpty, Running, Up, CoordGone
<1> QED
  BY <1>6, <1>7 DEF SurviveInv

\* A restart brings back everybody the manifest lists.
LEMMA SurviveRestart ==
  ASSUME Surviving, IInv, SurviveInv, NEW e \in Epochs, xnd_restart(e)
  PROVE  SurviveInv'
<1>1. \A p \in manifest[e] :
        /\ image[e][p].data = "whole"
        /\ image[e][p].peers = Cardinality(manifest[e])
  <2>1. \A p \in manifest[e] : Whole(e, p) /\ p \in Procs
    BY DEF Surviving, IInv, Disk, TruthInv, Types, DiskType, xnd_restart
  <2> QED
    BY <2>1 DEF Whole
<1>2. /\ manifest[e] # {} /\ UNCHANGED <<manifest, proc_list, back, faults>>
      /\ kpc' = "restart"
      /\ life' = [p \in Procs |-> IF p \in manifest[e] THEN "up" ELSE "absent"]
      /\ ct' = [p \in Procs |-> IF p \in manifest[e] THEN "connect" ELSE "off"]
      /\ \A p \in manifest[e] : num_peers'[p] = Cardinality(manifest[e])
  <2>1. {p \in manifest[e] : image[e][p].data = "whole"} = manifest[e]
    BY <1>1
  <2>2. manifest[e] \subseteq Procs
    BY DEF IInv, Types, DiskType
  <2> QED
    BY <1>1, <2>1, <2>2 DEF xnd_restart, diskVars
<1>3. manifest[e] \in SUBSET Procs /\ proc_list = {}
  BY DEF IInv, Types, DiskType, CoordType, xnd_restart
<1>4. Waiting' = manifest[e] /\ Running' = manifest[e] /\ Newborn' = {}
  BY <1>2, <1>3 DEF Waiting, Running, Newborn, Up
<1>5. Cardinality(manifest[e]) \in Nat
  BY <1>3, SizesOfSets
<1>6. CompleteInv'
  BY <1>2, <1>3, <1>4, <1>5 DEF SurviveInv, CompleteInv
<1>7. EnoughInv' /\ NeverEmpty'
  BY <1>2, <1>4 DEF SurviveInv, EnoughInv, NeverEmpty
<1> QED
  BY <1>6, <1>7 DEF SurviveInv

\* Every step keeps somebody.
LEMMA SurviveStep ==
  ASSUME Surviving, IInv, SurviveInv, [Next]_vars
  PROVE  SurviveInv'
<1>1. CASE CoordStep
  BY <1>1, SurviveCoordStep
<1>2. CASE Command
  <2>1. CoordStays
    BY <1>2 DEF Command, Surviving, SurviveInv, CompleteInv, CoordStays, CoordGone,
       procVars, diskVars, Waiting, Newborn, Up
  <2> QED
    BY <2>1, SurviveOnStay
<1>3. CASE CoordKilled
  <2>1. /\ kpc' = "exited" /\ UNCHANGED <<back, manifest>> /\ faults' = faults + 1
    BY <1>3 DEF CoordKilled, CoordDies, diskVars
  <2>2. /\ faults \in Nat /\ Cardinality(Launched) \in Nat
        /\ \A e \in Epochs : Cardinality(manifest[e]) \in Nat
    BY SizesOfSets, ConstantsAssumption DEF IInv, Types, BoundType, DiskType
  <2> QED
    BY <2>1, <2>2 DEF SurviveInv, CompleteInv, EnoughInv, NeverEmpty, CoordGone
<1>4. CASE EnvStep /\ ~Command /\ ~CoordKilled
  BY <1>4, SurviveAside, SurviveRestart DEF EnvStep
<1>5. ASSUME NEW p \in Procs, LeavePostckptBarrier(p) PROVE SurviveInv'
  <2>1. /\ ct' = [ct EXCEPT ![p] = "listen"]
        /\ UNCHANGED <<kpc, back, proc_list, kepoch, knum, child, manifest, life, faults,
                       num_peers>>
    BY <1>5 DEF LeavePostckptBarrier, Released, coordVars, forkVars, diskVars, boundVars
  <2>2. Waiting' \subseteq Waiting /\ Newborn' \subseteq Newborn
    BY <2>1 DEF Waiting, Newborn, Up, IInv, Types, ProcType
  <2>3. CompleteInv'
    BY <2>1, <2>2, CompleteAside DEF SurviveInv
  <2>4. EnoughInv' /\ NeverEmpty'
    BY <2>1 DEF SurviveInv, EnoughInv, NeverEmpty, Running, Up, CoordGone
  <2> QED
    BY <2>3, <2>4 DEF SurviveInv
<1>6. ASSUME NEW p \in Procs, CkptThreadStep(p) \/ CallStep(p), ~LeavePostckptBarrier(p)
      PROVE  SurviveInv'
  BY <1>6, SurviveAside, SurviveConnection, SurviveFork DEF CkptThreadStep, CallStep
<1>7. CASE UNCHANGED vars
  <2>1. UNCHANGED <<life, ct, num_peers, kpc, back, proc_list, kepoch, knum, child,
                    manifest, faults>>
    BY <1>7 DEF vars, procVars, coordVars, forkVars, diskVars, boundVars
  <2> QED
    BY <2>1 DEF SurviveInv, CompleteInv, EnoughInv, NeverEmpty, Waiting, Newborn, Running,
       Up, CoordGone
<1> QED
  BY <1>1, <1>2, <1>3, <1>4, <1>5, <1>6, <1>7 DEF Next

LEMMA SurviveInitially == Init => SurviveInv
<1> SUFFICES ASSUME Init PROVE SurviveInv
  OBVIOUS
<1>1. Waiting = {} /\ Newborn = {} /\ Running = Launched
  BY ConstantsAssumption DEF Init, Waiting, Newborn, Running, Up
<1>2. Cardinality(Launched) \in Nat
  BY SizesOfSets, ConstantsAssumption
<1> QED
  BY <1>1, <1>2 DEF Init, SurviveInv, CompleteInv, EnoughInv, NeverEmpty, CoordGone

\* With fewer deaths than processes were launched, no exits, a disk that does not
\* fail and no command during a restart, no checkpoint is completed by nobody.
THEOREM SomebodySurvives ==
  ASSUME Surviving
  PROVE  Spec => []NeverEmpty
<1>1. SurviveInv /\ IInv /\ [Next]_vars => SurviveInv'
  BY SurviveStep
<1>2. SurviveInv => NeverEmpty
  BY DEF SurviveInv
<1> QED
  BY SurviveInitially, Inductive, <1>1, <1>2, PTL DEF Spec

\* Under the same conditions a computation that went past a checkpoint can always be
\* restarted from it or from a later one.
THEOREM RecoverableIfSomebodySurvives ==
  ASSUME Surviving
  PROVE  Spec => []Recoverable
<1>1. ~DiskFails
  BY DEF Surviving
<1> QED
  BY <1>1, AlwaysRecoverable, SomebodySurvives, PTL

\* ... and a manifest tells the truth.
THEOREM TruthfulIfSomebodySurvives ==
  ASSUME Surviving
  PROVE  Spec => []ManifestTruthful
<1>1. ~DiskFails
  BY DEF Surviving
<1> QED
  BY <1>1, ManifestsAreTruthful, SomebodySurvives, PTL

=============================================================================
