------------------------ MODULE CoordinatedCheckpoint ------------------------
(***************************************************************************)
(* The checkpoint protocol between the coordinator                         *)
(* (xnd/coordinator/xnd_coord.c) and the processes of a computation        *)
(* (xnd/coordinator/xnd_coord_client.c, the main loop of the checkpoint    *)
(* thread in xnd/thread_info.c), with the epoch directories they leave on  *)
(* disk (xnd/ckptfile.c, xnd/writeckpt.c), processes that fork, exit and   *)
(* die, a coordinator that dies, and the restart from a directory.         *)
(*                                                                         *)
(* A connection is two sequences of messages.  Its process end is closed   *)
(* when the process has ended, its coordinator end when the coordinator    *)
(* has; what was sent before can still be read.  Nothing in the source     *)
(* handles SIGPIPE: a write to a closed connection ends the writer.        *)
(* kill(pid, 0) answers ESRCH only for a process that has been waited for. *)
(* The threads of one process are abstracted to one user thread, which the *)
(* checkpoint thread stops when it is not in an unsafe region; how it does *)
(* is the subject of ThreadSuspension.                                     *)
(***************************************************************************)
EXTENDS Integers, Sequences, FiniteSets

CONSTANTS
  Procs,        \* processes (their xnd_pid, kept over a restart)
  Launched,     \* those registered when the computation is first observed
  NoProc,       \* no process
  Calls,        \* what user threads do: subset of UserCalls
  EarlyCommands,\* TRUE: a command may come while a restart is under way
  DiskFails,    \* TRUE: creating or writing a file may fail
  MaxRounds,    \* bound: checkpoint commands
  MaxCalls,     \* bound: calls of user threads
  MaxFaults,    \* bound: processes or coordinators killed
  MaxRestarts   \* bound: runs of xnd_restart

UserCalls == {"translate", "fork", "exit"}

ASSUME ConstantsAssumption ==
  /\ IsFiniteSet(Procs)
  /\ Launched \subseteq Procs /\ Launched # {}
  /\ NoProc \notin Procs
  /\ Calls \subseteq UserCalls
  /\ EarlyCommands \in BOOLEAN
  /\ DiskFails \in BOOLEAN
  /\ MaxRounds \in Nat /\ MaxCalls \in Nat
  /\ MaxFaults \in Nat /\ MaxRestarts \in Nat

VARIABLES
  \* one process
  life,       \* "absent", "up", "zombie" (not waited for) or "gone"
  ct,         \* where its checkpoint thread is
  ut,         \* where its user thread is
  epoch,      \* epoch of xnd_lib.c
  num_peers,  \* num_peers of xnd_lib.c
  \* the connection of each process
  down,       \* messages from the coordinator
  up,         \* messages to the coordinator
  \* the coordinator
  kpc,        \* where it is
  back,       \* who called coord_do_checkpoint: "serve" or "restart"
  proc_list,  \* registered processes
  pstate,     \* p->state
  kepoch,     \* coord_info.epoch
  knum,       \* coord_info.num_peers
  todo,       \* processes the current loop has still to visit
  ready,      \* local counters of the loops
  total,
  forker,     \* process coord_atfork serves
  child,      \* process that forker has created for it
  \* the disk, by epoch
  dirs,       \* epoch directories that exist
  image,      \* image[e][p]: the checkpoint file of p
  manifest,   \* processes the manifest of e lists, {} without a manifest
  \* bounds
  rounds, calls, faults, restarts

procVars  == <<life, ct, ut, epoch, num_peers>>
chanVars  == <<down, up>>
loopVars  == <<todo, ready, total>>
forkVars  == <<forker, child>>
coordVars == <<kpc, back, proc_list, pstate, kepoch, knum, loopVars, forkVars>>
diskVars  == <<dirs, image, manifest>>
boundVars == <<rounds, calls, faults, restarts>>
vars == <<procVars, chanVars, coordVars, diskVars, boundVars>>

Epochs == 0..MaxRounds
Peers  == 0..Cardinality(Procs)

ProcState == {"PROC_RUNNING", "PROC_RECV_CKPT_REQUEST", "PROC_READY_FOR_CKPT",
              "PROC_CKPT_IN_PROGRESS", "PROC_CKPT_COMPLETE",
              "PROC_RESTART_IN_PROGRESS"}

Header == {"CKPT_REQUEST", "CKPT_READY", "CKPT_START", "CKPT_DONE",
           "RESUME_AFTER_CKPT", "RESUME_AFTER_RESTART", "EXIT"}

Message == [hdr : Header, peers : Peers]
msg(h) == [hdr |-> h, peers |-> 0]

File == [data : {"none", "partial", "whole"}, peers : Peers]
NoFile == [data |-> "none", peers |-> 0]

CkptThreadPoint == {"off", "hello", "listen", "ready", "suspend", "write",
                    "writing", "written", "done", "connect", "rwait"}

CoordPoint == {"serve", "atfork", "prepare", "suspend", "mkdir", "prestart",
               "start", "reduce", "collect", "manifest", "resume", "unlink",
               "discard", "restart", "rrelease", "exited"}

Init ==
  /\ life = [p \in Procs |-> IF p \in Launched THEN "up" ELSE "absent"]
  /\ ct = [p \in Procs |-> IF p \in Launched THEN "listen" ELSE "off"]
  /\ ut = [p \in Procs |-> IF p \in Launched THEN "app" ELSE "none"]
  /\ epoch = [p \in Procs |-> 0]
  /\ num_peers = [p \in Procs |-> 0]
  /\ down = [p \in Procs |-> <<>>]
  /\ up = [p \in Procs |-> <<>>]
  /\ kpc = "serve"
  /\ back = "serve"
  /\ proc_list = Launched
  /\ pstate = [p \in Procs |-> "PROC_RUNNING"]
  /\ kepoch = 0
  /\ knum = 0
  /\ todo = {}
  /\ ready = 0
  /\ total = 0
  /\ forker = NoProc
  /\ child = NoProc
  /\ dirs = {}
  /\ image = [e \in Epochs |-> [p \in Procs |-> NoFile]]
  /\ manifest = [e \in Epochs |-> {}]
  /\ rounds = 0
  /\ calls = 0
  /\ faults = 0
  /\ restarts = 0

Up(p) == life[p] = "up"
Gone(p) == life[p] = "gone"
CoordGone == kpc = "exited"

\* A read of p's connection by the coordinator returns: a message or EOF.
Readable(p) == up[p] # <<>> \/ ~Up(p)

-----------------------------------------------------------------------------
(* The end of a process and of the coordinator *)

\* The kernel closes the connection of a process that ends.  A request it has
\* sent on another connection stays in the coordinator's queue.
Dies(p) ==
  /\ life' = [life EXCEPT ![p] = "zombie"]
  /\ ct' = [ct EXCEPT ![p] = "off"]
  /\ ut' = [ut EXCEPT ![p] = IF @ \in {"call", "fork"} THEN @ ELSE "none"]
  /\ down' = [down EXCEPT ![p] = <<>>]
  /\ UNCHANGED <<epoch, num_peers>>

\* coord_exit, a failed xnd_assert or SIGPIPE: every connection is closed.
CoordDies ==
  /\ kpc' = "exited"
  /\ proc_list' = {}
  /\ todo' = {}
  /\ forker' = NoProc
  /\ child' = NoProc
  /\ UNCHANGED <<back, pstate, kepoch, knum, ready, total>>

\* A process or the coordinator is killed from outside.
Killed(p) ==
  /\ Up(p)
  /\ faults < MaxFaults
  /\ faults' = faults + 1
  /\ Dies(p)
  /\ UNCHANGED <<up, coordVars, diskVars, rounds, calls, restarts>>

CoordKilled ==
  /\ ~CoordGone
  /\ faults < MaxFaults
  /\ faults' = faults + 1
  /\ CoordDies
  /\ UNCHANGED <<procVars, chanVars, diskVars, rounds, calls, restarts>>

\* The parent, or launchd, waits for an ended process.
Reaped(p) ==
  /\ life[p] = "zombie"
  /\ life' = [life EXCEPT ![p] = "gone"]
  /\ UNCHANGED <<ct, ut, epoch, num_peers, chanVars, coordVars, diskVars,
                 boundVars>>

-----------------------------------------------------------------------------
(* The checkpoint thread of a process *)

\* What enter_coord_barrier expects where the checkpoint thread waits.
Expected == [ready |-> "CKPT_START", done |-> "RESUME_AFTER_CKPT",
             rwait |-> "RESUME_AFTER_RESTART"]

\* The next message of p arrives and is the one its barrier expects; another
\* one would abort the process, but none comes (MessagesExpected).
Released(p, where) ==
  /\ Up(p)
  /\ ct[p] = where
  /\ down[p] # <<>>
  /\ Head(down[p]).hdr = Expected[where]
  /\ down' = [down EXCEPT ![p] = Tail(@)]

\* Mutant of ReceiveRequest: XND_CKPT_READY is not sent.
ReceiveRequestSilent(p) ==
  /\ Up(p)
  /\ ct[p] = "listen"
  /\ down[p] # <<>>
  /\ down' = [down EXCEPT ![p] = Tail(@)]
  /\ ct' = [ct EXCEPT ![p] = "ready"]
  /\ UNCHANGED <<life, ut, epoch, num_peers, up, coordVars, diskVars, boundVars>>

\* wait_for_ckpt_request_from_coord, then XND_CKPT_READY on entering the
\* PRECKPT barrier.
ReceiveRequest(p) ==
  /\ Up(p)
  /\ ct[p] = "listen"
  /\ down[p] # <<>>
  /\ IF CoordGone
       THEN Dies(p) /\ UNCHANGED up
       ELSE /\ Head(down[p]).hdr = "CKPT_REQUEST"
            /\ down' = [down EXCEPT ![p] = Tail(@)]
            /\ up' = [up EXCEPT ![p] = Append(@, msg("CKPT_READY"))]
            /\ ct' = [ct EXCEPT ![p] = "ready"]
            /\ UNCHANGED <<life, ut, epoch, num_peers>>
  /\ UNCHANGED <<coordVars, diskVars, boundVars>>

\* EOF while waiting for a request: only the checkpoint thread exits.
RequestEOF(p) ==
  /\ Up(p)
  /\ ct[p] = "listen"
  /\ CoordGone
  /\ down[p] = <<>>
  /\ ct' = [ct EXCEPT ![p] = "off"]
  /\ UNCHANGED <<life, ut, epoch, num_peers, chanVars, coordVars, diskVars,
                 boundVars>>

\* Mutant of BarrierEOF: the end of the coordinator goes unnoticed.
BarrierIgnoresEOF(p) ==
  /\ Up(p)
  /\ ct[p] \in DOMAIN Expected
  /\ CoordGone
  /\ down[p] = <<>>
  /\ UNCHANGED vars

\* EOF inside enter_coord_barrier: xnd_abort.
BarrierEOF(p) ==
  /\ Up(p)
  /\ ct[p] \in DOMAIN Expected
  /\ CoordGone
  /\ down[p] = <<>>
  /\ Dies(p)
  /\ UNCHANGED <<up, coordVars, diskVars, boundVars>>

LeavePreckptBarrier(p) ==
  /\ Released(p, "ready")
  /\ num_peers' = [num_peers EXCEPT ![p] = Head(down[p]).peers]
  /\ ct' = [ct EXCEPT ![p] = "suspend"]
  /\ UNCHANGED <<life, ut, epoch, up, coordVars, diskVars, boundVars>>

\* suspend_threads to barrier_arrival_wait: a thread in an unsafe region,
\* waiting for an answer of the coordinator, cannot be stopped.
SuspendUser(p) ==
  /\ Up(p)
  /\ ct[p] = "suspend"
  /\ ut[p] = "app"
  /\ ut' = [ut EXCEPT ![p] = "held"]
  /\ ct' = [ct EXCEPT ![p] = "write"]
  /\ UNCHANGED <<life, epoch, num_peers, chanVars, coordVars, diskVars,
                 boundVars>>

\* write_ckpt opens the directory and creates the file, which must be new.
\* xnd_checkpoint does not look at its result.
CreateImage(p) ==
  /\ Up(p)
  /\ ct[p] = "write"
  /\ \/ /\ epoch[p] \in dirs
        /\ image[epoch[p]][p].data = "none"
        /\ image' = [image EXCEPT ![epoch[p]][p].data = "partial"]
        /\ ct' = [ct EXCEPT ![p] = "writing"]
     \/ /\ DiskFails \/ epoch[p] \notin dirs \/ image[epoch[p]][p].data # "none"
        /\ ct' = [ct EXCEPT ![p] = "written"]
        /\ UNCHANGED image
  /\ UNCHANGED <<life, ut, epoch, num_peers, chanVars, coordVars, dirs,
                 manifest, boundVars>>

\* The header, which holds num_peers, and the regions are written.
WriteImage(p) ==
  /\ Up(p)
  /\ ct[p] = "writing"
  /\ \/ image' = [image EXCEPT ![epoch[p]][p] =
                    [data |-> "whole", peers |-> num_peers[p]]]
     \/ DiskFails /\ UNCHANGED image
  /\ ct' = [ct EXCEPT ![p] = "written"]
  /\ UNCHANGED <<life, ut, epoch, num_peers, chanVars, coordVars, dirs,
                 manifest, boundVars>>

\* Mutant of EnterPostckptBarrier: barrier_release before the barrier.
EnterPostckptBarrierReleases(p) ==
  /\ Up(p)
  /\ ct[p] = "written"
  /\ ~CoordGone
  /\ up' = [up EXCEPT ![p] = Append(@, msg("CKPT_DONE"))]
  /\ ct' = [ct EXCEPT ![p] = "done"]
  /\ ut' = [ut EXCEPT ![p] = "app"]
  /\ UNCHANGED <<life, epoch, num_peers, down, coordVars, diskVars, boundVars>>

EnterPostckptBarrier(p) ==
  /\ Up(p)
  /\ ct[p] = "written"
  /\ IF CoordGone
       THEN Dies(p) /\ UNCHANGED up
       ELSE /\ up' = [up EXCEPT ![p] = Append(@, msg("CKPT_DONE"))]
            /\ ct' = [ct EXCEPT ![p] = "done"]
            /\ UNCHANGED <<life, ut, epoch, num_peers, down>>
  /\ UNCHANGED <<coordVars, diskVars, boundVars>>

\* Mutant of LeavePostckptBarrier: xnd_postcheckpoint does not count.
LeavePostckptBarrierUncounted(p) ==
  /\ Released(p, "done")
  /\ ut' = [ut EXCEPT ![p] = "app"]
  /\ ct' = [ct EXCEPT ![p] = "listen"]
  /\ UNCHANGED <<life, epoch, num_peers, up, coordVars, diskVars, boundVars>>

\* xnd_postcheckpoint and barrier_release follow the POSTCKPT barrier.
LeavePostckptBarrier(p) ==
  /\ Released(p, "done")
  /\ epoch' = [epoch EXCEPT ![p] = @ + 1]
  /\ ut' = [ut EXCEPT ![p] = "app"]
  /\ ct' = [ct EXCEPT ![p] = "listen"]
  /\ UNCHANGED <<life, num_peers, up, coordVars, diskVars, boundVars>>

\* xnd_postrestart_early after its barrier, and the release of the restored
\* threads.
LeaveRestartBarrier(p) ==
  /\ Released(p, "rwait")
  /\ ut' = [ut EXCEPT ![p] = "app"]
  /\ ct' = [ct EXCEPT ![p] = "listen"]
  /\ UNCHANGED <<life, epoch, num_peers, up, coordVars, diskVars, boundVars>>

-----------------------------------------------------------------------------
(* The user thread of a process *)

UserStarts(p, c) ==
  /\ Up(p)
  /\ ut[p] = "app"
  /\ c \in Calls
  /\ calls < MaxCalls
  /\ calls' = calls + 1

\* virt_to_real_pid_from_coord or real_to_virt_pid_from_coord, called from a
\* hook inside an unsafe region: the request goes out, the answer is awaited.
TranslateRequest(p) ==
  /\ UserStarts(p, "translate")
  /\ ~CoordGone
  /\ ut' = [ut EXCEPT ![p] = "call"]
  /\ UNCHANGED <<life, ct, epoch, num_peers, chanVars, coordVars, diskVars,
                 rounds, faults, restarts>>

\* coord_client_atfork_prepare, called by fork inside __fork_hook's unsafe
\* region: XND_ATFORK_PREPARE on a new connection, the answer is awaited.
AtforkPrepare(p) ==
  /\ UserStarts(p, "fork")
  /\ ~CoordGone
  /\ ut' = [ut EXCEPT ![p] = "fork"]
  /\ UNCHANGED <<life, ct, epoch, num_peers, chanVars, coordVars, diskVars,
                 rounds, faults, restarts>>

\* The coordinator is gone: the translation fails, a fork aborts the process.
CallEOF(p) ==
  /\ Up(p)
  /\ CoordGone
  /\ \/ /\ ut[p] = "call"
        /\ ut' = [ut EXCEPT ![p] = "app"]
        /\ UNCHANGED <<life, ct, epoch, num_peers, down>>
     \/ /\ ut[p] = "fork"
        /\ Dies(p)
  /\ UNCHANGED <<up, coordVars, diskVars, boundVars>>

\* Mutant of Fork: the child starts to count its epochs again.
ForkResetsEpoch(p, c) ==
  /\ Up(p)
  /\ ut[p] = "forking"
  /\ life[c] = "absent"
  /\ life' = [life EXCEPT ![c] = "up"]
  /\ ct' = [ct EXCEPT ![c] = "hello"]
  /\ ut' = [ut EXCEPT ![p] = "app"]
  /\ epoch' = [epoch EXCEPT ![c] = 0]
  /\ num_peers' = [num_peers EXCEPT ![c] = num_peers[p]]
  /\ child' = IF forker = p THEN c ELSE child
  /\ UNCHANGED <<chanVars, kpc, back, proc_list, pstate, kepoch, knum,
                 loopVars, forker, diskVars, boundVars>>

\* fork: the child has the memory of its parent, and its handshake is under
\* way (coord_client_atfork_child).
Fork(p, c) ==
  /\ Up(p)
  /\ ut[p] = "forking"
  /\ life[c] = "absent"
  /\ life' = [life EXCEPT ![c] = "up"]
  /\ ct' = [ct EXCEPT ![c] = "hello"]
  /\ ut' = [ut EXCEPT ![p] = "app"]
  /\ epoch' = [epoch EXCEPT ![c] = epoch[p]]
  /\ num_peers' = [num_peers EXCEPT ![c] = num_peers[p]]
  /\ child' = IF forker = p THEN c ELSE child
  /\ UNCHANGED <<chanVars, kpc, back, proc_list, pstate, kepoch, knum,
                 loopVars, forker, diskVars, boundVars>>

\* fork answers -1: coord_client_atfork_failed closes the child's connection.
ForkFails(p) ==
  /\ Up(p)
  /\ ut[p] = "forking"
  /\ ut' = [ut EXCEPT ![p] = "app"]
  /\ UNCHANGED <<life, ct, epoch, num_peers, chanVars, coordVars, diskVars,
                 boundVars>>

\* The child's handshake gets no answer: xnd_abort.
HelloEOF(c) ==
  /\ Up(c)
  /\ ct[c] = "hello"
  /\ CoordGone
  /\ Dies(c)
  /\ UNCHANGED <<up, coordVars, diskVars, boundVars>>

\* exit: xnd_cleanup calls disconnect_from_coord, which sends XND_EXIT twice.
Exit(p) ==
  /\ UserStarts(p, "exit")
  /\ up' = IF CoordGone THEN up
           ELSE [up EXCEPT ![p] = @ \o <<msg("EXIT"), msg("EXIT")>>]
  /\ Dies(p)
  /\ UNCHANGED <<coordVars, diskVars, rounds, faults, restarts>>

-----------------------------------------------------------------------------
(* coord_work: registrations, requests and commands *)

\* proc_list_remove, with proc_exit_callback.
proc_list_remove(p) ==
  /\ proc_list' = proc_list \ {p}
  /\ up' = [up EXCEPT ![p] = <<>>]

\* coord_wait_for_msg on p's connection: EOF or XND_EXIT removes p, anything
\* else is unexpected.  (The loop then looks at the freed entry once more.)
coord_wait_for_msg(p) ==
  /\ kpc = "serve"
  /\ p \in proc_list
  /\ Readable(p)
  /\ IF up[p] = <<>> \/ Head(up[p]).hdr = "EXIT"
       THEN /\ proc_list_remove(p)
            /\ UNCHANGED <<kpc, back, pstate, kepoch, knum, loopVars, forkVars>>
       ELSE CoordDies /\ UNCHANGED up
  /\ UNCHANGED <<procVars, down, diskVars, boundVars>>

\* proc_list_filter, called every COORD_HEARTBEAT_INTERVAL iterations.
proc_list_filter ==
  /\ kpc = "serve"
  /\ \E p \in proc_list : Gone(p)
  /\ proc_list' = {p \in proc_list : ~Gone(p)}
  /\ UNCHANGED <<procVars, chanVars, kpc, back, pstate, kepoch, knum, loopVars,
                 forkVars, diskVars, boundVars>>

\* The loop of coord_work ends when no process is left.
CoordFinished ==
  /\ kpc = "serve"
  /\ proc_list = {}
  /\ CoordDies
  /\ UNCHANGED <<procVars, chanVars, diskVars, boundVars>>

\* coord_send_virt_to_real, coord_send_real_to_virt: the answer, or the end of
\* the coordinator when the process that asked is gone.
coord_send_translation(p) ==
  /\ kpc = "serve"
  /\ ut[p] = "call"
  /\ IF Up(p)
       THEN /\ ut' = [ut EXCEPT ![p] = "app"]
            /\ UNCHANGED coordVars
       ELSE /\ CoordDies
            /\ ut' = [ut EXCEPT ![p] = "none"]
  /\ UNCHANGED <<life, ct, epoch, num_peers, chanVars, diskVars, boundVars>>

\* coord_atfork sends the child's virtual pid to the parent, which must be
\* registered, and then waits for the child on the same connection.
coord_atfork(p) ==
  /\ kpc = "serve"
  /\ ut[p] = "fork"
  /\ IF Up(p) /\ p \in proc_list
       THEN /\ kpc' = "atfork"
            /\ forker' = p
            /\ ut' = [ut EXCEPT ![p] = "forking"]
            /\ UNCHANGED <<back, proc_list, pstate, kepoch, knum, loopVars, child>>
       ELSE /\ CoordDies
            /\ ut' = [ut EXCEPT ![p] = "none"]
  /\ UNCHANGED <<life, ct, epoch, num_peers, chanVars, diskVars, boundVars>>

\* The child's handshake arrives and is answered: it is registered, its
\* checkpoint thread starts and __fork_hook returns in it.  The child has to
\* name the process that asked for the fork as its parent: after the end of
\* that process it may be launchd, and the assertion fails.
AtforkChild(c) ==
  /\ kpc = "atfork"
  /\ child = c
  /\ \/ /\ Up(c)
        /\ kpc' = "serve"
        /\ proc_list' = proc_list \cup {c}
        /\ pstate' = [pstate EXCEPT ![c] = "PROC_RUNNING"]
        /\ forker' = NoProc
        /\ child' = NoProc
        /\ ct' = [ct EXCEPT ![c] = "listen"]
        /\ ut' = [ut EXCEPT ![c] = "app"]
        /\ UNCHANGED <<back, kepoch, knum, loopVars>>
     \/ /\ ~Up(c) \/ ~Up(forker)
        /\ CoordDies
        /\ UNCHANGED <<ct, ut>>
  /\ UNCHANGED <<life, epoch, num_peers, chanVars, diskVars, boundVars>>

\* No child will come, the connection is closed: coord_exit.
AtforkEOF ==
  /\ kpc = "atfork"
  /\ child = NoProc
  /\ ~(Up(forker) /\ ut[forker] = "forking")
  /\ CoordDies
  /\ UNCHANGED <<procVars, chanVars, diskVars, boundVars>>

\* XND_CKPT_CMD, or the checkpoint interval.  coord_do_restart also accepts
\* commands while it waits for the processes to come back.
Command ==
  /\ kpc = "serve" \/ (EarlyCommands /\ kpc = "restart")
  /\ rounds < MaxRounds
  /\ rounds' = rounds + 1
  /\ back' = kpc
  /\ kpc' = "prepare"
  /\ UNCHANGED <<procVars, chanVars, proc_list, pstate, kepoch, knum, loopVars,
                 forkVars, diskVars, calls, faults, restarts>>

-----------------------------------------------------------------------------
(* coord_do_checkpoint *)

\* coord_collective_prepare drops the processes that are gone and waits until
\* every remaining connection is writable, as they always are.
Survivors == {p \in proc_list : ~Gone(p)}

\* A loop over the processes S starts at coordinator point k; with none of
\* them left the coordinator is past it, at point after.
StartLoop(k, S, after) ==
  /\ kpc' = IF S = {} THEN after ELSE k
  /\ todo' = S
  /\ ready' = 0
  /\ total' = 0

coord_collective_prepare ==
  /\ kpc = "prepare"
  /\ proc_list' = Survivors
  /\ IF Survivors = {}
       THEN kpc' = back /\ UNCHANGED loopVars
       ELSE StartLoop("suspend", Survivors, "suspend")
  /\ UNCHANGED <<procVars, chanVars, back, pstate, kepoch, knum, forkVars,
                 diskVars, boundVars>>

\* The end of the loop body of coord_suspend_processes: p leaves the list if
\* it is gone and is counted otherwise.
CountOrRemove(p) ==
  /\ todo' = todo \ {p}
  /\ IF Gone(p)
       THEN proc_list' = proc_list \ {p} /\ UNCHANGED total
       ELSE total' = total + 1 /\ UNCHANGED proc_list
  /\ UNCHANGED <<kpc, back, kepoch, knum, forkVars>>

\* Mutant of SuspendAsk: p->state is not set, the next pass asks again.
SuspendAskAgain(p) ==
  /\ kpc = "suspend"
  /\ p \in todo
  /\ pstate[p] = "PROC_RUNNING"
  /\ Up(p)
  /\ down' = [down EXCEPT ![p] = Append(@, msg("CKPT_REQUEST"))]
  /\ CountOrRemove(p)
  /\ UNCHANGED <<procVars, up, pstate, ready, diskVars, boundVars>>

\* PROC_RUNNING: XND_CKPT_REQUEST is sent.
SuspendAsk(p) ==
  /\ kpc = "suspend"
  /\ p \in todo
  /\ pstate[p] = "PROC_RUNNING"
  /\ IF Up(p)
       THEN /\ down' = [down EXCEPT ![p] = Append(@, msg("CKPT_REQUEST"))]
            /\ pstate' = [pstate EXCEPT ![p] = "PROC_RECV_CKPT_REQUEST"]
            /\ CountOrRemove(p)
            /\ UNCHANGED ready
       ELSE CoordDies /\ UNCHANGED down
  /\ UNCHANGED <<procVars, up, diskVars, boundVars>>

\* PROC_RECV_CKPT_REQUEST: a blocking read; only XND_CKPT_READY counts.
SuspendAnswer(p) ==
  /\ kpc = "suspend"
  /\ p \in todo
  /\ pstate[p] = "PROC_RECV_CKPT_REQUEST"
  /\ Readable(p)
  /\ IF up[p] # <<>> /\ Head(up[p]).hdr = "CKPT_READY"
       THEN /\ pstate' = [pstate EXCEPT ![p] = "PROC_READY_FOR_CKPT"]
            /\ ready' = ready + 1
       ELSE UNCHANGED <<pstate, ready>>
  /\ up' = [up EXCEPT ![p] = IF @ = <<>> THEN @ ELSE Tail(@)]
  /\ CountOrRemove(p)
  /\ UNCHANGED <<procVars, down, diskVars, boundVars>>

\* Ready in an earlier pass, or in a state the loop does not handle.
SuspendOther(p) ==
  /\ kpc = "suspend"
  /\ p \in todo
  /\ pstate[p] \notin {"PROC_RUNNING", "PROC_RECV_CKPT_REQUEST"}
  /\ ready' = IF pstate[p] = "PROC_READY_FOR_CKPT" THEN ready + 1 ELSE ready
  /\ CountOrRemove(p)
  /\ UNCHANGED <<procVars, chanVars, pstate, diskVars, boundVars>>

\* Mutant of SuspendPassEnd: the counters are not reset for the next pass.
SuspendPassEndKeepsCounts ==
  /\ kpc = "suspend"
  /\ todo = {}
  /\ IF ready = total
       THEN kpc' = "mkdir" /\ UNCHANGED loopVars
       ELSE kpc' = kpc /\ todo' = proc_list /\ UNCHANGED <<ready, total>>
  /\ UNCHANGED <<procVars, chanVars, back, proc_list, pstate, kepoch, knum,
                 forkVars, diskVars, boundVars>>

\* End of a pass: every process is ready, or another pass.
SuspendPassEnd ==
  /\ kpc = "suspend"
  /\ todo = {}
  /\ IF ready = total
       THEN kpc' = "mkdir" /\ UNCHANGED loopVars
       ELSE StartLoop("suspend", proc_list, "suspend")
  /\ UNCHANGED <<procVars, chanVars, back, proc_list, pstate, kepoch, knum,
                 forkVars, diskVars, boundVars>>

\* The directory that xnd_ckptdir_unlink is removing, if any: that of the
\* previous epoch, or the one that xnd_ckptdir_create could not make.
Unlinking(e) ==
  \/ kpc = "unlink" /\ kepoch = e + 1
  \/ kpc = "discard" /\ kepoch = e

\* The loop of xnd_ckptdir_unlink removes one file, in the order of readdir.
UnlinkFile(e) ==
  /\ Unlinking(e)
  /\ \/ /\ manifest[e] # {}
        /\ manifest' = [manifest EXCEPT ![e] = {}]
        /\ UNCHANGED image
     \/ \E p \in Procs :
          /\ image[e][p] # NoFile
          /\ image' = [image EXCEPT ![e][p] = NoFile]
          /\ UNCHANGED manifest
  /\ UNCHANGED <<procVars, chanVars, coordVars, dirs, boundVars>>

\* The end of xnd_ckptdir_unlink: the directory is empty and goes, or unlink
\* fails and the rest stays.
xnd_ckptdir_unlink(e) ==
  /\ \/ /\ manifest[e] = {}
        /\ \A p \in Procs : image[e][p] = NoFile
        /\ dirs' = dirs \ {e}
     \/ DiskFails /\ UNCHANGED dirs
  /\ UNCHANGED <<image, manifest>>

\* Mutant of xnd_ckptdir_create: the previous epoch makes room for the new.
xnd_ckptdir_create_replaces ==
  /\ kpc = "mkdir"
  /\ dirs' = {kepoch}
  /\ image' = [image EXCEPT ![IF kepoch = 0 THEN 0 ELSE kepoch - 1] =
                  [p \in Procs |-> NoFile]]
  /\ manifest' = [e \in Epochs |-> {}]
  /\ knum' = Cardinality(proc_list)
  /\ kpc' = "prestart"
  /\ UNCHANGED <<procVars, chanVars, back, proc_list, pstate, kepoch, loopVars,
                 forkVars, boundVars>>

\* xnd_ckptdir_create makes a new directory; when it cannot, "Checkpoint
\* failed": the directory is removed ...
xnd_ckptdir_create ==
  /\ kpc = "mkdir"
  /\ \/ /\ kepoch \notin dirs
        /\ dirs' = dirs \cup {kepoch}
        /\ knum' = Cardinality(proc_list)
        /\ kpc' = "prestart"
     \/ /\ DiskFails \/ kepoch \in dirs
        /\ kpc' = "discard"
        /\ UNCHANGED <<dirs, knum>>
  /\ UNCHANGED <<procVars, chanVars, back, proc_list, pstate, kepoch, loopVars,
                 forkVars, image, manifest, boundVars>>

\* ... and nobody is told.
CheckpointFailed ==
  /\ kpc = "discard"
  /\ xnd_ckptdir_unlink(kepoch)
  /\ kpc' = back
  /\ UNCHANGED <<procVars, chanVars, back, proc_list, pstate, kepoch, knum,
                 loopVars, forkVars, boundVars>>

\* The second coord_collective_prepare; the number of peers is asserted.
PrepareStart ==
  /\ kpc = "prestart"
  /\ IF Cardinality(Survivors) = knum
       THEN /\ StartLoop("start", proc_list, "reduce")
            /\ UNCHANGED <<back, proc_list, pstate, kepoch, knum, forkVars>>
       ELSE CoordDies
  /\ UNCHANGED <<procVars, chanVars, diskVars, boundVars>>

\* One iteration of coord_release_barrier: m is sent to p, which is asserted to
\* be in state expected and gets state next; after the last one the
\* coordinator goes on at k.
coord_release_barrier(p, m, expected, next, k) ==
  /\ p \in todo
  /\ IF Up(p) /\ pstate[p] = expected
       THEN /\ down' = [down EXCEPT ![p] = Append(@, m)]
            /\ pstate' = [pstate EXCEPT ![p] = next]
            /\ todo' = todo \ {p}
            /\ kpc' = IF todo = {p} THEN k ELSE kpc
            /\ UNCHANGED <<back, proc_list, kepoch, knum, ready, total, forkVars>>
       ELSE CoordDies /\ UNCHANGED down
  /\ UNCHANGED <<procVars, up, diskVars, boundVars>>

ReleasePreckpt(p) ==
  /\ kpc = "start"
  /\ coord_release_barrier(p, [hdr |-> "CKPT_START", peers |-> knum],
                           "PROC_READY_FOR_CKPT", "PROC_CKPT_IN_PROGRESS", "reduce")

\* coord_wait_for_ckpt_completions polls until every connection is readable,
\* dropping processes that are gone ...
ReducePoll ==
  /\ kpc = "reduce"
  /\ Survivors # proc_list
  /\ proc_list' = Survivors
  /\ UNCHANGED <<procVars, chanVars, kpc, back, pstate, kepoch, knum, loopVars,
                 forkVars, diskVars, boundVars>>

\* ... and gives up when one is missing.
ReduceReady ==
  /\ kpc = "reduce"
  /\ \A p \in proc_list : Readable(p)
  /\ IF Cardinality(proc_list) = knum
       THEN /\ StartLoop("collect", proc_list, "manifest")
            /\ UNCHANGED <<back, proc_list, pstate, kepoch, knum, forkVars>>
       ELSE CoordDies
  /\ UNCHANGED <<procVars, chanVars, diskVars, boundVars>>

\* Mutant of CollectDone: whatever was read, EOF too, counts as done.
CollectAnything(p) ==
  /\ kpc = "collect"
  /\ p \in todo
  /\ up' = [up EXCEPT ![p] = IF @ = <<>> THEN @ ELSE Tail(@)]
  /\ pstate' = [pstate EXCEPT ![p] = "PROC_CKPT_COMPLETE"]
  /\ total' = total + 1
  /\ todo' = todo \ {p}
  /\ kpc' = IF todo = {p} THEN "manifest" ELSE kpc
  /\ UNCHANGED <<back, proc_list, kepoch, knum, ready, forkVars>>
  /\ UNCHANGED <<procVars, down, diskVars, boundVars>>

\* Mutant of CollectDone: the processes are released before the manifest is
\* written.
CollectThenRelease(p) ==
  /\ kpc = "collect"
  /\ p \in todo
  /\ up[p] # <<>>
  /\ up' = [up EXCEPT ![p] = Tail(@)]
  /\ pstate' = [pstate EXCEPT ![p] = "PROC_CKPT_COMPLETE"]
  /\ IF todo = {p}
       THEN StartLoop("resume", proc_list, "manifest")
       ELSE todo' = todo \ {p} /\ total' = total + 1 /\ UNCHANGED <<kpc, ready>>
  /\ UNCHANGED <<back, proc_list, kepoch, knum, forkVars>>
  /\ UNCHANGED <<procVars, down, diskVars, boundVars>>

\* One message of each process, asserted to be in progress, is read; all have
\* to be XND_CKPT_DONE.
CollectDone(p) ==
  /\ kpc = "collect"
  /\ p \in todo
  /\ up' = [up EXCEPT ![p] = IF @ = <<>> THEN @ ELSE Tail(@)]
  /\ LET done == up[p] # <<>> /\ Head(up[p]).hdr = "CKPT_DONE"
         sum  == IF done THEN total + 1 ELSE total
     IN IF pstate[p] # "PROC_CKPT_IN_PROGRESS" \/ (todo = {p} /\ sum # knum)
          THEN CoordDies
          ELSE /\ pstate' = IF done
                              THEN [pstate EXCEPT ![p] = "PROC_CKPT_COMPLETE"]
                              ELSE pstate
               /\ total' = sum
               /\ todo' = todo \ {p}
               /\ kpc' = IF todo = {p} THEN "manifest" ELSE kpc
               /\ UNCHANGED <<back, proc_list, kepoch, knum, ready, forkVars>>
  /\ UNCHANGED <<procVars, down, diskVars, boundVars>>

\* coord_write_ckpt_manifest lists the checkpoint files that exist.  When all
\* processes have left the list, the manifest is written without an entry:
\* xnd_restart finds no process in it, as if there were none, or as in one
\* that could not be written to its end.
coord_write_ckpt_manifest ==
  LET files == {p \in Procs : image[kepoch][p].data # "none"}
      fits  == kepoch \in dirs /\ Cardinality(files) = knum
  IN /\ kpc = "manifest"
     /\ \/ /\ fits
           /\ manifest' = [manifest EXCEPT ![kepoch] = files]
           /\ StartLoop("resume", proc_list, "unlink")
           /\ UNCHANGED <<back, proc_list, pstate, kepoch, knum, forkVars>>
        \/ /\ ~fits \/ DiskFails
           /\ CoordDies
           /\ UNCHANGED manifest
     /\ UNCHANGED <<procVars, chanVars, dirs, image, boundVars>>

ReleasePostckpt(p) ==
  /\ kpc = "resume"
  /\ coord_release_barrier(p, msg("RESUME_AFTER_CKPT"),
                           "PROC_CKPT_COMPLETE", "PROC_RUNNING", "unlink")

\* The previous epoch's directory has been removed, the epoch is over.
CheckpointEnd ==
  /\ kpc = "unlink"
  /\ IF kepoch # 0 THEN xnd_ckptdir_unlink(kepoch - 1) ELSE UNCHANGED diskVars
  /\ kepoch' = kepoch + 1
  /\ kpc' = back
  /\ UNCHANGED <<procVars, chanVars, back, proc_list, pstate, knum, loopVars,
                 forkVars, boundVars>>

-----------------------------------------------------------------------------
(* Restart *)

\* xnd_restart on an epoch directory with a manifest, once nothing of the
\* computation runs any more: a new coordinator, and for each whole image a
\* process that continues in its checkpoint thread with the memory it had.
\* When a file that the manifest lists is missing nothing is started.
xnd_restart(e) ==
  LET S == {p \in manifest[e] : image[e][p].data = "whole"}
  IN /\ CoordGone
     /\ \A p \in Procs : ~Up(p)
     /\ manifest[e] # {}
     /\ \A p \in manifest[e] : image[e][p] # NoFile
     /\ restarts < MaxRestarts
     /\ restarts' = restarts + 1
     /\ life' = [p \in Procs |-> IF p \in S THEN "up" ELSE "absent"]
     /\ ct' = [p \in Procs |-> IF p \in S THEN "connect" ELSE "off"]
     /\ ut' = [p \in Procs |-> IF p \in S THEN "held" ELSE "none"]
     /\ epoch' = [p \in Procs |-> IF p \in S THEN e ELSE 0]
     /\ num_peers' = [p \in Procs |-> IF p \in S THEN image[e][p].peers ELSE 0]
     /\ down' = [p \in Procs |-> <<>>]
     /\ up' = [p \in Procs |-> <<>>]
     /\ kpc' = "restart"
     /\ kepoch' = 0
     /\ knum' = 0
     /\ UNCHANGED <<back, proc_list, pstate, loopVars, forkVars, diskVars,
                    rounds, calls, faults>>

\* xnd_postrestart_early: epoch++, then the handshake of
\* connect_to_coord_on_restart; the first process tells the coordinator the
\* epoch and the number of peers.
ConnectRestart(p) ==
  /\ kpc = "restart"
  /\ Up(p)
  /\ ct[p] = "connect"
  /\ epoch' = [epoch EXCEPT ![p] = @ + 1]
  /\ ct' = [ct EXCEPT ![p] = "rwait"]
  /\ IF proc_list = {}
       THEN kepoch' = epoch[p] + 1 /\ knum' = num_peers[p]
       ELSE UNCHANGED <<kepoch, knum>>
  /\ proc_list' = proc_list \cup {p}
  /\ pstate' = [pstate EXCEPT ![p] = "PROC_RESTART_IN_PROGRESS"]
  /\ UNCHANGED <<life, ut, num_peers, chanVars, kpc, back, loopVars, forkVars,
                 diskVars, boundVars>>

\* connect_to_coord fails or the handshake gets no answer: xnd_abort.
ConnectFails(p) ==
  /\ CoordGone
  /\ Up(p)
  /\ ct[p] = "connect"
  /\ Dies(p)
  /\ UNCHANGED <<up, coordVars, diskVars, boundVars>>

\* coord_do_restart once all peers are there.
RestartPrepare ==
  /\ kpc = "restart"
  /\ proc_list # {}
  /\ Cardinality(proc_list) >= knum
  /\ IF Cardinality(Survivors) = knum
       THEN /\ StartLoop("rrelease", proc_list, "serve")
            /\ UNCHANGED <<back, proc_list, pstate, kepoch, knum, forkVars>>
       ELSE CoordDies
  /\ UNCHANGED <<procVars, chanVars, diskVars, boundVars>>

ReleaseRestart(p) ==
  /\ kpc = "rrelease"
  /\ coord_release_barrier(p, msg("RESUME_AFTER_RESTART"),
                           "PROC_RESTART_IN_PROGRESS", "PROC_RUNNING", "serve")

\* The process that started the restart is gone before a process connected, or
\* before all did.
RestartBails ==
  /\ kpc = "restart"
  /\ \A p \in Procs : ~Up(p)
  /\ CoordDies
  /\ UNCHANGED <<procVars, chanVars, diskVars, boundVars>>

-----------------------------------------------------------------------------
(* Specification *)

CoordStep ==
  \/ proc_list_filter \/ CoordFinished \/ AtforkEOF
  \/ coord_collective_prepare \/ SuspendPassEnd \/ xnd_ckptdir_create
  \/ PrepareStart \/ ReducePoll \/ ReduceReady \/ coord_write_ckpt_manifest
  \/ CheckpointEnd \/ CheckpointFailed \/ RestartPrepare \/ RestartBails
  \/ \E e \in Epochs : UnlinkFile(e)
  \/ \E p \in Procs :
       \/ coord_wait_for_msg(p) \/ coord_send_translation(p) \/ coord_atfork(p)
       \/ AtforkChild(p)
       \/ SuspendAsk(p) \/ SuspendAnswer(p) \/ SuspendOther(p)
       \/ ReleasePreckpt(p) \/ CollectDone(p) \/ ReleasePostckpt(p)
       \/ ReleaseRestart(p)

CkptThreadStep(p) ==
  \/ ReceiveRequest(p) \/ RequestEOF(p) \/ BarrierEOF(p)
  \/ LeavePreckptBarrier(p) \/ SuspendUser(p) \/ CreateImage(p) \/ WriteImage(p)
  \/ EnterPostckptBarrier(p) \/ LeavePostckptBarrier(p)
  \/ ConnectRestart(p) \/ ConnectFails(p) \/ LeaveRestartBarrier(p)

\* Steps of a user thread that has started a call.
CallStep(p) ==
  \/ CallEOF(p) \/ ForkFails(p) \/ HelloEOF(p)
  \/ \E c \in Procs : Fork(p, c)

\* What the user, the program and the machine decide.
EnvStep ==
  \/ Command \/ CoordKilled
  \/ \E e \in Epochs : xnd_restart(e)
  \/ \E p \in Procs :
       TranslateRequest(p) \/ AtforkPrepare(p) \/ Exit(p) \/ Killed(p) \/ Reaped(p)

Next ==
  \/ CoordStep
  \/ EnvStep
  \/ \E p \in Procs : CkptThreadStep(p) \/ CallStep(p)

Spec == Init /\ [][Next]_vars

\* The coordinator and the processes are scheduled; commands, calls, deaths,
\* restarts and the waiting for ended processes are not promised.
Fairness ==
  /\ WF_vars(CoordStep)
  /\ \A p \in Procs : WF_vars(CkptThreadStep(p)) /\ WF_vars(CallStep(p))

FairSpec == Spec /\ Fairness

\* The same for a program that waits for its children.
ReapingSpec == FairSpec /\ \A p \in Procs : WF_vars(Reaped(p))
-----------------------------------------------------------------------------
(* Properties *)

\* Every variable holds a value of its kind; a connection never holds more
\* messages than the protocol has under way.
TypeOK ==
  /\ life \in [Procs -> {"absent", "up", "zombie", "gone"}]
  /\ ct \in [Procs -> CkptThreadPoint]
  /\ ut \in [Procs -> {"none", "app", "call", "fork", "forking", "held"}]
  /\ epoch \in [Procs -> Epochs]
  /\ num_peers \in [Procs -> Peers]
  /\ \A p \in Procs :
       /\ Len(down[p]) <= 2 /\ \A i \in DOMAIN down[p] : down[p][i] \in Message
       /\ Len(up[p]) <= 3 /\ \A i \in DOMAIN up[p] : up[p][i] \in Message
  /\ kpc \in CoordPoint
  /\ back \in {"serve", "restart"}
  /\ proc_list \subseteq Procs
  /\ pstate \in [Procs -> ProcState]
  /\ kepoch \in Epochs
  /\ knum \in Peers
  /\ todo \subseteq proc_list
  /\ ready \in Peers
  /\ total \in Peers
  /\ forker \in Procs \cup {NoProc}
  /\ child \in Procs \cup {NoProc}
  /\ dirs \subseteq Epochs
  /\ image \in [Epochs -> [Procs -> File]]
  /\ manifest \in [Epochs -> SUBSET Procs]
  /\ rounds \in 0..MaxRounds
  /\ calls \in 0..MaxCalls
  /\ faults \in 0..MaxFaults
  /\ restarts \in 0..MaxRestarts

\* The file of p in the directory of e is whole and was taken with the number
\* of peers that the manifest lists, the number that coord_do_restart waits for.
Whole(e, p) == image[e][p] = [data |-> "whole", peers |-> Cardinality(manifest[e])]

\* The directory of e is all that a restart needs.
Restartable(e) == manifest[e] # {} /\ \A p \in manifest[e] : Whole(e, p)

\* A manifest tells the truth: each image it lists is whole, or has been removed
\* by xnd_ckptdir_unlink, which starts only when the computation can be
\* restarted from another directory, and may be cut short.
ManifestTruthful ==
  \A e \in Epochs : \A p \in manifest[e] :
    \/ Whole(e, p)
    \/ image[e][p] = NoFile /\ \E f \in Epochs : Restartable(f)

\* Whatever dies whenever, also in the middle of xnd_ckptdir_unlink, a
\* computation that went past a checkpoint can be restarted from it or from a
\* later one: all images that its manifest lists are there and whole.
Recoverable ==
  \A p \in Procs : epoch[p] > 0 /\ ct[p] # "connect" =>
    \E e \in Epochs : e >= epoch[p] - 1 /\ Restartable(e)

\* Processes and the coordinator count epochs on their own; they agree
\* whenever a process may write its image.
EpochAgreement ==
  \A p \in proc_list : Up(p) /\ ct[p] \in {"suspend", "write", "writing", "written"}
    => epoch[p] = kepoch

\* No process takes up its work after a checkpoint before its image is listed
\* in the manifest: nothing a process does after a checkpoint can be seen by
\* others while the checkpoint may still fail.
NoEarlyResume ==
  [][\A p \in Procs : ct[p] # "rwait" /\ ut[p] = "held" /\ ut'[p] = "app"
       => p \in manifest[epoch[p]]]_vars

\* A process never finds another message than the one it waits for, although
\* the coordinator may be a round ahead: what enter_coord_barrier and
\* wait_for_ckpt_request_from_coord treat as an error does not happen.
MessagesExpected ==
  \A p \in Procs : Up(p) /\ down[p] # <<>> =>
    /\ ct[p] = "listen" => Head(down[p]).hdr = "CKPT_REQUEST"
    /\ ct[p] \in DOMAIN Expected => Head(down[p]).hdr = Expected[ct[p]]

\* The states that coord_release_barrier and coord_wait_for_ckpt_completions
\* assert of each process are the states the processes are in, after failed
\* rounds and restarts too.
StatesExpected ==
  \A p \in todo :
    /\ kpc = "start" => pstate[p] = "PROC_READY_FOR_CKPT"
    /\ kpc = "collect" => pstate[p] = "PROC_CKPT_IN_PROGRESS"
    /\ kpc = "resume" => pstate[p] = "PROC_CKPT_COMPLETE"
    /\ kpc = "rrelease" => pstate[p] = "PROC_RESTART_IN_PROGRESS"

\* The coordinator finishes every checkpoint it starts, or gives up.
CheckpointCompletes ==
  (kpc \in {"prepare", "suspend", "mkdir", "prestart", "start", "reduce",
            "collect", "manifest", "resume", "unlink", "discard"})
    ~> (kpc \in {"serve", "restart", "exited"})

\* A process in one of the barriers leaves it.
BarriersOpen ==
  \A p \in Procs : (ct[p] \in DOMAIN Expected) ~> (ct[p] \notin DOMAIN Expected)

\* A checkpoint command that the coordinator acknowledges has made a
\* checkpoint: the epoch advanced.
CommandTakesCheckpoint ==
  [][(kpc \in {"unlink", "discard"}) /\ kpc' \in {"serve", "restart"}
       => kepoch' > kepoch]_vars

=============================================================================
