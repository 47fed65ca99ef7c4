-------------------------- MODULE ThreadSuspension --------------------------
(***************************************************************************)
(* How the checkpoint thread of one process stops the user threads, holds  *)
(* them in a barrier while the image is written, and releases them         *)
(* (xnd/thread_info.c, xnd/thread_info.h), together with the hooks through *)
(* which user threads create, join and end threads or enter an "unsafe"    *)
(* region in which they must not be stopped                                *)
(* (xnd/wrappers/pthread_wrappers.c).                                      *)
(*                                                                         *)
(* One action is one step between two points at which another thread can   *)
(* observe or change what the step uses.  th->state is an _Atomic field    *)
(* and every comparison in the source is a load of its own, so the scan of *)
(* suspend_threads takes one step per comparison.  A condition variable is *)
(* modelled by its predicate: a waiter proceeds once the predicate lets it *)
(* and the mutex is free, because every change of a predicate is followed  *)
(* by the broadcast or signal that wakes its waiters.                      *)
(***************************************************************************)
EXTENDS Integers, FiniteSets

CONSTANTS
  Threads,    \* user threads that exist at some time
  Started,    \* those already running when the process is first observed
  Ckpt,       \* the checkpoint thread, as the owner of a mutex
  NoOne,      \* no thread: a free mutex, no thread being examined
  Ops,        \* Ops[t]: the hooked calls the program of thread t makes
  MaxCalls,   \* bound: hooked calls per thread
  MaxRounds,  \* bound: checkpoint requests
  Paced       \* TRUE: a request comes only once the previous round is over
              \* in every thread; FALSE: it may come as soon as the
              \* checkpoint thread listens again

Calls == {"hook", "wait4", "create", "join", "exit"}

ASSUME ConstantsAssumption ==
  /\ Started \subseteq Threads
  /\ Ckpt \notin Threads
  /\ NoOne \notin Threads \cup {Ckpt}
  /\ Ops \in [Threads -> SUBSET Calls]
  /\ MaxCalls \in Nat
  /\ MaxRounds \in Nat
  /\ Paced \in BOOLEAN
  /\ IsFiniteSet(Threads)

VARIABLES
  \* struct thread_info, one per thread
  state,      \* th->state
  depth,      \* th->wrapper_depth
  exiting,    \* threads with th->exiting set
  joined,     \* threads with th->joined set
  lock,       \* owner of th->lock
  \* where each thread is
  pc,         \* in its program and the hooks it calls
  op,         \* the hooked call it is in, or "none"
  arg,        \* the thread that call creates or joins, or NoOne
  calls,      \* number of hooked calls made
  hpc,        \* in thread_sighandler, "none" when outside
  pending,    \* threads with the checkpoint signal pending
  \* the file-scope variables of thread_info.c
  list,       \* thread_list
  zombies,    \* zombie_list
  reaped,     \* descriptors freed by thread_reap
  ckpt_mtx,   \* owner of ckpt_mtx
  arrived,    \* threads_arrived
  expected,   \* threads_expected
  xnd_state,  \* libxnd_state
  \* the checkpoint thread
  cpc,        \* where it is in ckpt_thread_work
  todo,       \* list members the current pass has still to visit
  cur,        \* list member being examined
  suspended,  \* local counter of suspend_threads
  rescan,     \* another pass is needed
  rounds,     \* requests received
  aborted     \* an xnd_assert failed and the process called abort()

threadVars == <<state, depth, exiting, joined, lock>>
progVars   == <<pc, op, arg, calls>>
sigVars    == <<hpc, pending>>
listVars   == <<list, zombies, reaped>>
barVars    == <<ckpt_mtx, arrived, expected, xnd_state>>
ckptVars   == <<cpc, todo, cur, suspended, rescan, rounds>>
vars == <<threadVars, progVars, sigVars, listVars, barVars, ckptVars, aborted>>

ThreadState == {"ST_EMBRYO", "ST_RUNNING", "ST_SIGNALED", "ST_SUSPINPROG",
                "ST_SUSPENDED", "ST_UNSAFE"}

XndState == {"XND_RUNNING", "XND_CKPT_PENDING", "XND_SUSPINPROG",
             "XND_CKPTINPROG"}

ProgramPoint == {"unborn", "start", "ready", "app", "enter", "unsafe",
                 "born_wait", "join_check", "join_wait", "exit_locked",
                 "exited", "dead"}

HandlerPoint == {"none", "saving", "b_lock", "b_arrive", "b_hold", "b_wait",
                 "b_out"}

CkptPoint == {"idle", "pending", "reset", "scan_lock", "scan", "scan_th",
              "ld_running", "cas", "ld_signaled", "ld_suspended",
              "ld_suspinprog", "ld_unsafe", "wfe_lock", "wfe", "wfe_assert",
              "arrival", "arrival_wait", "write", "release"}

\* The points at which the checkpoint thread holds thread_list.lock.  A user
\* thread takes that lock only in thread_list_add, for one step.
ListLocked ==
  cpc \in {"scan", "scan_th", "ld_running", "cas", "ld_signaled",
           "ld_suspended", "ld_suspinprog", "ld_unsafe", "wfe", "wfe_assert"}

\* The kernel still knows the thread: pthread_kill does not answer ESRCH.
Alive(t) == pc[t] \notin {"unborn", "dead"}

\* Thread t executes its own code, hooks included: no handler on its stack.
Runs(t) == ~aborted /\ hpc[t] = "none"

Init ==
  /\ state = [t \in Threads |-> IF t \in Started THEN "ST_RUNNING" ELSE "ST_EMBRYO"]
  /\ depth = [t \in Threads |-> 0]
  /\ exiting = {}
  /\ joined = {}
  /\ lock = [t \in Threads |-> NoOne]
  /\ pc = [t \in Threads |-> IF t \in Started THEN "app" ELSE "unborn"]
  /\ op = [t \in Threads |-> "none"]
  /\ arg = [t \in Threads |-> NoOne]
  /\ calls = [t \in Threads |-> 0]
  /\ hpc = [t \in Threads |-> "none"]
  /\ pending = {}
  /\ list = Started
  /\ zombies = {}
  /\ reaped = {}
  /\ ckpt_mtx = NoOne
  /\ arrived = 0
  /\ expected = 0
  /\ xnd_state = "XND_RUNNING"
  /\ cpc = "idle"
  /\ todo = {}
  /\ cur = NoOne
  /\ suspended = 0
  /\ rescan = FALSE
  /\ rounds = 0
  /\ aborted = FALSE

-----------------------------------------------------------------------------
(* Unsafe regions *)

\* The program of t starts hooked call c (within its bound of calls).
Starts(t, c) ==
  /\ Runs(t)
  /\ pc[t] = "app"
  /\ c \in Ops[t]
  /\ calls[t] < MaxCalls
  /\ calls' = [calls EXCEPT ![t] = @ + 1]
  /\ op' = [op EXCEPT ![t] = c]

\* Mutant of unsafe_enter: the nesting depth is not counted.
unsafe_enter_uncounted(t) ==
  /\ pc' = [pc EXCEPT ![t] = IF depth[t] = 0 THEN "enter" ELSE "unsafe"]
  /\ UNCHANGED depth

\* unsafe_enter up to its CAS loop: only the outermost call has to win the
\* CAS, a nested one goes on at once.
unsafe_enter(t) ==
  /\ depth' = [depth EXCEPT ![t] = @ + 1]
  /\ pc' = [pc EXCEPT ![t] = IF depth[t] = 0 THEN "enter" ELSE "unsafe"]

\* Mutant of UnsafeCas: a plain store instead of the compare-and-swap.
UnsafeStore(t) ==
  /\ Runs(t)
  /\ pc[t] = "enter"
  /\ state' = [state EXCEPT ![t] = "ST_UNSAFE"]
  /\ pc' = [pc EXCEPT ![t] = "unsafe"]
  /\ UNCHANGED <<depth, exiting, joined, lock, op, arg, calls, sigVars,
                 listVars, barVars, ckptVars, aborted>>

\* The CAS loop of unsafe_enter ends when it finds ST_RUNNING.
UnsafeCas(t) ==
  /\ Runs(t)
  /\ pc[t] = "enter"
  /\ state[t] = "ST_RUNNING"
  /\ state' = [state EXCEPT ![t] = "ST_UNSAFE"]
  /\ pc' = [pc EXCEPT ![t] = "unsafe"]
  /\ UNCHANGED <<depth, exiting, joined, lock, op, arg, calls, sigVars,
                 listVars, barVars, ckptVars, aborted>>

\* unsafe_exit: leaving the outermost region undoes the CAS.
unsafe_exit(t) ==
  /\ depth' = [depth EXCEPT ![t] = @ - 1]
  /\ state' = [state EXCEPT ![t] =
                 IF depth[t] = 1 /\ @ = "ST_UNSAFE" THEN "ST_RUNNING" ELSE @]
  /\ pc' = [pc EXCEPT ![t] = "app"]
  /\ op' = [op EXCEPT ![t] = "none"]
  /\ arg' = [arg EXCEPT ![t] = NoOne]

\* Any hook that brackets one call of the system with an unsafe region.
HookEnter(t) ==
  /\ \E c \in {"hook", "wait4", "create"} : Starts(t, c)
  /\ unsafe_enter(t)
  /\ UNCHANGED <<state, exiting, joined, lock, arg, sigVars, listVars,
                 barVars, ckptVars, aborted>>

HookExit(t) ==
  /\ Runs(t)
  /\ pc[t] = "unsafe"
  /\ op[t] = "hook"
  /\ unsafe_exit(t)
  /\ UNCHANGED <<exiting, joined, lock, calls, sigVars, listVars, barVars,
                 ckptVars, aborted>>

\* __wait4_hook when wait4 answers -1: "goto fail" returns to the program
\* without unsafe_exit.
Wait4Fails(t) ==
  /\ Runs(t)
  /\ pc[t] = "unsafe"
  /\ op[t] = "wait4"
  /\ pc' = [pc EXCEPT ![t] = "app"]
  /\ op' = [op EXCEPT ![t] = "none"]
  /\ UNCHANGED <<threadVars, arg, calls, sigVars, listVars, barVars,
                 ckptVars, aborted>>

-----------------------------------------------------------------------------
(* Creating, joining and ending threads *)

\* __pthread_create_hook, the call of pthread_create: thread_init made the
\* descriptor ST_EMBRYO, the new thread is about to run thread_start.
PthreadCreate(t, u) ==
  /\ Runs(t)
  /\ pc[t] = "unsafe"
  /\ op[t] = "create"
  /\ pc[u] = "unborn"
  /\ pc' = [pc EXCEPT ![t] = "born_wait", ![u] = "start"]
  /\ arg' = [arg EXCEPT ![t] = u]
  /\ UNCHANGED <<threadVars, op, calls, sigVars, listVars, barVars, ckptVars,
                 aborted>>

\* The error path of the same hook: thread_init or pthread_create failed.
PthreadCreateFails(t) ==
  /\ Runs(t)
  /\ pc[t] = "unsafe"
  /\ op[t] = "create"
  /\ unsafe_exit(t)
  /\ UNCHANGED <<exiting, joined, lock, calls, sigVars, listVars, barVars,
                 ckptVars, aborted>>

\* The creator saw the new thread leave ST_EMBRYO, under the new thread's lock.
PthreadCreateDone(t) ==
  /\ Runs(t)
  /\ pc[t] = "born_wait"
  /\ state[arg[t]] # "ST_EMBRYO"
  /\ lock[arg[t]] = NoOne
  /\ unsafe_exit(t)
  /\ UNCHANGED <<exiting, joined, lock, calls, sigVars, listVars, barVars,
                 ckptVars, aborted>>

\* thread_list_add, called by the new thread in thread_start.
thread_list_add(u) ==
  /\ Runs(u)
  /\ pc[u] = "start"
  /\ ~ListLocked
  /\ list' = list \cup {u}
  /\ pc' = [pc EXCEPT ![u] = "ready"]
  /\ UNCHANGED <<threadVars, op, arg, calls, sigVars, zombies, reaped, barVars,
                 ckptVars, aborted>>

\* thread_start, the section under myself->lock that wakes the creator.
thread_start(u) ==
  /\ Runs(u)
  /\ pc[u] = "ready"
  /\ lock[u] = NoOne
  /\ state' = [state EXCEPT ![u] = "ST_RUNNING"]
  /\ pc' = [pc EXCEPT ![u] = "app"]
  /\ UNCHANGED <<depth, exiting, joined, lock, op, arg, calls, sigVars,
                 listVars, barVars, ckptVars, aborted>>

\* __pthread_join_hook takes the lock of the thread to join.  A program joins
\* a thread at most once and never itself.
JoinLock(t, u) ==
  /\ Starts(t, "join")
  /\ u # t
  /\ pc[u] \notin {"unborn", "start", "ready"}
  /\ u \notin joined
  /\ \A s \in Threads : arg[s] # u
  /\ lock[u] = NoOne
  /\ lock' = [lock EXCEPT ![u] = t]
  /\ arg' = [arg EXCEPT ![t] = u]
  /\ pc' = [pc EXCEPT ![t] = "join_check"]
  /\ UNCHANGED <<state, depth, exiting, joined, sigVars, listVars, barVars,
                 ckptVars, aborted>>

\* The loop test, t->lock held: sleep (which frees the lock), or unlock and
\* enter the unsafe region around the real pthread_join.
JoinCheck(t) ==
  /\ Runs(t)
  /\ pc[t] = "join_check"
  /\ lock' = [lock EXCEPT ![arg[t]] = NoOne]
  /\ IF arg[t] \in exiting
       THEN unsafe_enter(t)
       ELSE /\ pc' = [pc EXCEPT ![t] = "join_wait"]
            /\ UNCHANGED depth
  /\ UNCHANGED <<state, exiting, joined, op, arg, calls, sigVars, listVars,
                 barVars, ckptVars, aborted>>

\* pthread_cond_wait returns with t->lock held again.
JoinWake(t) ==
  /\ Runs(t)
  /\ pc[t] = "join_wait"
  /\ arg[t] \in exiting
  /\ lock[arg[t]] = NoOne
  /\ lock' = [lock EXCEPT ![arg[t]] = t]
  /\ pc' = [pc EXCEPT ![t] = "join_check"]
  /\ UNCHANGED <<state, depth, exiting, joined, op, arg, calls, sigVars,
                 listVars, barVars, ckptVars, aborted>>

\* The real pthread_join answers once the thread is gone; the hook records it
\* and leaves the unsafe region.
PthreadJoin(t) ==
  /\ Runs(t)
  /\ pc[t] = "unsafe"
  /\ op[t] = "join"
  /\ pc[arg[t]] = "dead"
  /\ joined' = joined \cup {arg[t]}
  /\ unsafe_exit(t)
  /\ UNCHANGED <<exiting, lock, calls, sigVars, listVars, barVars, ckptVars,
                 aborted>>

\* thread_exit takes its own lock ...
ThreadExitLock(t) ==
  /\ Starts(t, "exit")
  /\ lock[t] = NoOne
  /\ lock' = [lock EXCEPT ![t] = t]
  /\ pc' = [pc EXCEPT ![t] = "exit_locked"]
  /\ UNCHANGED <<state, depth, exiting, joined, arg, sigVars, listVars,
                 barVars, ckptVars, aborted>>

\* ... marks itself exiting, wakes the joiner and unlocks ...
ThreadExitMark(t) ==
  /\ Runs(t)
  /\ pc[t] = "exit_locked"
  /\ exiting' = exiting \cup {t}
  /\ lock' = [lock EXCEPT ![t] = NoOne]
  /\ pc' = [pc EXCEPT ![t] = "exited"]
  /\ UNCHANGED <<state, depth, joined, op, arg, calls, sigVars, listVars,
                 barVars, ckptVars, aborted>>

\* ... and is gone after the real pthread_exit, a pending signal with it.
\* th->state keeps its last value.
ThreadDies(t) ==
  /\ Runs(t)
  /\ pc[t] = "exited"
  /\ pc' = [pc EXCEPT ![t] = "dead"]
  /\ pending' = pending \ {t}
  /\ UNCHANGED <<threadVars, op, arg, calls, hpc, listVars, barVars, ckptVars,
                 aborted>>

-----------------------------------------------------------------------------
(* The signal handler of a user thread *)

\* A failing xnd_assert calls abort().
xnd_abort ==
  /\ aborted' = TRUE
  /\ UNCHANGED <<threadVars, progVars, hpc, listVars, barVars, ckptVars>>

\* A transition of th->state that the handler asserts to succeed, on its way
\* to handler point h.
AssertCas(t, from, to, h) ==
  IF state[t] = from
    THEN /\ state' = [state EXCEPT ![t] = to]
         /\ hpc' = [hpc EXCEPT ![t] = h]
         /\ UNCHANGED <<depth, exiting, joined, lock, progVars, listVars,
                        barVars, ckptVars, aborted>>
    ELSE xnd_abort

\* The kernel delivers the checkpoint signal at some point of the thread's own
\* code; the handler starts with ST_SIGNALED -> ST_SUSPINPROG.
thread_sighandler(t) ==
  /\ Runs(t)
  /\ t \in pending
  /\ Alive(t)
  /\ pending' = pending \ {t}
  /\ AssertCas(t, "ST_SIGNALED", "ST_SUSPINPROG", "saving")

\* TLS, signal state and context are saved; ST_SUSPINPROG -> ST_SUSPENDED.
HandlerSave(t) ==
  /\ ~aborted
  /\ hpc[t] = "saving"
  /\ AssertCas(t, "ST_SUSPINPROG", "ST_SUSPENDED", "b_lock")
  /\ UNCHANGED pending

\* thread_barrier: ckpt_mtx is held and XND_SUSPINPROG is over.
BarrierLock(t) ==
  /\ ~aborted
  /\ hpc[t] = "b_lock"
  /\ ckpt_mtx = NoOne
  /\ xnd_state # "XND_SUSPINPROG"
  /\ ckpt_mtx' = t
  /\ hpc' = [hpc EXCEPT ![t] = "b_arrive"]
  /\ UNCHANGED <<threadVars, progVars, pending, listVars, arrived, expected,
                 xnd_state, ckptVars, aborted>>

\* Mutant of BarrierArrive: threads_arrived is not incremented.
BarrierArriveUncounted(t) ==
  /\ ~aborted
  /\ hpc[t] = "b_arrive"
  /\ hpc' = [hpc EXCEPT ![t] = "b_hold"]
  /\ UNCHANGED <<threadVars, progVars, pending, listVars, barVars, ckptVars,
                 aborted>>

BarrierArrive(t) ==
  /\ ~aborted
  /\ hpc[t] = "b_arrive"
  /\ arrived' = arrived + 1
  /\ hpc' = [hpc EXCEPT ![t] = "b_hold"]
  /\ UNCHANGED <<threadVars, progVars, pending, listVars, ckpt_mtx, expected,
                 xnd_state, ckptVars, aborted>>

\* Mutant of BarrierTest: the second loop of thread_barrier is missing.
BarrierNoWait(t) ==
  /\ ~aborted
  /\ hpc[t] = "b_hold"
  /\ ckpt_mtx' = NoOne
  /\ hpc' = [hpc EXCEPT ![t] = "b_out"]
  /\ UNCHANGED <<threadVars, progVars, pending, listVars, arrived, expected,
                 xnd_state, ckptVars, aborted>>

\* The test of the second loop, ckpt_mtx held: sleep, or unlock and leave.
BarrierTest(t) ==
  /\ ~aborted
  /\ hpc[t] = "b_hold"
  /\ ckpt_mtx' = NoOne
  /\ hpc' = [hpc EXCEPT ![t] =
               IF xnd_state = "XND_CKPTINPROG" THEN "b_wait" ELSE "b_out"]
  /\ UNCHANGED <<threadVars, progVars, pending, listVars, arrived, expected,
                 xnd_state, ckptVars, aborted>>

BarrierWake(t) ==
  /\ ~aborted
  /\ hpc[t] = "b_wait"
  /\ ckpt_mtx = NoOne
  /\ xnd_state # "XND_CKPTINPROG"
  /\ hpc' = [hpc EXCEPT ![t] = "b_out"]
  /\ UNCHANGED <<threadVars, progVars, pending, listVars, barVars, ckptVars,
                 aborted>>

\* Back from thread_barrier: ST_SUSPENDED -> ST_RUNNING and return.
HandlerReturn(t) ==
  /\ ~aborted
  /\ hpc[t] = "b_out"
  /\ AssertCas(t, "ST_SUSPENDED", "ST_RUNNING", "none")
  /\ UNCHANGED pending

-----------------------------------------------------------------------------
(* The checkpoint thread: ckpt_thread_work *)

\* Thread t still has a signal or a handler of the last round.
InRound(t) == hpc[t] # "none" \/ t \in pending

\* ckpt_thread_wait: the coordinator's request; the PRECKPT barrier that
\* follows is a wait for the coordinator.
ckpt_thread_wait ==
  /\ ~aborted
  /\ cpc = "idle"
  /\ rounds < MaxRounds
  /\ Paced => \A t \in Threads : ~InRound(t)
  /\ rounds' = rounds + 1
  /\ xnd_state' = "XND_CKPT_PENDING"
  /\ cpc' = "pending"
  /\ UNCHANGED <<threadVars, progVars, sigVars, listVars, ckpt_mtx, arrived,
                 expected, todo, cur, suspended, rescan, aborted>>

\* suspend_threads announces the suspension without holding ckpt_mtx ...
SuspendStart ==
  /\ ~aborted
  /\ cpc = "pending"
  /\ xnd_state' = "XND_SUSPINPROG"
  /\ cpc' = "reset"
  /\ UNCHANGED <<threadVars, progVars, sigVars, listVars, ckpt_mtx, arrived,
                 expected, todo, cur, suspended, rescan, rounds, aborted>>

\* ... and clears threads_arrived, also without it: the store races with the
\* increment of a thread that is still arriving, which may overwrite it.
ResetValues ==
  {0} \cup {a \in {arrived} : \E t \in Threads : hpc[t] = "b_arrive"}

SuspendReset ==
  /\ ~aborted
  /\ cpc = "reset"
  /\ arrived' \in ResetValues
  /\ cpc' = "scan_lock"
  /\ UNCHANGED <<threadVars, progVars, sigVars, listVars, ckpt_mtx, expected,
                 xnd_state, todo, cur, suspended, rescan, rounds, aborted>>

\* again: take both mutexes and start a pass over the list.
ScanStart ==
  /\ ~aborted
  /\ cpc = "scan_lock"
  /\ ckpt_mtx = NoOne
  /\ ckpt_mtx' = Ckpt
  /\ todo' = list
  /\ suspended' = 0
  /\ rescan' = FALSE
  /\ cpc' = "scan"
  /\ UNCHANGED <<threadVars, progVars, sigVars, listVars, arrived, expected,
                 xnd_state, cur, rounds, aborted>>

\* Mutant of thread_list_remove: the descriptor is always freed.
thread_list_remove_reaps(th) ==
  /\ list' = list \ {th}
  /\ reaped' = reaped \cup {th}
  /\ UNCHANGED zombies

\* thread_list_remove: a joined thread's descriptor is freed, any other is
\* kept in the zombie list for the thread that will join it.
thread_list_remove(th) ==
  /\ list' = list \ {th}
  /\ zombies' = IF th \in joined THEN zombies ELSE zombies \cup {th}
  /\ reaped' = IF th \in joined THEN reaped \cup {th} ELSE reaped

\* The loop body up to its lock.  joined implies exiting, so the branch of the
\* source that removes a joined thread here is never taken.
ScanVisit(th) ==
  /\ ~aborted
  /\ cpc = "scan"
  /\ th \in todo
  /\ todo' = todo \ {th}
  /\ IF th \in exiting
       THEN UNCHANGED <<cpc, cur, listVars>>
       ELSE IF th \in joined
         THEN thread_list_remove(th) /\ UNCHANGED <<cpc, cur>>
         ELSE cpc' = "scan_th" /\ cur' = th /\ UNCHANGED listVars
  /\ UNCHANGED <<threadVars, progVars, sigVars, barVars, suspended, rescan,
                 rounds, aborted>>

ScanThLock ==
  /\ ~aborted
  /\ cpc = "scan_th"
  /\ lock[cur] = NoOne
  /\ lock' = [lock EXCEPT ![cur] = Ckpt]
  /\ cpc' = "ld_running"
  /\ UNCHANGED <<state, depth, exiting, joined, progVars, sigVars, listVars,
                 barVars, todo, cur, suspended, rescan, rounds, aborted>>

\* One comparison of th->state: on a match unlock and go on with the next
\* thread, otherwise make the next comparison.
ScanNext ==
  /\ lock' = [lock EXCEPT ![cur] = NoOne]
  /\ cpc' = "scan"
  /\ cur' = NoOne

ScanFallsTo(p) ==
  /\ cpc' = p
  /\ UNCHANGED <<lock, cur, rescan, suspended, sigVars, listVars>>

LoadRunning ==
  /\ ~aborted
  /\ cpc = "ld_running"
  /\ ScanFallsTo(IF state[cur] = "ST_RUNNING" THEN "cas" ELSE "ld_signaled")
  /\ UNCHANGED <<state, depth, exiting, joined, progVars, barVars, todo,
                 rounds, aborted>>

\* The CAS to ST_SIGNALED and the pthread_kill that follows it.  ESRCH: the
\* thread is gone and leaves the list.
ScanSignal ==
  /\ ~aborted
  /\ cpc = "cas"
  /\ IF state[cur] = "ST_RUNNING"
       THEN /\ state' = [state EXCEPT ![cur] = "ST_SIGNALED"]
            /\ ScanNext
            /\ IF Alive(cur)
                 THEN /\ pending' = pending \cup {cur}
                      /\ rescan' = TRUE
                      /\ UNCHANGED listVars
                 ELSE /\ thread_list_remove(cur)
                      /\ UNCHANGED <<pending, rescan>>
            /\ UNCHANGED <<hpc, suspended>>
       ELSE ScanFallsTo("ld_signaled") /\ UNCHANGED state
  /\ UNCHANGED <<depth, exiting, joined, progVars, barVars, todo, rounds,
                 aborted>>

\* Signalled in an earlier pass: still there (pthread_kill 0), or gone.
LoadSignaled ==
  /\ ~aborted
  /\ cpc = "ld_signaled"
  /\ IF state[cur] = "ST_SIGNALED"
       THEN /\ ScanNext
            /\ IF Alive(cur)
                 THEN rescan' = TRUE /\ UNCHANGED listVars
                 ELSE thread_list_remove(cur) /\ UNCHANGED rescan
            /\ UNCHANGED <<sigVars, suspended>>
       ELSE ScanFallsTo("ld_suspended")
  /\ UNCHANGED <<state, depth, exiting, joined, progVars, barVars, todo,
                 rounds, aborted>>

LoadSuspended ==
  /\ ~aborted
  /\ cpc = "ld_suspended"
  /\ IF state[cur] = "ST_SUSPENDED"
       THEN /\ ScanNext
            /\ suspended' = suspended + 1
            /\ UNCHANGED <<sigVars, listVars, rescan>>
       ELSE ScanFallsTo("ld_suspinprog")
  /\ UNCHANGED <<state, depth, exiting, joined, progVars, barVars, todo,
                 rounds, aborted>>

LoadSuspinprog ==
  /\ ~aborted
  /\ cpc = "ld_suspinprog"
  /\ IF state[cur] = "ST_SUSPINPROG"
       THEN /\ ScanNext
            /\ suspended' = suspended + 1
            /\ UNCHANGED <<sigVars, listVars, rescan>>
       ELSE ScanFallsTo("ld_unsafe")
  /\ UNCHANGED <<state, depth, exiting, joined, progVars, barVars, todo,
                 rounds, aborted>>

\* The last two comparisons.  Any other value falls out of the chain: the
\* thread is neither counted nor looked at again.
LoadUnsafe ==
  /\ ~aborted
  /\ cpc = "ld_unsafe"
  /\ ScanNext
  /\ rescan' = (rescan \/ state[cur] \in {"ST_UNSAFE", "ST_EMBRYO"})
  /\ UNCHANGED <<state, depth, exiting, joined, progVars, sigVars, listVars,
                 barVars, todo, suspended, rounds, aborted>>

\* End of a pass: both mutexes are free; again, or the count is final.
ScanEnd ==
  /\ ~aborted
  /\ cpc = "scan"
  /\ todo = {}
  /\ ckpt_mtx' = NoOne
  /\ IF rescan
       THEN cpc' = "scan_lock" /\ UNCHANGED expected
       ELSE cpc' = "wfe_lock" /\ expected' = suspended
  /\ suspended' = 0
  /\ UNCHANGED <<threadVars, progVars, sigVars, listVars, arrived, xnd_state,
                 todo, cur, rescan, rounds, aborted>>

\* wait_for_exiting_threads: one pass over the list under its lock.
WaitExitingStart ==
  /\ ~aborted
  /\ cpc = "wfe_lock"
  /\ todo' = list
  /\ rescan' = FALSE
  /\ cpc' = "wfe"
  /\ UNCHANGED <<threadVars, progVars, sigVars, listVars, barVars, cur,
                 suspended, rounds, aborted>>

\* Mutant of WaitExitingVisit: an exiting thread leaves the list although
\* pthread_kill still finds it.
WaitExitingHasty(th) ==
  /\ ~aborted
  /\ cpc = "wfe"
  /\ th \in todo
  /\ todo' = todo \ {th}
  /\ IF th \in joined \cup exiting
       THEN thread_list_remove(th) /\ UNCHANGED <<cpc, cur>>
       ELSE /\ IF state[th] = "ST_SUSPENDED"
                 THEN UNCHANGED <<cpc, cur>>
                 ELSE cpc' = "wfe_assert" /\ cur' = th
            /\ UNCHANGED listVars
  /\ UNCHANGED <<threadVars, progVars, sigVars, barVars, suspended, rescan,
                 rounds, aborted>>

\* A thread that is neither joined nor exiting must be suspended: the first
\* load of that assertion.  A joined thread is freed, an exiting one leaves
\* the list once it is gone, and until then the pass has to be repeated.
WaitExitingVisit(th) ==
  /\ ~aborted
  /\ cpc = "wfe"
  /\ th \in todo
  /\ todo' = todo \ {th}
  /\ IF th \in joined \cup exiting
       THEN /\ IF th \in joined \/ ~Alive(th)
                 THEN thread_list_remove(th) /\ UNCHANGED rescan
                 ELSE rescan' = TRUE /\ UNCHANGED listVars
            /\ UNCHANGED <<cpc, cur>>
       ELSE /\ IF state[th] = "ST_SUSPENDED"
                 THEN UNCHANGED <<cpc, cur>>
                 ELSE cpc' = "wfe_assert" /\ cur' = th
            /\ UNCHANGED <<listVars, rescan>>
  /\ UNCHANGED <<threadVars, progVars, sigVars, barVars, suspended, rounds,
                 aborted>>

\* Mutant of WaitExitingAssert: xnd_assert compiled to nothing.
WaitExitingUnchecked ==
  /\ ~aborted
  /\ cpc = "wfe_assert"
  /\ cpc' = "wfe"
  /\ cur' = NoOne
  /\ UNCHANGED <<threadVars, progVars, sigVars, listVars, barVars, todo,
                 suspended, rescan, rounds, aborted>>

\* The second load of the assertion.
WaitExitingAssert ==
  /\ ~aborted
  /\ cpc = "wfe_assert"
  /\ IF state[cur] = "ST_SUSPINPROG"
       THEN /\ cpc' = "wfe"
            /\ cur' = NoOne
            /\ UNCHANGED <<threadVars, progVars, sigVars, listVars, barVars,
                           todo, suspended, rescan, rounds, aborted>>
       ELSE xnd_abort /\ UNCHANGED pending

WaitExitingEnd ==
  /\ ~aborted
  /\ cpc = "wfe"
  /\ todo = {}
  /\ cpc' = IF rescan THEN "wfe_lock" ELSE "arrival"
  /\ UNCHANGED <<threadVars, progVars, sigVars, listVars, barVars, todo, cur,
                 suspended, rescan, rounds, aborted>>

\* barrier_arrival_wait: open the barrier ...
BarrierOpen ==
  /\ ~aborted
  /\ cpc = "arrival"
  /\ ckpt_mtx = NoOne
  /\ xnd_state' = "XND_CKPTINPROG"
  /\ cpc' = "arrival_wait"
  /\ UNCHANGED <<threadVars, progVars, sigVars, listVars, ckpt_mtx, arrived,
                 expected, todo, cur, suspended, rescan, rounds, aborted>>

\* ... and wait until the expected number of threads has arrived.
BarrierFull ==
  /\ ~aborted
  /\ cpc = "arrival_wait"
  /\ ckpt_mtx = NoOne
  /\ arrived >= expected
  /\ cpc' = "write"
  /\ UNCHANGED <<threadVars, progVars, sigVars, listVars, barVars, todo, cur,
                 suspended, rescan, rounds, aborted>>

\* xnd_precheckpoint, xnd_checkpoint, the POSTCKPT barrier of the coordinator.
WriteImage ==
  /\ ~aborted
  /\ cpc = "write"
  /\ cpc' = "release"
  /\ UNCHANGED <<threadVars, progVars, sigVars, listVars, barVars, todo, cur,
                 suspended, rescan, rounds, aborted>>

\* Mutant of barrier_release: libxnd_state is not set back to XND_RUNNING.
barrier_release_forgets ==
  /\ ~aborted
  /\ cpc = "release"
  /\ ckpt_mtx = NoOne
  /\ cpc' = "idle"
  /\ UNCHANGED <<threadVars, progVars, sigVars, listVars, barVars, todo, cur,
                 suspended, rescan, rounds, aborted>>

barrier_release ==
  /\ ~aborted
  /\ cpc = "release"
  /\ ckpt_mtx = NoOne
  /\ xnd_state' = "XND_RUNNING"
  /\ cpc' = "idle"
  /\ UNCHANGED <<threadVars, progVars, sigVars, listVars, ckpt_mtx, arrived,
                 expected, todo, cur, suspended, rescan, rounds, aborted>>

-----------------------------------------------------------------------------
(* Specification *)

\* What a thread decides to do is its program's choice ...
ProgramStep(t) ==
  \/ HookEnter(t)
  \/ \E u \in Threads : JoinLock(t, u)
  \/ ThreadExitLock(t)

\* ... what it does inside a hook, the kernel or the handler is not.
ThreadStep(t) ==
  \/ UnsafeCas(t) \/ HookExit(t) \/ Wait4Fails(t)
  \/ \E u \in Threads : PthreadCreate(t, u)
  \/ PthreadCreateFails(t) \/ PthreadCreateDone(t)
  \/ thread_list_add(t) \/ thread_start(t)
  \/ JoinCheck(t) \/ JoinWake(t) \/ PthreadJoin(t)
  \/ ThreadExitMark(t) \/ ThreadDies(t)

HandlerStep(t) ==
  \/ thread_sighandler(t) \/ HandlerSave(t)
  \/ BarrierLock(t) \/ BarrierArrive(t) \/ BarrierTest(t) \/ BarrierWake(t)
  \/ HandlerReturn(t)

ScanStep ==
  \/ ScanStart \/ ScanThLock \/ LoadRunning \/ ScanSignal \/ LoadSignaled
  \/ LoadSuspended \/ LoadSuspinprog \/ LoadUnsafe \/ ScanEnd
  \/ \E th \in Threads : ScanVisit(th)

CkptStep ==
  \/ SuspendStart \/ SuspendReset
  \/ ScanStep
  \/ WaitExitingStart \/ WaitExitingAssert \/ WaitExitingEnd
  \/ \E th \in Threads : WaitExitingVisit(th)
  \/ BarrierOpen \/ BarrierFull \/ WriteImage \/ barrier_release

Next ==
  \/ ckpt_thread_wait
  \/ CkptStep
  \/ \E t \in Threads : ProgramStep(t) \/ ThreadStep(t) \/ HandlerStep(t)

Spec == Init /\ [][Next]_vars

\* Steps that wait for a mutex the scan takes again in every pass.
LockStep(t) ==
  thread_list_add(t) \/ thread_start(t) \/ PthreadCreateDone(t) \/ JoinWake(t)

\* The scheduler lets every thread run and the kernel delivers a pending
\* signal; neither the program's choices nor requests are promised.  Between
\* two passes the checkpoint thread sleeps (usleep) with every mutex free, so
\* a thread that waits for one gets it: strong fairness.
Fairness ==
  /\ WF_vars(CkptStep)
  /\ \A t \in Threads :
       WF_vars(ThreadStep(t)) /\ WF_vars(HandlerStep(t)) /\ SF_vars(LockStep(t))

FairSpec == Spec /\ Fairness
-----------------------------------------------------------------------------
(* Properties *)

\* Every variable holds a value of its C type or a place of its thread.
TypeOK ==
  /\ state \in [Threads -> ThreadState]
  /\ depth \in [Threads -> Nat]
  /\ exiting \subseteq Threads
  /\ joined \subseteq Threads
  /\ lock \in [Threads -> Threads \cup {Ckpt, NoOne}]
  /\ pc \in [Threads -> ProgramPoint]
  /\ op \in [Threads -> Calls \cup {"none"}]
  /\ arg \in [Threads -> Threads \cup {NoOne}]
  /\ calls \in [Threads -> 0..MaxCalls]
  /\ hpc \in [Threads -> HandlerPoint]
  /\ pending \subseteq Threads
  /\ list \subseteq Threads
  /\ zombies \subseteq Threads
  /\ reaped \subseteq Threads
  /\ ckpt_mtx \in Threads \cup {Ckpt, NoOne}
  /\ arrived \in Nat
  /\ expected \in Nat
  /\ xnd_state \in XndState
  /\ cpc \in CkptPoint
  /\ todo \subseteq Threads
  /\ cur \in Threads \cup {NoOne}
  /\ suspended \in Nat
  /\ rescan \in BOOLEAN
  /\ rounds \in 0..MaxRounds
  /\ aborted \in BOOLEAN

\* In the handler, and not yet on the way out of thread_barrier.
Frozen(t) == hpc[t] \in {"saving", "b_lock", "b_arrive", "b_hold", "b_wait"}

\* While xnd_checkpoint writes the image no thread of the process executes its
\* program: each one, also one just being created, is held in the handler.
\* suspend_threads and wait_for_exiting_threads have to establish this and
\* thread_barrier has to keep it until barrier_release.
QuiescentSnapshot ==
  cpc \in {"write", "release"} => \A t \in Threads : Alive(t) => Frozen(t)

\* A thread leaves thread_barrier only after barrier_release: never between
\* being counted by suspend_threads and the end of the checkpoint.
ResumeAfterRelease ==
  \A t \in Threads : hpc[t] = "b_out" => cpc = "idle"

\* A thread inside an unsafe region (unsafe_enter won its CAS) is never
\* stopped there: no handler on its stack and no signal on its way.
UnsafeNotInterrupted ==
  \A t \in Threads :
    pc[t] \in {"unsafe", "born_wait"} => hpc[t] = "none" /\ t \notin pending

\* No thread that still runs is missing from thread_list, where the scan and
\* restore_threads look for it, but a new one whose creator is still held in
\* its unsafe region.
LiveThreadsListed ==
  \A t \in Threads : Alive(t) =>
    \/ t \in list
    \/ /\ pc[t] = "start"
       /\ \E p \in Threads : pc[p] = "born_wait" /\ arg[p] = t

\* thread_reap frees a descriptor only when nobody will use it any more: not
\* the lists, not the scan, not a thread on its way through the join hook.
ReapedUnreferenced ==
  \A u \in reaped :
    /\ u \notin list \cup zombies
    /\ cur # u
    /\ lock[u] = NoOne
    /\ ~Alive(u)
    /\ \A t \in Threads : arg[t] # u

\* Every checkpoint request is served, unless the process aborts: the checkpoint
\* thread releases the threads and listens for the next request.  An abort is no
\* answer to the request, but nothing runs after one; AssertionsHold is about it.
CheckpointCompletes == []~aborted => ((cpc # "idle") ~> (cpc = "idle"))

\* A thread stopped by the checkpoint signal goes back to its program, unless the
\* process aborts.
ThreadsResume ==
  []~aborted => \A t \in Threads : (hpc[t] # "none") ~> (hpc[t] = "none")

\* No xnd_assert of thread_info.c fails.  That of wait_for_exiting_threads does:
\* the scan can find a thread neither running, nor signaled, nor stopped, nor
\* unsafe, when it leaves its unsafe region between the loads, and go on without.
AssertionsHold == ~aborted

\* The image holds the saved context of every thread: all have arrived at the
\* barrier before xnd_checkpoint runs.
ContextsSaved ==
  cpc = "write" => \A t \in list : state[t] = "ST_SUSPENDED"

\* The scan never waits for the lock of a descriptor that a thread stopped by
\* this very checkpoint holds.
ScanNotLockedOut ==
  cpc = "scan_th" /\ lock[cur] \in Threads => hpc[lock[cur]] = "none"
=============================================================================
