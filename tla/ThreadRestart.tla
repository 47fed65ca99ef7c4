---------------------------- MODULE ThreadRestart ----------------------------
(***************************************************************************)
(* The threads of a process over checkpoints and restarts: their contexts, *)
(* signal masks, alternate stacks and thread-local storage                 *)
(* (xnd/thread_info.c), and the signal dispositions of the process         *)
(* (xnd/wrappers/signal_wrappers.c, xnd/platform/signal.c).                *)
(*                                                                         *)
(* The set of threads is fixed and the scan of suspend_threads is one step *)
(* per thread; ThreadSuspension has the details of both.  An image is the  *)
(* memory of the process.  What the kernel keeps for a thread (registers,  *)
(* mask, alternate stack, thread pointer) is lost with it, and has to be   *)
(* brought back from the memory by code that the next checkpoint signal    *)
(* may already be waiting for.                                             *)
(***************************************************************************)
EXTENDS Integers, FiniteSets

CONSTANTS
  Threads,       \* the user threads
  Ckpt,          \* the checkpoint signal (env_get_ckpt_signal)
  UserSigs,      \* other signals, which the program handles, blocks and gets
  Values,        \* what registers and thread-local variables can hold
  Fresh,         \* what they hold in a thread that has just been created
  LateTouch,     \* may the checkpoint thread change its own thread-local
                 \* slots while it makes a checkpoint?
  MaxCalls,      \* bound: steps of the program in one incarnation
  MaxRounds,     \* bound: checkpoints in one incarnation
  MaxRestarts    \* bound: restarts

Sigs == UserSigs \cup {Ckpt}
Contents == Values \cup {Fresh}

ASSUME ConstantsAssumption ==
  /\ IsFiniteSet(Threads)
  /\ Ckpt \notin UserSigs
  /\ Fresh \notin Values /\ Values # {}
  /\ LateTouch \in BOOLEAN
  /\ MaxCalls \in Nat /\ MaxRounds \in Nat /\ MaxRestarts \in Nat

VARIABLES
  \* --- what the kernel keeps ---
  pc,        \* where each thread is
  regs,      \* its registers, as far as the program uses them
  mask,      \* its signal mask; that of the checkpoint thread is cmask
  cmask,
  alt,       \* its alternate signal stack, or Fresh
  pend,      \* threads a checkpoint signal is on its way to
  sigpend,   \* other signals sent to the process
  disp,      \* the disposition of each signal
  slots,     \* thread-local slots under the thread pointer
  creg,      \* thread pointer of the checkpoint thread: "first" or "restart"
  \* --- memory ---
  xnd,       \* libxnd_state
  info,      \* struct thread_info of each thread
  frame,     \* what the kernel saved on the stack when it called a handler
  arrived, expected,
  sa_table,
  ctls,      \* ckpt_thread.tls: "none" or "first"
  cslots,    \* the slots of the checkpoint thread at each address
  \* --- the checkpoint thread, checkpoints and history ---
  cpc,
  image,     \* the memory at the last checkpoint, and what it was taken of
  calls, rounds, restarts,
  strays     \* signals the program blocked and got, or got at a bad place

kernelVars == <<pc, regs, mask, cmask, alt, pend, sigpend, disp, slots, creg>>
memVars    == <<xnd, info, frame, arrived, expected, sa_table, ctls, cslots>>
ckptVars   == <<cpc, image, calls, rounds, restarts>>
vars == <<kernelVars, memVars, ckptVars, strays>>

NoFrame == [pc |-> "user", regs |-> Fresh, mask |-> {}]

\* struct thread_info: state, uctx, sigblocked, ss, and what is under tls.
NewInfo == [state |-> "ST_RUNNING", uctx |-> NoFrame, sigblocked |-> {},
            ss |-> Fresh, tls |-> [slot |-> Fresh, is_restart |-> FALSE]]

\* struct sigaction.
Action(h, m) == [sa_handler |-> h, sa_mask |-> m]
Default == [s \in Sigs |-> Action("default", {})]

\* xnd_setup registers thread_sighandler with a sa_mask it never sets.
Handlers == {[Default EXCEPT ![Ckpt] = Action("thread_sighandler", m)] :
               m \in SUBSET UserSigs}

Init ==
  /\ pc     = [t \in Threads |-> "user"]
  /\ regs   = [t \in Threads |-> Fresh]
  /\ mask   = [t \in Threads |-> {}]
  /\ cmask  = {Ckpt}                    \* ckpt_thread_work
  /\ alt    = [t \in Threads |-> Fresh]
  /\ pend   = {}
  /\ sigpend = {}
  /\ disp   \in Handlers                \* xnd_setup
  /\ slots  = [t \in Threads |-> [slot |-> Fresh, is_restart |-> FALSE]]
  /\ creg   = "first"
  /\ xnd    = "XND_RUNNING"
  /\ info   = [t \in Threads |-> NewInfo]
  /\ frame  = [t \in Threads |-> NoFrame]
  /\ arrived = 0 /\ expected = 0
  /\ sa_table = Default
  /\ ctls   = "none"
  /\ cslots = [a \in {"first", "restart"} |-> Fresh]
  /\ cpc    = "wait"
  /\ image  = {}
  /\ calls = 0 /\ rounds = 0 /\ restarts = 0
  /\ strays = {}

-----------------------------------------------------------------------------
(* The program                                                             *)

Calls(t) == pc[t] = "user" /\ calls < MaxCalls /\ calls' = calls + 1

\* It computes, and changes a thread-local variable.
Compute(t) ==
  /\ Calls(t)
  /\ \/ \E v \in Values \ {regs[t]} : regs' = [regs EXCEPT ![t] = v] /\ UNCHANGED slots
     \/ \E v \in Values \ {slots[t].slot} :
          slots' = [slots EXCEPT ![t].slot = v] /\ UNCHANGED regs
  /\ UNCHANGED <<pc, mask, cmask, alt, pend, sigpend, disp, creg, memVars, cpc, image,
                 rounds, restarts, strays>>

\* __signal_hook and __sigaction_hook: the checkpoint signal is reserved;
\* handlers of the program are registered with __xnd_sigaction.
SigactionHook(t) ==
  /\ Calls(t)
  /\ \E s \in UserSigs, h \in {"default", "ignore", "handler"} :
       /\ disp[s].sa_handler # h
       /\ disp' = [disp EXCEPT ![s] = Action(h, {})]
  /\ UNCHANGED <<pc, regs, mask, cmask, alt, pend, sigpend, slots, creg, memVars, cpc,
                 image, rounds, restarts, strays>>

\* The set a program may block: without the checkpoint signal.
Clean(set) == set \ {Ckpt}

\* __pthread_sigmask_hook and __sigprocmask_hook with SIG_SETMASK, to which
\* SIG_BLOCK and SIG_UNBLOCK amount here.
SigmaskHook(t) ==
  /\ Calls(t)
  /\ \E set \in SUBSET Sigs :
       mask[t] # Clean(set) /\ mask' = [mask EXCEPT ![t] = Clean(set)]
  /\ UNCHANGED <<pc, regs, cmask, alt, pend, sigpend, disp, slots, creg, memVars, cpc,
                 image, rounds, restarts, strays>>

\* sigaltstack, which is not hooked.
Sigaltstack(t) ==
  /\ Calls(t)
  /\ \E v \in Contents \ {alt[t]} : alt' = [alt EXCEPT ![t] = v]
  /\ UNCHANGED <<pc, regs, mask, cmask, pend, sigpend, disp, slots, creg, memVars, cpc,
                 image, rounds, restarts, strays>>

\* Somebody sends a signal to the process.
Send ==
  /\ \E s \in UserSigs \ sigpend : disp[s].sa_handler = "handler" /\ sigpend' = sigpend \cup {s}
  /\ calls < MaxCalls /\ calls' = calls + 1
  /\ UNCHANGED <<pc, regs, mask, cmask, alt, pend, disp, slots, creg, memVars, cpc,
                 image, rounds, restarts, strays>>

\* The kernel runs the program's handler in any thread that does not block
\* the signal, the checkpoint thread among them.
Deliver(s) ==
  /\ s \in sigpend /\ disp[s].sa_handler = "handler"
  /\ sigpend' = sigpend \ {s}
  /\ \/ \E t \in Threads :
          /\ pc[t] # "none" /\ s \notin mask[t]
          /\ strays' = strays \cup (IF pc[t] = "user" THEN {} ELSE {"late"})
     \/ /\ s \notin cmask
        /\ strays' = strays \cup
             (IF \A t \in Threads : pc[t] = "user" => s \in mask[t] THEN {"blocked"} ELSE {})
  /\ UNCHANGED <<pc, regs, mask, cmask, alt, pend, disp, slots, creg, memVars, ckptVars>>

-----------------------------------------------------------------------------
(* thread_sighandler                                                       *)

\* The kernel calls the handler as soon as the signal is not blocked.
thread_sighandler(t) ==
  /\ t \in pend /\ pc[t] # "none" /\ Ckpt \notin mask[t]
  /\ pend' = pend \ {t}
  /\ frame' = [frame EXCEPT ![t] = [pc |-> pc[t], regs |-> regs[t], mask |-> mask[t]]]
  /\ mask' = [mask EXCEPT ![t] = @ \cup disp[Ckpt].sa_mask \cup {Ckpt}]
  /\ info' = [info EXCEPT ![t].state = "ST_SUSPINPROG"]
  /\ pc' = [pc EXCEPT ![t] = "save"]
  /\ UNCHANGED <<regs, cmask, alt, sigpend, disp, slots, creg, xnd, arrived, expected,
                 sa_table, ctls, cslots, ckptVars, strays>>

\* Mutant of thread_save_sig_state: the checkpoint signal is not saved.
thread_save_sig_state_user(t) == [sigblocked |-> mask[t] \ {Ckpt}, ss |-> alt[t]]

\* The mask inside the handler, and the alternate stack.
thread_save_sig_state(t) == [sigblocked |-> mask[t], ss |-> alt[t]]

\* What is under the saved thread pointer when the image is written: the
\* slots, with the is_restart that the handler sets after getcontext.
SavedTls(t) == [slots[t] EXCEPT !.is_restart = TRUE]

\* thread_save_tls, thread_save_sig_state, getcontext, is_restart.
HandlerSave(t) ==
  /\ pc[t] = "save"
  /\ LET sig == thread_save_sig_state(t)
         tls == SavedTls(t)
     IN /\ slots' = [slots EXCEPT ![t] = tls]
        /\ info' = [info EXCEPT ![t] = [state |-> "ST_SUSPENDED", uctx |-> frame[t],
                                        sigblocked |-> sig.sigblocked, ss |-> sig.ss,
                                        tls |-> tls]]
  /\ pc' = [pc EXCEPT ![t] = "barrier"]
  /\ UNCHANGED <<regs, mask, cmask, alt, pend, sigpend, disp, creg, xnd, frame, arrived,
                 expected, sa_table, ctls, cslots, ckptVars, strays>>

\* thread_barrier, in the handler ("barrier", "held") or in thread_restart.
BarrierEnter(t) ==
  /\ \/ pc[t] = "barrier" /\ pc' = [pc EXCEPT ![t] = "held"]
     \/ pc[t] = "r_barrier" /\ pc' = [pc EXCEPT ![t] = "r_held"]
  /\ xnd # "XND_SUSPINPROG"
  /\ arrived' = arrived + 1
  /\ UNCHANGED <<regs, mask, cmask, alt, pend, sigpend, disp, slots, creg, xnd, info,
                 frame, expected, sa_table, ctls, cslots, ckptVars, strays>>

BarrierLeave(t) ==
  /\ \/ pc[t] = "held" /\ pc' = [pc EXCEPT ![t] = "out"]
     \/ pc[t] = "r_held" /\ pc' = [pc EXCEPT ![t] = "r_context"]
  /\ xnd # "XND_CKPTINPROG"
  /\ UNCHANGED <<regs, mask, cmask, alt, pend, sigpend, disp, slots, creg, memVars,
                 ckptVars, strays>>

\* __xnd_sigreturn: back to what the frame says.
Sigreturn(t, f) ==
  /\ pc' = [pc EXCEPT ![t] = f.pc]
  /\ regs' = [regs EXCEPT ![t] = f.regs]
  /\ mask' = [mask EXCEPT ![t] = f.mask]

\* The end of the handler, and __xnd_sigtramp.
HandlerReturn(t) ==
  /\ pc[t] = "out"
  /\ info' = [info EXCEPT ![t].state = "ST_RUNNING"]
  /\ Sigreturn(t, frame[t])
  /\ UNCHANGED <<cmask, alt, pend, sigpend, disp, slots, creg, xnd, frame, arrived,
                 expected, sa_table, ctls, cslots, ckptVars, strays>>

-----------------------------------------------------------------------------
(* thread_restart                                                          *)

\* Mutant of RestoreTls: the state stays as it was in the image.
RestoreTlsOnly(t) ==
  /\ pc[t] = "r_tls"
  /\ slots' = [slots EXCEPT ![t] = info[t].tls]
  /\ pc' = [pc EXCEPT ![t] = "r_sig"]
  /\ UNCHANGED <<regs, mask, cmask, alt, pend, sigpend, disp, creg, memVars, ckptVars,
                 strays>>

\* thread_restore_tls, which copies the slots under the old thread pointer,
\* and the new state.
RestoreTls(t) ==
  /\ pc[t] = "r_tls"
  /\ slots' = [slots EXCEPT ![t] = info[t].tls]
  /\ info' = [info EXCEPT ![t].state = "ST_RUNNING"]
  /\ pc' = [pc EXCEPT ![t] = "r_sig"]
  /\ UNCHANGED <<regs, mask, cmask, alt, pend, sigpend, disp, creg, xnd, frame, arrived,
                 expected, sa_table, ctls, cslots, ckptVars, strays>>

\* Mutant of RestoreSig: the alternate stack is left to the kernel.
RestoreSigMask(t) ==
  /\ pc[t] = "r_sig"
  /\ mask' = [mask EXCEPT ![t] = info[t].sigblocked]
  /\ pc' = [pc EXCEPT ![t] = "r_barrier"]
  /\ UNCHANGED <<regs, cmask, alt, pend, sigpend, disp, slots, creg, memVars, ckptVars,
                 strays>>

\* thread_restore_sig_state of a user thread.
RestoreSig(t) ==
  /\ pc[t] = "r_sig"
  /\ mask' = [mask EXCEPT ![t] = info[t].sigblocked]
  /\ alt' = [alt EXCEPT ![t] = IF info[t].ss = Fresh THEN @ ELSE info[t].ss]
  /\ pc' = [pc EXCEPT ![t] = "r_barrier"]
  /\ UNCHANGED <<regs, cmask, pend, sigpend, disp, slots, creg, memVars, ckptVars, strays>>

\* thread_restore_context: into the handler behind getcontext, where
\* is_restart is set, and from there to where the signal came.
thread_restore_context(t) ==
  /\ pc[t] = "r_context"
  /\ slots[t].is_restart
  /\ Sigreturn(t, info[t].uctx)
  /\ UNCHANGED <<cmask, alt, pend, sigpend, disp, slots, creg, memVars, ckptVars, strays>>

-----------------------------------------------------------------------------
(* The checkpoint thread                                                   *)

\* It changes thread-local data of its own, as the libraries it calls do.
TouchTls ==
  /\ cpc \in {"wait"} \cup (IF LateTouch THEN {"suspend", "arrive"} ELSE {})
  /\ calls < MaxCalls /\ calls' = calls + 1
  /\ \E v \in Values \ {cslots[creg]} : cslots' = [cslots EXCEPT ![creg] = v]
  /\ UNCHANGED <<kernelVars, xnd, info, frame, arrived, expected, sa_table, ctls, cpc,
                 image, rounds, restarts, strays>>

\* Mutant of thread_save_tls: the register is saved once and never its slots.
thread_save_tls_once == ctls' = "first" /\ UNCHANGED cslots

\* thread_save_tls of the checkpoint thread: the register the first time, and
\* from then on its slots into the buffer the register pointed to then.
thread_save_tls ==
  /\ ctls' = "first"
  /\ cslots' = IF ctls = "none" THEN cslots
               ELSE [cslots EXCEPT !["first"] = cslots[creg]]

\* A request, up to the start of suspend_threads.  A request that comes
\* before the threads of the last round are out of the handler is left to
\* ThreadSuspension (MCThreadSuspension_stale); one that comes before
\* restored threads are back is not.
Request ==
  /\ cpc = "wait" /\ rounds < MaxRounds
  /\ \A t \in Threads : pc[t] \notin {"held", "out"}
  /\ thread_save_tls
  /\ xnd' = "XND_SUSPINPROG" /\ arrived' = 0
  /\ rounds' = rounds + 1
  /\ cpc' = "suspend"
  /\ UNCHANGED <<kernelVars, info, frame, expected, sa_table, image, calls, restarts,
                 strays>>

\* suspend_threads visits a thread that is running ...
SuspendSignal(t) ==
  /\ cpc = "suspend" /\ info[t].state = "ST_RUNNING"
  /\ info' = [info EXCEPT ![t].state = "ST_SIGNALED"]
  /\ pend' = pend \cup {t}
  /\ UNCHANGED <<pc, regs, mask, cmask, alt, sigpend, disp, slots, creg, xnd, frame,
                 arrived, expected, sa_table, ctls, cslots, ckptVars, strays>>

\* ... and ends with a pass that finds every thread stopped.
SuspendDone ==
  /\ cpc = "suspend"
  /\ \A t \in Threads : info[t].state \in {"ST_SUSPENDED", "ST_SUSPINPROG"}
  /\ expected' = Cardinality(Threads)
  /\ xnd' = "XND_CKPTINPROG"
  /\ cpc' = "arrive"
  /\ UNCHANGED <<kernelVars, info, frame, arrived, sa_table, ctls, cslots, image, calls,
                 rounds, restarts, strays>>

\* sig_state_save.
sig_state_save == [disp EXCEPT ![Ckpt].sa_handler = "thread_sighandler"]

\* The memory that is written, and, to compare, what the program had.
Image ==
  [mem |-> [info |-> info, frame |-> frame, sa_table |-> sig_state_save, ctls |-> ctls,
            cslots |-> cslots, expected |-> expected, arrived |-> arrived],
   was |-> [threads |-> [t \in Threads |->
                           [regs |-> regs[t], mask |-> frame[t].mask, alt |-> alt[t],
                            slot |-> slots[t].slot]],
            disp |-> disp, cslot |-> cslots[creg]]]

\* barrier_arrival_wait, xnd_precheckpoint and xnd_checkpoint.
Write ==
  /\ cpc = "arrive" /\ arrived >= expected
  /\ sa_table' = sig_state_save
  /\ image' = {Image}
  /\ cpc' = "release"
  /\ UNCHANGED <<kernelVars, xnd, info, frame, arrived, expected, ctls, cslots, calls,
                 rounds, restarts, strays>>

barrier_release ==
  /\ cpc = "release"
  /\ xnd' = "XND_RUNNING"
  /\ cpc' = "wait"
  /\ UNCHANGED <<kernelVars, info, frame, arrived, expected, sa_table, ctls, cslots,
                 image, calls, rounds, restarts, strays>>

-----------------------------------------------------------------------------
(* Restart                                                                 *)

\* The process dies, and xnd_restart brings back its memory in a process
\* with one thread, which becomes the checkpoint thread.
Restart ==
  /\ image # {} /\ restarts < MaxRestarts
  /\ LET m == (CHOOSE i \in image : TRUE).mem
     IN /\ info' = m.info /\ frame' = m.frame /\ sa_table' = m.sa_table
        /\ ctls' = m.ctls /\ cslots' = [m.cslots EXCEPT !["restart"] = Fresh]
        /\ expected' = m.expected /\ arrived' = m.arrived
  /\ xnd' = "XND_CKPTINPROG"
  /\ pc' = [t \in Threads |-> "none"]
  /\ regs' = [t \in Threads |-> Fresh]
  /\ mask' = [t \in Threads |-> {}] /\ cmask' = {}
  /\ alt' = [t \in Threads |-> Fresh]
  /\ slots' = [t \in Threads |-> [slot |-> Fresh, is_restart |-> FALSE]]
  /\ pend' = {} /\ sigpend' = {}
  /\ disp' = Default
  /\ creg' = "restart"
  /\ calls' = 0 /\ rounds' = 0 /\ restarts' = restarts + 1
  /\ cpc' = "early"
  /\ UNCHANGED <<image, strays>>

\* xnd_postrestart_early: sig_state_restore.
sig_state_restore ==
  /\ cpc = "early"
  /\ disp' = [sa_table EXCEPT ![Ckpt].sa_handler = "thread_sighandler"]
  /\ cpc' = "tls"
  /\ UNCHANGED <<pc, regs, mask, cmask, alt, pend, sigpend, slots, creg, memVars, image,
                 calls, rounds, restarts, strays>>

\* thread_restore_tls of the checkpoint thread.
thread_restore_tls ==
  /\ cpc = "tls"
  /\ cslots' = [cslots EXCEPT ![creg] = cslots[ctls]]
  /\ cpc' = "create"
  /\ UNCHANGED <<kernelVars, xnd, info, frame, arrived, expected, sa_table, ctls, image,
                 calls, rounds, restarts, strays>>

\* Mutant of restore_threads: the count of the checkpoint is not reset.
restore_threads_keep ==
  /\ cpc = "create"
  /\ expected' = Cardinality(Threads)
  /\ pc' = [t \in Threads |-> "r_tls"]
  /\ mask' = [t \in Threads |-> cmask]
  /\ cpc' = "restored"
  /\ UNCHANGED <<regs, cmask, alt, pend, sigpend, disp, slots, creg, xnd, info, frame,
                 arrived, sa_table, ctls, cslots, image, calls, rounds, restarts, strays>>

\* New threads inherit the mask of the checkpoint thread; those that come to
\* the barrier early wait for ckpt_mtx.
restore_threads ==
  /\ cpc = "create"
  /\ arrived' = 0 /\ expected' = Cardinality(Threads)
  /\ pc' = [t \in Threads |-> "r_tls"]
  /\ mask' = [t \in Threads |-> cmask]
  /\ cpc' = "restored"
  /\ UNCHANGED <<regs, cmask, alt, pend, sigpend, disp, slots, creg, xnd, info, frame,
                 sa_table, ctls, cslots, image, calls, rounds, restarts, strays>>

\* barrier_arrival_wait and thread_restore_sig_state of the checkpoint thread.
Restored ==
  /\ cpc = "restored" /\ arrived >= expected
  /\ cmask' = {Ckpt}
  /\ cpc' = "release"
  /\ UNCHANGED <<pc, regs, mask, alt, pend, sigpend, disp, slots, creg, memVars, image,
                 calls, rounds, restarts, strays>>

-----------------------------------------------------------------------------
UserStep(t) ==
  Compute(t) \/ SigactionHook(t) \/ SigmaskHook(t) \/ Sigaltstack(t)

ThreadStep(t) ==
  \/ thread_sighandler(t) \/ HandlerSave(t)
  \/ BarrierEnter(t) \/ BarrierLeave(t) \/ HandlerReturn(t)
  \/ RestoreTls(t) \/ RestoreSig(t) \/ thread_restore_context(t)

CkptStep ==
  \/ (\E t \in Threads : SuspendSignal(t)) \/ SuspendDone \/ Write \/ barrier_release
  \/ sig_state_restore \/ thread_restore_tls \/ restore_threads \/ Restored

Next ==
  \/ \E t \in Threads : UserStep(t) \/ ThreadStep(t)
  \/ Send \/ (\E s \in UserSigs : Deliver(s))
  \/ TouchTls \/ Request \/ CkptStep \/ Restart

Spec == Init /\ [][Next]_vars

\* Threads and the checkpoint thread are scheduled, and the kernel delivers
\* what is not blocked.  Nobody has to call, request or restart anything.
FairSpec ==
  /\ Spec
  /\ \A t \in Threads : WF_vars(ThreadStep(t))
  /\ WF_vars(CkptStep)

-----------------------------------------------------------------------------
(* Properties                                                              *)

InHandler == {"save", "barrier", "held", "out"}
Restoring == {"r_tls", "r_sig", "r_barrier", "r_held", "r_context"}
Back == CHOOSE i \in image : TRUE

Places == {"none", "user"} \cup InHandler \cup Restoring
Frames == [pc : Places, regs : Contents, mask : SUBSET Sigs]
Slots  == [slot : Contents, is_restart : BOOLEAN]
Actions == [sa_handler : {"default", "ignore", "handler", "thread_sighandler"},
            sa_mask : SUBSET UserSigs]

\* Every variable has its type, and no more threads arrive at the barrier
\* than there are (suspend_threads and restore_threads reset the count).
TypeOK ==
  /\ pc \in [Threads -> Places]
  /\ regs \in [Threads -> Contents] /\ alt \in [Threads -> Contents]
  /\ mask \in [Threads -> SUBSET Sigs] /\ cmask \in SUBSET Sigs
  /\ pend \subseteq Threads /\ sigpend \subseteq UserSigs
  /\ disp \in [Sigs -> Actions] /\ sa_table \in [Sigs -> Actions]
  /\ slots \in [Threads -> Slots]
  /\ creg \in {"first", "restart"} /\ ctls \in {"none", "first"}
  /\ cslots \in [{"first", "restart"} -> Contents]
  /\ xnd \in {"XND_RUNNING", "XND_SUSPINPROG", "XND_CKPTINPROG"}
  /\ info \in [Threads -> [state : {"ST_RUNNING", "ST_SIGNALED", "ST_SUSPINPROG",
                                    "ST_SUSPENDED"},
                            uctx : Frames, sigblocked : SUBSET Sigs, ss : Contents,
                            tls : Slots]]
  /\ frame \in [Threads -> Frames]
  /\ arrived \in 0 .. Cardinality(Threads) /\ expected \in 0 .. Cardinality(Threads)
  /\ cpc \in {"wait", "suspend", "arrive", "release", "early", "tls", "create", "restored"}
  /\ Cardinality(image) <= 1
  /\ strays \subseteq {"late", "blocked"}

\* The next checkpoint signal may be sent to a restored thread while it is
\* still in thread_restart; it is blocked there by the mask that the thread
\* saved inside the handler, and interrupts user code only.  Otherwise the
\* context to return to would be overwritten by one in thread_restart.
SuspendedInUserCode ==
  \A t \in Threads :
    /\ pc[t] \in InHandler => frame[t].pc = "user"
    /\ t \in pend => pc[t] \in {"user"} \cup {"r_held", "r_context"}

\* The registers, mask, alternate stack and thread-local data that a thread
\* has when it comes back to user code are those it had when the image was
\* written, through any number of restarts and checkpoints of restarts.
ContextsRestored ==
  [][\A t \in Threads :
       pc[t] = "r_context" /\ pc'[t] = "user" =>
         Back.was.threads[t] = [regs |-> regs'[t], mask |-> mask'[t], alt |-> alt'[t],
                                slot |-> slots'[t].slot]]_vars

\* Before threads are created again the checkpoint thread has the dispositions
\* of the process and its own thread-local data back, although it lives at
\* one address in the first process and at another in every later one
\* (thread_save_tls, thread_restore_tls, sig_state_restore).
ProcessRestored ==
  cpc = "create" => disp = Back.was.disp /\ cslots[creg] = Back.was.cslot

\* Every checkpoint that is begun ends, also when it is requested while
\* restored threads are on their way back, every restart comes to the wait for
\* the next request, and every thread that is stopped or created again comes
\* back to user code (barrier_release, thread_restart).
EverybodyRunsOn ==
  /\ cpc # "wait" ~> cpc = "wait"
  /\ \A t \in Threads : pc[t] # "user" ~> pc[t] = "user"

\* "Yes, signal handlers, blocked signals, and alternate stacks are restored":
\* no handler of the program runs while every thread blocks its signal, or
\* in a thread that is suspended or not restored yet.
SignalsInPlace == strays = {}

=============================================================================
