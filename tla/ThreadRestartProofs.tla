------------------------ MODULE ThreadRestartProofs ------------------------
(***************************************************************************)
(* Proofs about ThreadRestart, for any threads, signals and values and any *)
(* number of calls, checkpoints and restarts.                              *)
(*                                                                         *)
(* What comes back after a restart depends on a chain: what the kernel     *)
(* kept for a thread is in the frame and in its thread_info while it is    *)
(* held (HeldInv), from there in the image (GoodImage), from there in the  *)
(* thread_info of the restored thread and, one restore function after the  *)
(* other, in what the kernel keeps (BackInv).  The chain holds because no  *)
(* checkpoint signal gets into thread_restart (StateInv) and because the   *)
(* phases of the checkpoint thread admit only some places for the threads  *)
(* (PhaseInv), so that the barrier counts each thread once.                *)
(***************************************************************************)
EXTENDS ThreadRestart, FiniteSetTheorems, TLAPS

-----------------------------------------------------------------------------
(* Kinds of values *)

States == {"ST_RUNNING", "ST_SIGNALED", "ST_SUSPINPROG", "ST_SUSPENDED"}
Infos == [state : States, uctx : Frames, sigblocked : SUBSET Sigs, ss : Contents,
          tls : Slots]
Addresses == {"first", "restart"}
Snapshots == [regs : Contents, mask : SUBSET Sigs, alt : Contents, slot : Contents]

KernelType ==
  /\ pc \in [Threads -> Places]
  /\ regs \in [Threads -> Contents] /\ alt \in [Threads -> Contents]
  /\ mask \in [Threads -> SUBSET Sigs] /\ cmask \in SUBSET Sigs
  /\ pend \subseteq Threads /\ sigpend \subseteq UserSigs
  /\ disp \in [Sigs -> Actions]
  /\ slots \in [Threads -> Slots]
  /\ creg \in Addresses
  /\ strays \subseteq {"late", "blocked"}

MemType ==
  /\ sa_table \in [Sigs -> Actions]
  /\ ctls \in {"none", "first"}
  /\ cslots \in [Addresses -> Contents]
  /\ xnd \in {"XND_RUNNING", "XND_SUSPINPROG", "XND_CKPTINPROG"}
  /\ info \in [Threads -> Infos]
  /\ frame \in [Threads -> Frames]
  /\ arrived \in Nat /\ expected \in 0 .. Cardinality(Threads)

-----------------------------------------------------------------------------
(* One thread *)

\* p->state at each place of a thread; a checkpoint signal is on its way
\* exactly to those that are signaled.
StateInv(t) ==
  /\ pc[t] \in {"user", "r_held", "r_context"} =>
       info[t].state \in {"ST_RUNNING", "ST_SIGNALED"}
  /\ pc[t] = "save" => info[t].state = "ST_SUSPINPROG"
  /\ pc[t] \in {"barrier", "held", "out", "none", "r_tls"} => info[t].state = "ST_SUSPENDED"
  /\ pc[t] \in {"r_sig", "r_barrier"} => info[t].state = "ST_RUNNING"
  /\ t \in pend <=> info[t].state = "ST_SIGNALED"
  /\ pc[t] \in {"r_barrier", "r_held", "r_context"} => Ckpt \in mask[t]

\* What a thread in the handler has saved of itself.
HeldInv(t) ==
  /\ pc[t] \in InHandler =>
       frame[t].pc = "user" /\ frame[t].regs = regs[t] /\ Ckpt \in mask[t]
  /\ pc[t] \in {"barrier", "held"} =>
       /\ info[t].uctx = frame[t] /\ info[t].ss = alt[t] /\ info[t].tls = slots[t]
       /\ slots[t].is_restart = TRUE
       /\ Ckpt \in info[t].sigblocked

\* The thread_info of a thread whose state was w.
Saves(i, w) ==
  /\ i.uctx = [pc |-> "user", regs |-> w.regs, mask |-> w.mask]
  /\ i.ss = w.alt
  /\ i.tls = [slot |-> w.slot, is_restart |-> TRUE]
  /\ Ckpt \in i.sigblocked

\* What a thread that is created again has, and how far it has restored it.
BackInv(t) ==
  pc[t] \in {"none"} \cup Restoring =>
    /\ image # {}
    /\ Saves(info[t], Back.was.threads[t])
    /\ pc[t] \in {"none", "r_tls", "r_sig"} => alt[t] = Fresh
    /\ pc[t] \in {"r_barrier", "r_held", "r_context"} => alt[t] = info[t].ss
    /\ pc[t] \in Restoring \ {"r_tls"} => slots[t] = info[t].tls

-----------------------------------------------------------------------------
(* The checkpoint thread *)

\* The threads in the barrier.
At(place) == {t \in Threads : pc[t] = place}

\* Where threads can be in each phase, and that the barrier counts each once.
PhaseInv ==
  /\ cpc \in {"wait", "suspend", "arrive", "release", "early", "tls", "create", "restored"}
  /\ cpc # "suspend" => pend = {}
  /\ cpc = "wait" => /\ xnd = "XND_RUNNING" /\ arrived <= Cardinality(Threads)
                     /\ \A t \in Threads :
                          pc[t] \in {"user", "held", "out", "r_held", "r_context"}
  /\ cpc = "suspend" => /\ xnd = "XND_SUSPINPROG" /\ arrived = 0
                        /\ \A t \in Threads :
                             pc[t] \in {"user", "save", "barrier", "r_held", "r_context"}
  /\ cpc = "arrive" => /\ xnd = "XND_CKPTINPROG" /\ expected = Cardinality(Threads)
                       /\ arrived = Cardinality(At("held"))
                       /\ \A t \in Threads : pc[t] \in {"save", "barrier", "held"}
  /\ cpc = "release" => /\ xnd = "XND_CKPTINPROG" /\ arrived <= Cardinality(Threads)
                        /\ \A t \in Threads : pc[t] \in {"held", "r_held"}
  /\ cpc \in {"early", "tls", "create"} => /\ xnd = "XND_CKPTINPROG"
                                           /\ arrived <= Cardinality(Threads)
                                           /\ \A t \in Threads : pc[t] = "none"
  /\ cpc = "restored" => /\ xnd = "XND_CKPTINPROG" /\ expected = Cardinality(Threads)
                         /\ arrived = Cardinality(At("r_held"))
                         /\ \A t \in Threads :
                              pc[t] \in {"r_tls", "r_sig", "r_barrier", "r_held"}

\* An image holds for every thread what it had, the dispositions of the process
\* and, at the address the checkpoint thread first had, its thread-local data.
GoodImage(i) ==
  /\ i.mem.info \in [Threads -> Infos] /\ i.mem.frame \in [Threads -> Frames]
  /\ i.mem.sa_table \in [Sigs -> Actions] /\ i.mem.cslots \in [Addresses -> Contents]
  /\ i.mem.ctls = "first" /\ i.was.threads \in [Threads -> Snapshots]
  /\ i.mem.expected \in 0 .. Cardinality(Threads)
  /\ i.mem.arrived \in Nat /\ i.mem.arrived <= Cardinality(Threads)
  /\ \A t \in Threads : /\ i.mem.info[t].state = "ST_SUSPENDED"
                        /\ Saves(i.mem.info[t], i.was.threads[t])
  /\ i.mem.sa_table = i.was.disp
  /\ i.mem.sa_table[Ckpt].sa_handler = "thread_sighandler"
  /\ ~LateTouch => i.was.cslot = i.mem.cslots["first"]

ImageInv == image = {} \/ (image = {Back} /\ GoodImage(Back))

\* The dispositions and the thread-local data of the checkpoint thread.
OwnInv ==
  /\ cpc # "early" => disp[Ckpt].sa_handler = "thread_sighandler"
  /\ cpc \in {"early", "tls", "create", "restored"} => creg = "restart" /\ image # {}
  /\ cpc = "early" => /\ sa_table = Back.was.disp
                      /\ sa_table[Ckpt].sa_handler = "thread_sighandler"
  /\ cpc \in {"tls", "create"} => disp = Back.was.disp
  /\ ctls = "none" => creg = "first"
  /\ cpc \in {"suspend", "arrive", "early", "tls"} => ctls = "first"
  /\ ~LateTouch =>
       /\ cpc \in {"suspend", "arrive"} => cslots["first"] = cslots[creg]
       /\ cpc \in {"early", "tls"} => cslots["first"] = Back.was.cslot
       /\ cpc = "create" => cslots[creg] = Back.was.cslot

Kinds == KernelType /\ MemType

Thread(t) == StateInv(t) /\ HeldInv(t) /\ BackInv(t)

\* The inductive invariant.
IInv == Kinds /\ (\A t \in Threads : Thread(t)) /\ PhaseInv /\ ImageInv /\ OwnInv

-----------------------------------------------------------------------------
USE DEF kernelVars, memVars, ckptVars

LEMMA Numbers == Cardinality(Threads) \in Nat
  BY ConstantsAssumption, FS_CardinalityType

LEMMA Sorts ==
  /\ Fresh \in Contents /\ Ckpt \in Sigs
  /\ NoFrame \in Frames /\ NewInfo \in Infos
  /\ Default \in [Sigs -> Actions]
  BY DEF Contents, Sigs, Frames, Infos, NoFrame, NewInfo, States, Slots, Places, Default,
     Actions, Action

\* One more thread in the barrier.
LEMMA OneMore ==
  ASSUME NEW S \in SUBSET Threads, NEW t \in Threads, t \notin S
  PROVE  /\ Cardinality(S \cup {t}) = Cardinality(S) + 1
         /\ Cardinality(S) \in Nat
         /\ Cardinality(S \cup {t}) <= Cardinality(Threads)
<1>1. IsFiniteSet(Threads)
  BY ConstantsAssumption
<1>2. IsFiniteSet(S) /\ IsFiniteSet(S \cup {t})
  BY <1>1, FS_Subset
<1>3. Cardinality(S \cup {t}) = Cardinality(S) + 1
  BY <1>2, FS_AddElement
<1>4. Cardinality(S \cup {t}) <= Cardinality(Threads)
  BY <1>1, FS_Subset
<1> QED
  BY <1>2, <1>3, <1>4, FS_CardinalityType

\* A set of threads as large as all of them is all of them.
LEMMA AllOfThem ==
  ASSUME NEW S \in SUBSET Threads, Cardinality(S) >= Cardinality(Threads)
  PROVE  S = Threads
<1>1. IsFiniteSet(Threads)
  BY ConstantsAssumption
<1>2. /\ IsFiniteSet(S) /\ Cardinality(S) <= Cardinality(Threads)
      /\ Cardinality(S) = Cardinality(Threads) => S = Threads
  BY <1>1, FS_Subset
<1>3. Cardinality(S) \in Nat /\ Cardinality(Threads) \in Nat
  BY <1>1, <1>2, FS_CardinalityType
<1> QED
  BY <1>2, <1>3

\* Nothing of thread u changes, nor the image.
Same(u) ==
  /\ pc'[u] = pc[u] /\ regs'[u] = regs[u] /\ mask'[u] = mask[u] /\ alt'[u] = alt[u]
  /\ slots'[u] = slots[u] /\ info'[u] = info[u] /\ frame'[u] = frame[u]
  /\ (u \in pend' <=> u \in pend)
  /\ image' = image /\ Back' = Back

LEMMA Elsewhere ==
  ASSUME NEW u \in Threads, Thread(u), Same(u)
  PROVE  Thread(u)'
<1>1. StateInv(u)'
  BY DEF Thread, Same, StateInv
<1>2. HeldInv(u)'
  BY DEF Thread, Same, HeldInv
<1>3. BackInv(u)'
  BY DEF Thread, Same, BackInv, Saves
<1> QED
  BY <1>1, <1>2, <1>3 DEF Thread

\* The program computes.
LEMMA ComputeKeeps ==
  ASSUME IInv, NEW t \in Threads, Compute(t)
  PROVE  IInv'
<1> USE DEF IInv
<1>1. image' = image /\ Back' = Back
  BY DEF Compute, Calls, Back
<1>2. pc[t] = "user" /\ pc' = pc /\ info' = info /\ frame' = frame /\ pend' = pend
  BY DEF Compute, Calls
<1>3. UNCHANGED <<mask, alt, disp, cmask, sigpend, creg, strays>>
  BY DEF Compute, Calls
<1>4. UNCHANGED <<xnd, arrived, expected, sa_table, ctls, cslots, cpc>>
  BY DEF Compute, Calls
<1>5. regs' \in [Threads -> Contents] /\ \A u \in Threads : u # t => regs'[u] = regs[u]
  BY DEF Compute, Contents, Kinds, KernelType, MemType
<1>6. slots' \in [Threads -> Slots] /\ \A u \in Threads : u # t => slots'[u] = slots[u]
  <2>1. CASE slots' = slots
    BY <2>1 DEF Kinds, KernelType
  <2>2. CASE slots' # slots
    <3>1. PICK v \in Values : slots' = [slots EXCEPT ![t].slot = v]
      BY <2>2 DEF Compute
    <3>2. [slots[t] EXCEPT !.slot = v] \in Slots
      BY DEF Kinds, KernelType, Slots, Contents
    <3> QED
      BY <3>1, <3>2 DEF Kinds, KernelType
  <2> QED
    BY <2>1, <2>2
<1>7. Kinds'
  BY <1>1, <1>2, <1>3, <1>4, <1>5, <1>6 DEF Kinds, KernelType, MemType
<1>8. ASSUME NEW u \in Threads PROVE Thread(u)'
  <2>1. Thread(u)
    OBVIOUS
  <2>2. CASE u = t
    BY <1>1, <1>2, <1>3, <1>4, <1>5, <1>6, <2>1, <2>2 DEF Kinds, KernelType,
       MemType, Thread, StateInv, HeldInv, BackInv, Restoring, InHandler
  <2>3. CASE u # t
    <3>1. Same(u)
      BY <1>1, <1>2, <1>3, <1>4, <1>5, <1>6, <2>3 DEF Kinds, KernelType, MemType,
         Same
    <3> QED
      BY <2>1, <3>1, Elsewhere
  <2> QED
    BY <2>2, <2>3
<1>9. PhaseInv'
  BY <1>1, <1>2, <1>3, <1>4, <1>5, <1>6 DEF PhaseInv, At
<1>10. ImageInv'
  BY <1>1 DEF ImageInv
<1>11. OwnInv'
  BY <1>1, <1>2, <1>3, <1>4, <1>5, <1>6 DEF OwnInv
<1> QED
  BY <1>7, <1>8, <1>9, <1>10, <1>11

\* The program registers a handler; the checkpoint signal is reserved.
LEMMA SigactionHookKeeps ==
  ASSUME IInv, NEW t \in Threads, SigactionHook(t)
  PROVE  IInv'
<1> USE DEF IInv
<1>1. image' = image /\ Back' = Back
  BY DEF SigactionHook, Calls, Back
<1>2. pc[t] = "user" /\ pc' = pc /\ info' = info /\ frame' = frame /\ pend' = pend
  BY DEF SigactionHook, Calls
<1>3. UNCHANGED <<regs, mask, alt, slots, cmask, sigpend, creg, strays>>
  BY DEF SigactionHook, Calls
<1>4. UNCHANGED <<xnd, arrived, expected, sa_table, ctls, cslots, cpc>>
  BY DEF SigactionHook, Calls
<1>5. disp' \in [Sigs -> Actions] /\ disp'[Ckpt] = disp[Ckpt]
  BY ConstantsAssumption DEF SigactionHook, Action, Actions, Sigs, Kinds, KernelType
<1>6. Kinds'
  BY <1>1, <1>2, <1>3, <1>4, <1>5, Sorts DEF Kinds, KernelType, MemType
<1>7. ASSUME NEW u \in Threads PROVE Thread(u)'
  <2>1. Thread(u)
    OBVIOUS
  <2>2. CASE u = t
    BY <1>1, <1>2, <1>3, <1>4, <1>5, <2>1, <2>2 DEF Kinds, KernelType, MemType,
       Thread, StateInv, HeldInv, BackInv, Restoring, InHandler
  <2>3. CASE u # t
    <3>1. Same(u)
      BY <1>1, <1>2, <1>3, <1>4, <1>5, <2>3 DEF Kinds, KernelType, MemType, Same
    <3> QED
      BY <2>1, <3>1, Elsewhere
  <2> QED
    BY <2>2, <2>3
<1>8. PhaseInv'
  BY <1>1, <1>2, <1>3, <1>4, <1>5 DEF PhaseInv, At
<1>9. ImageInv'
  BY <1>1 DEF ImageInv
<1>10. OwnInv'
  BY <1>1, <1>2, <1>3, <1>4, <1>5 DEF OwnInv, PhaseInv
<1> QED
  BY <1>6, <1>7, <1>8, <1>9, <1>10

\* The program changes its mask.
LEMMA SigmaskHookKeeps ==
  ASSUME IInv, NEW t \in Threads, SigmaskHook(t)
  PROVE  IInv'
<1> USE DEF IInv
<1>1. image' = image /\ Back' = Back
  BY DEF SigmaskHook, Calls, Back
<1>2. pc[t] = "user" /\ pc' = pc /\ info' = info /\ frame' = frame /\ pend' = pend
  BY DEF SigmaskHook, Calls
<1>3. UNCHANGED <<regs, alt, slots, disp, cmask, sigpend, creg, strays>>
  BY DEF SigmaskHook, Calls
<1>4. UNCHANGED <<xnd, arrived, expected, sa_table, ctls, cslots, cpc>>
  BY DEF SigmaskHook, Calls
<1>5. mask' \in [Threads -> SUBSET Sigs] /\ \A u \in Threads : u # t => mask'[u] = mask[u]
  BY DEF SigmaskHook, Clean, Kinds, KernelType
<1>6. Kinds'
  BY <1>1, <1>2, <1>3, <1>4, <1>5, Sorts DEF Kinds, KernelType, MemType
<1>7. ASSUME NEW u \in Threads PROVE Thread(u)'
  <2>1. Thread(u)
    OBVIOUS
  <2>2. CASE u = t
    BY <1>1, <1>2, <1>3, <1>4, <1>5, <2>1, <2>2 DEF Kinds, KernelType, MemType,
       Thread, StateInv, HeldInv, BackInv, Restoring, InHandler
  <2>3. CASE u # t
    <3>1. Same(u)
      BY <1>1, <1>2, <1>3, <1>4, <1>5, <2>3 DEF Kinds, KernelType, MemType, Same
    <3> QED
      BY <2>1, <3>1, Elsewhere
  <2> QED
    BY <2>2, <2>3
<1>8. PhaseInv'
  BY <1>1, <1>2, <1>3, <1>4, <1>5 DEF PhaseInv, At
<1>9. ImageInv'
  BY <1>1 DEF ImageInv
<1>10. OwnInv'
  BY <1>1, <1>2, <1>3, <1>4, <1>5 DEF OwnInv
<1> QED
  BY <1>6, <1>7, <1>8, <1>9, <1>10

\* The program changes its alternate stack.
LEMMA SigaltstackKeeps ==
  ASSUME IInv, NEW t \in Threads, Sigaltstack(t)
  PROVE  IInv'
<1> USE DEF IInv
<1>1. image' = image /\ Back' = Back
  BY DEF Sigaltstack, Calls, Back
<1>2. pc[t] = "user" /\ pc' = pc /\ info' = info /\ frame' = frame /\ pend' = pend
  BY DEF Sigaltstack, Calls
<1>3. UNCHANGED <<regs, mask, slots, disp, cmask, sigpend, creg, strays>>
  BY DEF Sigaltstack, Calls
<1>4. UNCHANGED <<xnd, arrived, expected, sa_table, ctls, cslots, cpc>>
  BY DEF Sigaltstack, Calls
<1>5. alt' \in [Threads -> Contents] /\ \A u \in Threads : u # t => alt'[u] = alt[u]
  BY DEF Sigaltstack, Kinds, KernelType
<1>6. Kinds'
  BY <1>1, <1>2, <1>3, <1>4, <1>5, Sorts DEF Kinds, KernelType, MemType
<1>7. ASSUME NEW u \in Threads PROVE Thread(u)'
  <2>1. Thread(u)
    OBVIOUS
  <2>2. CASE u = t
    BY <1>1, <1>2, <1>3, <1>4, <1>5, <2>1, <2>2 DEF Kinds, KernelType, MemType,
       Thread, StateInv, HeldInv, BackInv, Restoring, InHandler
  <2>3. CASE u # t
    <3>1. Same(u)
      BY <1>1, <1>2, <1>3, <1>4, <1>5, <2>3 DEF Kinds, KernelType, MemType, Same
    <3> QED
      BY <2>1, <3>1, Elsewhere
  <2> QED
    BY <2>2, <2>3
<1>8. PhaseInv'
  BY <1>1, <1>2, <1>3, <1>4, <1>5 DEF PhaseInv, At
<1>9. ImageInv'
  BY <1>1 DEF ImageInv
<1>10. OwnInv'
  BY <1>1, <1>2, <1>3, <1>4, <1>5 DEF OwnInv
<1> QED
  BY <1>6, <1>7, <1>8, <1>9, <1>10

\* A signal is sent to the process.
LEMMA SendKeeps ==
  ASSUME IInv, Send
  PROVE  IInv'
<1> USE DEF IInv
<1>1. image' = image /\ Back' = Back
  BY DEF Send, Back
<1>2. UNCHANGED <<pc, regs, mask, alt, slots, disp, pend, cmask, creg, strays>>
  BY DEF Send
<1>3. UNCHANGED <<info, frame, xnd, arrived, expected, sa_table, ctls, cslots, cpc>>
  BY DEF Send
<1>4. sigpend' \subseteq UserSigs
  BY DEF Send, Kinds, KernelType
<1>5. Kinds'
  BY <1>1, <1>2, <1>3, <1>4 DEF Kinds, KernelType, MemType
<1>6. ASSUME NEW u \in Threads PROVE Thread(u)'
  <2>1. Thread(u)
    OBVIOUS
  <2>2. Same(u)
    BY <1>1, <1>2, <1>3, <1>4 DEF Same
  <2> QED
    BY <2>1, <2>2, Elsewhere
<1>7. PhaseInv'
  BY <1>1, <1>2, <1>3, <1>4 DEF PhaseInv, At
<1>8. ImageInv'
  BY <1>1 DEF ImageInv
<1>9. OwnInv'
  BY <1>1, <1>2, <1>3, <1>4 DEF OwnInv
<1> QED
  BY <1>5, <1>6, <1>7, <1>8, <1>9

\* A handler of the program runs.
LEMMA DeliverKeeps ==
  ASSUME IInv, NEW s \in UserSigs, Deliver(s)
  PROVE  IInv'
<1> USE DEF IInv
<1>1. image' = image /\ Back' = Back
  BY DEF Deliver, Back
<1>2. UNCHANGED <<pc, regs, mask, alt, slots, disp, pend, cmask, creg>>
  BY DEF Deliver
<1>3. UNCHANGED <<info, frame, xnd, arrived, expected, sa_table, ctls, cslots, cpc>>
  BY DEF Deliver
<1>4. sigpend' \subseteq UserSigs /\ strays' \subseteq {"late", "blocked"}
  BY DEF Deliver, Kinds, KernelType
<1>5. Kinds'
  BY <1>1, <1>2, <1>3, <1>4 DEF Kinds, KernelType, MemType
<1>6. ASSUME NEW u \in Threads PROVE Thread(u)'
  <2>1. Thread(u)
    OBVIOUS
  <2>2. Same(u)
    BY <1>1, <1>2, <1>3, <1>4 DEF Same
  <2> QED
    BY <2>1, <2>2, Elsewhere
<1>7. PhaseInv'
  BY <1>1, <1>2, <1>3, <1>4 DEF PhaseInv, At
<1>8. ImageInv'
  BY <1>1 DEF ImageInv
<1>9. OwnInv'
  BY <1>1, <1>2, <1>3, <1>4 DEF OwnInv
<1> QED
  BY <1>5, <1>6, <1>7, <1>8, <1>9

\* The checkpoint signal is delivered, in user code: it is blocked elsewhere.
LEMMA SighandlerKeeps ==
  ASSUME IInv, NEW t \in Threads, thread_sighandler(t)
  PROVE  IInv'
<1> USE DEF IInv
<1>1. image' = image /\ Back' = Back
  BY DEF thread_sighandler, Back
<1>2. UNCHANGED <<regs, cmask, alt, sigpend, disp, slots, creg, strays>>
  BY DEF thread_sighandler
<1>3. UNCHANGED <<xnd, arrived, expected, sa_table, ctls, cslots, cpc>>
  BY DEF thread_sighandler
<1>4. pc[t] = "user" /\ t \in pend /\ Ckpt \notin mask[t]
  BY DEF thread_sighandler, Thread, StateInv, Kinds, KernelType, Places, InHandler,
     Restoring
<1>5. cpc = "suspend"
  BY <1>4 DEF PhaseInv
<1>6. /\ pc' = [pc EXCEPT ![t] = "save"]
      /\ pend' = pend \ {t}
  BY DEF thread_sighandler
<1>7. /\ frame' \in [Threads -> Frames] /\ frame'[t] = [pc |-> "user", regs |-> regs[t], mask |-> mask[t]]
      /\ \A u \in Threads : u # t => frame'[u] = frame[u]
  BY <1>4 DEF thread_sighandler, Frames, Places, Kinds, KernelType, MemType
<1>8. /\ mask' \in [Threads -> SUBSET Sigs] /\ Ckpt \in mask'[t]
      /\ \A u \in Threads : u # t => mask'[u] = mask[u]
  BY DEF thread_sighandler, Sigs, Actions, Kinds, KernelType
<1>9. info' = [info EXCEPT ![t] = [info[t] EXCEPT !.state = "ST_SUSPINPROG"]]
  BY DEF thread_sighandler
<1>10. /\ info' \in [Threads -> Infos] /\ info'[t].state = "ST_SUSPINPROG"
       /\ \A u \in Threads : u # t => info'[u] = info[u]
  BY <1>9 DEF Infos, States, Kinds, MemType
<1>11. Kinds'
  BY <1>1, <1>2, <1>3, <1>4, <1>5, <1>6, <1>7, <1>8, <1>9, <1>10 DEF Kinds,
     KernelType, MemType, Places, InHandler
<1>12. ASSUME NEW u \in Threads PROVE Thread(u)'
  <2>1. Thread(u)
    OBVIOUS
  <2>2. CASE u = t
    BY <1>1, <1>2, <1>3, <1>4, <1>5, <1>6, <1>7, <1>8, <1>9, <1>10, <2>1, <2>2 DEF
       Kinds, KernelType, MemType, Thread, StateInv, HeldInv, BackInv, Restoring,
       InHandler
  <2>3. CASE u # t
    <3>1. Same(u)
      BY <1>1, <1>2, <1>3, <1>4, <1>5, <1>6, <1>7, <1>8, <1>9, <1>10, <2>3 DEF
         Kinds, KernelType, MemType, Same
    <3> QED
      BY <2>1, <3>1, Elsewhere
  <2> QED
    BY <2>2, <2>3
<1>13. PhaseInv'
  BY <1>1, <1>2, <1>3, <1>4, <1>5, <1>6, <1>7, <1>8, <1>9, <1>10 DEF PhaseInv, At
<1>14. ImageInv'
  BY <1>1 DEF ImageInv
<1>15. OwnInv'
  BY <1>1, <1>2, <1>3, <1>4, <1>5, <1>6, <1>7, <1>8, <1>9, <1>10 DEF OwnInv
<1> QED
  BY <1>11, <1>12, <1>13, <1>14, <1>15

\* A thread in the handler saves what the kernel keeps for it.
LEMMA HandlerSaveKeeps ==
  ASSUME IInv, NEW t \in Threads, HandlerSave(t)
  PROVE  IInv'
<1> USE DEF IInv
<1>1. image' = image /\ Back' = Back
  BY DEF HandlerSave, Back
<1>2. UNCHANGED <<regs, mask, cmask, alt, pend, sigpend, disp, creg, frame, strays>>
  BY DEF HandlerSave
<1>3. UNCHANGED <<xnd, arrived, expected, sa_table, ctls, cslots, cpc>>
  BY DEF HandlerSave
<1>4. pc[t] = "save" /\ pc' = [pc EXCEPT ![t] = "barrier"]
  BY DEF HandlerSave
<1>5. /\ SavedTls(t) \in Slots /\ SavedTls(t).is_restart = TRUE
      /\ slots' = [slots EXCEPT ![t] = SavedTls(t)]
  BY DEF HandlerSave, SavedTls, Slots, Kinds, KernelType
<1>6. info' = [info EXCEPT ![t] = [state |-> "ST_SUSPENDED", uctx |-> frame[t],
                   sigblocked |-> mask[t], ss |-> alt[t], tls |-> SavedTls(t)]]
  BY DEF HandlerSave, thread_save_sig_state
<1>7. /\ info' \in [Threads -> Infos]
      /\ info'[t] = [state |-> "ST_SUSPENDED", uctx |-> frame[t],
                     sigblocked |-> mask[t], ss |-> alt[t], tls |-> SavedTls(t)]
      /\ \A u \in Threads : u # t => info'[u] = info[u]
  BY <1>5, <1>6 DEF Infos, States, Kinds, KernelType, MemType
<1>8. Kinds'
  BY <1>1, <1>2, <1>3, <1>4, <1>5, <1>6, <1>7 DEF Kinds, KernelType, MemType,
     Places, InHandler
<1>9. ASSUME NEW u \in Threads PROVE Thread(u)'
  <2>1. Thread(u)
    OBVIOUS
  <2>2. CASE u = t
    BY <1>1, <1>2, <1>3, <1>4, <1>5, <1>6, <1>7, <2>1, <2>2 DEF Kinds, KernelType,
       MemType, Thread, StateInv, HeldInv, BackInv, Restoring, InHandler
  <2>3. CASE u # t
    <3>1. Same(u)
      BY <1>1, <1>2, <1>3, <1>4, <1>5, <1>6, <1>7, <2>3 DEF Kinds, KernelType,
         MemType, Same
    <3> QED
      BY <2>1, <3>1, Elsewhere
  <2> QED
    BY <2>2, <2>3
<1>10. PhaseInv'
  <2>1. cpc = "suspend" \/ cpc = "arrive"
    BY <1>4 DEF PhaseInv
  <2>2. At("held")' = At("held")
    BY <1>4 DEF At, Kinds, KernelType
  <2>3. \A u \in Threads : pc'[u] = (IF u = t THEN "barrier" ELSE pc[u])
    BY <1>4 DEF Kinds, KernelType
  <2> QED
    BY <1>2, <1>3, <2>1, <2>2, <2>3 DEF PhaseInv
<1>11. ImageInv'
  BY <1>1 DEF ImageInv
<1>12. OwnInv'
  BY <1>1, <1>2, <1>3, <1>4, <1>5, <1>6, <1>7 DEF OwnInv
<1> QED
  BY <1>8, <1>9, <1>10, <1>11, <1>12

\* A thread enters the barrier and is counted.
LEMMA BarrierEnterKeeps ==
  ASSUME IInv, NEW t \in Threads, BarrierEnter(t)
  PROVE  IInv'
<1> USE DEF IInv
<1>1. image' = image /\ Back' = Back
  BY DEF BarrierEnter, Back
<1>2. UNCHANGED <<regs, mask, cmask, alt, pend, sigpend, disp, slots, creg, strays>>
  BY DEF BarrierEnter
<1>3. UNCHANGED <<info, frame, xnd, expected, sa_table, ctls, cslots, cpc>>
  BY DEF BarrierEnter
<1>4. \/ pc[t] = "barrier" /\ pc' = [pc EXCEPT ![t] = "held"]
      \/ pc[t] = "r_barrier" /\ pc' = [pc EXCEPT ![t] = "r_held"]
  BY DEF BarrierEnter
<1>5. arrived' = arrived + 1 /\ xnd # "XND_SUSPINPROG"
  BY DEF BarrierEnter
<1>6. \/ cpc = "arrive" /\ pc[t] = "barrier"
      \/ cpc = "restored" /\ pc[t] = "r_barrier"
  BY <1>4, <1>5 DEF PhaseInv
<1>7. Kinds'
  BY <1>1, <1>2, <1>3, <1>4, <1>5, <1>6 DEF Kinds, KernelType, MemType, Places,
     InHandler, Restoring
<1>8. ASSUME NEW u \in Threads PROVE Thread(u)'
  <2>1. Thread(u)
    OBVIOUS
  <2>2. CASE u = t
    BY <1>1, <1>2, <1>3, <1>4, <1>5, <1>6, <2>1, <2>2 DEF Kinds, KernelType,
       MemType, Thread, StateInv, HeldInv, BackInv, Restoring, InHandler
  <2>3. CASE u # t
    <3>1. Same(u)
      BY <1>1, <1>2, <1>3, <1>4, <1>5, <1>6, <2>3 DEF Kinds, KernelType, MemType,
         Same
    <3> QED
      BY <2>1, <3>1, Elsewhere
  <2> QED
    BY <2>2, <2>3
<1>9. PhaseInv'
  <2>1. CASE cpc = "arrive" /\ pc[t] = "barrier"
    <3>1. At("held")' = At("held") \cup {t} /\ t \notin At("held")
      BY <1>4, <2>1 DEF At, Kinds, KernelType
    <3>2. Cardinality(At("held")') = Cardinality(At("held")) + 1
      BY <3>1, OneMore DEF At
    <3> QED
      BY <1>1, <1>2, <1>3, <1>4, <1>5, <1>6, <2>1, <3>2 DEF PhaseInv, Kinds, KernelType
  <2>2. CASE cpc = "restored" /\ pc[t] = "r_barrier"
    <3>1. At("r_held")' = At("r_held") \cup {t} /\ t \notin At("r_held")
      BY <1>4, <2>2 DEF At, Kinds, KernelType
    <3>2. Cardinality(At("r_held")') = Cardinality(At("r_held")) + 1
      BY <3>1, OneMore DEF At
    <3> QED
      BY <1>1, <1>2, <1>3, <1>4, <1>5, <1>6, <2>2, <3>2 DEF PhaseInv, Kinds, KernelType
  <2> QED
    BY <1>6, <2>1, <2>2
<1>10. ImageInv'
  BY <1>1 DEF ImageInv
<1>11. OwnInv'
  BY <1>1, <1>2, <1>3, <1>4, <1>5, <1>6 DEF OwnInv
<1> QED
  BY <1>7, <1>8, <1>9, <1>10, <1>11

\* A thread leaves the barrier.
LEMMA BarrierLeaveKeeps ==
  ASSUME IInv, NEW t \in Threads, BarrierLeave(t)
  PROVE  IInv'
<1> USE DEF IInv
<1>1. image' = image /\ Back' = Back
  BY DEF BarrierLeave, Back
<1>2. UNCHANGED <<regs, mask, cmask, alt, pend, sigpend, disp, slots, creg, strays>>
  BY DEF BarrierLeave
<1>3. UNCHANGED <<info, frame, xnd, arrived, expected, sa_table, ctls, cslots, cpc>>
  BY DEF BarrierLeave
<1>4. \/ pc[t] = "held" /\ pc' = [pc EXCEPT ![t] = "out"]
      \/ pc[t] = "r_held" /\ pc' = [pc EXCEPT ![t] = "r_context"]
  BY DEF BarrierLeave
<1>5. \/ cpc = "wait"
      \/ cpc = "suspend" /\ pc[t] = "r_held"
  BY <1>4 DEF BarrierLeave, PhaseInv
<1>6. Kinds'
  BY <1>1, <1>2, <1>3, <1>4, <1>5 DEF Kinds, KernelType, MemType, Places,
     InHandler, Restoring
<1>7. ASSUME NEW u \in Threads PROVE Thread(u)'
  <2>1. Thread(u)
    OBVIOUS
  <2>2. CASE u = t
    BY <1>1, <1>2, <1>3, <1>4, <1>5, <2>1, <2>2 DEF Kinds, KernelType, MemType,
       Thread, StateInv, HeldInv, BackInv, Restoring, InHandler
  <2>3. CASE u # t
    <3>1. Same(u)
      BY <1>1, <1>2, <1>3, <1>4, <1>5, <2>3 DEF Kinds, KernelType, MemType, Same
    <3> QED
      BY <2>1, <3>1, Elsewhere
  <2> QED
    BY <2>2, <2>3
<1>8. PhaseInv'
  BY <1>1, <1>2, <1>3, <1>4, <1>5 DEF PhaseInv, At, Kinds, KernelType
<1>9. ImageInv'
  BY <1>1 DEF ImageInv
<1>10. OwnInv'
  BY <1>1, <1>2, <1>3, <1>4, <1>5 DEF OwnInv
<1> QED
  BY <1>6, <1>7, <1>8, <1>9, <1>10

\* A thread returns from the handler.
LEMMA HandlerReturnKeeps ==
  ASSUME IInv, NEW t \in Threads, HandlerReturn(t)
  PROVE  IInv'
<1> USE DEF IInv
<1>1. image' = image /\ Back' = Back
  BY DEF HandlerReturn, Sigreturn, Back
<1>2. UNCHANGED <<cmask, alt, pend, sigpend, disp, slots, creg, strays>>
  BY DEF HandlerReturn, Sigreturn
<1>3. UNCHANGED <<frame, xnd, arrived, expected, sa_table, ctls, cslots, cpc>>
  BY DEF HandlerReturn, Sigreturn
<1>4. pc[t] = "out" /\ pc' = [pc EXCEPT ![t] = "user"]
  BY DEF HandlerReturn, Sigreturn, Thread, HeldInv, InHandler
<1>5. /\ regs' \in [Threads -> Contents]
      /\ \A u \in Threads : u # t => regs'[u] = regs[u]
  BY DEF HandlerReturn, Sigreturn, Frames, Kinds, KernelType, MemType
<1>6. /\ mask' \in [Threads -> SUBSET Sigs]
      /\ \A u \in Threads : u # t => mask'[u] = mask[u]
  BY DEF HandlerReturn, Sigreturn, Frames, Kinds, KernelType, MemType
<1>7. info' = [info EXCEPT ![t] = [info[t] EXCEPT !.state = "ST_RUNNING"]]
  BY DEF HandlerReturn, Sigreturn
<1>8. /\ info' \in [Threads -> Infos] /\ info'[t].state = "ST_RUNNING"
      /\ \A u \in Threads : u # t => info'[u] = info[u]
  BY <1>7 DEF Infos, States, Kinds, MemType
<1>9. cpc = "wait"
  BY <1>4 DEF PhaseInv
<1>10. Kinds'
  BY <1>1, <1>2, <1>3, <1>4, <1>5, <1>6, <1>7, <1>8, <1>9 DEF Kinds, KernelType,
     MemType, Places, InHandler
<1>11. ASSUME NEW u \in Threads PROVE Thread(u)'
  <2>1. Thread(u)
    OBVIOUS
  <2>2. CASE u = t
    BY <1>1, <1>2, <1>3, <1>4, <1>5, <1>6, <1>7, <1>8, <1>9, <2>1, <2>2 DEF Kinds,
       KernelType, MemType, Thread, StateInv, HeldInv, BackInv, Restoring,
       InHandler
  <2>3. CASE u # t
    <3>1. Same(u)
      BY <1>1, <1>2, <1>3, <1>4, <1>5, <1>6, <1>7, <1>8, <1>9, <2>3 DEF Kinds,
         KernelType, MemType, Same
    <3> QED
      BY <2>1, <3>1, Elsewhere
  <2> QED
    BY <2>2, <2>3
<1>12. PhaseInv'
  BY <1>1, <1>2, <1>3, <1>4, <1>5, <1>6, <1>7, <1>8, <1>9 DEF PhaseInv, At, Kinds,
     KernelType
<1>13. ImageInv'
  BY <1>1 DEF ImageInv
<1>14. OwnInv'
  BY <1>1, <1>2, <1>3, <1>4, <1>5, <1>6, <1>7, <1>8, <1>9 DEF OwnInv
<1> QED
  BY <1>10, <1>11, <1>12, <1>13, <1>14

\* A thread that was created again gets its thread-local data.
LEMMA RestoreTlsKeeps ==
  ASSUME IInv, NEW t \in Threads, RestoreTls(t)
  PROVE  IInv'
<1> USE DEF IInv
<1>1. image' = image /\ Back' = Back
  BY DEF RestoreTls, Back
<1>2. UNCHANGED <<regs, mask, cmask, alt, pend, sigpend, disp, creg, strays>>
  BY DEF RestoreTls
<1>3. UNCHANGED <<frame, xnd, arrived, expected, sa_table, ctls, cslots, cpc>>
  BY DEF RestoreTls
<1>4. pc[t] = "r_tls" /\ pc' = [pc EXCEPT ![t] = "r_sig"]
  BY DEF RestoreTls
<1>5. /\ slots' \in [Threads -> Slots] /\ slots'[t] = info[t].tls
      /\ \A u \in Threads : u # t => slots'[u] = slots[u]
  BY DEF RestoreTls, Infos, Kinds, KernelType, MemType
<1>6. info' = [info EXCEPT ![t] = [info[t] EXCEPT !.state = "ST_RUNNING"]]
  BY DEF RestoreTls
<1>7. /\ info' \in [Threads -> Infos] /\ info'[t] = [info[t] EXCEPT !.state = "ST_RUNNING"]
      /\ \A u \in Threads : u # t => info'[u] = info[u]
  BY <1>6 DEF Infos, States, Kinds, MemType
<1>8. /\ info'[t].state = "ST_RUNNING" /\ info'[t].uctx = info[t].uctx
      /\ info'[t].sigblocked = info[t].sigblocked /\ info'[t].ss = info[t].ss
      /\ info'[t].tls = info[t].tls
  BY <1>7 DEF Infos, States, Kinds, MemType
<1>9. cpc = "restored"
  BY <1>4 DEF PhaseInv
<1>10. Kinds'
  BY <1>1, <1>2, <1>3, <1>4, <1>5, <1>6, <1>7, <1>8, <1>9 DEF Kinds, KernelType,
     MemType, Places, Restoring
<1>11. ASSUME NEW u \in Threads PROVE Thread(u)'
  <2>1. Thread(u)
    OBVIOUS
  <2>2. CASE u = t
    BY <1>1, <1>2, <1>3, <1>4, <1>5, <1>6, <1>7, <1>8, <1>9, <2>1, <2>2 DEF Kinds,
       KernelType, MemType, Thread, StateInv, HeldInv, BackInv, Restoring,
       InHandler, Saves
  <2>3. CASE u # t
    <3>1. Same(u)
      BY <1>1, <1>2, <1>3, <1>4, <1>5, <1>6, <1>7, <1>8, <1>9, <2>3 DEF Kinds,
         KernelType, MemType, Same
    <3> QED
      BY <2>1, <3>1, Elsewhere
  <2> QED
    BY <2>2, <2>3
<1>12. PhaseInv'
  <2>1. At("r_held")' = At("r_held")
    BY <1>4 DEF At, Kinds, KernelType
  <2>2. \A u \in Threads : pc'[u] = (IF u = t THEN "r_sig" ELSE pc[u])
    BY <1>4 DEF Kinds, KernelType
  <2> QED
    BY <1>2, <1>3, <1>9, <2>1, <2>2 DEF PhaseInv
<1>13. ImageInv'
  BY <1>1 DEF ImageInv
<1>14. OwnInv'
  BY <1>1, <1>2, <1>3, <1>4, <1>5, <1>6, <1>7, <1>8, <1>9 DEF OwnInv
<1> QED
  BY <1>10, <1>11, <1>12, <1>13, <1>14

\* It gets its mask, which blocks the checkpoint signal, and its alternate stack.
LEMMA RestoreSigKeeps ==
  ASSUME IInv, NEW t \in Threads, RestoreSig(t)
  PROVE  IInv'
<1> USE DEF IInv
<1>1. image' = image /\ Back' = Back
  BY DEF RestoreSig, Back
<1>2. UNCHANGED <<regs, cmask, pend, sigpend, disp, slots, creg, strays>>
  BY DEF RestoreSig
<1>3. UNCHANGED <<info, frame, xnd, arrived, expected, sa_table, ctls, cslots, cpc>>
  BY DEF RestoreSig
<1>4. pc[t] = "r_sig" /\ pc' = [pc EXCEPT ![t] = "r_barrier"]
  BY DEF RestoreSig
<1>5. /\ mask' \in [Threads -> SUBSET Sigs] /\ mask'[t] = info[t].sigblocked
      /\ \A u \in Threads : u # t => mask'[u] = mask[u]
  BY DEF RestoreSig, Infos, Kinds, KernelType, MemType
<1>6. alt[t] = Fresh
  BY <1>4 DEF Thread, BackInv, Restoring
<1>7. /\ alt' \in [Threads -> Contents] /\ alt'[t] = info[t].ss
      /\ \A u \in Threads : u # t => alt'[u] = alt[u]
  BY <1>6 DEF RestoreSig, Infos, Kinds, KernelType, MemType
<1>8. cpc = "restored"
  BY <1>4 DEF PhaseInv
<1>9. Kinds'
  BY <1>1, <1>2, <1>3, <1>4, <1>5, <1>6, <1>7, <1>8 DEF Kinds, KernelType, MemType,
     Places, Restoring
<1>10. ASSUME NEW u \in Threads PROVE Thread(u)'
  <2>1. Thread(u)
    OBVIOUS
  <2>2. CASE u = t
    BY <1>1, <1>2, <1>3, <1>4, <1>5, <1>6, <1>7, <1>8, <2>1, <2>2 DEF Kinds,
       KernelType, MemType, Thread, StateInv, HeldInv, BackInv, Restoring,
       InHandler, Saves
  <2>3. CASE u # t
    <3>1. Same(u)
      BY <1>1, <1>2, <1>3, <1>4, <1>5, <1>6, <1>7, <1>8, <2>3 DEF Kinds,
         KernelType, MemType, Same
    <3> QED
      BY <2>1, <3>1, Elsewhere
  <2> QED
    BY <2>2, <2>3
<1>11. PhaseInv'
  <2>1. At("r_held")' = At("r_held")
    BY <1>4 DEF At, Kinds, KernelType
  <2>2. \A u \in Threads : pc'[u] = (IF u = t THEN "r_barrier" ELSE pc[u])
    BY <1>4 DEF Kinds, KernelType
  <2> QED
    BY <1>2, <1>3, <1>8, <2>1, <2>2 DEF PhaseInv
<1>12. ImageInv'
  BY <1>1 DEF ImageInv
<1>13. OwnInv'
  BY <1>1, <1>2, <1>3, <1>4, <1>5, <1>6, <1>7, <1>8 DEF OwnInv
<1> QED
  BY <1>9, <1>10, <1>11, <1>12, <1>13

\* It returns to the code that the checkpoint signal had interrupted.
LEMMA RestoreContextKeeps ==
  ASSUME IInv, NEW t \in Threads, thread_restore_context(t)
  PROVE  IInv'
<1> USE DEF IInv
<1>1. image' = image /\ Back' = Back
  BY DEF thread_restore_context, Sigreturn, Back
<1>2. UNCHANGED <<cmask, alt, pend, sigpend, disp, slots, creg, strays>>
  BY DEF thread_restore_context, Sigreturn
<1>3. UNCHANGED <<info, frame, xnd, arrived, expected, sa_table, ctls, cslots, cpc>>
  BY DEF thread_restore_context, Sigreturn
<1>4. pc[t] = "r_context" /\ pc' = [pc EXCEPT ![t] = "user"]
  <2>1. pc[t] = "r_context"
    BY DEF thread_restore_context
  <2>2. Saves(info[t], Back.was.threads[t])
    BY <2>1 DEF Thread, BackInv, Restoring
  <2>3. info[t].uctx.pc = "user"
    BY <2>2 DEF Saves
  <2> QED
    BY <2>1, <2>3 DEF thread_restore_context, Sigreturn
<1>5. /\ regs' \in [Threads -> Contents]
      /\ \A u \in Threads : u # t => regs'[u] = regs[u]
  BY DEF thread_restore_context, Sigreturn, Infos, Frames, Kinds, KernelType,
     MemType
<1>6. /\ mask' \in [Threads -> SUBSET Sigs]
      /\ \A u \in Threads : u # t => mask'[u] = mask[u]
  BY DEF thread_restore_context, Sigreturn, Infos, Frames, Kinds, KernelType,
     MemType
<1>7. cpc = "wait" \/ cpc = "suspend"
  BY <1>4 DEF PhaseInv
<1>8. Kinds'
  BY <1>1, <1>2, <1>3, <1>4, <1>5, <1>6, <1>7 DEF Kinds, KernelType, MemType,
     Places, Restoring
<1>9. ASSUME NEW u \in Threads PROVE Thread(u)'
  <2>1. Thread(u)
    OBVIOUS
  <2>2. CASE u = t
    BY <1>1, <1>2, <1>3, <1>4, <1>5, <1>6, <1>7, <2>1, <2>2 DEF Kinds, KernelType,
       MemType, Thread, StateInv, HeldInv, BackInv, Restoring, InHandler
  <2>3. CASE u # t
    <3>1. Same(u)
      BY <1>1, <1>2, <1>3, <1>4, <1>5, <1>6, <1>7, <2>3 DEF Kinds, KernelType,
         MemType, Same
    <3> QED
      BY <2>1, <3>1, Elsewhere
  <2> QED
    BY <2>2, <2>3
<1>10. PhaseInv'
  BY <1>1, <1>2, <1>3, <1>4, <1>5, <1>6, <1>7 DEF PhaseInv, At, Kinds, KernelType
<1>11. ImageInv'
  BY <1>1 DEF ImageInv
<1>12. OwnInv'
  BY <1>1, <1>2, <1>3, <1>4, <1>5, <1>6, <1>7 DEF OwnInv
<1> QED
  BY <1>8, <1>9, <1>10, <1>11, <1>12

\* The checkpoint thread changes its thread-local data.
LEMMA TouchTlsKeeps ==
  ASSUME IInv, TouchTls
  PROVE  IInv'
<1> USE DEF IInv
<1>1. image' = image /\ Back' = Back
  BY DEF TouchTls, Back
<1>2. UNCHANGED <<pc, regs, mask, alt, slots, disp, pend, cmask, creg, sigpend, strays>>
  BY DEF TouchTls
<1>3. UNCHANGED <<info, frame, xnd, arrived, expected, sa_table, ctls, cpc>>
  BY DEF TouchTls
<1>4. cslots' \in [Addresses -> Contents]
  BY DEF TouchTls, Addresses, Contents, Kinds, KernelType, MemType
<1>5. cpc = "wait" \/ (LateTouch /\ cpc \in {"suspend", "arrive"})
  <2>1. CASE LateTouch
    BY <2>1 DEF TouchTls
  <2>2. CASE ~LateTouch
    BY <2>2 DEF TouchTls
  <2> QED
    BY <2>1, <2>2
<1>6. Kinds'
  BY <1>1, <1>2, <1>3, <1>4, <1>5 DEF Kinds, KernelType, MemType
<1>7. ASSUME NEW u \in Threads PROVE Thread(u)'
  <2>1. Thread(u)
    OBVIOUS
  <2>2. Same(u)
    BY <1>1, <1>2, <1>3, <1>4, <1>5 DEF Same
  <2> QED
    BY <2>1, <2>2, Elsewhere
<1>8. PhaseInv'
  BY <1>1, <1>2, <1>3, <1>4, <1>5 DEF PhaseInv, At
<1>9. ImageInv'
  BY <1>1 DEF ImageInv
<1>10. OwnInv'
  BY <1>1, <1>2, <1>3, <1>4, <1>5 DEF OwnInv
<1> QED
  BY <1>6, <1>7, <1>8, <1>9, <1>10

\* A request: the data of the checkpoint thread go to the address it had first.
LEMMA RequestKeeps ==
  ASSUME IInv, Request
  PROVE  IInv'
<1> USE DEF IInv
<1>1. image' = image /\ Back' = Back
  BY DEF Request, thread_save_tls, Back
<1>2. UNCHANGED <<pc, regs, mask, alt, slots, disp, pend, cmask, creg, sigpend, strays>>
  BY DEF Request, thread_save_tls
<1>3. UNCHANGED <<info, frame, expected, sa_table>>
  BY DEF Request, thread_save_tls
<1>4. /\ cpc = "wait" /\ cpc' = "suspend" /\ xnd' = "XND_SUSPINPROG" /\ arrived' = 0
      /\ \A t \in Threads : pc[t] \notin {"held", "out"}
  BY DEF Request, thread_save_tls
<1>5. /\ ctls' = "first" /\ cslots' \in [Addresses -> Contents]
      /\ cslots'["first"] = cslots'[creg]
  BY DEF Request, thread_save_tls, OwnInv, Addresses, Kinds, KernelType, MemType
<1>6. Kinds'
  BY <1>1, <1>2, <1>3, <1>4, <1>5 DEF Kinds, KernelType, MemType
<1>7. ASSUME NEW u \in Threads PROVE Thread(u)'
  <2>1. Thread(u)
    OBVIOUS
  <2>2. Same(u)
    BY <1>1, <1>2, <1>3, <1>4, <1>5 DEF Same
  <2> QED
    BY <2>1, <2>2, Elsewhere
<1>8. PhaseInv'
  BY <1>1, <1>2, <1>3, <1>4, <1>5 DEF PhaseInv, At
<1>9. ImageInv'
  BY <1>1 DEF ImageInv
<1>10. OwnInv'
  BY <1>1, <1>2, <1>3, <1>4, <1>5 DEF OwnInv
<1> QED
  BY <1>6, <1>7, <1>8, <1>9, <1>10

\* suspend_threads signals a thread.
LEMMA SuspendSignalKeeps ==
  ASSUME IInv, NEW t \in Threads, SuspendSignal(t)
  PROVE  IInv'
<1> USE DEF IInv
<1>1. image' = image /\ Back' = Back
  BY DEF SuspendSignal, Back
<1>2. UNCHANGED <<pc, regs, mask, alt, slots, disp, cmask, creg, sigpend, strays>>
  BY DEF SuspendSignal
<1>3. UNCHANGED <<frame, xnd, arrived, expected, sa_table, ctls, cslots, cpc>>
  BY DEF SuspendSignal
<1>4. cpc = "suspend" /\ info[t].state = "ST_RUNNING" /\ pend' = pend \cup {t}
  BY DEF SuspendSignal
<1>5. info' = [info EXCEPT ![t] = [info[t] EXCEPT !.state = "ST_SIGNALED"]]
  BY DEF SuspendSignal
<1>6. /\ info' \in [Threads -> Infos]
      /\ \A u \in Threads : u # t => info'[u] = info[u]
  BY <1>5 DEF Infos, States, Kinds, MemType
<1>7. /\ info'[t].state = "ST_SIGNALED" /\ info'[t].uctx = info[t].uctx
      /\ info'[t].sigblocked = info[t].sigblocked /\ info'[t].ss = info[t].ss
      /\ info'[t].tls = info[t].tls
  BY <1>5 DEF Infos, States, Kinds, MemType
<1>8. pc[t] \in {"user", "r_held", "r_context"}
  BY <1>4 DEF PhaseInv, Thread, StateInv
<1>9. Kinds'
  BY <1>1, <1>2, <1>3, <1>4, <1>5, <1>6, <1>7, <1>8 DEF Kinds, KernelType, MemType
<1>10. ASSUME NEW u \in Threads PROVE Thread(u)'
  <2>1. Thread(u)
    OBVIOUS
  <2>2. CASE u = t
    BY <1>1, <1>2, <1>3, <1>4, <1>5, <1>6, <1>7, <1>8, <2>1, <2>2 DEF Kinds,
       KernelType, MemType, Thread, StateInv, HeldInv, BackInv, Restoring,
       InHandler, Saves
  <2>3. CASE u # t
    <3>1. Same(u)
      BY <1>1, <1>2, <1>3, <1>4, <1>5, <1>6, <1>7, <1>8, <2>3 DEF Kinds,
         KernelType, MemType, Same
    <3> QED
      BY <2>1, <3>1, Elsewhere
  <2> QED
    BY <2>2, <2>3
<1>11. PhaseInv'
  BY <1>1, <1>2, <1>3, <1>4, <1>5, <1>6, <1>7, <1>8 DEF PhaseInv, At
<1>12. ImageInv'
  BY <1>1 DEF ImageInv
<1>13. OwnInv'
  BY <1>1, <1>2, <1>3, <1>4, <1>5, <1>6, <1>7, <1>8 DEF OwnInv
<1> QED
  BY <1>9, <1>10, <1>11, <1>12, <1>13

\* Every thread is on its way into the barrier.
LEMMA SuspendDoneKeeps ==
  ASSUME IInv, SuspendDone
  PROVE  IInv'
<1> USE DEF IInv
<1>1. image' = image /\ Back' = Back
  BY DEF SuspendDone, Back
<1>2. UNCHANGED <<pc, regs, mask, alt, slots, disp, pend, cmask, creg, sigpend, strays>>
  BY DEF SuspendDone
<1>3. UNCHANGED <<info, frame, arrived, sa_table, ctls, cslots>>
  BY DEF SuspendDone
<1>4. /\ cpc = "suspend" /\ cpc' = "arrive" /\ xnd' = "XND_CKPTINPROG"
      /\ expected' = Cardinality(Threads)
  BY DEF SuspendDone
<1>5. pend = {} /\ \A t \in Threads : pc[t] \in {"save", "barrier"}
  BY <1>4 DEF SuspendDone, PhaseInv, Thread, StateInv, Kinds, KernelType
<1>6. At("held") = {}
  BY <1>5 DEF At
<1>7. Kinds'
  BY <1>1, <1>2, <1>3, <1>4, <1>5, <1>6, Numbers DEF Kinds, KernelType, MemType
<1>8. ASSUME NEW u \in Threads PROVE Thread(u)'
  <2>1. Thread(u)
    OBVIOUS
  <2>2. Same(u)
    BY <1>1, <1>2, <1>3, <1>4, <1>5, <1>6 DEF Same
  <2> QED
    BY <2>1, <2>2, Elsewhere
<1>9. PhaseInv'
  <2>1. At("held")' = {}
    BY <1>1, <1>2, <1>3, <1>4, <1>5, <1>6 DEF At
  <2>2. Cardinality({}) = 0
    BY FS_EmptySet
  <2> QED
    BY <1>1, <1>2, <1>3, <1>4, <1>5, <1>6, <2>1, <2>2 DEF PhaseInv
<1>10. ImageInv'
  BY <1>1 DEF ImageInv
<1>11. OwnInv'
  BY <1>1, <1>2, <1>3, <1>4, <1>5, <1>6 DEF OwnInv
<1> QED
  BY <1>7, <1>8, <1>9, <1>10, <1>11

\* The image is written.
LEMMA WriteKeeps ==
  ASSUME IInv, Write
  PROVE  IInv'
<1> USE DEF IInv
<1>1. image' = {Image}
  BY DEF Write
<1>2. UNCHANGED <<pc, regs, mask, alt, slots, disp, pend, cmask, creg, sigpend, strays>>
  BY DEF Write
<1>3. UNCHANGED <<info, frame, xnd, arrived, expected, ctls, cslots>>
  BY DEF Write
<1>4. /\ cpc = "arrive" /\ cpc' = "release" /\ arrived >= expected
      /\ sa_table' = disp
  BY DEF Write, sig_state_save, OwnInv, Kinds, KernelType, Actions, Sigs
<1>5. \A t \in Threads : pc[t] = "held"
  <2>1. Cardinality(At("held")) >= Cardinality(Threads)
    BY <1>4 DEF PhaseInv
  <2>2. At("held") = Threads
    BY <2>1, AllOfThem DEF At
  <2> QED
    BY <2>2 DEF At
<1>6. Back' = Image
  BY <1>1 DEF Back
<1>7. Kinds'
  BY <1>1, <1>2, <1>3, <1>4, <1>5, <1>6 DEF Kinds, KernelType, MemType
<1>8. ASSUME NEW u \in Threads PROVE Thread(u)'
  <2>1. Thread(u) /\ pc[u] = "held"
    BY <1>5
  <2>2. StateInv(u)'
    BY <1>2, <1>3, <2>1 DEF Thread, StateInv
  <2>3. HeldInv(u)'
    BY <1>2, <1>3, <2>1 DEF Thread, HeldInv
  <2>4. BackInv(u)'
    BY <1>2, <1>3, <2>1 DEF BackInv, Restoring
  <2> QED
    BY <2>2, <2>3, <2>4 DEF Thread
<1>9. PhaseInv'
  BY <1>1, <1>2, <1>3, <1>4, <1>5, <1>6, Numbers DEF PhaseInv, At, Kinds, MemType
<1>10. ImageInv'
  <2>1. sig_state_save = disp
    BY <1>4 DEF sig_state_save, OwnInv, Kinds, KernelType, Actions, Sigs
  <2>2. /\ Image.mem = [info |-> info, frame |-> frame, sa_table |-> disp, ctls |-> ctls,
                        cslots |-> cslots, expected |-> expected, arrived |-> arrived]
        /\ Image.was.disp = disp /\ Image.was.cslot = cslots[creg]
    BY <2>1 DEF Image
  <2>3. ASSUME NEW t \in Threads
        PROVE  /\ info[t].state = "ST_SUSPENDED"
               /\ Saves(info[t], Image.was.threads[t])
    <3>1. /\ Image.was.threads[t].regs = regs[t] /\ Image.was.threads[t].mask = frame[t].mask
          /\ Image.was.threads[t].alt = alt[t] /\ Image.was.threads[t].slot = slots[t].slot
      BY DEF Image
    <3>2. Thread(t) /\ pc[t] = "held"
      BY <1>5
    <3>3. /\ info[t].state = "ST_SUSPENDED"
          /\ info[t].uctx = frame[t] /\ frame[t].pc = "user" /\ frame[t].regs = regs[t]
          /\ info[t].ss = alt[t] /\ info[t].tls = slots[t] /\ slots[t].is_restart = TRUE
          /\ Ckpt \in info[t].sigblocked
      BY <3>2 DEF Thread, StateInv, HeldInv, InHandler
    <3>4. frame[t] \in Frames /\ slots[t] \in Slots
      BY DEF Kinds, KernelType, MemType
    <3>5. frame[t] = [pc |-> "user", regs |-> regs[t], mask |-> frame[t].mask]
      BY <3>3, <3>4 DEF Frames
    <3>6. slots[t] = [slot |-> slots[t].slot, is_restart |-> TRUE]
      BY <3>3, <3>4 DEF Slots
    <3> QED
      BY <3>1, <3>3, <3>5, <3>6 DEF Saves
  <2>4. /\ arrived <= Cardinality(Threads) /\ arrived \in Nat /\ expected \in 0 .. Cardinality(Threads)
    <3>1. arrived = Cardinality(At("held")) /\ At("held") \subseteq Threads
      BY <1>4 DEF PhaseInv, At
    <3>2. Cardinality(At("held")) <= Cardinality(Threads)
      BY <3>1, ConstantsAssumption, FS_Subset
    <3> QED
      BY <3>1, <3>2 DEF Kinds, MemType
  <2>5. /\ ctls = "first" /\ disp[Ckpt].sa_handler = "thread_sighandler"
        /\ ~LateTouch => cslots["first"] = cslots[creg]
    BY <1>4 DEF OwnInv
  <2>6. GoodImage(Image)
    <3>1. \A t \in Threads : /\ Image.mem.info[t].state = "ST_SUSPENDED"
                             /\ Saves(Image.mem.info[t], Image.was.threads[t])
      BY <2>2, <2>3
    <3>2. /\ Image.mem.info \in [Threads -> Infos] /\ Image.mem.frame \in [Threads -> Frames]
          /\ Image.mem.sa_table \in [Sigs -> Actions]
          /\ Image.mem.cslots \in [Addresses -> Contents]
      BY <2>2 DEF Kinds, KernelType, MemType
    <3>3. /\ Image.mem.ctls = "first" /\ Image.mem.expected = expected
          /\ Image.mem.arrived = arrived /\ Image.mem.sa_table = disp
          /\ Image.mem.cslots = cslots
      BY <2>2, <2>5
    <3>4. Image.was.threads \in [Threads -> Snapshots]
      <4>1. Image.was.threads =
              [t \in Threads |-> [regs |-> regs[t], mask |-> frame[t].mask, alt |-> alt[t],
                                  slot |-> slots[t].slot]]
        BY DEF Image
      <4>2. ASSUME NEW t \in Threads
            PROVE  [regs |-> regs[t], mask |-> frame[t].mask, alt |-> alt[t],
                    slot |-> slots[t].slot] \in Snapshots
        BY DEF Kinds, KernelType, MemType, Frames, Slots, Snapshots
      <4> QED
        BY <4>1, <4>2
    <3> QED
      BY <2>2, <2>4, <2>5, <3>1, <3>2, <3>3, <3>4 DEF GoodImage
  <2>7. GoodImage(Back')
    BY <1>6, <2>6
  <2>8. GoodImage(Back)'
    BY <2>7 DEF GoodImage, Saves
  <2> QED
    BY <1>1, <1>6, <2>8 DEF ImageInv
<1>11. OwnInv'
  BY <1>1, <1>2, <1>3, <1>4, <1>5, <1>6 DEF OwnInv
<1> QED
  BY <1>7, <1>8, <1>9, <1>10, <1>11

\* The barrier is released.
LEMMA ReleaseKeeps ==
  ASSUME IInv, barrier_release
  PROVE  IInv'
<1> USE DEF IInv
<1>1. image' = image /\ Back' = Back
  BY DEF barrier_release, Back
<1>2. UNCHANGED <<pc, regs, mask, alt, slots, disp, pend, cmask, creg, sigpend, strays>>
  BY DEF barrier_release
<1>3. UNCHANGED <<info, frame, arrived, expected, sa_table, ctls, cslots>>
  BY DEF barrier_release
<1>4. cpc = "release" /\ cpc' = "wait" /\ xnd' = "XND_RUNNING"
  BY DEF barrier_release
<1>5. Kinds'
  BY <1>1, <1>2, <1>3, <1>4 DEF Kinds, KernelType, MemType
<1>6. ASSUME NEW u \in Threads PROVE Thread(u)'
  <2>1. Thread(u)
    OBVIOUS
  <2>2. Same(u)
    BY <1>1, <1>2, <1>3, <1>4 DEF Same
  <2> QED
    BY <2>1, <2>2, Elsewhere
<1>7. PhaseInv'
  BY <1>1, <1>2, <1>3, <1>4 DEF PhaseInv, At
<1>8. ImageInv'
  BY <1>1 DEF ImageInv
<1>9. OwnInv'
  BY <1>1, <1>2, <1>3, <1>4 DEF OwnInv
<1> QED
  BY <1>5, <1>6, <1>7, <1>8, <1>9

\* The memory of the image comes back; what the kernel kept does not.
LEMMA RestartKeeps ==
  ASSUME IInv, Restart
  PROVE  IInv'
<1> USE DEF IInv
<1>1. image' = image /\ Back' = Back
  BY DEF Restart, Back
<1>2. image # {} /\ image = {Back} /\ GoodImage(Back)
  BY DEF Restart, ImageInv
<1>3. /\ info' = Back.mem.info /\ frame' = Back.mem.frame /\ sa_table' = Back.mem.sa_table
      /\ ctls' = Back.mem.ctls /\ cslots' = [Back.mem.cslots EXCEPT !["restart"] = Fresh]
      /\ expected' = Back.mem.expected /\ arrived' = Back.mem.arrived
  BY DEF Restart, Back
<1>4. /\ xnd' = "XND_CKPTINPROG" /\ pc' = [t \in Threads |-> "none"]
      /\ regs' = [t \in Threads |-> Fresh] /\ alt' = [t \in Threads |-> Fresh]
      /\ mask' = [t \in Threads |-> {}] /\ cmask' = {}
      /\ slots' = [t \in Threads |-> [slot |-> Fresh, is_restart |-> FALSE]]
      /\ pend' = {} /\ sigpend' = {} /\ disp' = Default
      /\ creg' = "restart" /\ cpc' = "early" /\ strays' = strays
  BY DEF Restart
<1>5. /\ Back.mem.info \in [Threads -> Infos] /\ Back.mem.frame \in [Threads -> Frames]
      /\ Back.mem.sa_table \in [Sigs -> Actions] /\ Back.mem.cslots \in [Addresses -> Contents]
      /\ Back.mem.ctls = "first"
      /\ Back.mem.expected \in 0 .. Cardinality(Threads)
      /\ Back.mem.arrived \in Nat /\ Back.mem.arrived <= Cardinality(Threads)
      /\ Back.mem.sa_table = Back.was.disp
      /\ Back.mem.sa_table[Ckpt].sa_handler = "thread_sighandler"
      /\ ~LateTouch => Back.was.cslot = Back.mem.cslots["first"]
  BY <1>2 DEF GoodImage
<1>6. \A t \in Threads : Back.mem.info[t].state = "ST_SUSPENDED"
                         /\ Saves(Back.mem.info[t], Back.was.threads[t])
  BY <1>2 DEF GoodImage
<1>7. Kinds'
  <2>1. KernelType'
    BY <1>4, Sorts DEF Kinds, KernelType, Places, Slots, Addresses
  <2>2. MemType'
    BY <1>3, <1>4, <1>5, Sorts DEF MemType, Addresses
  <2> QED
    BY <2>1, <2>2 DEF Kinds
<1>8. ASSUME NEW u \in Threads PROVE Thread(u)'
  <2>1. pc'[u] = "none" /\ alt'[u] = Fresh /\ u \notin pend'
    BY <1>4
  <2>2. /\ info'[u].state = "ST_SUSPENDED"
        /\ Saves(info'[u], Back'.was.threads[u])
    BY <1>1, <1>3, <1>6
  <2>3. StateInv(u)'
    BY <2>1, <2>2 DEF StateInv
  <2>4. HeldInv(u)'
    BY <2>1 DEF HeldInv, InHandler
  <2>5. BackInv(u)'
    BY <1>1, <1>2, <2>1, <2>2 DEF BackInv, Restoring, Saves
  <2> QED
    BY <2>3, <2>4, <2>5 DEF Thread
<1>9. PhaseInv'
  BY <1>3, <1>4, <1>5 DEF PhaseInv
<1>10. ImageInv'
  BY <1>1 DEF ImageInv
<1>11. OwnInv'
  BY <1>1, <1>2, <1>3, <1>4, <1>5 DEF OwnInv, Addresses
<1> QED
  BY <1>7, <1>8, <1>9, <1>10, <1>11

\* The dispositions come back.
LEMMA SigStateRestoreKeeps ==
  ASSUME IInv, sig_state_restore
  PROVE  IInv'
<1> USE DEF IInv
<1>1. image' = image /\ Back' = Back
  BY DEF sig_state_restore, Back
<1>2. UNCHANGED <<pc, regs, mask, alt, slots, pend, cmask, creg, sigpend, strays>>
  BY DEF sig_state_restore
<1>3. UNCHANGED <<info, frame, xnd, arrived, expected, sa_table, ctls, cslots>>
  BY DEF sig_state_restore
<1>4. cpc = "early" /\ cpc' = "tls"
  BY DEF sig_state_restore
<1>5. disp' = sa_table
  BY <1>4 DEF sig_state_restore, OwnInv, Kinds, MemType, Actions, Sigs
<1>6. Kinds'
  BY <1>1, <1>2, <1>3, <1>4, <1>5 DEF Kinds, KernelType, MemType
<1>7. ASSUME NEW u \in Threads PROVE Thread(u)'
  <2>1. Thread(u)
    OBVIOUS
  <2>2. Same(u)
    BY <1>1, <1>2, <1>3, <1>4, <1>5 DEF Same
  <2> QED
    BY <2>1, <2>2, Elsewhere
<1>8. PhaseInv'
  BY <1>1, <1>2, <1>3, <1>4, <1>5 DEF PhaseInv, At
<1>9. ImageInv'
  BY <1>1 DEF ImageInv
<1>10. OwnInv'
  BY <1>1, <1>2, <1>3, <1>4, <1>5 DEF OwnInv
<1> QED
  BY <1>6, <1>7, <1>8, <1>9, <1>10

\* The checkpoint thread gets its thread-local data.
LEMMA RestoreOwnTlsKeeps ==
  ASSUME IInv, thread_restore_tls
  PROVE  IInv'
<1> USE DEF IInv
<1>1. image' = image /\ Back' = Back
  BY DEF thread_restore_tls, Back
<1>2. UNCHANGED <<pc, regs, mask, alt, slots, disp, pend, cmask, creg, sigpend, strays>>
  BY DEF thread_restore_tls
<1>3. UNCHANGED <<info, frame, xnd, arrived, expected, sa_table, ctls>>
  BY DEF thread_restore_tls
<1>4. cpc = "tls" /\ cpc' = "create"
  BY DEF thread_restore_tls
<1>5. /\ cslots' \in [Addresses -> Contents] /\ cslots'[creg] = cslots["first"]
  BY <1>4 DEF thread_restore_tls, OwnInv, Addresses, Kinds, KernelType, MemType
<1>6. Kinds'
  BY <1>1, <1>2, <1>3, <1>4, <1>5 DEF Kinds, KernelType, MemType
<1>7. ASSUME NEW u \in Threads PROVE Thread(u)'
  <2>1. Thread(u)
    OBVIOUS
  <2>2. Same(u)
    BY <1>1, <1>2, <1>3, <1>4, <1>5 DEF Same
  <2> QED
    BY <2>1, <2>2, Elsewhere
<1>8. PhaseInv'
  BY <1>1, <1>2, <1>3, <1>4, <1>5 DEF PhaseInv, At
<1>9. ImageInv'
  BY <1>1 DEF ImageInv
<1>10. OwnInv'
  BY <1>1, <1>2, <1>3, <1>4, <1>5 DEF OwnInv
<1> QED
  BY <1>6, <1>7, <1>8, <1>9, <1>10

\* The threads are created again.
LEMMA RestoreThreadsKeeps ==
  ASSUME IInv, restore_threads
  PROVE  IInv'
<1> USE DEF IInv
<1>1. image' = image /\ Back' = Back
  BY DEF restore_threads, Back
<1>2. UNCHANGED <<regs, alt, slots, disp, pend, cmask, creg, sigpend, strays>>
  BY DEF restore_threads
<1>3. UNCHANGED <<info, frame, xnd, sa_table, ctls, cslots>>
  BY DEF restore_threads
<1>4. /\ cpc = "create" /\ cpc' = "restored" /\ arrived' = 0 /\ expected' = Cardinality(Threads)
      /\ pc' = [t \in Threads |-> "r_tls"] /\ mask' = [t \in Threads |-> cmask]
  BY DEF restore_threads
<1>5. Kinds'
  BY <1>1, <1>2, <1>3, <1>4, Numbers DEF Kinds, KernelType, MemType, Places,
     Restoring
<1>6. ASSUME NEW u \in Threads PROVE Thread(u)'
  <2>1. Thread(u) /\ pc[u] = "none" /\ pc'[u] = "r_tls"
    BY <1>4 DEF PhaseInv
  <2>2. StateInv(u)'
    BY <1>2, <1>3, <2>1 DEF Thread, StateInv
  <2>3. HeldInv(u)'
    BY <2>1 DEF HeldInv, InHandler
  <2>4. BackInv(u)'
    BY <1>1, <1>2, <1>3, <2>1 DEF Thread, BackInv, Restoring, Saves
  <2> QED
    BY <2>2, <2>3, <2>4 DEF Thread
<1>7. PhaseInv'
  <2>1. At("r_held")' = {}
    BY <1>4 DEF At
  <2>2. Cardinality({}) = 0
    BY FS_EmptySet
  <2> QED
    BY <1>1, <1>2, <1>3, <1>4, <2>1, <2>2 DEF PhaseInv
<1>8. ImageInv'
  BY <1>1 DEF ImageInv
<1>9. OwnInv'
  BY <1>1, <1>2, <1>3, <1>4 DEF OwnInv
<1> QED
  BY <1>5, <1>6, <1>7, <1>8, <1>9

\* All of them are in the barrier.
LEMMA RestoredKeeps ==
  ASSUME IInv, Restored
  PROVE  IInv'
<1> USE DEF IInv
<1>1. image' = image /\ Back' = Back
  BY DEF Restored, Back
<1>2. UNCHANGED <<pc, regs, mask, alt, slots, disp, pend, creg, sigpend, strays>>
  BY DEF Restored
<1>3. UNCHANGED <<info, frame, xnd, arrived, expected, sa_table, ctls, cslots>>
  BY DEF Restored
<1>4. cpc = "restored" /\ cpc' = "release" /\ cmask' = {Ckpt} /\ arrived >= expected
  BY DEF Restored
<1>5. \A t \in Threads : pc[t] = "r_held"
  <2>1. Cardinality(At("r_held")) >= Cardinality(Threads)
    BY <1>4 DEF PhaseInv
  <2>2. At("r_held") = Threads
    BY <2>1, AllOfThem DEF At
  <2> QED
    BY <2>2 DEF At
<1>6. arrived <= Cardinality(Threads)
  <2>1. arrived = Cardinality(At("r_held")) /\ At("r_held") \subseteq Threads
    BY <1>4 DEF PhaseInv, At
  <2> QED
    BY <2>1, ConstantsAssumption, FS_Subset
<1>7. Kinds'
  BY <1>1, <1>2, <1>3, <1>4, <1>5, <1>6, Sorts DEF Kinds, KernelType, MemType
<1>8. ASSUME NEW u \in Threads PROVE Thread(u)'
  <2>1. Thread(u)
    OBVIOUS
  <2>2. Same(u)
    BY <1>1, <1>2, <1>3, <1>4, <1>5, <1>6 DEF Same
  <2> QED
    BY <2>1, <2>2, Elsewhere
<1>9. PhaseInv'
  BY <1>1, <1>2, <1>3, <1>4, <1>5, <1>6 DEF PhaseInv, At
<1>10. ImageInv'
  BY <1>1 DEF ImageInv
<1>11. OwnInv'
  BY <1>1, <1>2, <1>3, <1>4, <1>5, <1>6 DEF OwnInv
<1> QED
  BY <1>7, <1>8, <1>9, <1>10, <1>11

\* In the first process no thread is in the handler and there is no image.
LEMMA InitHolds == Init => IInv
<1> SUFFICES ASSUME Init PROVE IInv
  OBVIOUS
<1> USE Sorts, Numbers
<1>1. Kinds
  <2>1. disp \in [Sigs -> Actions]
    <3>1. PICK m \in SUBSET UserSigs :
            disp = [Default EXCEPT ![Ckpt] = Action("thread_sighandler", m)]
      BY DEF Init, Handlers
    <3> QED
      BY <3>1 DEF Action, Actions
  <2>2. KernelType
    BY <2>1 DEF Init, KernelType, Places, Slots, Addresses, Sigs
  <2>3. MemType
    BY DEF Init, MemType, Addresses
  <2> QED
    BY <2>2, <2>3 DEF Kinds
<1>2. ASSUME NEW t \in Threads PROVE Thread(t)
  <2>1. pc[t] = "user" /\ t \notin pend /\ info[t].state = "ST_RUNNING"
    BY DEF Init, NewInfo
  <2> QED
    BY <2>1 DEF Thread, StateInv, HeldInv, BackInv, InHandler, Restoring
<1>3. PhaseInv
  BY DEF Init, PhaseInv
<1>4. ImageInv
  BY DEF Init, ImageInv
<1>5. OwnInv
  <2>1. PICK m \in SUBSET UserSigs :
          disp = [Default EXCEPT ![Ckpt] = Action("thread_sighandler", m)]
    BY DEF Init, Handlers
  <2>2. disp[Ckpt].sa_handler = "thread_sighandler"
    BY <2>1 DEF Action, Default
  <2> QED
    BY <2>2 DEF Init, OwnInv
<1> QED
  BY <1>1, <1>2, <1>3, <1>4, <1>5 DEF IInv

LEMMA StutterKeeps ==
  ASSUME IInv, UNCHANGED vars
  PROVE  IInv'
<1> USE DEF IInv
<1>1. image' = image /\ Back' = Back
  BY DEF vars, Back
<1>2. UNCHANGED <<kernelVars, memVars, cpc, strays>>
  BY DEF vars
<1>3. Kinds'
  BY <1>2 DEF Kinds, KernelType, MemType
<1>4. ASSUME NEW u \in Threads PROVE Thread(u)'
  <2>1. Thread(u)
    OBVIOUS
  <2>2. Same(u)
    BY <1>1, <1>2 DEF Same
  <2> QED
    BY <2>1, <2>2, Elsewhere
<1>5. PhaseInv'
  BY <1>2 DEF PhaseInv, At
<1>6. ImageInv'
  BY <1>1 DEF ImageInv
<1>7. OwnInv'
  BY <1>1, <1>2 DEF OwnInv
<1> QED
  BY <1>3, <1>4, <1>5, <1>6, <1>7

LEMMA NextKeeps ==
  ASSUME IInv, [Next]_vars
  PROVE  IInv'
<1>1. CASE \E t \in Threads : UserStep(t)
  BY <1>1, ComputeKeeps, SigactionHookKeeps, SigmaskHookKeeps, SigaltstackKeeps DEF UserStep
<1>2. CASE \E t \in Threads : ThreadStep(t)
  BY <1>2, SighandlerKeeps, HandlerSaveKeeps, BarrierEnterKeeps, BarrierLeaveKeeps,
     HandlerReturnKeeps, RestoreTlsKeeps, RestoreSigKeeps, RestoreContextKeeps DEF ThreadStep
<1>3. CASE Send \/ \E s \in UserSigs : Deliver(s)
  BY <1>3, SendKeeps, DeliverKeeps
<1>4. CASE CkptStep
  BY <1>4, SuspendSignalKeeps, SuspendDoneKeeps, WriteKeeps, ReleaseKeeps,
     SigStateRestoreKeeps, RestoreOwnTlsKeeps, RestoreThreadsKeeps, RestoredKeeps DEF CkptStep
<1>5. CASE TouchTls \/ Request \/ Restart
  BY <1>5, TouchTlsKeeps, RequestKeeps, RestartKeeps
<1>6. CASE UNCHANGED vars
  BY <1>6, StutterKeeps
<1> QED
  BY <1>1, <1>2, <1>3, <1>4, <1>5, <1>6 DEF Next

-----------------------------------------------------------------------------
(* Theorems *)

\* The inductive invariant holds in every state of every behaviour, through
\* checkpoints of restarts and restarts of those (thread_sighandler,
\* thread_restart, restore_threads).
THEOREM Inductive == Spec => []IInv
<1>1. Init => IInv
  BY InitHolds
<1>2. IInv /\ [Next]_vars => IInv'
  BY NextKeeps
<1> QED
  BY <1>1, <1>2, PTL DEF Spec

\* Every variable has its type, and the barrier never counts more threads than
\* there are: suspend_threads and restore_threads reset its counts while
\* nobody is in it.
THEOREM TypeCorrect == Spec => []TypeOK
<1>1. IInv => TypeOK
  <2> SUFFICES ASSUME IInv PROVE TypeOK
    OBVIOUS
  <2>1. arrived \in 0 .. Cardinality(Threads)
    <3>1. At("held") \subseteq Threads /\ At("r_held") \subseteq Threads
      BY DEF At
    <3>2. /\ Cardinality(At("held")) <= Cardinality(Threads)
          /\ Cardinality(At("r_held")) <= Cardinality(Threads)
      BY <3>1, ConstantsAssumption, FS_Subset
    <3>3. arrived \in Nat /\ Cardinality(Threads) \in Nat
      BY Numbers DEF IInv, Kinds, MemType
    <3>4. arrived <= Cardinality(Threads)
      BY <3>2, <3>3 DEF IInv, PhaseInv
    <3> QED
      BY <3>3, <3>4
  <2>2. Cardinality(image) <= 1
    <3>1. Cardinality({}) = 0 /\ Cardinality({Back}) = 1
      BY FS_EmptySet, FS_Singleton
    <3> QED
      BY <3>1 DEF IInv, ImageInv
  <2> QED
    BY <2>1, <2>2 DEF IInv, Kinds, KernelType, MemType, PhaseInv, TypeOK, Infos, States,
       Addresses
<1> QED
  BY <1>1, Inductive, PTL

\* A checkpoint signal that is sent to a restored thread waits until the thread
\* is back in user code: the mask that thread_restore_sig_state installs is
\* the one saved inside the handler.
THEOREM InterruptsUserCode == Spec => []SuspendedInUserCode
<1>1. IInv => SuspendedInUserCode
  <2> SUFFICES ASSUME IInv, NEW t \in Threads
               PROVE  /\ pc[t] \in InHandler => frame[t].pc = "user"
                      /\ t \in pend => pc[t] \in {"user"} \cup {"r_held", "r_context"}
    BY DEF SuspendedInUserCode
  <2>1. Thread(t) /\ pc[t] \in Places
    BY DEF IInv, Kinds, KernelType
  <2> QED
    BY <2>1 DEF Thread, StateInv, HeldInv, Places, InHandler, Restoring
<1> QED
  BY <1>1, Inductive, PTL

\* A thread comes back to user code with the registers, mask, alternate stack
\* and thread-local data that it had when the image was written
\* (thread_restore_tls, thread_restore_sig_state, thread_restore_context).
THEOREM ComesBackAsItWas == Spec => ContextsRestored
<1> DEFINE Step ==
      \A t \in Threads :
        pc[t] = "r_context" /\ pc'[t] = "user" =>
          Back.was.threads[t] = [regs |-> regs'[t], mask |-> mask'[t], alt |-> alt'[t],
                                 slot |-> slots'[t].slot]
<1>1. IInv /\ [Next]_vars => [Step]_vars
  <2> SUFFICES ASSUME IInv, Next, NEW t \in Threads, pc[t] = "r_context", pc'[t] = "user"
               PROVE  Back.was.threads[t] = [regs |-> regs'[t], mask |-> mask'[t],
                                             alt |-> alt'[t], slot |-> slots'[t].slot]
    OBVIOUS
  <2>1. thread_restore_context(t)
    <3> USE DEF IInv, Kinds, KernelType
    <3>1. ASSUME NEW u \in Threads, UserStep(u)
          PROVE  thread_restore_context(t)
      BY <3>1 DEF UserStep, Compute, SigactionHook, SigmaskHook, Sigaltstack
    <3>2. ASSUME NEW u \in Threads, ThreadStep(u)
          PROVE  thread_restore_context(t)
      BY <3>2 DEF ThreadStep, thread_sighandler, HandlerSave, BarrierEnter, BarrierLeave,
         HandlerReturn, RestoreTls, RestoreSig, thread_restore_context, Sigreturn
    <3>3. CASE Send \/ \E s \in UserSigs : Deliver(s)
      BY <3>3 DEF Send, Deliver
    <3>4. CASE CkptStep
      BY <3>4 DEF CkptStep, SuspendSignal, SuspendDone, Write, barrier_release,
         sig_state_restore, thread_restore_tls, restore_threads, Restored
    <3>5. CASE TouchTls \/ Request \/ Restart
      BY <3>5 DEF TouchTls, Request, Restart
    <3> QED
      BY <3>1, <3>2, <3>3, <3>4, <3>5 DEF Next
  <2>2. image # {} /\ Saves(info[t], Back.was.threads[t])
    BY DEF IInv, Thread, BackInv, Restoring
  <2>3. alt[t] = info[t].ss /\ slots[t] = info[t].tls
    BY DEF IInv, Thread, BackInv, Restoring
  <2>4. Back.was.threads[t] \in Snapshots
    BY <2>2 DEF IInv, ImageInv, GoodImage
  <2>5. /\ regs'[t] = info[t].uctx.regs /\ mask'[t] = info[t].uctx.mask
        /\ alt' = alt /\ slots' = slots
    BY <2>1 DEF thread_restore_context, Sigreturn, IInv, Kinds, KernelType
  <2>6. /\ regs'[t] = Back.was.threads[t].regs /\ mask'[t] = Back.was.threads[t].mask
        /\ alt'[t] = Back.was.threads[t].alt /\ slots'[t].slot = Back.was.threads[t].slot
    BY <2>2, <2>3, <2>5 DEF Saves
  <2> QED
    BY <2>4, <2>6 DEF Snapshots
<1> QED
  BY <1>1, Inductive, PTL DEF Spec, ContextsRestored

\* If the checkpoint thread leaves its own thread-local data alone between
\* thread_save_tls and the image, it has them and the dispositions of the
\* process back before it creates the threads again (thread_save_tls,
\* thread_restore_tls, sig_state_restore).
THEOREM OwnStateRestored ==
  ASSUME ~LateTouch
  PROVE  Spec => []ProcessRestored
<1>1. IInv => ProcessRestored
  BY DEF IInv, OwnInv, ProcessRestored
<1> QED
  BY <1>1, Inductive, PTL

=============================================================================
