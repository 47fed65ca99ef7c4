----------------------- MODULE ThreadSuspensionProofs -----------------------
(***************************************************************************)
(* Invariants of ThreadSuspension for any number of threads, programs and  *)
(* rounds.                                                                 *)
(***************************************************************************)
EXTENDS ThreadSuspension, TLAPS

\* th->state tells where the thread is: in which part of the handler, in an
\* unsafe region, not yet started.
StateInv ==
  \A t \in Threads :
    /\ state[t] = "ST_SUSPINPROG" <=> hpc[t] = "saving"
    /\ state[t] = "ST_SUSPENDED" <=>
         hpc[t] \in {"b_lock", "b_arrive", "b_hold", "b_wait", "b_out"}
    /\ state[t] = "ST_EMBRYO" <=> pc[t] \in {"unborn", "start", "ready"}
    /\ t \in pending => state[t] = "ST_SIGNALED" /\ Alive(t)
    /\ hpc[t] # "none" => Alive(t)

\* wrapper_depth and ST_UNSAFE agree, but for a thread still in the CAS loop.
DepthInv ==
  \A t \in Threads :
    /\ pc[t] \in {"unsafe", "born_wait"} => depth[t] >= 1
    /\ pc[t] = "enter" => depth[t] = 1 /\ state[t] # "ST_UNSAFE"
    /\ pc[t] # "enter" => (state[t] = "ST_UNSAFE" <=> depth[t] >= 1)

\* A create or join in progress names the thread it is about; only dead
\* threads are joined; the checkpoint thread examines a thread of the list.
RefInv ==
  /\ \A t \in Threads :
       pc[t] \in {"born_wait", "join_check", "join_wait"} => arg[t] \in Threads
  /\ \A t \in Threads :
       pc[t] \in {"enter", "unsafe"} /\ op[t] = "join" => arg[t] \in Threads
  /\ \A t \in joined : pc[t] = "dead"
  /\ cpc \in {"scan_th", "ld_running", "cas", "ld_signaled", "ld_suspended",
              "ld_suspinprog", "ld_unsafe", "wfe_assert"} <=> cur \in Threads

SuspendPoints ==
  {"reset", "scan_lock", "scan", "scan_th", "ld_running", "cas",
   "ld_signaled", "ld_suspended", "ld_suspinprog", "ld_unsafe", "wfe_lock",
   "wfe", "wfe_assert", "arrival"}

HoldPoints == {"arrival_wait", "write", "release"}

\* How far a handler can be in each phase of a round.
RoundInv ==
  /\ cpc = "pending" =>
       pending = {} /\ \A t \in Threads : hpc[t] = "none"
  /\ cpc \in SuspendPoints =>
       /\ xnd_state = "XND_SUSPINPROG"
       /\ \A t \in Threads : hpc[t] \in {"none", "saving", "b_lock"}
  /\ cpc \in HoldPoints =>
       /\ xnd_state = "XND_CKPTINPROG"
       /\ \A t \in Threads : hpc[t] # "b_out"

\* A pass of wait_for_exiting_threads that needs no repetition has found
\* every thread it visited stopped; from its end on all of them are.
FrozenInv ==
  /\ cpc \in {"wfe", "wfe_assert"} /\ ~rescan =>
       \A t \in list \ (todo \cup {cur}) : Frozen(t)
  /\ cpc \in {"arrival"} \cup HoldPoints =>
       \A t \in Threads : Alive(t) => Frozen(t)

IInv ==
  /\ TypeOK
  /\ StateInv
  /\ DepthInv
  /\ RefInv
  /\ LiveThreadsListed
  /\ (Paced => RoundInv /\ FrozenInv)

-----------------------------------------------------------------------------
(* Proofs *)

\* The initial state satisfies the inductive invariant.
LEMMA InitEstablishes == Init => IInv
<1>. SUFFICES ASSUME Init PROVE IInv
  OBVIOUS
<1>. USE ConstantsAssumption DEF Init
<1>1. TypeOK
  <2>1. state \in [Threads -> ThreadState] /\ pc \in [Threads -> ProgramPoint]
    BY DEF ThreadState, ProgramPoint
  <2>2. calls \in [Threads -> 0..MaxCalls] /\ rounds \in 0..MaxRounds
    BY DEF ConstantsAssumption
  <2>3. hpc \in [Threads -> HandlerPoint] /\ op \in [Threads -> Calls \cup {"none"}]
    BY DEF HandlerPoint
  <2>4. xnd_state \in XndState /\ cpc \in CkptPoint
    BY DEF XndState, CkptPoint
  <2>5. list \subseteq Threads
    BY DEF ConstantsAssumption
  <2>. QED BY <2>1, <2>2, <2>3, <2>4, <2>5 DEF TypeOK
<1>2. StateInv /\ DepthInv
  BY DEF StateInv, DepthInv, Alive
<1>3. RefInv /\ LiveThreadsListed
  BY DEF RefInv, LiveThreadsListed, Alive
<1>4. RoundInv /\ FrozenInv
  BY DEF RoundInv, FrozenInv, SuspendPoints, HoldPoints
<1>. QED BY <1>1, <1>2, <1>3, <1>4 DEF IInv

\* A step that changes nothing preserves it.
LEMMA StutterPreserves == IInv /\ UNCHANGED vars => IInv'
<1>. SUFFICES ASSUME IInv, UNCHANGED vars PROVE IInv'
  OBVIOUS
<1>. USE DEF vars, threadVars, progVars, sigVars, listVars, barVars, ckptVars
<1>1. TypeOK'
  BY DEF IInv, TypeOK
<1>2. StateInv' /\ DepthInv' /\ RefInv' /\ LiveThreadsListed'
  BY DEF IInv, StateInv, DepthInv, RefInv, LiveThreadsListed, Alive
<1>3. (Paced => RoundInv /\ FrozenInv)'
  BY DEF IInv, RoundInv, FrozenInv, Frozen, Alive
<1>. QED BY <1>1, <1>2, <1>3 DEF IInv

\* A step of a user thread in its program or in a hook (pthread_wrappers.c)
\* preserves the inductive invariant.
LEMMA ProgramPreserves ==
  ASSUME IInv, NEW t \in Threads, ProgramStep(t) \/ ThreadStep(t)
  PROVE  IInv'
<1>. USE ConstantsAssumption DEF Runs, threadVars, progVars, sigVars, listVars,
     barVars, ckptVars
<1>1. CASE HookEnter(t)
  <2>1. TypeOK'
    BY <1>1 DEF HookEnter, Starts, unsafe_enter, TypeOK, DepthInv, RefInv,
       ThreadState, XndState, ProgramPoint, HandlerPoint, CkptPoint, Calls,
       IInv
  <2>2. StateInv'
    BY <1>1 DEF HookEnter, Starts, unsafe_enter, TypeOK, StateInv, DepthInv,
       Alive, IInv
  <2>3. DepthInv'
    BY <1>1 DEF HookEnter, Starts, unsafe_enter, TypeOK, StateInv, DepthInv,
       Alive, IInv
  <2>4. RefInv'
    BY <1>1 DEF HookEnter, Starts, unsafe_enter, TypeOK, RefInv, StateInv,
       Alive, IInv
  <2>5. LiveThreadsListed'
    BY <1>1 DEF HookEnter, Starts, unsafe_enter, TypeOK, LiveThreadsListed,
       StateInv, RefInv, Alive, IInv
  <2>6. (Paced => RoundInv /\ FrozenInv)'
    BY <1>1 DEF HookEnter, Starts, unsafe_enter, TypeOK, RoundInv, FrozenInv,
       Frozen, SuspendPoints, HoldPoints, StateInv, RefInv, LiveThreadsListed,
       Alive, DepthInv, IInv
  <2>. QED BY <2>1, <2>2, <2>3, <2>4, <2>5, <2>6 DEF IInv
<1>2. ASSUME NEW u \in Threads, JoinLock(t, u)
      PROVE  IInv'
  <2>1. TypeOK'
    BY <1>2 DEF JoinLock, Starts, TypeOK, DepthInv, RefInv, ThreadState,
       XndState, ProgramPoint, HandlerPoint, CkptPoint, Calls, IInv
  <2>2. StateInv'
    BY <1>2 DEF JoinLock, Starts, TypeOK, StateInv, DepthInv, Alive, IInv
  <2>3. DepthInv'
    BY <1>2 DEF JoinLock, Starts, TypeOK, StateInv, DepthInv, Alive, IInv
  <2>4. RefInv'
    BY <1>2 DEF JoinLock, Starts, TypeOK, RefInv, StateInv, Alive, IInv
  <2>5. LiveThreadsListed'
    BY <1>2 DEF JoinLock, Starts, TypeOK, LiveThreadsListed, StateInv, RefInv,
       Alive, IInv
  <2>6. (Paced => RoundInv /\ FrozenInv)'
    BY <1>2 DEF JoinLock, Starts, TypeOK, RoundInv, FrozenInv, Frozen,
       SuspendPoints, HoldPoints, StateInv, RefInv, LiveThreadsListed, Alive,
       DepthInv, IInv
  <2>. QED BY <2>1, <2>2, <2>3, <2>4, <2>5, <2>6 DEF IInv
<1>3. CASE ThreadExitLock(t)
  <2>1. TypeOK'
    BY <1>3 DEF ThreadExitLock, Starts, TypeOK, DepthInv, RefInv, ThreadState,
       XndState, ProgramPoint, HandlerPoint, CkptPoint, Calls, IInv
  <2>2. StateInv'
    BY <1>3 DEF ThreadExitLock, Starts, TypeOK, StateInv, DepthInv, Alive, IInv
  <2>3. DepthInv'
    BY <1>3 DEF ThreadExitLock, Starts, TypeOK, StateInv, DepthInv, Alive, IInv
  <2>4. RefInv'
    BY <1>3 DEF ThreadExitLock, Starts, TypeOK, RefInv, StateInv, Alive, IInv
  <2>5. LiveThreadsListed'
    BY <1>3 DEF ThreadExitLock, Starts, TypeOK, LiveThreadsListed, StateInv,
       RefInv, Alive, IInv
  <2>6. (Paced => RoundInv /\ FrozenInv)'
    BY <1>3 DEF ThreadExitLock, Starts, TypeOK, RoundInv, FrozenInv, Frozen,
       SuspendPoints, HoldPoints, StateInv, RefInv, LiveThreadsListed, Alive,
       DepthInv, IInv
  <2>. QED BY <2>1, <2>2, <2>3, <2>4, <2>5, <2>6 DEF IInv
<1>4. CASE UnsafeCas(t)
  <2>1. TypeOK'
    BY <1>4 DEF UnsafeCas, TypeOK, DepthInv, RefInv, ThreadState, XndState,
       ProgramPoint, HandlerPoint, CkptPoint, Calls, IInv
  <2>2. StateInv'
    BY <1>4 DEF UnsafeCas, TypeOK, StateInv, DepthInv, Alive, IInv
  <2>3. DepthInv'
    BY <1>4 DEF UnsafeCas, TypeOK, StateInv, DepthInv, Alive, IInv
  <2>4. RefInv'
    BY <1>4 DEF UnsafeCas, TypeOK, RefInv, StateInv, Alive, IInv
  <2>5. LiveThreadsListed'
    BY <1>4 DEF UnsafeCas, TypeOK, LiveThreadsListed, StateInv, RefInv, Alive,
       IInv
  <2>6. (Paced => RoundInv /\ FrozenInv)'
    BY <1>4 DEF UnsafeCas, TypeOK, RoundInv, FrozenInv, Frozen, SuspendPoints,
       HoldPoints, StateInv, RefInv, LiveThreadsListed, Alive, DepthInv, IInv
  <2>. QED BY <2>1, <2>2, <2>3, <2>4, <2>5, <2>6 DEF IInv
<1>5. CASE HookExit(t)
  <2>1. TypeOK'
    BY <1>5 DEF HookExit, unsafe_exit, TypeOK, DepthInv, RefInv, ThreadState,
       XndState, ProgramPoint, HandlerPoint, CkptPoint, Calls, IInv
  <2>2. StateInv'
    BY <1>5 DEF HookExit, unsafe_exit, TypeOK, StateInv, DepthInv, Alive, IInv
  <2>3. DepthInv'
    BY <1>5 DEF HookExit, unsafe_exit, TypeOK, StateInv, DepthInv, Alive, IInv
  <2>4. RefInv'
    BY <1>5 DEF HookExit, unsafe_exit, TypeOK, RefInv, StateInv, Alive, IInv
  <2>5. LiveThreadsListed'
    BY <1>5 DEF HookExit, unsafe_exit, TypeOK, LiveThreadsListed, StateInv,
       RefInv, Alive, IInv
  <2>6. (Paced => RoundInv /\ FrozenInv)'
    BY <1>5 DEF HookExit, unsafe_exit, TypeOK, RoundInv, FrozenInv, Frozen,
       SuspendPoints, HoldPoints, StateInv, RefInv, LiveThreadsListed, Alive,
       DepthInv, IInv
  <2>. QED BY <2>1, <2>2, <2>3, <2>4, <2>5, <2>6 DEF IInv
<1>6. CASE Wait4Fails(t)
  <2>1. TypeOK'
    BY <1>6 DEF Wait4Fails, TypeOK, DepthInv, RefInv, ThreadState, XndState,
       ProgramPoint, HandlerPoint, CkptPoint, Calls, IInv
  <2>2. StateInv'
    BY <1>6 DEF Wait4Fails, TypeOK, StateInv, DepthInv, Alive, IInv
  <2>3. DepthInv'
    BY <1>6 DEF Wait4Fails, TypeOK, StateInv, DepthInv, Alive, IInv
  <2>4. RefInv'
    BY <1>6 DEF Wait4Fails, TypeOK, RefInv, StateInv, Alive, IInv
  <2>5. LiveThreadsListed'
    BY <1>6 DEF Wait4Fails, TypeOK, LiveThreadsListed, StateInv, RefInv, Alive,
       IInv
  <2>6. (Paced => RoundInv /\ FrozenInv)'
    BY <1>6 DEF Wait4Fails, TypeOK, RoundInv, FrozenInv, Frozen, SuspendPoints,
       HoldPoints, StateInv, RefInv, LiveThreadsListed, Alive, DepthInv, IInv
  <2>. QED BY <2>1, <2>2, <2>3, <2>4, <2>5, <2>6 DEF IInv
<1>7. ASSUME NEW u \in Threads, PthreadCreate(t, u)
      PROVE  IInv'
  <2>1. TypeOK'
    BY <1>7 DEF PthreadCreate, TypeOK, DepthInv, RefInv, ThreadState, XndState,
       ProgramPoint, HandlerPoint, CkptPoint, Calls, IInv
  <2>2. StateInv'
    BY <1>7 DEF PthreadCreate, TypeOK, StateInv, DepthInv, Alive, IInv
  <2>3. DepthInv'
    BY <1>7 DEF PthreadCreate, TypeOK, StateInv, DepthInv, Alive, IInv
  <2>4. RefInv'
    BY <1>7 DEF PthreadCreate, TypeOK, RefInv, StateInv, Alive, IInv
  <2>5. LiveThreadsListed'
    BY <1>7 DEF PthreadCreate, TypeOK, LiveThreadsListed, StateInv, RefInv,
       Alive, IInv
  <2>6. (Paced => RoundInv /\ FrozenInv)'
    BY <1>7 DEF PthreadCreate, TypeOK, RoundInv, FrozenInv, Frozen,
       SuspendPoints, HoldPoints, StateInv, RefInv, LiveThreadsListed, Alive,
       DepthInv, IInv
  <2>. QED BY <2>1, <2>2, <2>3, <2>4, <2>5, <2>6 DEF IInv
<1>8. CASE PthreadCreateFails(t)
  <2>1. TypeOK'
    BY <1>8 DEF PthreadCreateFails, unsafe_exit, TypeOK, DepthInv, RefInv,
       ThreadState, XndState, ProgramPoint, HandlerPoint, CkptPoint, Calls,
       IInv
  <2>2. StateInv'
    BY <1>8 DEF PthreadCreateFails, unsafe_exit, TypeOK, StateInv, DepthInv,
       Alive, IInv
  <2>3. DepthInv'
    BY <1>8 DEF PthreadCreateFails, unsafe_exit, TypeOK, StateInv, DepthInv,
       Alive, IInv
  <2>4. RefInv'
    BY <1>8 DEF PthreadCreateFails, unsafe_exit, TypeOK, RefInv, StateInv,
       Alive, IInv
  <2>5. LiveThreadsListed'
    BY <1>8 DEF PthreadCreateFails, unsafe_exit, TypeOK, LiveThreadsListed,
       StateInv, RefInv, Alive, IInv
  <2>6. (Paced => RoundInv /\ FrozenInv)'
    BY <1>8 DEF PthreadCreateFails, unsafe_exit, TypeOK, RoundInv, FrozenInv,
       Frozen, SuspendPoints, HoldPoints, StateInv, RefInv, LiveThreadsListed,
       Alive, DepthInv, IInv
  <2>. QED BY <2>1, <2>2, <2>3, <2>4, <2>5, <2>6 DEF IInv
<1>9. CASE PthreadCreateDone(t)
  <2>1. TypeOK'
    BY <1>9 DEF PthreadCreateDone, unsafe_exit, TypeOK, DepthInv, RefInv,
       ThreadState, XndState, ProgramPoint, HandlerPoint, CkptPoint, Calls,
       IInv
  <2>2. StateInv'
    BY <1>9 DEF PthreadCreateDone, unsafe_exit, TypeOK, StateInv, DepthInv,
       Alive, IInv
  <2>3. DepthInv'
    BY <1>9 DEF PthreadCreateDone, unsafe_exit, TypeOK, StateInv, DepthInv,
       Alive, IInv
  <2>4. RefInv'
    BY <1>9 DEF PthreadCreateDone, unsafe_exit, TypeOK, RefInv, StateInv,
       Alive, IInv
  <2>5. LiveThreadsListed'
    BY <1>9 DEF PthreadCreateDone, unsafe_exit, TypeOK, LiveThreadsListed,
       StateInv, RefInv, Alive, IInv
  <2>6. (Paced => RoundInv /\ FrozenInv)'
    BY <1>9 DEF PthreadCreateDone, unsafe_exit, TypeOK, RoundInv, FrozenInv,
       Frozen, SuspendPoints, HoldPoints, StateInv, RefInv, LiveThreadsListed,
       Alive, DepthInv, IInv
  <2>. QED BY <2>1, <2>2, <2>3, <2>4, <2>5, <2>6 DEF IInv
<1>10. CASE thread_list_add(t)
  <2>1. TypeOK'
    BY <1>10 DEF thread_list_add, ListLocked, TypeOK, DepthInv, RefInv,
       ThreadState, XndState, ProgramPoint, HandlerPoint, CkptPoint, Calls,
       IInv
  <2>2. StateInv'
    BY <1>10 DEF thread_list_add, ListLocked, TypeOK, StateInv, DepthInv,
       Alive, IInv
  <2>3. DepthInv'
    BY <1>10 DEF thread_list_add, ListLocked, TypeOK, StateInv, DepthInv,
       Alive, IInv
  <2>4. RefInv'
    BY <1>10 DEF thread_list_add, ListLocked, TypeOK, RefInv, StateInv, Alive,
       IInv
  <2>5. LiveThreadsListed'
    BY <1>10 DEF thread_list_add, ListLocked, TypeOK, LiveThreadsListed,
       StateInv, RefInv, Alive, IInv
  <2>6. (Paced => RoundInv /\ FrozenInv)'
    BY <1>10 DEF thread_list_add, ListLocked, TypeOK, RoundInv, FrozenInv,
       Frozen, SuspendPoints, HoldPoints, StateInv, RefInv, LiveThreadsListed,
       Alive, DepthInv, IInv
  <2>. QED BY <2>1, <2>2, <2>3, <2>4, <2>5, <2>6 DEF IInv
<1>11. CASE thread_start(t)
  <2>1. TypeOK'
    BY <1>11 DEF thread_start, TypeOK, DepthInv, RefInv, ThreadState, XndState,
       ProgramPoint, HandlerPoint, CkptPoint, Calls, IInv
  <2>2. StateInv'
    BY <1>11 DEF thread_start, TypeOK, StateInv, DepthInv, Alive, IInv
  <2>3. DepthInv'
    BY <1>11 DEF thread_start, TypeOK, StateInv, DepthInv, Alive, IInv
  <2>4. RefInv'
    BY <1>11 DEF thread_start, TypeOK, RefInv, StateInv, Alive, IInv
  <2>5. LiveThreadsListed'
    BY <1>11 DEF thread_start, TypeOK, LiveThreadsListed, StateInv, RefInv,
       Alive, IInv
  <2>6. (Paced => RoundInv /\ FrozenInv)'
    BY <1>11 DEF thread_start, TypeOK, RoundInv, FrozenInv, Frozen,
       SuspendPoints, HoldPoints, StateInv, RefInv, LiveThreadsListed, Alive,
       DepthInv, IInv
  <2>. QED BY <2>1, <2>2, <2>3, <2>4, <2>5, <2>6 DEF IInv
<1>12. CASE JoinCheck(t)
  <2>1. TypeOK'
    BY <1>12 DEF JoinCheck, unsafe_enter, TypeOK, DepthInv, RefInv,
       ThreadState, XndState, ProgramPoint, HandlerPoint, CkptPoint, Calls,
       IInv
  <2>2. StateInv'
    BY <1>12 DEF JoinCheck, unsafe_enter, TypeOK, StateInv, DepthInv, Alive,
       IInv
  <2>3. DepthInv'
    BY <1>12 DEF JoinCheck, unsafe_enter, TypeOK, StateInv, DepthInv, Alive,
       IInv
  <2>4. RefInv'
    BY <1>12 DEF JoinCheck, unsafe_enter, TypeOK, RefInv, StateInv, Alive, IInv
  <2>5. LiveThreadsListed'
    BY <1>12 DEF JoinCheck, unsafe_enter, TypeOK, LiveThreadsListed, StateInv,
       RefInv, Alive, IInv
  <2>6. (Paced => RoundInv /\ FrozenInv)'
    BY <1>12 DEF JoinCheck, unsafe_enter, TypeOK, RoundInv, FrozenInv, Frozen,
       SuspendPoints, HoldPoints, StateInv, RefInv, LiveThreadsListed, Alive,
       DepthInv, IInv
  <2>. QED BY <2>1, <2>2, <2>3, <2>4, <2>5, <2>6 DEF IInv
<1>13. CASE JoinWake(t)
  <2>1. TypeOK'
    BY <1>13 DEF JoinWake, TypeOK, DepthInv, RefInv, ThreadState, XndState,
       ProgramPoint, HandlerPoint, CkptPoint, Calls, IInv
  <2>2. StateInv'
    BY <1>13 DEF JoinWake, TypeOK, StateInv, DepthInv, Alive, IInv
  <2>3. DepthInv'
    BY <1>13 DEF JoinWake, TypeOK, StateInv, DepthInv, Alive, IInv
  <2>4. RefInv'
    BY <1>13 DEF JoinWake, TypeOK, RefInv, StateInv, Alive, IInv
  <2>5. LiveThreadsListed'
    BY <1>13 DEF JoinWake, TypeOK, LiveThreadsListed, StateInv, RefInv, Alive,
       IInv
  <2>6. (Paced => RoundInv /\ FrozenInv)'
    BY <1>13 DEF JoinWake, TypeOK, RoundInv, FrozenInv, Frozen, SuspendPoints,
       HoldPoints, StateInv, RefInv, LiveThreadsListed, Alive, DepthInv, IInv
  <2>. QED BY <2>1, <2>2, <2>3, <2>4, <2>5, <2>6 DEF IInv
<1>14. CASE PthreadJoin(t)
  <2>1. TypeOK'
    BY <1>14 DEF PthreadJoin, unsafe_exit, TypeOK, DepthInv, RefInv,
       ThreadState, XndState, ProgramPoint, HandlerPoint, CkptPoint, Calls,
       IInv
  <2>2. StateInv'
    BY <1>14 DEF PthreadJoin, unsafe_exit, TypeOK, StateInv, DepthInv, Alive,
       IInv
  <2>3. DepthInv'
    BY <1>14 DEF PthreadJoin, unsafe_exit, TypeOK, StateInv, DepthInv, Alive,
       IInv
  <2>4. RefInv'
    BY <1>14 DEF PthreadJoin, unsafe_exit, TypeOK, RefInv, StateInv, Alive,
       IInv
  <2>5. LiveThreadsListed'
    BY <1>14 DEF PthreadJoin, unsafe_exit, TypeOK, LiveThreadsListed, StateInv,
       RefInv, Alive, IInv
  <2>6. (Paced => RoundInv /\ FrozenInv)'
    BY <1>14 DEF PthreadJoin, unsafe_exit, TypeOK, RoundInv, FrozenInv, Frozen,
       SuspendPoints, HoldPoints, StateInv, RefInv, LiveThreadsListed, Alive,
       DepthInv, IInv
  <2>. QED BY <2>1, <2>2, <2>3, <2>4, <2>5, <2>6 DEF IInv
<1>15. CASE ThreadExitMark(t)
  <2>1. TypeOK'
    BY <1>15 DEF ThreadExitMark, TypeOK, DepthInv, RefInv, ThreadState,
       XndState, ProgramPoint, HandlerPoint, CkptPoint, Calls, IInv
  <2>2. StateInv'
    BY <1>15 DEF ThreadExitMark, TypeOK, StateInv, DepthInv, Alive, IInv
  <2>3. DepthInv'
    BY <1>15 DEF ThreadExitMark, TypeOK, StateInv, DepthInv, Alive, IInv
  <2>4. RefInv'
    BY <1>15 DEF ThreadExitMark, TypeOK, RefInv, StateInv, Alive, IInv
  <2>5. LiveThreadsListed'
    BY <1>15 DEF ThreadExitMark, TypeOK, LiveThreadsListed, StateInv, RefInv,
       Alive, IInv
  <2>6. (Paced => RoundInv /\ FrozenInv)'
    BY <1>15 DEF ThreadExitMark, TypeOK, RoundInv, FrozenInv, Frozen,
       SuspendPoints, HoldPoints, StateInv, RefInv, LiveThreadsListed, Alive,
       DepthInv, IInv
  <2>. QED BY <2>1, <2>2, <2>3, <2>4, <2>5, <2>6 DEF IInv
<1>16. CASE ThreadDies(t)
  <2>1. TypeOK'
    BY <1>16 DEF ThreadDies, TypeOK, DepthInv, RefInv, ThreadState, XndState,
       ProgramPoint, HandlerPoint, CkptPoint, Calls, IInv
  <2>2. StateInv'
    BY <1>16 DEF ThreadDies, TypeOK, StateInv, DepthInv, Alive, IInv
  <2>3. DepthInv'
    BY <1>16 DEF ThreadDies, TypeOK, StateInv, DepthInv, Alive, IInv
  <2>4. RefInv'
    BY <1>16 DEF ThreadDies, TypeOK, RefInv, StateInv, Alive, IInv
  <2>5. LiveThreadsListed'
    BY <1>16 DEF ThreadDies, TypeOK, LiveThreadsListed, StateInv, RefInv,
       Alive, IInv
  <2>6. (Paced => RoundInv /\ FrozenInv)'
    BY <1>16 DEF ThreadDies, TypeOK, RoundInv, FrozenInv, Frozen,
       SuspendPoints, HoldPoints, StateInv, RefInv, LiveThreadsListed, Alive,
       DepthInv, IInv
  <2>. QED BY <2>1, <2>2, <2>3, <2>4, <2>5, <2>6 DEF IInv
<1>. QED BY <1>1, <1>2, <1>3, <1>4, <1>5, <1>6, <1>7, <1>8, <1>9, <1>10, <1>11,
     <1>12, <1>13, <1>14, <1>15, <1>16 DEF ProgramStep, ThreadStep

\* So does a step of thread_sighandler and thread_barrier.
LEMMA HandlerPreserves ==
  ASSUME IInv, NEW t \in Threads, HandlerStep(t)
  PROVE  IInv'
<1>. USE ConstantsAssumption DEF Runs, threadVars, progVars, sigVars, listVars,
     barVars, ckptVars
<1>1. CASE thread_sighandler(t)
  <2>1. TypeOK'
    <3>1. CASE state[t] = "ST_SIGNALED"
      BY <1>1, <3>1 DEF thread_sighandler, AssertCas, xnd_abort, TypeOK,
         ThreadState, XndState, ProgramPoint, HandlerPoint, CkptPoint, Calls,
         IInv
    <3>2. CASE state[t] # "ST_SIGNALED"
      BY <1>1, <3>2 DEF thread_sighandler, AssertCas, xnd_abort, TypeOK,
         ThreadState, XndState, ProgramPoint, HandlerPoint, CkptPoint, Calls,
         IInv
    <3>. QED BY <3>1, <3>2
  <2>2. StateInv'
    BY <1>1 DEF thread_sighandler, AssertCas, xnd_abort, TypeOK, StateInv,
       DepthInv, Alive, IInv
  <2>3. DepthInv'
    BY <1>1 DEF thread_sighandler, AssertCas, xnd_abort, TypeOK, StateInv,
       DepthInv, Alive, IInv
  <2>4. RefInv'
    BY <1>1 DEF thread_sighandler, AssertCas, xnd_abort, TypeOK, RefInv,
       StateInv, Alive, IInv
  <2>5. LiveThreadsListed'
    BY <1>1 DEF thread_sighandler, AssertCas, xnd_abort, TypeOK,
       LiveThreadsListed, StateInv, RefInv, Alive, IInv
  <2>6. (Paced => RoundInv /\ FrozenInv)'
    BY <1>1 DEF thread_sighandler, AssertCas, xnd_abort, TypeOK, RoundInv,
       FrozenInv, Frozen, SuspendPoints, HoldPoints, StateInv, RefInv,
       LiveThreadsListed, Alive, DepthInv, IInv
  <2>. QED BY <2>1, <2>2, <2>3, <2>4, <2>5, <2>6 DEF IInv
<1>2. CASE HandlerSave(t)
  <2>1. TypeOK'
    <3>1. CASE state[t] = "ST_SUSPINPROG"
      BY <1>2, <3>1 DEF HandlerSave, AssertCas, xnd_abort, TypeOK, ThreadState,
         XndState, ProgramPoint, HandlerPoint, CkptPoint, Calls, IInv
    <3>2. CASE state[t] # "ST_SUSPINPROG"
      BY <1>2, <3>2 DEF HandlerSave, AssertCas, xnd_abort, TypeOK, ThreadState,
         XndState, ProgramPoint, HandlerPoint, CkptPoint, Calls, IInv
    <3>. QED BY <3>1, <3>2
  <2>2. StateInv'
    BY <1>2 DEF HandlerSave, AssertCas, xnd_abort, TypeOK, StateInv, DepthInv,
       Alive, IInv
  <2>3. DepthInv'
    BY <1>2 DEF HandlerSave, AssertCas, xnd_abort, TypeOK, StateInv, DepthInv,
       Alive, IInv
  <2>4. RefInv'
    BY <1>2 DEF HandlerSave, AssertCas, xnd_abort, TypeOK, RefInv, StateInv,
       Alive, IInv
  <2>5. LiveThreadsListed'
    BY <1>2 DEF HandlerSave, AssertCas, xnd_abort, TypeOK, LiveThreadsListed,
       StateInv, RefInv, Alive, IInv
  <2>6. (Paced => RoundInv /\ FrozenInv)'
    BY <1>2 DEF HandlerSave, AssertCas, xnd_abort, TypeOK, RoundInv, FrozenInv,
       Frozen, SuspendPoints, HoldPoints, StateInv, RefInv, LiveThreadsListed,
       Alive, DepthInv, IInv
  <2>. QED BY <2>1, <2>2, <2>3, <2>4, <2>5, <2>6 DEF IInv
<1>3. CASE BarrierLock(t)
  <2>1. TypeOK'
    BY <1>3 DEF BarrierLock, TypeOK, DepthInv, RefInv, ThreadState, XndState,
       ProgramPoint, HandlerPoint, CkptPoint, Calls, IInv
  <2>2. StateInv'
    BY <1>3 DEF BarrierLock, TypeOK, StateInv, DepthInv, Alive, IInv
  <2>3. DepthInv'
    BY <1>3 DEF BarrierLock, TypeOK, StateInv, DepthInv, Alive, IInv
  <2>4. RefInv'
    BY <1>3 DEF BarrierLock, TypeOK, RefInv, StateInv, Alive, IInv
  <2>5. LiveThreadsListed'
    BY <1>3 DEF BarrierLock, TypeOK, LiveThreadsListed, StateInv, RefInv,
       Alive, IInv
  <2>6. (Paced => RoundInv /\ FrozenInv)'
    BY <1>3 DEF BarrierLock, TypeOK, RoundInv, FrozenInv, Frozen,
       SuspendPoints, HoldPoints, StateInv, RefInv, LiveThreadsListed, Alive,
       DepthInv, IInv
  <2>. QED BY <2>1, <2>2, <2>3, <2>4, <2>5, <2>6 DEF IInv
<1>4. CASE BarrierArrive(t)
  <2>1. TypeOK'
    BY <1>4 DEF BarrierArrive, TypeOK, DepthInv, RefInv, ThreadState, XndState,
       ProgramPoint, HandlerPoint, CkptPoint, Calls, IInv
  <2>2. StateInv'
    BY <1>4 DEF BarrierArrive, TypeOK, StateInv, DepthInv, Alive, IInv
  <2>3. DepthInv'
    BY <1>4 DEF BarrierArrive, TypeOK, StateInv, DepthInv, Alive, IInv
  <2>4. RefInv'
    BY <1>4 DEF BarrierArrive, TypeOK, RefInv, StateInv, Alive, IInv
  <2>5. LiveThreadsListed'
    BY <1>4 DEF BarrierArrive, TypeOK, LiveThreadsListed, StateInv, RefInv,
       Alive, IInv
  <2>6. (Paced => RoundInv /\ FrozenInv)'
    BY <1>4 DEF BarrierArrive, TypeOK, RoundInv, FrozenInv, Frozen,
       SuspendPoints, HoldPoints, StateInv, RefInv, LiveThreadsListed, Alive,
       DepthInv, IInv
  <2>. QED BY <2>1, <2>2, <2>3, <2>4, <2>5, <2>6 DEF IInv
<1>5. CASE BarrierTest(t)
  <2>1. TypeOK'
    BY <1>5 DEF BarrierTest, TypeOK, DepthInv, RefInv, ThreadState, XndState,
       ProgramPoint, HandlerPoint, CkptPoint, Calls, IInv
  <2>2. StateInv'
    BY <1>5 DEF BarrierTest, TypeOK, StateInv, DepthInv, Alive, IInv
  <2>3. DepthInv'
    BY <1>5 DEF BarrierTest, TypeOK, StateInv, DepthInv, Alive, IInv
  <2>4. RefInv'
    BY <1>5 DEF BarrierTest, TypeOK, RefInv, StateInv, Alive, IInv
  <2>5. LiveThreadsListed'
    BY <1>5 DEF BarrierTest, TypeOK, LiveThreadsListed, StateInv, RefInv,
       Alive, IInv
  <2>6. (Paced => RoundInv /\ FrozenInv)'
    BY <1>5 DEF BarrierTest, TypeOK, RoundInv, FrozenInv, Frozen,
       SuspendPoints, HoldPoints, StateInv, RefInv, LiveThreadsListed, Alive,
       DepthInv, IInv
  <2>. QED BY <2>1, <2>2, <2>3, <2>4, <2>5, <2>6 DEF IInv
<1>6. CASE BarrierWake(t)
  <2>1. TypeOK'
    BY <1>6 DEF BarrierWake, TypeOK, DepthInv, RefInv, ThreadState, XndState,
       ProgramPoint, HandlerPoint, CkptPoint, Calls, IInv
  <2>2. StateInv'
    BY <1>6 DEF BarrierWake, TypeOK, StateInv, DepthInv, Alive, IInv
  <2>3. DepthInv'
    BY <1>6 DEF BarrierWake, TypeOK, StateInv, DepthInv, Alive, IInv
  <2>4. RefInv'
    BY <1>6 DEF BarrierWake, TypeOK, RefInv, StateInv, Alive, IInv
  <2>5. LiveThreadsListed'
    BY <1>6 DEF BarrierWake, TypeOK, LiveThreadsListed, StateInv, RefInv,
       Alive, IInv
  <2>6. (Paced => RoundInv /\ FrozenInv)'
    BY <1>6 DEF BarrierWake, TypeOK, RoundInv, FrozenInv, Frozen,
       SuspendPoints, HoldPoints, StateInv, RefInv, LiveThreadsListed, Alive,
       DepthInv, IInv
  <2>. QED BY <2>1, <2>2, <2>3, <2>4, <2>5, <2>6 DEF IInv
<1>7. CASE HandlerReturn(t)
  <2>1. TypeOK'
    <3>1. CASE state[t] = "ST_SUSPENDED"
      BY <1>7, <3>1 DEF HandlerReturn, AssertCas, xnd_abort, TypeOK, ThreadState,
         XndState, ProgramPoint, HandlerPoint, CkptPoint, Calls, IInv
    <3>2. CASE state[t] # "ST_SUSPENDED"
      BY <1>7, <3>2 DEF HandlerReturn, AssertCas, xnd_abort, TypeOK, ThreadState,
         XndState, ProgramPoint, HandlerPoint, CkptPoint, Calls, IInv
    <3>. QED BY <3>1, <3>2
  <2>2. StateInv'
    BY <1>7 DEF HandlerReturn, AssertCas, xnd_abort, TypeOK, StateInv,
       DepthInv, Alive, IInv
  <2>3. DepthInv'
    BY <1>7 DEF HandlerReturn, AssertCas, xnd_abort, TypeOK, StateInv,
       DepthInv, Alive, IInv
  <2>4. RefInv'
    BY <1>7 DEF HandlerReturn, AssertCas, xnd_abort, TypeOK, RefInv, StateInv,
       Alive, IInv
  <2>5. LiveThreadsListed'
    BY <1>7 DEF HandlerReturn, AssertCas, xnd_abort, TypeOK, LiveThreadsListed,
       StateInv, RefInv, Alive, IInv
  <2>6. (Paced => RoundInv /\ FrozenInv)'
    BY <1>7 DEF HandlerReturn, AssertCas, xnd_abort, TypeOK, RoundInv,
       FrozenInv, Frozen, SuspendPoints, HoldPoints, StateInv, RefInv,
       LiveThreadsListed, Alive, DepthInv, IInv
  <2>. QED BY <2>1, <2>2, <2>3, <2>4, <2>5, <2>6 DEF IInv
<1>. QED BY <1>1, <1>2, <1>3, <1>4, <1>5, <1>6, <1>7 DEF HandlerStep

\* So does a step of the scan of suspend_threads.
LEMMA ScanPreserves ==
  ASSUME IInv, ScanStep
  PROVE  IInv'
<1>. USE ConstantsAssumption DEF Runs, threadVars, progVars, sigVars, listVars,
     barVars, ckptVars
<1>1. CASE ScanStart
  <2>1. TypeOK'
    BY <1>1 DEF ScanStart, TypeOK, DepthInv, RefInv, ThreadState, XndState,
       ProgramPoint, HandlerPoint, CkptPoint, Calls, IInv
  <2>2. StateInv'
    BY <1>1 DEF ScanStart, TypeOK, StateInv, DepthInv, Alive, IInv
  <2>3. DepthInv'
    BY <1>1 DEF ScanStart, TypeOK, StateInv, DepthInv, Alive, IInv
  <2>4. RefInv'
    BY <1>1 DEF ScanStart, TypeOK, RefInv, StateInv, Alive, IInv
  <2>5. LiveThreadsListed'
    BY <1>1 DEF ScanStart, TypeOK, LiveThreadsListed, StateInv, RefInv, Alive,
       IInv
  <2>6. (Paced => RoundInv /\ FrozenInv)'
    BY <1>1 DEF ScanStart, TypeOK, RoundInv, FrozenInv, Frozen, SuspendPoints,
       HoldPoints, StateInv, RefInv, LiveThreadsListed, Alive, DepthInv, IInv
  <2>. QED BY <2>1, <2>2, <2>3, <2>4, <2>5, <2>6 DEF IInv
<1>2. ASSUME NEW th \in Threads, ScanVisit(th)
      PROVE  IInv'
  <2>1. TypeOK'
    BY <1>2 DEF ScanVisit, thread_list_remove, TypeOK, DepthInv, RefInv,
       ThreadState, XndState, ProgramPoint, HandlerPoint, CkptPoint, Calls,
       IInv
  <2>2. StateInv'
    BY <1>2 DEF ScanVisit, thread_list_remove, TypeOK, StateInv, DepthInv,
       Alive, IInv
  <2>3. DepthInv'
    BY <1>2 DEF ScanVisit, thread_list_remove, TypeOK, StateInv, DepthInv,
       Alive, IInv
  <2>4. RefInv'
    BY <1>2 DEF ScanVisit, thread_list_remove, TypeOK, RefInv, StateInv, Alive,
       IInv
  <2>5. LiveThreadsListed'
    BY <1>2 DEF ScanVisit, thread_list_remove, TypeOK, LiveThreadsListed,
       StateInv, RefInv, Alive, IInv
  <2>6. (Paced => RoundInv /\ FrozenInv)'
    BY <1>2 DEF ScanVisit, thread_list_remove, TypeOK, RoundInv, FrozenInv,
       Frozen, SuspendPoints, HoldPoints, StateInv, RefInv, LiveThreadsListed,
       Alive, DepthInv, IInv
  <2>. QED BY <2>1, <2>2, <2>3, <2>4, <2>5, <2>6 DEF IInv
<1>3. CASE ScanThLock
  <2>1. TypeOK'
    BY <1>3 DEF ScanThLock, TypeOK, DepthInv, RefInv, ThreadState, XndState,
       ProgramPoint, HandlerPoint, CkptPoint, Calls, IInv
  <2>2. StateInv'
    BY <1>3 DEF ScanThLock, TypeOK, StateInv, DepthInv, Alive, IInv
  <2>3. DepthInv'
    BY <1>3 DEF ScanThLock, TypeOK, StateInv, DepthInv, Alive, IInv
  <2>4. RefInv'
    BY <1>3 DEF ScanThLock, TypeOK, RefInv, StateInv, Alive, IInv
  <2>5. LiveThreadsListed'
    BY <1>3 DEF ScanThLock, TypeOK, LiveThreadsListed, StateInv, RefInv, Alive,
       IInv
  <2>6. (Paced => RoundInv /\ FrozenInv)'
    BY <1>3 DEF ScanThLock, TypeOK, RoundInv, FrozenInv, Frozen, SuspendPoints,
       HoldPoints, StateInv, RefInv, LiveThreadsListed, Alive, DepthInv, IInv
  <2>. QED BY <2>1, <2>2, <2>3, <2>4, <2>5, <2>6 DEF IInv
<1>4. CASE LoadRunning
  <2>1. TypeOK'
    BY <1>4 DEF LoadRunning, ScanFallsTo, TypeOK, DepthInv, RefInv,
       ThreadState, XndState, ProgramPoint, HandlerPoint, CkptPoint, Calls,
       IInv
  <2>2. StateInv'
    BY <1>4 DEF LoadRunning, ScanFallsTo, TypeOK, StateInv, DepthInv, Alive,
       IInv
  <2>3. DepthInv'
    BY <1>4 DEF LoadRunning, ScanFallsTo, TypeOK, StateInv, DepthInv, Alive,
       IInv
  <2>4. RefInv'
    BY <1>4 DEF LoadRunning, ScanFallsTo, TypeOK, RefInv, StateInv, Alive, IInv
  <2>5. LiveThreadsListed'
    BY <1>4 DEF LoadRunning, ScanFallsTo, TypeOK, LiveThreadsListed, StateInv,
       RefInv, Alive, IInv
  <2>6. (Paced => RoundInv /\ FrozenInv)'
    BY <1>4 DEF LoadRunning, ScanFallsTo, TypeOK, RoundInv, FrozenInv, Frozen,
       SuspendPoints, HoldPoints, StateInv, RefInv, LiveThreadsListed, Alive,
       DepthInv, IInv
  <2>. QED BY <2>1, <2>2, <2>3, <2>4, <2>5, <2>6 DEF IInv
<1>5. CASE ScanSignal
  <2>1. TypeOK'
    <3>1. CASE state[cur] = "ST_RUNNING" /\ Alive(cur)
      BY <1>5, <3>1 DEF ScanSignal, ScanFallsTo, ScanNext, thread_list_remove,
         RefInv, TypeOK, ThreadState, XndState, ProgramPoint, HandlerPoint,
         CkptPoint, Calls, IInv
    <3>2. CASE state[cur] = "ST_RUNNING" /\ ~Alive(cur)
      BY <1>5, <3>2 DEF ScanSignal, ScanFallsTo, ScanNext, thread_list_remove,
         RefInv, TypeOK, ThreadState, XndState, ProgramPoint, HandlerPoint,
         CkptPoint, Calls, IInv
    <3>3. CASE state[cur] # "ST_RUNNING"
      BY <1>5, <3>3 DEF ScanSignal, ScanFallsTo, ScanNext, thread_list_remove,
         RefInv, TypeOK, ThreadState, XndState, ProgramPoint, HandlerPoint,
         CkptPoint, Calls, IInv
    <3>. QED BY <3>1, <3>2, <3>3
  <2>2. StateInv'
    BY <1>5 DEF ScanSignal, ScanFallsTo, ScanNext, thread_list_remove, TypeOK,
       StateInv, DepthInv, Alive, IInv
  <2>3. DepthInv'
    BY <1>5 DEF ScanSignal, ScanFallsTo, ScanNext, thread_list_remove, TypeOK,
       StateInv, DepthInv, Alive, IInv
  <2>4. RefInv'
    BY <1>5 DEF ScanSignal, ScanFallsTo, ScanNext, thread_list_remove, TypeOK,
       RefInv, StateInv, Alive, IInv
  <2>5. LiveThreadsListed'
    BY <1>5 DEF ScanSignal, ScanFallsTo, ScanNext, thread_list_remove, TypeOK,
       LiveThreadsListed, StateInv, RefInv, Alive, IInv
  <2>6. (Paced => RoundInv /\ FrozenInv)'
    BY <1>5 DEF ScanSignal, ScanFallsTo, ScanNext, thread_list_remove, TypeOK,
       RoundInv, FrozenInv, Frozen, SuspendPoints, HoldPoints, StateInv,
       RefInv, LiveThreadsListed, Alive, DepthInv, IInv
  <2>. QED BY <2>1, <2>2, <2>3, <2>4, <2>5, <2>6 DEF IInv
<1>6. CASE LoadSignaled
  <2>1. TypeOK'
    <3>1. CASE state[cur] = "ST_SIGNALED" /\ Alive(cur)
      BY <1>6, <3>1 DEF LoadSignaled, ScanFallsTo, ScanNext, thread_list_remove,
         RefInv, TypeOK, ThreadState, XndState, ProgramPoint, HandlerPoint,
         CkptPoint, Calls, IInv
    <3>2. CASE state[cur] = "ST_SIGNALED" /\ ~Alive(cur)
      BY <1>6, <3>2 DEF LoadSignaled, ScanFallsTo, ScanNext, thread_list_remove,
         RefInv, TypeOK, ThreadState, XndState, ProgramPoint, HandlerPoint,
         CkptPoint, Calls, IInv
    <3>3. CASE state[cur] # "ST_SIGNALED"
      BY <1>6, <3>3 DEF LoadSignaled, ScanFallsTo, ScanNext, thread_list_remove,
         RefInv, TypeOK, ThreadState, XndState, ProgramPoint, HandlerPoint,
         CkptPoint, Calls, IInv
    <3>. QED BY <3>1, <3>2, <3>3
  <2>2. StateInv'
    BY <1>6 DEF LoadSignaled, ScanFallsTo, ScanNext, thread_list_remove,
       TypeOK, StateInv, DepthInv, Alive, IInv
  <2>3. DepthInv'
    BY <1>6 DEF LoadSignaled, ScanFallsTo, ScanNext, thread_list_remove,
       TypeOK, StateInv, DepthInv, Alive, IInv
  <2>4. RefInv'
    BY <1>6 DEF LoadSignaled, ScanFallsTo, ScanNext, thread_list_remove,
       TypeOK, RefInv, StateInv, Alive, IInv
  <2>5. LiveThreadsListed'
    BY <1>6 DEF LoadSignaled, ScanFallsTo, ScanNext, thread_list_remove,
       TypeOK, LiveThreadsListed, StateInv, RefInv, Alive, IInv
  <2>6. (Paced => RoundInv /\ FrozenInv)'
    BY <1>6 DEF LoadSignaled, ScanFallsTo, ScanNext, thread_list_remove,
       TypeOK, RoundInv, FrozenInv, Frozen, SuspendPoints, HoldPoints,
       StateInv, RefInv, LiveThreadsListed, Alive, DepthInv, IInv
  <2>. QED BY <2>1, <2>2, <2>3, <2>4, <2>5, <2>6 DEF IInv
<1>7. CASE LoadSuspended
  <2>1. TypeOK'
    BY <1>7 DEF LoadSuspended, ScanFallsTo, ScanNext, TypeOK, DepthInv, RefInv,
       ThreadState, XndState, ProgramPoint, HandlerPoint, CkptPoint, Calls,
       IInv
  <2>2. StateInv'
    BY <1>7 DEF LoadSuspended, ScanFallsTo, ScanNext, TypeOK, StateInv,
       DepthInv, Alive, IInv
  <2>3. DepthInv'
    BY <1>7 DEF LoadSuspended, ScanFallsTo, ScanNext, TypeOK, StateInv,
       DepthInv, Alive, IInv
  <2>4. RefInv'
    BY <1>7 DEF LoadSuspended, ScanFallsTo, ScanNext, TypeOK, RefInv, StateInv,
       Alive, IInv
  <2>5. LiveThreadsListed'
    BY <1>7 DEF LoadSuspended, ScanFallsTo, ScanNext, TypeOK,
       LiveThreadsListed, StateInv, RefInv, Alive, IInv
  <2>6. (Paced => RoundInv /\ FrozenInv)'
    BY <1>7 DEF LoadSuspended, ScanFallsTo, ScanNext, TypeOK, RoundInv,
       FrozenInv, Frozen, SuspendPoints, HoldPoints, StateInv, RefInv,
       LiveThreadsListed, Alive, DepthInv, IInv
  <2>. QED BY <2>1, <2>2, <2>3, <2>4, <2>5, <2>6 DEF IInv
<1>8. CASE LoadSuspinprog
  <2>1. TypeOK'
    BY <1>8 DEF LoadSuspinprog, ScanFallsTo, ScanNext, TypeOK, DepthInv,
       RefInv, ThreadState, XndState, ProgramPoint, HandlerPoint, CkptPoint,
       Calls, IInv
  <2>2. StateInv'
    BY <1>8 DEF LoadSuspinprog, ScanFallsTo, ScanNext, TypeOK, StateInv,
       DepthInv, Alive, IInv
  <2>3. DepthInv'
    BY <1>8 DEF LoadSuspinprog, ScanFallsTo, ScanNext, TypeOK, StateInv,
       DepthInv, Alive, IInv
  <2>4. RefInv'
    BY <1>8 DEF LoadSuspinprog, ScanFallsTo, ScanNext, TypeOK, RefInv,
       StateInv, Alive, IInv
  <2>5. LiveThreadsListed'
    BY <1>8 DEF LoadSuspinprog, ScanFallsTo, ScanNext, TypeOK,
       LiveThreadsListed, StateInv, RefInv, Alive, IInv
  <2>6. (Paced => RoundInv /\ FrozenInv)'
    BY <1>8 DEF LoadSuspinprog, ScanFallsTo, ScanNext, TypeOK, RoundInv,
       FrozenInv, Frozen, SuspendPoints, HoldPoints, StateInv, RefInv,
       LiveThreadsListed, Alive, DepthInv, IInv
  <2>. QED BY <2>1, <2>2, <2>3, <2>4, <2>5, <2>6 DEF IInv
<1>9. CASE LoadUnsafe
  <2>1. TypeOK'
    BY <1>9 DEF LoadUnsafe, ScanNext, TypeOK, DepthInv, RefInv, ThreadState,
       XndState, ProgramPoint, HandlerPoint, CkptPoint, Calls, IInv
  <2>2. StateInv'
    BY <1>9 DEF LoadUnsafe, ScanNext, TypeOK, StateInv, DepthInv, Alive, IInv
  <2>3. DepthInv'
    BY <1>9 DEF LoadUnsafe, ScanNext, TypeOK, StateInv, DepthInv, Alive, IInv
  <2>4. RefInv'
    BY <1>9 DEF LoadUnsafe, ScanNext, TypeOK, RefInv, StateInv, Alive, IInv
  <2>5. LiveThreadsListed'
    BY <1>9 DEF LoadUnsafe, ScanNext, TypeOK, LiveThreadsListed, StateInv,
       RefInv, Alive, IInv
  <2>6. (Paced => RoundInv /\ FrozenInv)'
    BY <1>9 DEF LoadUnsafe, ScanNext, TypeOK, RoundInv, FrozenInv, Frozen,
       SuspendPoints, HoldPoints, StateInv, RefInv, LiveThreadsListed, Alive,
       DepthInv, IInv
  <2>. QED BY <2>1, <2>2, <2>3, <2>4, <2>5, <2>6 DEF IInv
<1>10. CASE ScanEnd
  <2>1. TypeOK'
    BY <1>10 DEF ScanEnd, TypeOK, DepthInv, RefInv, ThreadState, XndState,
       ProgramPoint, HandlerPoint, CkptPoint, Calls, IInv
  <2>2. StateInv'
    BY <1>10 DEF ScanEnd, TypeOK, StateInv, DepthInv, Alive, IInv
  <2>3. DepthInv'
    BY <1>10 DEF ScanEnd, TypeOK, StateInv, DepthInv, Alive, IInv
  <2>4. RefInv'
    BY <1>10 DEF ScanEnd, TypeOK, RefInv, StateInv, Alive, IInv
  <2>5. LiveThreadsListed'
    BY <1>10 DEF ScanEnd, TypeOK, LiveThreadsListed, StateInv, RefInv, Alive,
       IInv
  <2>6. (Paced => RoundInv /\ FrozenInv)'
    BY <1>10 DEF ScanEnd, TypeOK, RoundInv, FrozenInv, Frozen, SuspendPoints,
       HoldPoints, StateInv, RefInv, LiveThreadsListed, Alive, DepthInv, IInv
  <2>. QED BY <2>1, <2>2, <2>3, <2>4, <2>5, <2>6 DEF IInv
<1>. QED BY <1>1, <1>2, <1>3, <1>4, <1>5, <1>6, <1>7, <1>8, <1>9, <1>10 DEF
     ScanStep

\* So does any other step of the checkpoint thread.
LEMMA CkptPreserves ==
  ASSUME IInv, ckpt_thread_wait \/ CkptStep
  PROVE  IInv'
<1>. USE ConstantsAssumption DEF Runs, threadVars, progVars, sigVars, listVars,
     barVars, ckptVars
<1>1. CASE ckpt_thread_wait
  <2>1. TypeOK'
    BY <1>1 DEF ckpt_thread_wait, InRound, TypeOK, DepthInv, RefInv,
       ThreadState, XndState, ProgramPoint, HandlerPoint, CkptPoint, Calls,
       IInv
  <2>2. StateInv'
    BY <1>1 DEF ckpt_thread_wait, InRound, TypeOK, StateInv, DepthInv, Alive,
       IInv
  <2>3. DepthInv'
    BY <1>1 DEF ckpt_thread_wait, InRound, TypeOK, StateInv, DepthInv, Alive,
       IInv
  <2>4. RefInv'
    BY <1>1 DEF ckpt_thread_wait, InRound, TypeOK, RefInv, StateInv, Alive,
       IInv
  <2>5. LiveThreadsListed'
    BY <1>1 DEF ckpt_thread_wait, InRound, TypeOK, LiveThreadsListed, StateInv,
       RefInv, Alive, IInv
  <2>6. (Paced => RoundInv /\ FrozenInv)'
    BY <1>1 DEF ckpt_thread_wait, InRound, TypeOK, RoundInv, FrozenInv, Frozen,
       SuspendPoints, HoldPoints, StateInv, RefInv, LiveThreadsListed, Alive,
       DepthInv, IInv
  <2>. QED BY <2>1, <2>2, <2>3, <2>4, <2>5, <2>6 DEF IInv
<1>2. CASE SuspendStart
  <2>1. TypeOK'
    BY <1>2 DEF SuspendStart, TypeOK, DepthInv, RefInv, ThreadState, XndState,
       ProgramPoint, HandlerPoint, CkptPoint, Calls, IInv
  <2>2. StateInv'
    BY <1>2 DEF SuspendStart, TypeOK, StateInv, DepthInv, Alive, IInv
  <2>3. DepthInv'
    BY <1>2 DEF SuspendStart, TypeOK, StateInv, DepthInv, Alive, IInv
  <2>4. RefInv'
    BY <1>2 DEF SuspendStart, TypeOK, RefInv, StateInv, Alive, IInv
  <2>5. LiveThreadsListed'
    BY <1>2 DEF SuspendStart, TypeOK, LiveThreadsListed, StateInv, RefInv,
       Alive, IInv
  <2>6. (Paced => RoundInv /\ FrozenInv)'
    BY <1>2 DEF SuspendStart, TypeOK, RoundInv, FrozenInv, Frozen,
       SuspendPoints, HoldPoints, StateInv, RefInv, LiveThreadsListed, Alive,
       DepthInv, IInv
  <2>. QED BY <2>1, <2>2, <2>3, <2>4, <2>5, <2>6 DEF IInv
<1>3. CASE SuspendReset
  <2>1. TypeOK'
    BY <1>3 DEF SuspendReset, ResetValues, TypeOK, DepthInv, RefInv,
       ThreadState, XndState, ProgramPoint, HandlerPoint, CkptPoint, Calls,
       IInv
  <2>2. StateInv'
    BY <1>3 DEF SuspendReset, ResetValues, TypeOK, StateInv, DepthInv, Alive,
       IInv
  <2>3. DepthInv'
    BY <1>3 DEF SuspendReset, ResetValues, TypeOK, StateInv, DepthInv, Alive,
       IInv
  <2>4. RefInv'
    BY <1>3 DEF SuspendReset, ResetValues, TypeOK, RefInv, StateInv, Alive,
       IInv
  <2>5. LiveThreadsListed'
    BY <1>3 DEF SuspendReset, ResetValues, TypeOK, LiveThreadsListed, StateInv,
       RefInv, Alive, IInv
  <2>6. (Paced => RoundInv /\ FrozenInv)'
    BY <1>3 DEF SuspendReset, ResetValues, TypeOK, RoundInv, FrozenInv, Frozen,
       SuspendPoints, HoldPoints, StateInv, RefInv, LiveThreadsListed, Alive,
       DepthInv, IInv
  <2>. QED BY <2>1, <2>2, <2>3, <2>4, <2>5, <2>6 DEF IInv
<1>4. CASE WaitExitingStart
  <2>1. TypeOK'
    BY <1>4 DEF WaitExitingStart, TypeOK, DepthInv, RefInv, ThreadState,
       XndState, ProgramPoint, HandlerPoint, CkptPoint, Calls, IInv
  <2>2. StateInv'
    BY <1>4 DEF WaitExitingStart, TypeOK, StateInv, DepthInv, Alive, IInv
  <2>3. DepthInv'
    BY <1>4 DEF WaitExitingStart, TypeOK, StateInv, DepthInv, Alive, IInv
  <2>4. RefInv'
    BY <1>4 DEF WaitExitingStart, TypeOK, RefInv, StateInv, Alive, IInv
  <2>5. LiveThreadsListed'
    BY <1>4 DEF WaitExitingStart, TypeOK, LiveThreadsListed, StateInv, RefInv,
       Alive, IInv
  <2>6. (Paced => RoundInv /\ FrozenInv)'
    BY <1>4 DEF WaitExitingStart, TypeOK, RoundInv, FrozenInv, Frozen,
       SuspendPoints, HoldPoints, StateInv, RefInv, LiveThreadsListed, Alive,
       DepthInv, IInv
  <2>. QED BY <2>1, <2>2, <2>3, <2>4, <2>5, <2>6 DEF IInv
<1>5. ASSUME NEW th \in Threads, WaitExitingVisit(th)
      PROVE  IInv'
  <2>1. TypeOK'
    BY <1>5, ZenonT(30) DEF WaitExitingVisit, thread_list_remove, TypeOK, DepthInv, RefInv,
       ThreadState, XndState, ProgramPoint, HandlerPoint, CkptPoint, Calls,
       IInv
  <2>2. StateInv'
    BY <1>5 DEF WaitExitingVisit, thread_list_remove, TypeOK, StateInv,
       DepthInv, Alive, IInv
  <2>3. DepthInv'
    BY <1>5 DEF WaitExitingVisit, thread_list_remove, TypeOK, StateInv,
       DepthInv, Alive, IInv
  <2>4. RefInv'
    BY <1>5 DEF WaitExitingVisit, thread_list_remove, TypeOK, RefInv, StateInv,
       Alive, IInv
  <2>5. LiveThreadsListed'
    BY <1>5 DEF WaitExitingVisit, thread_list_remove, TypeOK,
       LiveThreadsListed, StateInv, RefInv, Alive, IInv
  <2>6. (Paced => RoundInv /\ FrozenInv)'
    BY <1>5 DEF WaitExitingVisit, thread_list_remove, TypeOK, RoundInv,
       FrozenInv, Frozen, SuspendPoints, HoldPoints, StateInv, RefInv,
       LiveThreadsListed, Alive, DepthInv, IInv
  <2>. QED BY <2>1, <2>2, <2>3, <2>4, <2>5, <2>6 DEF IInv
<1>6. CASE WaitExitingAssert
  <2>1. TypeOK'
    BY <1>6, ZenonT(30) DEF WaitExitingAssert, xnd_abort, TypeOK, DepthInv, RefInv,
       ThreadState, XndState, ProgramPoint, HandlerPoint, CkptPoint, Calls,
       IInv
  <2>2. StateInv'
    BY <1>6 DEF WaitExitingAssert, xnd_abort, TypeOK, StateInv, DepthInv,
       Alive, IInv
  <2>3. DepthInv'
    BY <1>6 DEF WaitExitingAssert, xnd_abort, TypeOK, StateInv, DepthInv,
       Alive, IInv
  <2>4. RefInv'
    BY <1>6 DEF WaitExitingAssert, xnd_abort, TypeOK, RefInv, StateInv, Alive,
       IInv
  <2>5. LiveThreadsListed'
    BY <1>6 DEF WaitExitingAssert, xnd_abort, TypeOK, LiveThreadsListed,
       StateInv, RefInv, Alive, IInv
  <2>6. (Paced => RoundInv /\ FrozenInv)'
    BY <1>6 DEF WaitExitingAssert, xnd_abort, TypeOK, RoundInv, FrozenInv,
       Frozen, SuspendPoints, HoldPoints, StateInv, RefInv, LiveThreadsListed,
       Alive, DepthInv, IInv
  <2>. QED BY <2>1, <2>2, <2>3, <2>4, <2>5, <2>6 DEF IInv
<1>7. CASE WaitExitingEnd
  <2>1. TypeOK'
    BY <1>7 DEF WaitExitingEnd, TypeOK, DepthInv, RefInv, ThreadState,
       XndState, ProgramPoint, HandlerPoint, CkptPoint, Calls, IInv
  <2>2. StateInv'
    BY <1>7 DEF WaitExitingEnd, TypeOK, StateInv, DepthInv, Alive, IInv
  <2>3. DepthInv'
    BY <1>7 DEF WaitExitingEnd, TypeOK, StateInv, DepthInv, Alive, IInv
  <2>4. RefInv'
    BY <1>7 DEF WaitExitingEnd, TypeOK, RefInv, StateInv, Alive, IInv
  <2>5. LiveThreadsListed'
    BY <1>7 DEF WaitExitingEnd, TypeOK, LiveThreadsListed, StateInv, RefInv,
       Alive, IInv
  <2>6. (Paced => RoundInv /\ FrozenInv)'
    BY <1>7 DEF WaitExitingEnd, TypeOK, RoundInv, FrozenInv, Frozen,
       SuspendPoints, HoldPoints, StateInv, RefInv, LiveThreadsListed, Alive,
       DepthInv, IInv
  <2>. QED BY <2>1, <2>2, <2>3, <2>4, <2>5, <2>6 DEF IInv
<1>8. CASE BarrierOpen
  <2>1. TypeOK'
    BY <1>8 DEF BarrierOpen, TypeOK, DepthInv, RefInv, ThreadState, XndState,
       ProgramPoint, HandlerPoint, CkptPoint, Calls, IInv
  <2>2. StateInv'
    BY <1>8 DEF BarrierOpen, TypeOK, StateInv, DepthInv, Alive, IInv
  <2>3. DepthInv'
    BY <1>8 DEF BarrierOpen, TypeOK, StateInv, DepthInv, Alive, IInv
  <2>4. RefInv'
    BY <1>8 DEF BarrierOpen, TypeOK, RefInv, StateInv, Alive, IInv
  <2>5. LiveThreadsListed'
    BY <1>8 DEF BarrierOpen, TypeOK, LiveThreadsListed, StateInv, RefInv,
       Alive, IInv
  <2>6. (Paced => RoundInv /\ FrozenInv)'
    BY <1>8 DEF BarrierOpen, TypeOK, RoundInv, FrozenInv, Frozen,
       SuspendPoints, HoldPoints, StateInv, RefInv, LiveThreadsListed, Alive,
       DepthInv, IInv
  <2>. QED BY <2>1, <2>2, <2>3, <2>4, <2>5, <2>6 DEF IInv
<1>9. CASE BarrierFull
  <2>1. TypeOK'
    BY <1>9 DEF BarrierFull, TypeOK, DepthInv, RefInv, ThreadState, XndState,
       ProgramPoint, HandlerPoint, CkptPoint, Calls, IInv
  <2>2. StateInv'
    BY <1>9 DEF BarrierFull, TypeOK, StateInv, DepthInv, Alive, IInv
  <2>3. DepthInv'
    BY <1>9 DEF BarrierFull, TypeOK, StateInv, DepthInv, Alive, IInv
  <2>4. RefInv'
    BY <1>9 DEF BarrierFull, TypeOK, RefInv, StateInv, Alive, IInv
  <2>5. LiveThreadsListed'
    BY <1>9 DEF BarrierFull, TypeOK, LiveThreadsListed, StateInv, RefInv,
       Alive, IInv
  <2>6. (Paced => RoundInv /\ FrozenInv)'
    BY <1>9 DEF BarrierFull, TypeOK, RoundInv, FrozenInv, Frozen,
       SuspendPoints, HoldPoints, StateInv, RefInv, LiveThreadsListed, Alive,
       DepthInv, IInv
  <2>. QED BY <2>1, <2>2, <2>3, <2>4, <2>5, <2>6 DEF IInv
<1>10. CASE WriteImage
  <2>1. TypeOK'
    BY <1>10 DEF WriteImage, TypeOK, DepthInv, RefInv, ThreadState, XndState,
       ProgramPoint, HandlerPoint, CkptPoint, Calls, IInv
  <2>2. StateInv'
    BY <1>10 DEF WriteImage, TypeOK, StateInv, DepthInv, Alive, IInv
  <2>3. DepthInv'
    BY <1>10 DEF WriteImage, TypeOK, StateInv, DepthInv, Alive, IInv
  <2>4. RefInv'
    BY <1>10 DEF WriteImage, TypeOK, RefInv, StateInv, Alive, IInv
  <2>5. LiveThreadsListed'
    BY <1>10 DEF WriteImage, TypeOK, LiveThreadsListed, StateInv, RefInv,
       Alive, IInv
  <2>6. (Paced => RoundInv /\ FrozenInv)'
    BY <1>10 DEF WriteImage, TypeOK, RoundInv, FrozenInv, Frozen,
       SuspendPoints, HoldPoints, StateInv, RefInv, LiveThreadsListed, Alive,
       DepthInv, IInv
  <2>. QED BY <2>1, <2>2, <2>3, <2>4, <2>5, <2>6 DEF IInv
<1>11. CASE barrier_release
  <2>1. TypeOK'
    BY <1>11 DEF barrier_release, TypeOK, DepthInv, RefInv, ThreadState,
       XndState, ProgramPoint, HandlerPoint, CkptPoint, Calls, IInv
  <2>2. StateInv'
    BY <1>11 DEF barrier_release, TypeOK, StateInv, DepthInv, Alive, IInv
  <2>3. DepthInv'
    BY <1>11 DEF barrier_release, TypeOK, StateInv, DepthInv, Alive, IInv
  <2>4. RefInv'
    BY <1>11 DEF barrier_release, TypeOK, RefInv, StateInv, Alive, IInv
  <2>5. LiveThreadsListed'
    BY <1>11 DEF barrier_release, TypeOK, LiveThreadsListed, StateInv, RefInv,
       Alive, IInv
  <2>6. (Paced => RoundInv /\ FrozenInv)'
    BY <1>11 DEF barrier_release, TypeOK, RoundInv, FrozenInv, Frozen,
       SuspendPoints, HoldPoints, StateInv, RefInv, LiveThreadsListed, Alive,
       DepthInv, IInv
  <2>. QED BY <2>1, <2>2, <2>3, <2>4, <2>5, <2>6 DEF IInv
<1>. QED BY ScanPreserves, <1>1, <1>2, <1>3, <1>4, <1>5, <1>6, <1>7, <1>8, <1>9, <1>10, <1>11
     DEF CkptStep

\* The inductive invariant holds in every reachable state, whatever the
\* threads, their programs and the number of checkpoints are.
THEOREM Inductive == Spec => []IInv
<1>1. IInv /\ [Next]_vars => IInv'
  BY ProgramPreserves, HandlerPreserves, CkptPreserves, StutterPreserves
     DEF Next
<1>. QED BY InitEstablishes, <1>1, PTL DEF Spec

\* Type correctness of the model of thread_info.c.
THEOREM TypeCorrect == Spec => []TypeOK
<1>1. IInv => TypeOK
  BY DEF IInv
<1>. QED BY Inductive, <1>1, PTL

\* A thread inside an unsafe region is never stopped there.
THEOREM UnsafeRegionsProtected == Spec => []UnsafeNotInterrupted
<1>1. IInv => UnsafeNotInterrupted
  BY DEF IInv, StateInv, DepthInv, UnsafeNotInterrupted, TypeOK, HandlerPoint
<1>. QED BY Inductive, <1>1, PTL

\* No live thread is ever missing from thread_list.
THEOREM NoThreadLost == Spec => []LiveThreadsListed
<1>1. IInv => LiveThreadsListed
  BY DEF IInv
<1>. QED BY Inductive, <1>1, PTL

\* If a request comes only once the previous round is over in every thread,
\* the image is written while every live thread is held in its handler.
THEOREM SnapshotIsQuiescent ==
  ASSUME Paced
  PROVE  Spec => []QuiescentSnapshot
<1>1. IInv => QuiescentSnapshot
  BY DEF IInv, FrozenInv, HoldPoints, QuiescentSnapshot
<1>. QED BY Inductive, <1>1, PTL

\* Under the same condition no thread leaves the barrier of thread_sighandler
\* before barrier_release.
THEOREM NoneLeavesTheBarrier ==
  ASSUME Paced
  PROVE  Spec => []ResumeAfterRelease
<1>1. IInv => ResumeAfterRelease
  BY DEF IInv, RoundInv, SuspendPoints, HoldPoints, ResumeAfterRelease, TypeOK,
     CkptPoint
<1>. QED BY Inductive, <1>1, PTL

-----------------------------------------------------------------------------
(* Who still refers to a descriptor *)

\* A thread is created or joined by one thread at a time, once.
ArgInv ==
  /\ \A t \in Threads : arg[t] \in Threads => pc[arg[t]] # "unborn"
  /\ \A s, t \in Threads : arg[s] \in Threads /\ arg[s] = arg[t] => s = t
  /\ \A u \in joined : \A t \in Threads : arg[t] # u

\* Who holds th->lock: the thread that joins th, th on its way out, or the scan.
OwnerInv ==
  \A u \in Threads :
    /\ lock[u] \in Threads =>
         \/ pc[lock[u]] = "join_check" /\ arg[lock[u]] = u
         \/ pc[u] = "exit_locked" /\ lock[u] = u
    /\ lock[u] = Ckpt =>
         /\ cur = u
         /\ cpc \in {"ld_running", "cas", "ld_signaled", "ld_suspended", "ld_suspinprog",
                     "ld_unsafe"}

\* The lists, and what the checkpoint thread still visits of them.
ListInv ==
  /\ todo \subseteq list
  /\ cur \in Threads => cur \in list \ todo
  /\ \A u \in list \cup zombies : pc[u] \notin {"unborn", "start"}
  /\ list \cap zombies = {}
  /\ reaped \subseteq joined \ (list \cup zombies)

\* Who may still use a descriptor: with this a joined thread that has left the
\* lists is nobody's any more.
ReapInv == ArgInv /\ OwnerInv /\ ListInv

\* The initial state satisfies it: no call is in progress, nothing is locked.
LEMMA InitEstablishesReap == Init => ReapInv
  BY ConstantsAssumption DEF Init, ReapInv, ArgInv, OwnerInv, ListInv

\* The handler of a thread (thread_sighandler) touches nothing it is about.
LEMMA HandlerKeepsReap ==
  ASSUME ReapInv, NEW t \in Threads, HandlerStep(t)
  PROVE  ReapInv'
<1>1. UNCHANGED <<pc, arg, lock, joined, listVars, cpc, todo, cur>>
  BY DEF HandlerStep, thread_sighandler, HandlerSave, BarrierLock, BarrierArrive,
     BarrierTest, BarrierWake, HandlerReturn, AssertCas, xnd_abort, threadVars,
     progVars, listVars, ckptVars
<1>. QED BY <1>1 DEF ReapInv, ArgInv, OwnerInv, ListInv, listVars

\* A step of a user thread in its program or in a hook preserves it: a thread is
\* joined once, by the one thread that took its lock.
LEMMA ProgramKeepsReap ==
  ASSUME IInv, ReapInv, NEW t \in Threads, ProgramStep(t) \/ ThreadStep(t)
  PROVE  ReapInv'
<1>. USE ConstantsAssumption DEF Runs, threadVars, progVars, sigVars, listVars,
     barVars, ckptVars
<1>1. CASE HookEnter(t)
  <2>1. ArgInv'
    BY <1>1 DEF HookEnter, Starts, unsafe_enter, TypeOK, RefInv, ArgInv,
       ReapInv, IInv
  <2>2. OwnerInv'
    BY <1>1 DEF HookEnter, Starts, unsafe_enter, TypeOK, RefInv, OwnerInv,
       ReapInv, IInv
  <2>3. ListInv'
    BY <1>1 DEF HookEnter, Starts, unsafe_enter, TypeOK, RefInv, ListInv,
       ReapInv, IInv
  <2>. QED BY <2>1, <2>2, <2>3 DEF ReapInv
<1>2. ASSUME NEW u \in Threads, JoinLock(t, u)
      PROVE  ReapInv'
  <2>1. ArgInv'
    BY <1>2 DEF JoinLock, Starts, TypeOK, RefInv, ArgInv, ReapInv, IInv
  <2>2. OwnerInv'
    BY <1>2 DEF JoinLock, Starts, TypeOK, RefInv, OwnerInv, ReapInv, IInv
  <2>3. ListInv'
    BY <1>2 DEF JoinLock, Starts, TypeOK, RefInv, ListInv, ReapInv, IInv
  <2>. QED BY <2>1, <2>2, <2>3 DEF ReapInv
<1>3. CASE ThreadExitLock(t)
  <2>1. ArgInv'
    BY <1>3 DEF ThreadExitLock, Starts, TypeOK, RefInv, ArgInv, ReapInv, IInv
  <2>2. OwnerInv'
    BY <1>3 DEF ThreadExitLock, Starts, TypeOK, RefInv, OwnerInv, ReapInv,
       IInv
  <2>3. ListInv'
    BY <1>3 DEF ThreadExitLock, Starts, TypeOK, RefInv, ListInv, ReapInv, IInv
  <2>. QED BY <2>1, <2>2, <2>3 DEF ReapInv
<1>4. CASE HookExit(t)
  <2>1. ArgInv'
    BY <1>4 DEF HookExit, unsafe_exit, TypeOK, RefInv, ArgInv, ReapInv, IInv
  <2>2. OwnerInv'
    BY <1>4 DEF HookExit, unsafe_exit, TypeOK, RefInv, OwnerInv, ReapInv, IInv
  <2>3. ListInv'
    BY <1>4 DEF HookExit, unsafe_exit, TypeOK, RefInv, ListInv, ReapInv, IInv
  <2>. QED BY <2>1, <2>2, <2>3 DEF ReapInv
<1>5. ASSUME NEW u \in Threads, PthreadCreate(t, u)
      PROVE  ReapInv'
  <2>1. ArgInv'
    BY <1>5 DEF PthreadCreate, TypeOK, RefInv, ArgInv, ReapInv, IInv
  <2>2. OwnerInv'
    BY <1>5 DEF PthreadCreate, TypeOK, RefInv, OwnerInv, ReapInv, IInv
  <2>3. ListInv'
    BY <1>5 DEF PthreadCreate, TypeOK, RefInv, ListInv, ReapInv, IInv
  <2>. QED BY <2>1, <2>2, <2>3 DEF ReapInv
<1>6. CASE PthreadCreateFails(t)
  <2>1. ArgInv'
    BY <1>6 DEF PthreadCreateFails, unsafe_exit, TypeOK, RefInv, ArgInv,
       ReapInv, IInv
  <2>2. OwnerInv'
    BY <1>6 DEF PthreadCreateFails, unsafe_exit, TypeOK, RefInv, OwnerInv,
       ReapInv, IInv
  <2>3. ListInv'
    BY <1>6 DEF PthreadCreateFails, unsafe_exit, TypeOK, RefInv, ListInv,
       ReapInv, IInv
  <2>. QED BY <2>1, <2>2, <2>3 DEF ReapInv
<1>7. CASE PthreadCreateDone(t)
  <2>1. ArgInv'
    BY <1>7 DEF PthreadCreateDone, unsafe_exit, TypeOK, RefInv, ArgInv,
       ReapInv, IInv
  <2>2. OwnerInv'
    BY <1>7 DEF PthreadCreateDone, unsafe_exit, TypeOK, RefInv, OwnerInv,
       ReapInv, IInv
  <2>3. ListInv'
    BY <1>7 DEF PthreadCreateDone, unsafe_exit, TypeOK, RefInv, ListInv,
       ReapInv, IInv
  <2>. QED BY <2>1, <2>2, <2>3 DEF ReapInv
<1>8. CASE thread_list_add(t)
  <2>1. ArgInv'
    BY <1>8 DEF thread_list_add, ListLocked, TypeOK, RefInv, ArgInv, ReapInv,
       IInv
  <2>2. OwnerInv'
    BY <1>8 DEF thread_list_add, ListLocked, TypeOK, RefInv, OwnerInv,
       ReapInv, IInv
  <2>3. ListInv'
    BY <1>8 DEF thread_list_add, ListLocked, TypeOK, RefInv, ListInv, ReapInv,
       IInv
  <2>. QED BY <2>1, <2>2, <2>3 DEF ReapInv
<1>9. CASE UnsafeCas(t)
  <2>1. ArgInv'
    BY <1>9 DEF UnsafeCas, TypeOK, RefInv, ArgInv, ReapInv, IInv
  <2>2. OwnerInv'
    BY <1>9 DEF UnsafeCas, TypeOK, RefInv, OwnerInv, ReapInv, IInv
  <2>3. ListInv'
    BY <1>9 DEF UnsafeCas, TypeOK, RefInv, ListInv, ReapInv, IInv
  <2>. QED BY <2>1, <2>2, <2>3 DEF ReapInv
<1>10. CASE Wait4Fails(t)
  <2>1. ArgInv'
    BY <1>10 DEF Wait4Fails, TypeOK, RefInv, ArgInv, ReapInv, IInv
  <2>2. OwnerInv'
    BY <1>10 DEF Wait4Fails, TypeOK, RefInv, OwnerInv, ReapInv, IInv
  <2>3. ListInv'
    BY <1>10 DEF Wait4Fails, TypeOK, RefInv, ListInv, ReapInv, IInv
  <2>. QED BY <2>1, <2>2, <2>3 DEF ReapInv
<1>11. CASE thread_start(t)
  <2>1. ArgInv'
    BY <1>11 DEF thread_start, TypeOK, RefInv, ArgInv, ReapInv, IInv
  <2>2. OwnerInv'
    BY <1>11 DEF thread_start, TypeOK, RefInv, OwnerInv, ReapInv, IInv
  <2>3. ListInv'
    BY <1>11 DEF thread_start, TypeOK, RefInv, ListInv, ReapInv, IInv
  <2>. QED BY <2>1, <2>2, <2>3 DEF ReapInv
<1>12. CASE JoinCheck(t)
  <2>1. ArgInv'
    BY <1>12 DEF JoinCheck, unsafe_enter, TypeOK, RefInv, ArgInv, ReapInv,
       IInv
  <2>2. OwnerInv'
    BY <1>12 DEF JoinCheck, unsafe_enter, TypeOK, RefInv, ArgInv, OwnerInv,
       ReapInv, IInv
  <2>3. ListInv'
    BY <1>12 DEF JoinCheck, unsafe_enter, TypeOK, RefInv, ListInv, ReapInv,
       IInv
  <2>. QED BY <2>1, <2>2, <2>3 DEF ReapInv
<1>13. CASE JoinWake(t)
  <2>1. ArgInv'
    BY <1>13 DEF JoinWake, TypeOK, RefInv, ArgInv, ReapInv, IInv
  <2>2. OwnerInv'
    BY <1>13 DEF JoinWake, TypeOK, RefInv, OwnerInv, ReapInv, IInv
  <2>3. ListInv'
    BY <1>13 DEF JoinWake, TypeOK, RefInv, ListInv, ReapInv, IInv
  <2>. QED BY <2>1, <2>2, <2>3 DEF ReapInv
<1>14. CASE PthreadJoin(t)
  <2>1. ArgInv'
    BY <1>14 DEF PthreadJoin, unsafe_exit, TypeOK, RefInv, ArgInv, ReapInv,
       IInv
  <2>2. OwnerInv'
    BY <1>14 DEF PthreadJoin, unsafe_exit, TypeOK, RefInv, ArgInv, OwnerInv,
       ReapInv, IInv
  <2>3. ListInv'
    BY <1>14 DEF PthreadJoin, unsafe_exit, TypeOK, RefInv, ListInv, ReapInv,
       IInv
  <2>. QED BY <2>1, <2>2, <2>3 DEF ReapInv
<1>15. CASE ThreadExitMark(t)
  <2>1. ArgInv'
    BY <1>15 DEF ThreadExitMark, TypeOK, RefInv, ArgInv, ReapInv, IInv
  <2>2. OwnerInv'
    BY <1>15 DEF ThreadExitMark, TypeOK, RefInv, OwnerInv, ReapInv, IInv
  <2>3. ListInv'
    BY <1>15 DEF ThreadExitMark, TypeOK, RefInv, ListInv, ReapInv, IInv
  <2>. QED BY <2>1, <2>2, <2>3 DEF ReapInv
<1>16. CASE ThreadDies(t)
  <2>1. ArgInv'
    BY <1>16 DEF ThreadDies, TypeOK, RefInv, ArgInv, ReapInv, IInv
  <2>2. OwnerInv'
    BY <1>16 DEF ThreadDies, TypeOK, RefInv, OwnerInv, ReapInv, IInv
  <2>3. ListInv'
    BY <1>16 DEF ThreadDies, TypeOK, RefInv, ListInv, ReapInv, IInv
  <2>. QED BY <2>1, <2>2, <2>3 DEF ReapInv
<1>. QED
  BY <1>1, <1>2, <1>3, <1>4, <1>5, <1>6, <1>7, <1>8, <1>9, <1>10, <1>11,
     <1>12, <1>13, <1>14, <1>15, <1>16 DEF ProgramStep, ThreadStep

\* A step of the scan of suspend_threads preserves it: a thread leaves the list
\* only in the step that stops examining it.
LEMMA ScanKeepsReap ==
  ASSUME IInv, ReapInv, ScanStep
  PROVE  ReapInv'
<1>. USE ConstantsAssumption DEF Runs, threadVars, progVars, sigVars, listVars,
     barVars, ckptVars
<1>1. CASE ScanStart
  <2>1. ArgInv'
    BY <1>1 DEF ScanStart, ArgInv, ReapInv
  <2>2. OwnerInv'
    BY <1>1 DEF ScanStart, TypeOK, RefInv, OwnerInv, ReapInv, IInv
  <2>3. ListInv'
    BY <1>1 DEF ScanStart, TypeOK, RefInv, ListInv, ReapInv, IInv
  <2>. QED BY <2>1, <2>2, <2>3 DEF ReapInv
<1>2. ASSUME NEW th \in Threads, ScanVisit(th)
      PROVE  ReapInv'
  <2>1. ArgInv'
    BY <1>2 DEF ScanVisit, thread_list_remove, TypeOK, RefInv, ArgInv,
       ReapInv, IInv
  <2>2. OwnerInv'
    BY <1>2 DEF ScanVisit, thread_list_remove, TypeOK, RefInv, OwnerInv,
       ReapInv, IInv
  <2>3. ListInv'
    BY <1>2 DEF ScanVisit, thread_list_remove, TypeOK, RefInv, ListInv,
       ReapInv, IInv
  <2>. QED BY <2>1, <2>2, <2>3 DEF ReapInv
<1>3. CASE ScanThLock
  <2>1. ArgInv'
    BY <1>3 DEF ScanThLock, ArgInv, ReapInv
  <2>2. OwnerInv'
    BY <1>3 DEF ScanThLock, TypeOK, RefInv, OwnerInv, ReapInv, IInv
  <2>3. ListInv'
    BY <1>3 DEF ScanThLock, TypeOK, RefInv, ListInv, ReapInv, IInv
  <2>. QED BY <2>1, <2>2, <2>3 DEF ReapInv
<1>4. CASE LoadRunning
  <2>1. ArgInv'
    BY <1>4 DEF LoadRunning, ScanFallsTo, ArgInv, ReapInv
  <2>2. OwnerInv'
    BY <1>4 DEF LoadRunning, ScanFallsTo, TypeOK, RefInv, OwnerInv, ReapInv,
       IInv
  <2>3. ListInv'
    BY <1>4 DEF LoadRunning, ScanFallsTo, TypeOK, RefInv, ListInv, ReapInv,
       IInv
  <2>. QED BY <2>1, <2>2, <2>3 DEF ReapInv
<1>5. CASE ScanSignal
  <2>1. ArgInv'
    BY <1>5 DEF ScanSignal, ScanFallsTo, ScanNext, thread_list_remove, ArgInv,
       ReapInv
  <2>2. OwnerInv'
    BY <1>5 DEF ScanSignal, ScanFallsTo, ScanNext, thread_list_remove, TypeOK,
       RefInv, OwnerInv, ReapInv, IInv
  <2>3. ListInv'
    BY <1>5 DEF ScanSignal, ScanFallsTo, ScanNext, thread_list_remove, TypeOK,
       RefInv, ListInv, ReapInv, IInv
  <2>. QED BY <2>1, <2>2, <2>3 DEF ReapInv
<1>6. CASE LoadSignaled
  <2>1. ArgInv'
    BY <1>6 DEF LoadSignaled, ScanFallsTo, ScanNext, thread_list_remove,
       ArgInv, ReapInv
  <2>2. OwnerInv'
    BY <1>6 DEF LoadSignaled, ScanFallsTo, ScanNext, thread_list_remove,
       TypeOK, RefInv, OwnerInv, ReapInv, IInv
  <2>3. ListInv'
    BY <1>6 DEF LoadSignaled, ScanFallsTo, ScanNext, thread_list_remove,
       TypeOK, RefInv, ListInv, ReapInv, IInv
  <2>. QED BY <2>1, <2>2, <2>3 DEF ReapInv
<1>7. CASE LoadSuspended
  <2>1. ArgInv'
    BY <1>7 DEF LoadSuspended, ScanFallsTo, ScanNext, ArgInv, ReapInv
  <2>2. OwnerInv'
    BY <1>7 DEF LoadSuspended, ScanFallsTo, ScanNext, TypeOK, RefInv,
       OwnerInv, ReapInv, IInv
  <2>3. ListInv'
    BY <1>7 DEF LoadSuspended, ScanFallsTo, ScanNext, TypeOK, RefInv, ListInv,
       ReapInv, IInv
  <2>. QED BY <2>1, <2>2, <2>3 DEF ReapInv
<1>8. CASE LoadSuspinprog
  <2>1. ArgInv'
    BY <1>8 DEF LoadSuspinprog, ScanFallsTo, ScanNext, ArgInv, ReapInv
  <2>2. OwnerInv'
    BY <1>8 DEF LoadSuspinprog, ScanFallsTo, ScanNext, TypeOK, RefInv,
       OwnerInv, ReapInv, IInv
  <2>3. ListInv'
    BY <1>8 DEF LoadSuspinprog, ScanFallsTo, ScanNext, TypeOK, RefInv,
       ListInv, ReapInv, IInv
  <2>. QED BY <2>1, <2>2, <2>3 DEF ReapInv
<1>9. CASE LoadUnsafe
  <2>1. ArgInv'
    BY <1>9 DEF LoadUnsafe, ScanNext, ArgInv, ReapInv
  <2>2. OwnerInv'
    BY <1>9 DEF LoadUnsafe, ScanNext, TypeOK, RefInv, OwnerInv, ReapInv, IInv
  <2>3. ListInv'
    BY <1>9 DEF LoadUnsafe, ScanNext, TypeOK, RefInv, ListInv, ReapInv, IInv
  <2>. QED BY <2>1, <2>2, <2>3 DEF ReapInv
<1>10. CASE ScanEnd
  <2>1. ArgInv'
    BY <1>10 DEF ScanEnd, ArgInv, ReapInv
  <2>2. OwnerInv'
    BY <1>10 DEF ScanEnd, TypeOK, RefInv, OwnerInv, ReapInv, IInv
  <2>3. ListInv'
    BY <1>10 DEF ScanEnd, TypeOK, RefInv, ListInv, ReapInv, IInv
  <2>. QED BY <2>1, <2>2, <2>3 DEF ReapInv
<1>. QED
  BY <1>1, <1>2, <1>3, <1>4, <1>5, <1>6, <1>7, <1>8, <1>9, <1>10 DEF ScanStep

\* Any other step of the checkpoint thread preserves it.
LEMMA CkptKeepsReap ==
  ASSUME IInv, ReapInv, ckpt_thread_wait \/ CkptStep
  PROVE  ReapInv'
<1>. USE ConstantsAssumption DEF Runs, threadVars, progVars, sigVars, listVars,
     barVars, ckptVars
<1>1. CASE WaitExitingStart
  <2>1. ArgInv'
    BY <1>1 DEF WaitExitingStart, ArgInv, ReapInv
  <2>2. OwnerInv'
    BY <1>1 DEF WaitExitingStart, TypeOK, RefInv, OwnerInv, ReapInv, IInv
  <2>3. ListInv'
    BY <1>1 DEF WaitExitingStart, TypeOK, RefInv, ListInv, ReapInv, IInv
  <2>. QED BY <2>1, <2>2, <2>3 DEF ReapInv
<1>2. ASSUME NEW th \in Threads, WaitExitingVisit(th)
      PROVE  ReapInv'
  <2>1. ArgInv'
    BY <1>2 DEF WaitExitingVisit, thread_list_remove, TypeOK, RefInv, ArgInv,
       ReapInv, IInv
  <2>2. OwnerInv'
    BY <1>2 DEF WaitExitingVisit, thread_list_remove, TypeOK, RefInv,
       OwnerInv, ReapInv, IInv
  <2>3. ListInv'
    BY <1>2 DEF WaitExitingVisit, thread_list_remove, TypeOK, RefInv, ListInv,
       ReapInv, IInv
  <2>. QED BY <2>1, <2>2, <2>3 DEF ReapInv
<1>3. CASE WaitExitingAssert
  <2>1. ArgInv'
    BY <1>3 DEF WaitExitingAssert, xnd_abort, ArgInv, ReapInv
  <2>2. OwnerInv'
    BY <1>3 DEF WaitExitingAssert, xnd_abort, TypeOK, RefInv, OwnerInv,
       ReapInv, IInv
  <2>3. ListInv'
    BY <1>3 DEF WaitExitingAssert, xnd_abort, TypeOK, RefInv, ListInv,
       ReapInv, IInv
  <2>. QED BY <2>1, <2>2, <2>3 DEF ReapInv
<1>4. CASE ckpt_thread_wait \/ SuspendStart \/ SuspendReset \/ WaitExitingEnd
          \/ BarrierOpen \/ BarrierFull \/ WriteImage \/ barrier_release
  <2>1. UNCHANGED <<pc, arg, lock, joined, listVars, todo, cur>>
    BY <1>4 DEF ckpt_thread_wait, SuspendStart, SuspendReset, WaitExitingEnd,
       BarrierOpen, BarrierFull, WriteImage, barrier_release
  <2>2. cur \notin Threads
    BY <1>4 DEF ckpt_thread_wait, SuspendStart, SuspendReset, WaitExitingEnd,
       BarrierOpen, BarrierFull, WriteImage, barrier_release, RefInv, IInv
  <2>. QED
    BY <2>1, <2>2 DEF ReapInv, ArgInv, OwnerInv, ListInv
<1>. QED
  BY ScanKeepsReap, <1>1, <1>2, <1>3, <1>4 DEF CkptStep

\* Together with the inductive invariant it holds in every reachable state.
THEOREM ReapInductive == Spec => []ReapInv
<1>1. ReapInv /\ UNCHANGED vars => ReapInv'
  BY DEF ReapInv, ArgInv, OwnerInv, ListInv, vars, threadVars, progVars, listVars,
     ckptVars
<1>2. IInv /\ ReapInv /\ [Next]_vars => ReapInv'
  BY ProgramKeepsReap, HandlerKeepsReap, CkptKeepsReap, <1>1 DEF Next
<1>. QED BY InitEstablishesReap, Inductive, <1>2, PTL DEF Spec

\* thread_reap frees the descriptor of a thread only when it is joined, in
\* neither list, not being examined, unlocked and named by no call in progress.
THEOREM NoneReapedTooEarly == Spec => []ReapedUnreferenced
<1>1. IInv /\ ReapInv => ReapedUnreferenced
  <2>. SUFFICES ASSUME IInv, ReapInv, NEW u \in reaped
                PROVE  /\ u \notin list \cup zombies
                       /\ cur # u
                       /\ lock[u] = NoOne
                       /\ ~Alive(u)
                       /\ \A t \in Threads : arg[t] # u
    BY DEF ReapedUnreferenced
  <2>1. u \in Threads /\ u \in joined /\ u \notin list \cup zombies /\ cur # u
    BY DEF IInv, TypeOK, ReapInv, ListInv
  <2>2. pc[u] = "dead" /\ \A t \in Threads : arg[t] # u
    BY <2>1 DEF IInv, RefInv, ReapInv, ArgInv
  <2>3. lock[u] = NoOne
    BY <2>1, <2>2 DEF IInv, TypeOK, ReapInv, OwnerInv
  <2>. QED BY <2>1, <2>2, <2>3 DEF Alive
<1>. QED BY Inductive, ReapInductive, <1>1, PTL

=============================================================================
