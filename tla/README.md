# A verification project for XND

XND checkpoints and restarts multi-threaded, multi-process programs on macOS
without changing them. A library (`libxnd`) is injected into every process of a
computation, a coordinator process drives all of them through a checkpoint, and
a restart program builds the process tree again from the files. This directory
models that system in TLA+, checks the models with TLC and proves theorems
about them with TLAPS. Paths below are relative to the repository's root.

## 1. Inventory

| Component | State it keeps | Operations | Model |
|---|---|---|---|
| Thread suspension and barrier (`xnd/thread_info.c`) | per thread `state`, `wrapper_depth`, `exiting`, `joined`, `lock`; `thread_list`, `zombie_list`; `threads_arrived`, `threads_expected`; `libxnd_state` | `suspend_threads`, `wait_for_exiting_threads`, `thread_sighandler`, `thread_barrier`, `barrier_arrival_wait`, `barrier_release`, `thread_list_add`/`remove`, `thread_reap` | `ThreadSuspension` |
| Restart of threads (second half of `thread_info.c`), signal hooks (`xnd/wrappers/signal_wrappers.c`, `xnd/platform/signal.c`), thread-local storage | saved contexts, masks, alternate stacks, `tls`; `sa_table` | `thread_save_*`, `thread_restore_*`, `restore_threads`, `thread_restart`, `sig_state_save`/`restore`, the four hooks | `ThreadRestart` |
| Pthread hooks (`xnd/wrappers/pthread_wrappers.c`) | the fields above | create, join, exit; `unsafe_enter`/`unsafe_exit` around the others | `ThreadSuspension` |
| Coordinator (`xnd/coordinator/xnd_coord.c`, `proc_list.c`) | process list with a state per process, epoch, number of peers, pid table | commands, checkpoint, restart, fork hand-shake, pid translation, roots, exit | `CoordinatedCheckpoint`, `PidTable`, `RestartTree` |
| Coordinator client (`xnd_coord_client.c`) | the connections, `oob_mutex`, epoch, `num_peers` | barriers, requests, fork hand-shake, translation, reconnection, disconnection | `CoordinatedCheckpoint`, `PidTable` |
| Checkpoint directories and manifest (`xnd/ckptfile.c`) | epoch directories, image files, manifest | create, list, unlink | `CoordinatedCheckpoint` (whole / partial / no file) |
| Writing and reading of an image (`xnd/vm_*.c`, `writeckpt.c`, `readckpt.c`) | regions with pages, protections; the file and its position | choose, write, correct, mark, map, read, protect | `MemoryImage` |
| Restart program (`xnd/xnd_restart.cpp`, `xnd_restart.h`) | relations between processes, groups, sessions | choose targets, fork, set groups and sessions | `RestartTree`; one step in `CoordinatedCheckpoint` |
| Virtual pids (`xnd/pid/`, `virtual_id_table.h`) | tables of virtual and real ids, own ids | translate, fork, wait, kill, proc_ calls, restart | `PidTable` |
| File descriptor table (`xnd/fd_table.c`, `xnd/wrappers/file_wrappers.c`) | one entry per open file, shared by dup | open, close, dup, freopen hooks; save; restore | `FdTable` |
| Mach-O parsing, pointer authentication, traps, compression, logging, environment, paths | - | - | not modelled: binary layouts, registers, formatting |

How they interact. A command reaches the coordinator over a socket. It sends
`XND_CKPT_REQUEST` to each process; the checkpoint thread of the process
answers `XND_CKPT_READY` and waits in a barrier. When all are ready the
coordinator makes the epoch's directory and releases them; each stops its user
threads by signal, saves signals, files and memory, and reports
`XND_CKPT_DONE`. The coordinator writes the manifest, releases the second
barrier, and removes the previous epoch's directory. User threads call the
coordinator as well (fork, pid translation), from inside *unsafe regions* in
which they cannot be stopped. On restart every process comes back from its
image, reconnects, waits in a third barrier, and opens its files again.

What is hard here: a scan over threads that change state under it; compare-and-
swap against a signal; counters that two rounds share; threads that end or are
joined while they are being stopped; processes that die, or are dead and not
yet waited for, at any point of a four-message protocol; a coordinator that
dies; directories that an interrupted round left behind; two epoch counters
kept separately; kernel and descriptor table that are updated one after the
other; two mutexes that a fork and a translation take in different orders; pids
that mean another process after a restart; a family of processes that has to be
forked in an order that makes each parent and each leader exist in time; images
of memory that was itself restored; threads that get the next checkpoint signal
before they have their context back. `PROJECT.json` lists each of these as a
hazard, at its line.

## 2. Modules

| Module | Content |
|---|---|
| `ThreadSuspension` | one process: user threads, signal handler, checkpoint thread |
| `ThreadSuspensionProofs` | inductive invariant and theorems about it |
| `CoordinatedCheckpoint` | coordinator, processes, connections, disk, crash and restart |
| `CoordinatedCheckpointProofs` | messages, epochs, counters and disk: inductive invariant and theorems |
| `FdTable` | descriptor table against the kernel, save and restore |
| `FdTableProofs` | reference counts, types, and table against kernel: inductive invariants and theorems |
| `PidTable` | virtual pids of a computation over fork, exit, wait and restart |
| `PidTableProofs` | whom each pid names: inductive invariant in three layers and theorems |
| `ProcessTree` | abstract: processes of a saved family are made once each, after their parents |
| `RestartTree` | how `xnd_restart` forks the family; implements `ProcessTree` |
| `RestartTreeProofs` | parents, leaders, and the refinement of `ProcessTree` |
| `MemoryImage` | regions, the file, and the memory that is made from it |
| `MemoryImageProofs` | what a file says of the memory it was made from: inductive invariant and theorems |
| `ThreadRestart` | contexts, masks, stacks, thread-local data and dispositions over restarts |
| `ThreadRestartProofs` | what is carried through checkpoint and restart: inductive invariant and theorems |
| `MC*` | instances for TLC: names of threads and processes, what each thread's program calls, symmetry |

Operators whose comment starts with "Mutant of" are faulty variants of a
definition. No specification uses them; each shows that some property would
notice that fault.

### ThreadSuspension

Each variable is a field of `struct thread_info` or a file-scope variable of
`thread_info.c`, plus a program point per thread (`pc`), per handler (`hpc`)
and for the checkpoint thread (`cpc`). `th->state` is an `_Atomic` field and
every comparison in the source is a load of its own, so the scan takes one step
per comparison (`LoadRunning`, `ScanSignal`, `LoadSignaled`, ...): this is where
its faults are. The scan visits the list in any order, which covers every order
of insertion. A condition variable is its predicate: every change of a
predicate is followed by a broadcast or signal. A failed `xnd_assert` sets
`aborted`, after which nothing moves; the default build (`DEVELOPMENT=1`) keeps
the assertions. `Ops` gives the calls each thread's program makes; `Paced` says
whether a request can come before every thread of the last round has left the
handler.

### CoordinatedCheckpoint

A connection is a pair of message sequences. A closed end gives EOF to the
reader after what was sent before, and SIGPIPE, which nothing handles, to the
writer. A process is `up`, `zombie` (ended, not waited for: `kill(pid, 0)` still
succeeds) or `gone`. Every message loop of the coordinator is one step per
process visited, because processes move on in between. The user threads of a
process are one thread that is either in its program, in a call that waits for
the coordinator, or stopped. The disk survives everything; an image is absent,
partial or whole. `Killed` and `CoordKilled` may strike between any two steps,
also between two unlinks of `xnd_ckptdir_unlink`, which removes the images and
the manifest one by one in any order (`UnlinkFile`). With `DiskFails`, making a
directory, an image, the manifest and a removal can fail, each with the branch
of the code.
`xnd_restart` starts a new coordinator and brings back the processes of a
manifest when no process of the computation is left.

### FdTable

The kernel side (descriptors, open file descriptions shared by dup, offsets) is
external and modelled as POSIX defines it. Each hook is two steps, the kernel
call and then the table under its lock, as in the source. `fd_table_restore` is
one step per descriptor of its two loops. The image records the table as it is
saved and, for the property alone, what the kernel's descriptors were and two
facts of its history. `apart`: a call entered its hook while a call of another
thread that changes a descriptor it is about, or is about one it changes, was not
yet in the table (`Clash`), so that kernel and table may have taken them in
different orders, or an inherited stream was on a descriptor from which another
was displaced (`Swapped`). `again`: the entries that an earlier checkpoint of the
incarnation had saved. `DescriptorsRestored` excepts images that are `apart`, and
the offsets of entries in `again`. These are losses of the code;
`AllDescriptorsRestored` has no exceptions, and the configurations `race`,
`resave` and `swap` violate it.

### PidTable

A process has an identity that nothing in the code sees, a real pid that the
kernel chooses in each incarnation, and a virtual pid from the coordinator. The
state is what the code keeps: per process its own ids and its table, the mutexes
of the table and of the out-of-band connection, the environment variables that
carry a child's pid through a fork; the coordinator's table and list. Every hook
is a path of steps: translate in the own table, else ask the coordinator, then
the call, then translate back. The coordinator answers only while it serves,
and not while it waits for the child of a fork. A ghost set records an answer or
an effect on the wrong process.

### RestartTree and ProcessTree

First the computation: processes fork, become leaders of groups and sessions,
and exit, so that the checkpoint holds any family the kernel allows. Then the
restart: each forked process runs `create_process` concurrently with the others,
first the children that are not in its group, then leadership, then those it
leads, and ends in `exec_restart`. `ProcessTree` says what is promised: each
saved process is made once, by its parent's process, with the relations its
header has. `RestoresTree` is that specification under the mapping of processes
of the restart to their targets. It is stated for *plain* families (`Plain`: no
orphans, and every process is in its parent's group and session or leads its
own). In others a process can be created twice or outside its group, as
`MCRestartTree_twice` and `MCRestartTree_groups` show; there `ParentsRestored`,
`LeadersRestored` and `AllRestored` still hold.

### MemoryImage

A page's content is the number of writes to it. The file is a sequence of units
with a position, so that short writes, seeks and corrections of a region's
header act as in `writeckpt.c`; reading consumes the units with the types that
`readckpt.c` expects, so that an image whose parts do not fit fails to be read.
Kinds of region differ as in `ckpt_vm_valid_region` and `vm_region.h`: mapped
files and stacks are saved always, `malloc` always but by dirty pages if these
are shorter, the shared cache and the dynamic loader only if written to (and the
loader's only where it may be written, or else the assertion ends the process:
`xnd_abort`), and the tags of `vm_checkpoint.c:43` never. What is promised to
come back is `Returns`: what these rules save. `asked` is the protection that the
program asked for last; the code changes `prot` under way. The regions still to be written are a set, and the next is the one
with the lowest number: the kernel reports them by address. The restart program's own regions are in the address space while
the image is read, and must not be in the next one.

### ThreadRestart

What the kernel keeps for a thread (registers, mask, alternate stack, thread
pointer) is separate from memory; an image holds memory only. The checkpoint
thread lives at one address in the first process and at a second in all later
ones. The set of threads is fixed and one pass of the scan is atomic per thread;
`ThreadSuspension` has those details. `sa_mask` of the handler, which
`xnd_setup` leaves unset, is any set. The next request may come while restored
threads are still in `thread_restart`.

## 3. Runs

Each is `tlc -config <cfg> <module>`, listed in `PROJECT.json`. Passing:

| Run (`MC<module>_<name>.cfg`) | Shows |
|---|---|
| `threads_rounds` | two threads, one created on the way, that may make any hooked call, over two checkpoints: `QuiescentSnapshot`, `ResumeAfterRelease`, `UnsafeNotInterrupted`, `LiveThreadsListed`, `ReapedUnreferenced`, `TypeOK` |
| `threads_live` | `CheckpointCompletes`, `ThreadsResume` under fairness, for threads that call hooks and create threads, unless the assertion of `thread_info.c:755` ends the process |
| `coord_crash` | three processes, three checkpoints, any two deaths (between two unlinks too), two restarts: `ManifestTruthful`, `Recoverable`, `TypeOK` |
| `coord_fork` | fork, exit, translation, deaths, files that cannot be written or removed, a restart with early commands: `EpochAgreement`, `MessagesExpected`, `NoEarlyResume` |
| `coord_live` | `CheckpointCompletes`, `BarriersOpen` with an exit and a death, for programs that wait for their children |
| `fd_again` | calls of two threads that interleave, two inherited streams, two checkpoints and two restarts in any order: `DescriptorsRestored`, `NoDanglingEntry`, `TypeOK` |
| `pid_restart` | three processes that fork, exit, are killed, wait and signal each other, a checkpoint and a restart with new pids: `EntriesCurrent`, `PidsStable`, `CallsReachTarget`, `TypeOK` |
| `pid_hooks` | all hooks that translate, failing forks, exec: `AnswersAreVirtual`; `HandshakeArrives` under fairness |
| `tree_orphans` | every family of up to four processes: `ParentsRestored`, `LeadersRestored`, `TypeOK` (with the assertions of `process_targets`), `AllRestored` under fairness, and the refinement `RestoresTree` |
| `image_again` | five regions, one of each kind, writes, truncation, page-out, protection, two restarts: `RestoredExactly`, `ImageReadable`, `OnlyUserRegions`, `ProtectionsKept`, `TypeOK` |
| `restart_again` | two threads, two restarts, two requests in each incarnation: `SuspendedInUserCode`, `ContextsRestored`, `ProcessRestored`, `EverybodyRunsOn` under fairness, `TypeOK` |

Ending in a counterexample, with a finding in `PROJECT.json` that quotes the
comment it contradicts:

| Run | What the code does |
|---|---|
| `coord_disk` | partial images are listed and the previous epoch is removed |

### Further counterexamples

These configurations are not in the list of runs. Each ends in a counterexample
too, and explains why a passing run is bounded the way it is.

| Configuration | Property | What the code does |
|---|---|---|
| `MCThreadSuspension_missed` | `AssertionsHold`, `ContextsSaved` | a thread that changes its state between two of the loads at lines 681 to 705 of `thread_info.c` matches no branch: the assertion at line 755 ends the process; one that goes from SUSPINPROG to SUSPENDED (line 702) is not counted, and the image is written before it is in the barrier |
| `MCThreadSuspension_exit` | `CheckpointCompletes` | `exiting` is tested before the lock (`thread_info.c:673`): thread and checkpoint wait for each other |
| `MCThreadSuspension_join` | `ScanNotLockedOut` | a joiner is stopped while it holds the lock the scan needs (`pthread_wrappers.c:95`) |
| `MCThreadSuspension_stale` | `CheckpointCompletes` | a request right after a release counts stale SUSPENDED states (`thread_info.c:702`) |
| `MCCoordinatedCheckpoint_unsafe` | `CheckpointCompletes` | a call to the coordinator inside an unsafe region against a checkpoint (`xnd_coord.c:786`): deadlock |
| `MCCoordinatedCheckpoint_miscount` | `StatesExpected` | a process that answered and is gone is in `ready` and not in `total` (`xnd_coord.c:681`); the assertion at line 325 then ends the coordinator |
| `MCCoordinatedCheckpoint_zombie` | `CheckpointCompletes` | an ended process nobody waited for keeps the loop running (`xnd_coord.c:681`) |
| `MCCoordinatedCheckpoint_leftover` | `CommandTakesCheckpoint` | a directory left by an interrupted round makes a later command do nothing (`xnd_coord.c:764`) |
| `MCCoordinatedCheckpoint_early_command` | `CheckpointCompletes` | a command during a restart makes the coordinator loop for ever (`xnd_coord.c:476`) |
| `MCFdTable_resave` | `AllDescriptorsRestored` | the second checkpoint of a process keeps the offsets of the first (`fd_table.c:196`); `README.md:95` promises them |
| `MCFdTable_race` | `AllDescriptorsRestored` | a late close hook removes the entry of a file opened meanwhile (`file_wrappers.c:78`) |
| `MCFdTable_swap` | `AllDescriptorsRestored` | inherited descriptors exchanged by dup2 are not restored (`fd_table.c:210`) |
| `MCPidTable_fork` | `AnswersAreVirtual` | two threads that fork share the environment variables of the child's pid (`xnd_coord_client.c:261`) |
| `MCPidTable_lock` | `HandshakeArrives` | fork and translation take `oob_mutex` and the table's mutex in opposite orders (`xnd_coord_client.c:211`) |
| `MCPidTable_orphan` | `CoordinatorSurvives` | a parent that ends during a fork makes the assertion at `xnd_coord.c:980` fail |
| `MCPidTable_pgid` | `PgidOfTarget` | `getpgid` compares a virtual with a real pid (`pid_wrappers.c:92`) |
| `MCPidTable_reuse` | `CallsReachTarget` | a real pid that the system hands out again is reached through an old entry |
| `MCRestartTree_twice` | `CreatedOnce` | an orphan whose group leader is still there is created by the leader and as a root of its own (`xnd_restart.cpp:203`) |
| `MCRestartTree_groups` | `GroupsRestored` | a process that stays in a group its parent has left is created before its leader and comes back in the wrong group (`xnd_restart.cpp:169`); `README.md:93` promises groups |
| `MCMemoryImage_seek` | `ImageReadable` | a write cut short by a full disk leaves the position wrong (`writeckpt.c:124`) |
| `MCMemoryImage_protect` | `ProtectionsKept` | the protection of a shortened region is put back for a part of it (`writeckpt.c:215`) |
| `MCMemoryImage_mark` | `OnlyUserRegions` | when marking fails, regions of the restart program get into the next image (`xnd_restart_internal.c:38`) |
| `MCThreadRestart_stray` | `SignalsInPlace` | a signal that all threads block is delivered to the checkpoint thread, or to a suspended one (`thread_info.c:513`, `xnd_lib.c:217`) |
| `MCThreadRestart_late` | `ProcessRestored` | slots of the checkpoint thread that change after `thread_save_tls` are lost in a second restart (`thread_info.c:933`) |

### Bounds

Every bound is a constant of its module. Two threads give the races between
the checkpoint thread, a thread that is being created, ends or is joined, and
the one that creates or joins it; two rounds show what a round leaves behind.
The theorems of section 4 cover any number of threads, processes and rounds for
the safety properties. Three processes allow one that is done, one that is late
and one that is dead; three rounds allow a complete epoch, its replacement, and
an interrupted one. In `coord_crash` two of three processes or coordinators may
die: if all three may (`MaxFaults = 3`), `Recoverable` fails, since an empty
checkpoint replaces the last good one. `fd_again` has two threads,
two inherited streams and two calls per incarnation, enough for a close and an
open that meet on a number, for two streams exchanged, and for a file that is
opened and moved, shared or closed around a checkpoint; entries and descriptions
suffice for all of it.
In `FdTable` calls that no checkpoint and restart can follow any more are cut.
Three processes, four virtual and three real pids let a child, its parent and a
stranger exchange calls, and a restart give each the pid of another; one thread
per process forks or waits and one process makes the other calls, since more
fail (`fork`, `lock`) and the hooks do not depend on who calls. `tree_orphans`
has four processes, which leaves room for an orphan in a group beside a tree of
three, and eight forks, more than the restart takes.
Two pages show a region that is partly dirty or truncated; the disk is never
full in `image_again` (`seek` has the full disk), and marking does not fail
(`mark`). The five regions are one of each kind, since the code treats them apart.
`Faults` gives each region what may happen to it, and leaves out what
is known to fail: a page of a dirty-only region that is in the compressor is not
reported as dirty and gets lost ("pageout"), a page of the shared cache that
cannot be accessed ends the restart unless it is the first ("efault"), as does a
mapping truncated to nothing ("empty"), and a truncated mapping does not change
its protection as well (`protect`).
`restart_again` lets the program take one step per incarnation, so that three
changes can be spread over two restarts; the checkpoint thread leaves its slots
alone between saving them and the image (`LateTouch`, see `late`).
Symmetry is used for addresses, files and threads in `FdTable`, which nothing
compares but for equality, and never with liveness.

Deadlock is not checked: programs end, and the bounded ones of these instances
run out of calls. Waiting for ever is what `CheckpointCompletes`,
`ThreadsResume`, `BarriersOpen`, `HandshakeArrives`, `AllRestored` and
`EverybodyRunsOn` are about.

### Fairness

`ThreadSuspension`: weak fairness of the checkpoint thread, of each thread
inside a hook and of each handler: the kernel schedules runnable threads. A
program is not obliged to call anything. Steps that take a mutex have strong
fairness: the scan drops its locks and sleeps (`usleep(50)`) between passes, so
a waiting thread gets its turn. `CoordinatedCheckpoint`: weak fairness of the
coordinator, of checkpoint threads and of user threads inside a call;
`ReapingSpec` adds that ended children are waited for, and is used only by
`coord_live` (the configuration `zombie` shows why it is needed). Deaths,
commands and restarts are never fair. `PidTable`: strong fairness of each thread inside a
hook, since the mutexes it waits for are free again and again, weak fairness of
the child's half of a fork and of the coordinator's end of one. `RestartTree`:
weak fairness of `xnd_restart` and of each process it forks. `ThreadRestart`:
weak fairness of each thread inside the handler and `thread_restart`, and of the
checkpoint thread; programs, requests, signals and restarts are free.

## 4. Proofs

`ThreadSuspensionProofs` proves, for any finite set of threads, any programs
and any number of calls and rounds:

* `TypeCorrect`: `Spec => []TypeOK`;
* `UnsafeRegionsProtected`: `Spec => []UnsafeNotInterrupted`;
* `NoThreadLost`: `Spec => []LiveThreadsListed`;
* `SnapshotIsQuiescent`: under `Paced`, `Spec => []QuiescentSnapshot`;
* `NoneLeavesTheBarrier`: under `Paced`, `Spec => []ResumeAfterRelease`;
* `NoneReapedTooEarly`: `Spec => []ReapedUnreferenced`.

All rest on `Inductive`, `Spec => []IInv`, where `IInv` is the conjunction of

* `TypeOK`;
* `StateInv`: `th->state` tells where the thread is: in which part of the
  handler, in an unsafe region, not yet started; a signal is on its way only to
  a thread that is SIGNALED. Without it nothing excludes a signal that reaches a
  thread which has just won the compare-and-swap of `unsafe_enter`;
* `DepthInv`: `wrapper_depth` and UNSAFE agree, but for a thread still in the
  compare-and-swap loop;
* `RefInv`: a create or join in progress names its thread, only dead threads are
  joined, and the checkpoint thread examines a thread of the list;
* `LiveThreadsListed`;
* if `Paced`, `RoundInv` (how far a handler can be in each phase of a round) and
  `FrozenInv` (a pass of `wait_for_exiting_threads` that needs no repetition has
  found every thread it visited stopped, and from its end on all of them are).

`NoneReapedTooEarly` also rests on `ReapInductive`, `Spec => []ReapInv`: a thread
is named by at most one create or join, and by none once it is joined (`ArgInv`);
`th->lock` is held by the thread that joins `th`, by `th` on its way out, or by the
scan while it examines `th` (`OwnerInv`); what the checkpoint thread visits is in
the list, no thread is in the list and the zombie list at once, and what is freed
is joined and in neither (`ListInv`). The invariant of the property alone is not
inductive: it does not exclude that two threads join the same one, of which the
second would still hold the descriptor that the first one's join released.

The only assumptions are those of `ConstantsAssumption`. `Paced` cannot be
dropped: `MCThreadSuspension_stale` shows what happens without it. One lemma per
group of actions shows that `IInv` is preserved, with a case per action.

`FdTableProofs` proves, for any number of descriptors, entries, files, threads,
calls and restarts, and for hooks of several threads in any order:

* `CountsInductive`: `Spec => []IInv`;
* `NoEntryDangles`: `Spec => []NoDanglingEntry`;
* `TypeCorrect`: `Spec => []TypeOK`, the bound on references included;
* `DescriptorsComeBack`: `Spec => []DescriptorsRestored`.

None has a hypothesis. The exceptions of `DescriptorsRestored` (section 2) cannot
be dropped: `MCFdTable_race`, `MCFdTable_resave` and `MCFdTable_swap` show what
happens without each.

Here `IInv` says that the calls in progress name descriptors (`HookType`), that
table and entries have their shape (`TableType`), and that an entry a slot
points to is in use and has a count of at least the number of its slots
(`Counted`), in the process and in its image. `NoDanglingEntry` alone is not
inductive: a close may free an entry only because the count is too small. The
count may be too large, since `fd_table_dup` onto an open descriptor gives up no
reference, hence "at least". The lemmas follow the operations on the table:
`OpenCounted`, `UnrefCounted`, `DupCounted`, and what leaves the counts alone.

`TypeOK` needs `Counted` (an entry that loses a reference has one) and `RefInv`
(every hook that has yet to count a reference finds room for it).
`DescriptorsRestored` looks at one phase; `KInv` says how it comes about. While
the program runs and nothing is `apart`, kernel and table agree (`Agree`: the
same descriptors open, the same ones shared, the same files) except at the
descriptors that calls under way have yet to record, where `HookAt` says what the
kernel has done; calls under way do not clash, so that each can be recorded
before or after the others. An image agrees on every descriptor and has the
offsets of the entries it saves for the first time (`GoodImage`); and after c
descriptors of a loop of `fd_table_restore` those it has passed are open and
shared as in the image (`InheritedAt`, `FilesAt`). The step from the first loop to
the second is where `Swapped` matters: a stream that replaced another one is
overwritten before it is copied.

`CoordinatedCheckpointProofs` proves, for any number of processes, rounds,
calls, deaths and restarts:

* `TypeCorrect`: `Spec => []TypeOK`, the bounds on counters and queues included;
* `MessagesAreExpected`: `Spec => []MessagesExpected`;
* `EpochsAgree`: `Spec => []EpochAgreement`;
* `ManifestsAreTruthful`: if `~DiskFails`, `Spec /\ []NeverEmpty => []ManifestTruthful`;
* `NoneResumesEarly`: `Spec => NoEarlyResume`;
* `AlwaysRecoverable`: if `~DiskFails`, `Spec /\ []NeverEmpty => []Recoverable`;
* `SomebodySurvives`, `TruthfulIfSomebodySurvives`,
  `RecoverableIfSomebodySurvives`: if `Surviving`, `Spec => []NeverEmpty`,
  `Spec => []ManifestTruthful` and `Spec => []Recoverable`.

None of these is inductive, and none can be proved apart from the others: what
the coordinator sends next follows from `p->state`, that from what it has read,
that from what the process has sent, and whether both are in the same epoch from
all three. `IInv` has the whole relation: `DownInv` and `UpInv` (what can be
under way at each point of a checkpoint thread), `LifeInv` (what a death leaves
behind), `LinkInv` (what `p->state` says about process and connection),
`AtforkInv` and `RestartInv` (a fork and a restart that are not over), `PhaseInv`
(the states at each point of `coord_do_checkpoint`), `EpochInv` and `RoundsInv`
(by how much the counts differ), `DirInv`, `ListedInv` and `ImageInv` (the
directory of the epoch). That the manifest is truthful needs a counting argument:
when `num_peers` reports were collected, the processes that sent them are the
ones still registered. A manifest may also list images that `xnd_ckptdir_unlink` has
removed, since it goes file by file and may be cut short; `ManifestTruthful` then
asks for another epoch that can be restarted, and `Recoverable` for one whose
images are all there and whole (`Restartable`). `~DiskFails` cannot be dropped, as
`coord_disk` shows.

`Recoverable` has invariants of its own on top of `IInv`. `RecInv` says that the
manifest of the epoch before the coordinator's exists, and one recent enough for
each process, dead ones included (`KeptInv`); that nobody is ahead of the
coordinator, except when just released and before the first process of a restart
has connected (`AgeInv`); and that processes still to connect find the manifest
they come from (`BackInv`). Removing the previous epoch's directory, or a part
of it, is then harmless, whatever dies or forks, with one exception: a checkpoint that is
completed when nobody is left has an empty manifest and still replaces the last
good one. `NeverEmpty` says that this does not happen. It is a hypothesis of
`ManifestsAreTruthful` and `AlwaysRecoverable` and a consequence of `Surviving`: fewer deaths than processes
launched, no exits, a disk that does not fail and no command during a restart,
which is what `coord_crash` assumes. For then nobody is forgotten: a restart waits
for all its processes and `coord_atfork` for the child (`CompleteInv`), so that the
processes that run, and those each manifest lists, are with the deaths at least as
many as were launched (`EnoughInv`).

`ThreadRestartProofs` proves, for any threads, signals and values, calls,
checkpoints and restarts:

* `TypeCorrect`: `Spec => []TypeOK`; the barrier counts each thread once;
* `InterruptsUserCode`: `Spec => []SuspendedInUserCode`;
* `ComesBackAsItWas`: `Spec => ContextsRestored`;
* `OwnStateRestored`: if `~LateTouch`, `Spec => []ProcessRestored`.

The invariant follows the data: what the kernel keeps of a thread is in the
frame and its `thread_info` while it is held (`HeldInv`), in the image
(`GoodImage`), and step by step in the kernel again (`BackInv`). `StateInv` and
`PhaseInv` say where threads can be; one part, that no checkpoint signal is
pending once the scan is over, came out of the proof. `~LateTouch` cannot be
dropped (`MCThreadRestart_late`).

`RestartTreeProofs` proves, for any number of processes:

* `TypeCorrect`: `Spec => []TypeOK`, and with it the assertions of
  `process_targets`;
* `LeadersComeBack`: `Spec => []LeadersRestored`;
* `ParentsComeBack`: if `"join" \notin Ops`, `Spec => []ParentsRestored`;
* `Refinement`: if `"join" \notin Ops`, `Spec => RestoresTree`.

Pids are handed out in order, and the processes of the restart are numbered in
the order of their forks; `TreeInv` and `InstInv` say that parents, leaders and
groups always have the lower number, which excludes a process that is put into a
group before the group exists. `OnceInv` (a target is owed by one process of the
restart and made by no other) and `PlaceInv` (groups and sessions are those of
the header) give the refinement, under the mapping of section 2. The
hypothesis cannot be dropped: when process 1 joins the group of its child, the
restored child takes it for a member of its group that has no parent and creates
it a second time, as an orphan, which violates both.

`PidTableProofs` proves, for any number of processes, pids, threads, calls and
restarts, and for hooks that interleave step by step:

* `TypeCorrect`: `Spec => []TypeOK`;
* `PidsAreStable`: `Spec => []PidsStable`;
* `EntriesAreCurrent`: if `OneForker`, `Spec => []EntriesCurrent`;
* `CallsReachTheirTarget`: if `OneForker` and `~Reuse`, `Spec => []CallsReachTarget`;
* `AnswersNameTheirProcess`: if `OneForker` and `~Reuse`,
  `Spec => []AnswersAreVirtual`.

`OneForker` says that `Forkers` has at most one thread, so that the forks of a
process follow one another; its other threads may be in any other hook.

The invariant has three layers, each proved from the ones below it.

* `Base`, without a hypothesis: own ids, the fork that the coordinator serves,
  and the image. No two processes of `Known` have the same virtual pid. `Known`
  holds more than the living: a process that has died is referred to by its
  parent until it is collected, by the coordinator's list until it is removed, and
  by a hook that is in the middle of a fork or a wait. Uniqueness
  alone is not inductive, since the coordinator of a restart begins to count at 1
  again and takes the next pid from the processes that connect; the invariant adds
  that every process that is known, except those that have yet to connect, is below
  the counter and below the pid reserved for a fork.
* `Tables`, under `OneForker`: what the coordinator and a process that runs have
  under a virtual pid is the real pid of the process that is called so. During
  `pid_table_postrestart` this holds of the entries already brought up to date
  (`Fresh`); during a fork the environment has the pid of the child (`EnvInv`).
* `Owners`, under `~Reuse` too: a real pid in a table is nobody else's. A call
  may still use the entry of a process that is gone, so that a current table is not
  enough for the call to reach its target.

Neither hypothesis can be dropped: `MCPidTable_fork` shows two forks of one
process exchange the pids of their children, and `MCPidTable_reuse` a signal that
reaches a new process through the entry of one that is gone.

`MemoryImageProofs` proves, for any number of regions, pages, writes,
checkpoints and restarts:

* `TypeCorrect`: `Spec => []TypeOK`;
* `OwnNotSaved`: if `~MarkFails`, `Spec => []OnlyUserRegions`, on any disk and
  with any faults;
* `ProtectionsAreKept`, `ImagesAreReadable`, `MemoryIsRestored`: if `Benign`,
  `Spec => []ProtectionsKept`, `Spec => []ImageReadable` and
  `Spec => []RestoredExactly`.

`Benign` is the conjunction of `~MarkFails`, `Roomy` (every file size of `Caps`
has room for an image with all pages of all regions) and `Tame` (what `Faults`
leaves out, see Bounds, said of any regions; truncation of a mapping, page-out
of pages that are written whole, and `mprotect`, also for good, outside the shared
cache remain). `image_again` is an instance. `ProtectionsKept` compares with
`asked`, and `RestoredExactly` with the memory of which the image was made, of the
regions that `Returns` names. No part can be dropped: `MCMemoryImage_mark`,
`_seek` and `_protect` are counterexamples without one, and "pageout", "empty" and "efault" give others.

`RestoredExactly` relates memory to a memory that is gone, by way of a file. The
file carries the invariant: `GoodImage(f, v)` says that `f` describes the memory
`v` and can be taken apart in one way only. Each region struct is followed by as
many units as it announces (`End`), then by the tag of the next entry
(`Entries`), and the units are the pages of the region (`Holds`): all that can be
accessed, or each dirty page once. The writer has such a file up to the entry in
hand (`WriteInv`) and, within the entry, up to the page in hand (`DirtyInv`,
`AllInv`); its size is bounded by the regions still to do, so that no write is
cut short. The reader walks along the file: what is behind it is back in memory
(`ReadInv`), the region in hand is back up to the page that comes next
(`DirtyReadInv`, `AllReadInv`), and `left[1]` is the number of regions ahead.
`PagesInv` says why the rest of a region that is saved by its dirty pages can be
left out: its other pages are as they came. One part was found by the proof: that
a region struct occurs at most once per region, without which what has been read
back could be mapped afresh.

That `prot` and `asked` agree whenever the program runs is `AskedInv`: between
two requests the code's own changes cancel out, and what an image says of a
region it saved is what was asked for when it was made.

Model-checked only: liveness (`CheckpointCompletes`, `ThreadsResume`,
`BarriersOpen`, `HandshakeArrives`, `AllRestored`, `EverybodyRunsOn`), since the
prover has no fairness reasoning. Each safety property of a passing run is stated
by a theorem.

## 5. Not modelled, and the plan

1. An abstract checkpoint (a computation is saved at one point of its history or
   not at all) that `CoordinatedCheckpoint` implements when nothing fails.
2. The atfork handlers of the thread list, the end of the checkpoint thread, and
   `XND_KILL_CMD`.
3. Directory streams and access flags in `FdTable`; that `pthread_cancel` ends
   another thread (`pthread_wrappers.c:270`), of which `ThreadSuspension` has the
   unsafe region.
4. The 256 ids of the manifest and the fixed array of regions: both bounds are
   beyond what TLC can fill, and what an overrun does is not defined.

Regions that `ckpt_vm_valid_region` never saves (the tags REALLOC, GUARD,
SHARED_PMAP and UNSHARED_PMAP) are in the model and are not restored, and no
property says that they are.

Left out for good: Mach-O parsing and symbol patching, pointer authentication
and traps, compression, paths, environment, logging and printing. They are
layouts and conversions without state that several steps or actors share.
