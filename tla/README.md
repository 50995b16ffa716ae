# Verification of the process/thread core of src/src, its user-level synchronisation and its file-system log

This directory holds TLA+ models of the process/thread execution core in
`src/src` and of the write-ahead log of `log.c`. It has TLC configurations that model-check them on small
instances, and TLAPS proofs of the main safety properties for every instance
size. `PROJECT.json` lists the components, runs, mutants, source map,
findings, hazards and theorems in machine-readable form. This README
explains them.

## 1. The system

| Part | Source | What it does |
|------|--------|--------------|
| Process table | `proc.c` `ptable`, `allocproc`, `userinit`, `nextpid` | `NPROC` slots guarded by the spinlock `ptable.lock`. `allocproc` takes the first UNUSED slot, marks it EMBRYO, gives it `nextpid++` and drops the lock. It then allocates the kernel stack; if that fails, it resets the slot to UNUSED without the lock. |
| Scheduler | `proc.c` `scheduler` | One loop per CPU. It acquires `ptable.lock`, scans the table in order, and on each RUNNABLE slot sets `c->proc = p`, marks it RUNNING and `swtch`es to it. When control comes back it clears `c->proc` and continues the scan *after* that slot. At the end of the table it releases the lock. |
| Context-switch protocol | `sched`, `yield`, `forkret` | A process enters `sched()` holding `ptable.lock` with its state already changed. The lock is handed across `swtch`: the scheduler acquires it and the process it dispatched releases it (`forkret` on a first run, the tail of `yield`, the return of `sleep`). |
| Lifecycle | `fork`, `exit`, `wait`, `kill` | `fork` allocates and copies (a `copyuvm` failure rolls back without the lock), then publishes RUNNABLE under the lock. `exit` wakes the parent, reparents its children to init (waking init if one is a ZOMBIE), becomes ZOMBIE and never returns. `wait` scans its children: it reaps a ZOMBIE (`freevm`, slot UNUSED), fails if it has no children or is killed, and otherwise `sleep`s on itself. `kill(pid)` sets `killed` on the first slot with that pid and wakes it. |
| Sleep/wakeup | `sleep`, `wakeup1`, `wakeup` | A channel rendezvous serialised by `ptable.lock`. |
| Thread layer | `thread_create`, `thread_join`, `thread_exit` | A thread is a process slot that shares its creator's `pgdir` and has `isThread = 1`. `thread_join` is `wait` restricted to thread children and does not free anything. `thread_exit` is a copy of `exit`. |
| Kernel mutex / condition sleep | `kernel_mutex_lock/unlock`, `mysleep`, `mywakeup` | A condition-variable primitive for user threads. `mysleep` takes `ptable.lock` before it releases the caller's mutex. |
| User-level synchronisation | `lockFunc.h`, `extracredit1.c` | Spin locks and mutexes built on `xchg`, and semaphores and a one-slot message queue built on `mysleep/mywakeup`. |
| Log | `log.c` `initlog`, `begin_op`, `log_write`, `end_op`, `commit` | A write-ahead log. `begin_op` admits a call only if no commit runs and `lh.n + (outstanding+1)*MAXOPBLOCKS <= LOGSIZE`, else it sleeps on `&log`. `log_write` records a modified cached block in `log.lh` (absorbing repeats). The last `end_op` commits: `write_log` copies the blocks to the log area, `write_head` writes the header (the commit point), `install_trans` copies them home, and the header is cleared. At boot `recover_from_log` replays a committed header. |
| Other | `exec.c`, `dump.c`, `ps.c`, `main.c` | ELF loading, memory dump, process listing and boot. These are I/O and data layout. |

The parts interact as follows:
- A system call (`sysproc.c`) runs one lifecycle operation on the CPU where the calling process runs.
- Every blocking path goes through `sleep` and hence `sched()`.
- Every state change of a slot (except the lock-free failure paths of `allocproc`/`fork`) happens under `ptable.lock`.
- File-system calls (`exit`'s `iput`, `thread_exit`, `exec`) bracket their disk writes with `begin_op`/`end_op`; the first process's `forkret` runs `initlog`.

## 2. Modules

### `ProcTable.tla`: process table, scheduler, lifecycle and threads

**Constants**
- `NPROC`: the number of slots.
- `CPUs`: the set of CPUs.
- `NoCpu`: the value of `lock` when it is free.
- `MaxPid`: a bound on `nextpid`, so that allocation stops once it is reached.

The assumption `ConstantsAssumption` gives them their types.

**Representation**
- Slots are `1..NPROC` in table order, because every scan takes the first match.
- 0 stands for a null pointer.
- An address space is named by the pid of the process `copyuvm` (or `setupkvm` in `userinit`) made it for. Every fork therefore gets a fresh name.
- `frees[a]` counts the `freevm` calls on `a`.

**State**
- The slot fields `state`, `pid`, `parent`, `killed`, `isThread`, `chan` and `pgdir`.
- `nextpid`.
- For each CPU, `cproc` (`c->proc`) and `pos` (the scheduler loop's `p`).
- `lock` (the holder of `ptable.lock`).
- For each slot, its kernel thread's location `pc` and `child` (the `np` of a `fork`/`thread_create` in progress).

**Actions.** Each action covers the code between two points where another CPU can observe the table.

| Action | Code |
|--------|------|
| `SchedAcquire`, `SchedDispatch`, `SchedRelease` | `scheduler`: acquire and restart the scan; bind the first RUNNABLE slot at or after `pos`; release at the end of the table. |
| `Sched` (helper) | `sched()` and the scheduler's code after `swtch`: clear `c->proc`, advance the scan, keep the lock. |
| `Forkret`, `Yield`, `YieldReturn` | `forkret`; `yield` up to `sched()`; `yield` after it. |
| `AllocProc` (`ForkAlloc`, `ThreadCreateAlloc`) | `allocproc`'s critical section. |
| `ForkFail`, `ThreadCreateFail` | The lock-free rollback when `kalloc` or `copyuvm` fails. |
| `ForkDone`, `ThreadCreateDone` | The rest of `fork`/`thread_create`: new `pgdir` vs shared `pgdir` and `isThread`; RUNNABLE under the lock. |
| `Exit`, `ThreadExit` | The whole locked part of `exit`/`thread_exit`, ending in `sched()`. The file closing before the lock changes no table state. |
| `Wait`, `WaitResume`, `ThreadJoin`, `ThreadJoinResume` | One pass of the scan loop, either as the first pass or after returning from `sleep` (which clears `chan`). Each pass is `WaitReap`, `WaitNoKids` or `WaitSleep` (`sleep(curproc, &ptable.lock)`, ending in `sched()`). |
| `Kill` | `kill(k)` for each `k` in `0..MaxPid`. |

`Next` lets each CPU either take a scheduler step or let its current process take one of its steps.

Left out of `ProcTable`, and why:
- Process-level preemption inside the kernel: a timer interrupt can only reach `yield` from user mode, which is `pc = "user"`.
- The `killed` check in `trap()`: a killed process may always call `exit`, which the model allows anyway.
- `growproc` and `exec`: they change no table field.

### `ProcKstack.tla` and `MCProcKstack.tla`

`ProcKstack` extends `ProcTable` with the kernel stacks: `kstack[p]` says whether `p->kstack` points to a page, and `kpages` counts the pages `kalloc` has handed out as kernel stacks and not taken back. Each of its steps is a step of `ProcTable` together with what that code does to the stacks:
- `KstackAlloc`: `allocproc`'s `p->kstack = kalloc()` (`proc.c:90`).
- `KstackFail`: `fork`'s `kfree(np->kstack)` when `copyuvm` fails (`proc.c:207`). It also covers the `kalloc` failure inside `allocproc`, taken as a page given back at once, which leaves the same state.
- `KstackWait`: `wait`'s `kfree(p->kstack); p->kstack = 0` for the child it reaps (`proc.c:300`).
- `KstackJoin`: `thread_join`'s `p->kstack = 0`, with the `kfree` commented out (`proc.c:703`).
- `KstackKeep`: every other step, `exit` included. A ZOMBIE keeps its stack until it is reaped.

`KstackOwned` says every page counted in `kpages` is some slot's stack. `MCProcKstack` uses the same constants and CPU symmetry as `MCProcTable`.

### `MCProcTable.tla`

This module instantiates `ProcTable` with two CPUs as model values. It declares symmetry over the CPUs, which is sound because nothing distinguishes one CPU from another.

### `ProcTableProofs.tla` and `ProcTableSafetyProofs.tla`

These modules hold the TLAPS proofs about the table (section 5). `ProcTableProofs` proves the scheduler invariant `IInv`. `ProcTableSafetyProofs` extends it and proves the lock hand-off, wakeup, reparenting and pid invariants through the stronger `SafetyInv`.

### `UserSync.tla`: `mysleep`/`mywakeup`, user locks, semaphores and the message queue

This module models the user-level synchronisation of `lockFunc.h`, `extracredit1.c` and `thread.c`, together with the kernel calls they are built on (`mysleep`, `mywakeup` and `kernel_mutex_*` in `proc.c`). Threads are model values in five sets, one per worker function: `Producers` (`prod_work`), `Consumers` (`cons_work`), `Senders` (`write_work`), `Receivers` (`read_work`) and `Depositors` (`do_work` of `thread.c`).

State:
- `owner[o]` is the lock word of each mutex or spin lock: the thread whose `xchg` set it, or `NoThread`. The objects are the two semaphores' `ml`, `messageQ.ml`, `printLock`, and `thread.c`'s `lock` and `ml`.
- `num[s]` is `semm->num`, `ptr` is `messageQ.ptr` (a message is its sender's identity), `queue` is the ring of `semm_test`, and `balance` is `total_balance`.
- `asleep[t]` and `chan[t]` are the only parts of the kernel's process slot that `mysleep`/`mywakeup` read or write: `p->state == SLEEPING` and `p->chan`. A channel is the object whose `cv` it points to.
- `pc`, `sem`, `ret`, `count`, `idx`, `old` and `got` are each thread's program counter and locals. `sem`/`ret` hold the semaphore and return point of a `sem_wait`/`sem_post` in progress.

Actions and the code they model:

| Action | Code |
|--------|------|
| `Acquire`, `Release` (helpers) | `thread_mutex_lock/unlock`, `thread_spin_lock` (`lockFunc.h`): the successful `xchg`. Failed attempts (spin, `sleep(1)` or `yield()` and retry) change nothing and are stutters. |
| `MySleep` (helper) | `mysleep` up to `sched()`: under `ptable.lock` release the caller's mutex, set `p->chan` and SLEEPING. This is one step because `mywakeup` also runs under `ptable.lock`. |
| `LockStep` (helper) | The lock step of `sem_wait` and `recv`. It is either the first `thread_mutex_lock`, or, for a thread that is RUNNABLE again, the end of `mysleep`: clear `p->chan`, then `kernel_mutex_lock` the mutex. |
| `MyWakeup` (helper) | `mywakeup`: every SLEEPING thread on that channel becomes RUNNABLE. |
| `SemWaitLock`, `SemWaitCheck` | `sem_wait`: lock; `while (num == 0) thread_cond_wait`; `num--`; unlock. |
| `SemPostLock`, `SemPostInc`, `SemPostSignal` | `sem_post`: lock; `num++`; unlock; then `thread_cond_signal`, after the unlock. |
| `WorkTop`, `PrintLock`, `ProdCrit`, `ConsCrit`, `WorkNext` | The loops of `prod_work`/`cons_work`. `ProdCrit` and `ConsCrit` are the `printLock` critical sections together with the unlock. `printf` and `sleep(1)`/`sleep(3)` are left out. |
| `SendLock`, `SendPut` | `send`: lock; spin while `q->ptr != 0` (no step: the thread makes no progress); store, signal, unlock. |
| `RecvLock`, `RecvCheck` | `recv`: lock; `while (ptr == 0) thread_cond_wait`; take the message, unlock. |
| `DepTop` … `DepUnlock` | `do_work`: spin lock, mutex, `old = total_balance`, `total_balance = old + 1`, both unlocks. The two unlocks are one step because every taker of `ml` holds `lock` first. |

`NoHang` is stated with `ENABLED Next`: a thread that spins in `send` or sleeps in `mysleep` has no enabled step. The runs use `CHECK_DEADLOCK FALSE` because a terminated test (every worker at `thread_exit`) is a legitimate final state. `NoHang` is the deadlock check minus that final state.

`MCUserSync.tla` provides the model values. `UserSyncProofs.tla` proves the library invariants. `UserSyncClientProofs.tla` proves the ring buffer of `semm_test` and the read-modify-write of `do_work` (section 5).

### `FsLog.tla`: the write-ahead log of `log.c`, with crashes

State. Disk state survives a crash:
- `home`: the home copy of every block;
- `logdisk`: the log blocks;
- `dhead`: the on-disk header, as a sequence of block numbers.

Memory state is lost on a crash:
- `cache`: the buffer cache's data of every block;
- `lh`: `log.lh`;
- `outstanding` and `committing`: their namesakes;
- per thread: `pc` (its place in the code), `nw` (`log_write` calls in this call), `wb` (the block being passed to `log_write`) and `done` (calls finished);
- `tail`: the loop index of `write_log` and `install_trans`;
- `rpc`: where boot-time recovery is (`"read"`, `"install"`, `"up"`).

Block numbers and contents are small sets (`Blocks`, `Vals`). The constants mirror the code's parameters:
- `LOGSIZE` and `MAXOPBLOCKS` are the compile-time constants;
- `LogSize` is `log.size`, the superblock's `nlog`, which includes the header block;
- `Ops` bounds the calls per thread and `MaxCrash` the crashes per behaviour.

| Action | Code |
|--------|------|
| `Init`, `RecoverRead`, `RecoverInstall`, `RecoverClear` | `initlog` → `recover_from_log`: `read_head`, `install_trans` one block per step, then `lh.n = 0; write_head()`. |
| `BeginOp` | `begin_op`: sleep on `&log` if `committing` or the reservation does not fit; otherwise `outstanding += 1`. A woken thread tests again. |
| `OpWrite` | The call modifies a cached block and calls `log_write(bp)` (the typical use of `log.c:226`), at most `MAXOPBLOCKS` times. |
| `LogWriteCheck` | `log_write`'s two panics, tested *before* `log.lock` is taken. |
| `LogWriteAdd` | Under the lock: absorb the block if `lh` holds it, else append; `B_DIRTY` keeps it cached. |
| `EndOp` | `end_op`: `outstanding -= 1`; panic if `committing`; the last call sets `committing` and goes on to `commit`, and any other call does `wakeup(&log)`. |
| `CommitWriteLog`, `CommitWriteHead`, `CommitInstall`, `CommitClear` | `commit`: `write_log` one block per step, `write_head` (the commit point), `install_trans`, then the header is cleared. With `lh.n = 0` nothing is written. |
| `CommitEnd` | Back under the lock: `committing = 0; wakeup(&log)`. |
| `Crash` | Power failure, or the reboot after a panic: memory is reset and `initlog` runs again. A call in progress is lost and made again. |

A `panic` stops the machine: every thread action requires `~Halted`, so only `Crash` follows. Each disk write is one atomic step, which is the block-level atomicity the log relies on.

`Fairness` is weak fairness on every thread's steps and on recovery. xv6's scheduler is round-robin, so a RUNNABLE process (here, a thread with an enabled step) is eventually run. Recovery runs in the first process's `forkret`. `Crash` has no fairness. `wakeup(&log)` is modelled as making every sleeper `"woken"`; a woken thread re-runs `begin_op`'s test.

### `AtomicDisk.tla` and the refinement

`AtomicDisk` states what the log promises without the log. Calls open and close (`open`), and open calls update a memory view `mem`. The durable `disk` takes the whole of `mem` at once, and only when no call is open. A crash resets `mem` to `disk` and closes every call.

`FsLog` instantiates it with `disk <- Durable`, `mem <- Seen` and `open <- outstanding`:
- `Durable` is the disk as recovery would leave it: each block's logged copy if the on-disk header holds it, else its home copy.
- `Seen` is the buffer cache when the system is up, and `Durable` during recovery.

`AtomicCommit == Abs!ASpec` is checked by TLC as a property, and proved. The action correspondence is:
- `BeginOp`'s admit is `ABegin`, and `EndOp` is `AEnd`;
- `OpWrite` is `AWrite`;
- `CommitWriteHead` of a non-empty header is `ACommit`;
- `Crash` is `ACrash`;
- every other step is a stutter.

`MCFsLog.tla` gives the model values and starts from a zeroed disk.

## 3. Runs

The `ProcTable` runs use `NPROC = 3`, `MaxPid = 4` and two CPUs.

| Run | Checks | Result |
|-----|--------|--------|
| `proctable_safety` (`MCProcTable.cfg`) | `TypeOK`, `RunningOnOneCpu`, `LockHandoff`, `WaiterHasNoZombie`, `ParentAlive`, `LivePidsUnique` | pass: 730 343 distinct states, depth 49 |
| `kill_free_slot` | `FreeSlotNotKilled` | violated: `kill(0)` marks an UNUSED slot killed |
| `wait_frees_shared_space` | `NoUseAfterFree` | violated: `wait` frees a thread's shared `pgdir` |
| `join_leaks_kstack` (`MCProcKstack.cfg`) | `KstackOwned` | violated: `thread_create`, `thread_exit`, `thread_join` loses the thread's kernel stack page |
| `stale_thread_flag` | `ThreadSharesAddressSpace` | violated: a fork into a reaped thread's slot is flagged a thread |

What the properties say:
- `RunningOnOneCpu`: a slot is RUNNING exactly when some CPU's `c->proc` points to it, and no two CPUs point to the same slot.
- `LockHandoff`: a dispatched process holds `ptable.lock` exactly while it runs the continuation after `swtch` (`forkret`, the end of `yield`, the rescan of `wait`/`thread_join`). This is the protocol `sched()`'s `holding` check and `forkret`'s release depend on.
- `WaiterHasNoZombie`: no lost wakeup. A process asleep in `wait` (`thread_join`) has no ZOMBIE child (thread child) it could reap. This takes several actors to break: a child exiting and a parent scanning on another CPU.
- `ParentAlive`: every live non-init process has a live, non-ZOMBIE parent. This is exit's reparenting racing with the children's own exits.
- `LivePidsUnique`: live slots have distinct pids below `nextpid`, including across the lock-free failure path.

The inductive invariants of the proofs, `IInv` and `SafetyInv` (section 5), were checked with TLC on this instance before they were proved. They are not listed as properties of the run: they are conjunctions of the invariants above with facts that hold by the shape of the actions, and they say nothing about the code that the run does not already check.

**Bounds.** Three slots are enough for init, a child and a grandchild (or a thread). That covers reparenting, a thread beside a process, and a full table where `allocproc` fails. `MaxPid = 4` allows three allocations beyond init. Together these let a slot be reused after reaping, which is what the stale `killed`/`isThread` findings need. Two CPUs are the least that exhibit double dispatch and the lock hand-off between CPUs.

The `UserSync` runs:

| Run | Checks | Result |
|-----|--------|--------|
| `usersync_safety` (`MCUserSync.cfg`) | `TypeOK`, `NoLostWakeup`, `BufferSafe`, `NoHang`, `BufferInv` | pass: one producer and one consumer, `NUM = 2`, `MAX_NUM = 2`, with one sender and one receiver; 4 185 distinct states |
| `thread_balance` (`MCUserSync_Balance.cfg`) | `BalanceExact`, `NoHang`, `RmwExclusive` | pass: two `do_work` threads of 3 increments each; 556 distinct states |
| `send_spins_holding_mutex` (`MCUserSync_NoHang.cfg`) | `NoHang` | violated: two senders and two receivers hang |

What these properties say:
- `NoLostWakeup`: a thread asleep in `sem_wait` sleeps only while the semaphore is 0 or a `sem_post` that raised it has still to signal. A thread asleep in `recv` sleeps only while the slot is empty. Breaking it takes a waiter and a poster interleaving around `mysleep`'s release of the mutex.
- `BufferSafe`: the producer writes only into a slot the consumer has emptied, and the consumer reads only a filled slot. This holds only while the two semaphores count exactly.
- `NoHang`: until every worker has exited, some worker can take a step.
- `BalanceExact`: `total_balance` equals the number of increments written, so no read-modify-write is lost.
- `RmwExclusive`: a `do_work` thread holds `lock` from its `thread_spin_lock` to the unlocks, and `ml` from its `thread_mutex_lock`. Between `old = total_balance` and `total_balance = old + 1`, no other thread writes `total_balance`. This is the exclusion `BalanceExact` rests on. It also justifies modelling the two unlocks as one step.
- `BufferInv`: the token count behind `BufferSafe` (section 5), checked before it is proved.
- `UserSync`'s `IInv` (`TypeOK`, `NoLostWakeup` and every thread at a pc of its own kind) is the inductive invariant proved in section 5. It is not a property of the run: what it adds to `TypeOK` and `NoLostWakeup` holds by the shape of the actions.

**Bounds (UserSync).**
- `NUM = 2` with `MAX_NUM = 2` makes the producer go round the ring (three items into two slots). It also fills the ring, so the producer blocks on the consumer semaphore while the consumer blocks on the producer one.
- Three increments per `do_work` thread interleave the lock hand-over several times.
- Two senders is the least that meets a full slot.

The `FsLog` runs use three threads, three blocks, `Vals = {0, 1}`, `LOGSIZE = 2`, `MAXOPBLOCKS = 1`, one call per thread and one crash:

| Run | Checks | Result |
|-----|--------|--------|
| `fslog_safety_liveness` (`MCFsLog.cfg`, `LogSize = 3`) | `TypeOK`, `NoPanic`, `IInv`, `AtomicCommit`, `AllCallsFinish` | pass: 717 818 distinct states |
| `log_nlog_equals_logsize` (`MCFsLog_NlogEqLogsize.cfg`, `LogSize = 2`) | `NoPanic` | violated: `log_write` panics in a call that `begin_op` admitted |

What these properties say:
- `NoPanic`: no thread reaches a `panic` in `log_write` or `end_op`. Breaking it needs several admitted calls filling the log (against `begin_op`'s reservation), or an `end_op` meeting a running commit.
- `AtomicCommit`: the log with crashes and recovery implements `AtomicDisk`. A crash at any step of `commit` or of recovery leaves the disk holding all of a transaction or none of it. No commit makes another call's half-done writes durable.
- `AllCallsFinish`: under the fairness above, every thread finishes all its calls, so a `begin_op` asleep on `&log` is always woken by some `end_op` or by the end of the commit. The property reads `done` from the end of a behaviour. A crash resets nothing in `done`, and a lost call is made again.
- `IInv`: the inductive invariant of the proofs, checked here first.

**Bounds (FsLog).** `LOGSIZE = 2` with `MAXOPBLOCKS = 1` admits two calls at once, so the third sleeps on space while the first two may commit together (group commit). Three blocks let those two calls write one block in common (absorption) and one each. `Vals = {0, 1}` distinguishes a new value from the old. One crash can hit every step of `write_log`, `write_head`, `install_trans` or recovery; a second crash during recovery is a case the refinement proof covers for every number of crashes.

**Mutants.** Every property of the passing runs is shown to catch a plausible bug in the code, with the mutant operator defined next to the action it replaces:

| Mutant | Caught by |
|--------|-----------|
| `sched` returning without clearing `c->proc` (`SchedKeepsProc`) | `RunningOnOneCpu` |
| The scheduler skipping a slot (`SchedSkipsNext`) | `TypeOK` |
| `forkret` not releasing the lock (`ForkretNoRelease`) | `LockHandoff` |
| `exit` not waking the parent (`ExitNoWakeParent`) | `WaiterHasNoZombie` |
| `exit` not reparenting (`ExitNoReparent`) | `ParentAlive` |
| `allocproc` not incrementing `nextpid` (`AllocProcSamePid`) | `LivePidsUnique` |
| The worker loop running one round past `MAX_NUM` (`WorkTopPastMax`) | `TypeOK` of `UserSync` |
| `thread_cond_signal` waking nobody (`MyWakeupNone`) | `NoLostWakeup` |
| `sem_wait` forgetting `num--` (`SemWaitCheckNoDec`) | `BufferSafe` and `BufferInv` |
| `mysleep` not releasing the caller's mutex (`MySleepKeepsLock`) | `NoHang` |
| A lock that ignores the value `xchg` returns (`AcquireIgnoresResult`) | `BalanceExact` and `RmwExclusive` |
| `do_work` not releasing its spin lock (`DepUnlockKeepsSpin`) | `NoHang` (`thread_balance`) |
| `begin_op` without the space test (`BeginOpNoSpaceCheck`) | `TypeOK` and `IInv` of `FsLog` |
| `begin_op` admitting during a commit (`BeginOpIgnoresCommit`) | `NoPanic` |
| Recovery that does not read the header and so installs nothing (`RecoverReadNoInstall`) | `AtomicCommit` |
| The end of `commit` without `wakeup(&log)` (`CommitEndNoWakeup`) | `AllCallsFinish` |

**Fairness.** The runs check safety only. Liveness (every RUNNABLE process is eventually dispatched; a waiting parent is eventually woken) would need the following:
- weak fairness on each CPU's scheduler steps;
- strong fairness on acquiring `ptable.lock`, which the code does not provide, since an x86 spinlock is not fair;
- the assumption that user code eventually yields, which only the timer interrupt provides.

It is therefore left for a later module with these assumptions stated explicitly. `FsLog` does check liveness: its calls hold no spinlock while they wait (`begin_op` sleeps, releasing `log.lock`), so weak fairness per thread, as the round-robin scheduler gives, is all `AllCallsFinish` needs. For `UserSync`, `NoHang` is the check that matters: the worker loops are bounded, so a behaviour that never hangs reaches the end of every test. Liveness under fairness is not checked separately.

## 4. Findings

1. **`kill` reaches free slots** (`proc.c:501`). The loop matches any slot whose `pid` equals the argument:
   - UNUSED slots have `pid == 0` after a reap.
   - They keep the pid of a failed `fork`, because the rollback at `proc.c:91`/`209` does not clear it.

   So `kill(0)` (or `kill` of a failed child's pid) sets `killed` on a free slot and returns 0. `allocproc` never clears `killed`, so the next process allocated there starts out killed. The spec says a kill of a nonexistent process fails.
2. **`wait` frees a thread's shared address space** (`proc.c:302`). `wait` does not skip thread children. After `thread_create`, `thread_exit` and `wait`, the creator's own `pgdir` has been freed while it runs. A thread left behind by an exiting parent is reparented to init, which frees the space in the same way.
3. **`isThread` is never reset** (`proc.c:84`). `allocproc` sets only `state` and `pid`, and the reap paths do not clear `isThread`. A process forked into a slot that last held a thread is flagged a thread, so `thread_join` would reap it without `freevm`.
4. **`thread_join` leaks the kernel stack** (`proc.c:703`, `kfree(p->kstack)` commented out; run `join_leaks_kstack`). `thread_join` sets `p->kstack = 0` without giving the page back, while `wait` (`proc.c:300`) and `fork`'s failure path (`proc.c:207`) do `kfree` it. After `thread_create`, `thread_exit` and `thread_join`, the page `allocproc` took for the thread is held by no slot. The spec says the kernel stack is an owned resource, released on reap.
5. **`send` spins while holding the queue mutex** (`extracredit1.c:67`). Once a message is waiting, a second `send` takes `q->ml` and busy-waits for the slot to empty. Every `recv` then blocks in `thread_mutex_lock` on the mutex it needs to empty the slot. cond_var_test has only one sender, so it does not hang. The spec says the blocking mutex/condition pair sleeps the caller on contention rather than spinning.
6. **The log's size is never checked against `LOGSIZE`** (`log.c:236`).
   - `begin_op` reserves space against the constant `LOGSIZE` (`log.c:130`).
   - `log_write` panics when `lh.n >= log.size - 1`, where `log.size` is the superblock's `nlog` (`log.c:63`).
   - `initlog` does not check that `nlog > LOGSIZE`.
   - With `nlog = LOGSIZE` (`log_nlog_equals_logsize`), two admitted one-block calls fill the log and the second `log_write` panics.

   The code is correct only under an unchecked assumption on the file system `mkfs` built, and `NeverPanics` proves it is correct under exactly that assumption.

## 5. Proofs

### `ProcTableProofs.tla`

Proved for every `NPROC`, `MaxPid` and non-empty `CPUs`, from `ConstantsAssumption` only:
- `TypeCorrect`: `Spec => []TypeOK`.
- `RunningExclusive`: `Spec => []RunningOnOneCpu`.
- `TableInvariant`: `Spec => []IInv`.

These theorems follow from the inductive invariant

    IInv == TypeOK /\ PosOnRunning /\ RunningOnOneCpu /\ ChildEmbryo

**Why the strengthening is needed**
- `TypeOK` alone is not inductive. `sched()` increments `pos[c]`, which stays within `1..NPROC+1` only because a CPU that runs a process has its scan position on that process's slot (`PosOnRunning`).
- `ForkDone`/`ThreadCreateDone` write the slot `child[p]`. That is a table index, and only an EMBRYO no one else owns (`ChildEmbryo`), only because a fork in progress owns its EMBRYO exclusively.
- `RunningOnOneCpu` needs the same facts. A process that goes back into the scheduler is exactly its CPU's `c->proc`, and the slot a fork publishes was not RUNNING.

**Structure of the proof**
- `InitIInv` shows that the initial state satisfies `IInv`.
- There is one lemma per action: `SchedAcquireIInv`, `SchedDispatchIInv`, `ForkretIInv`, `AllocProcIInv`, `PublishIInv` (the shared tail of `fork` and `thread_create`), `ExitIInv`, `WaitScanIInv` (split into reap / no kids / sleep), `KillIInv`, and others.
- Each action lemma has one step per conjunct of `IInv`.
- They rest on lemmas about the helpers:
  - `BoundProc`: the facts about the process bound to a CPU.
  - `RunningAfterSched`: what `sched()` preserves.
  - `Wakeup1Facts`: wakeups only turn SLEEPING into RUNNABLE.
  - `ChildUnchanged`.
- `NextIInv` combines them. Each theorem is then `InitIInv`, `NextIInv` and PTL.

### `ProcTableSafetyProofs.tla`

Proved for every `NPROC`, `MaxPid` and non-empty `CPUs`, from `ConstantsAssumption` only:

| Theorem | Statement |
|---------|-----------|
| `LockHandedOff` | `Spec => []LockHandoff` |
| `NoLostChildWakeup` | `Spec => []WaiterHasNoZombie` |
| `ParentsStayAlive` | `Spec => []ParentAlive` |
| `PidsUnique` | `Spec => []LivePidsUnique` |
| `SafetyInvariant` | `Spec => []SafetyInv` |

None of the four invariants is inductive on its own, nor together with `IInv`. The inductive invariant is

    SafetyInv == IInv /\ SuspendedAt /\ InitShape
                 /\ LockHandoff /\ WaiterHasNoZombie /\ ParentAlive /\ LivePidsUnique

and each added conjunct is there for a step:
- **`SuspendedAt`**: a RUNNABLE slot is at a resume point (`forkret`, the end of `yield`, the rescan of `wait`/`thread_join`). A SLEEPING slot is in `wait`/`thread_join` with `chan` equal to its own slot.
  - The first half gives `LockHandoff` after a dispatch. The thread the scheduler switches to continues holding `ptable.lock` exactly when it is at a resume point (`HoldsIffResume`).
  - The second half makes `exit`'s `wakeup1(proc->parent)` wake the parent when, and only when, the parent sleeps in `wait`. Without it, a SLEEPING parent on another channel could keep a ZOMBIE child, and `WaiterHasNoZombie` would not follow.
- **`InitShape`**: init stays live and has no parent, and no slot is its own parent. `exit` gives its children to init. The proof needs init to be a live slot other than the exiting one, so that the reparented children keep a live parent (`ParentAlive`). It also needs the exiting slot to be no child of itself.
- **`ParentAlive` for reaping**: `wait` frees a ZOMBIE child, and `ParentAlive` says no live slot has that ZOMBIE as its parent. So freeing it leaves no dangling `parent`.

**Structure of the proof**
- `InitSafety` shows that the initial state satisfies `SafetyInv`.
- There is one lemma per action, each with one step per conjunct the action can disturb:
  - `SchedAcquireSafety`, `SchedDispatchSafety` and `SchedReleaseSafety` for the scheduler;
  - `ReleaseToUserSafety` (`forkret` and the return of `yield`) and `YieldSafety`;
  - `AllocProcSafety`, `AllocFailSafety` and `PublishSafety` for `fork` and `thread_create`;
  - `KillSafety`;
  - `ExitSafety`, for `exit` and `thread_exit`, built on `Wakeup1Wakes`;
  - `WaitScanSafety` and `WaitSafety`.
- `NextSafety` combines them with `NextIInv`. Each theorem is then `InitSafety`, `NextSafety` and PTL.

### `UserSyncProofs.tla`

Proved for every set of producers, consumers, senders, receivers and depositors, and every `MaxNum`, `NUM` and `Amount`. The proofs assume only `UserSyncAssumption`: the kinds are pairwise disjoint, `NoThread` is not a thread, and `NUM > 0`.
- `TypeCorrect`: `Spec => []TypeOK`.
- `WakeupNeverLost`: `Spec => []NoLostWakeup`. A thread asleep on a semaphore or on the message queue has a reason to sleep: the count is 0, or a `sem_post` is between its unlock and its signal, or the slot is empty.
- `SyncInvariant`: `Spec => []IInv`.

These theorems follow from the inductive invariant

    IInv == TypeOK /\ NoLostWakeup /\ ThreadsWhereTheyBelong

`ThreadsWhereTheyBelong` says four things of every thread:
- **An asleep thread is at a `mysleep` call site.** Without this, a lock step could clear `chan` of a thread that is still asleep and lose its justification.
- **`ret` of a `sem_wait`/`sem_post` in progress is one of its two call sites.** Without this, `pc' = ret` could leave `PCs`.
- **A worker inside the loop has `count <= MaxNum`.** Without this, `queue[idx]' = count + 1` could leave `0..MaxNum+1`.
- **A thread at a send or `do_work` pc is a sender or a depositor.** Without this, `ptr' = t` and `old[t]` could be ill-typed.

**Structure of the proof**
- `InitIInv` shows that the initial state satisfies `IInv`.
- Frame lemmas carry the two predicates over steps that do not disturb them:
  - `WakeupFrame` for `NoLostWakeup`;
  - `BelongFrame` for `ThreadsWhereTheyBelong`.
- `AwakeActor`: a thread that is not at a sleep pc is awake.
- `WakeupFacts`: what `mywakeup` changes.
- There is one lemma per action:
  - `SemWaitCheckIInv` and `RecvCheckIInv` split on whether the thread sleeps.
  - `SemPostSignalIInv` uses `WakeupFacts`: the post is no longer pending, but every sleeper on that channel has just been woken.
- `NextIInv` combines the action lemmas. Each theorem is then `InitIInv`, `NextIInv` and PTL.

### `UserSyncClientProofs.tla`

| Theorem | Statement |
|---------|-----------|
| `BufferInvariant` | `ASSUME OneEach(p, c) PROVE Spec => []BufferInv` |
| `RingBufferSafe` | `ASSUME OneEach(p, c) PROVE Spec => []BufferSafe` |
| `RmwExclusiveHolds` | `Spec => []RmwExclusive` |

`OneEach(p, c)` says there is exactly one producer `p` and one consumer `c`, as in `semm_test`, which creates one `prod_work` and one `cons_work` thread (`extracredit1.c:218`). `NUM`, `MAX_NUM` and every other set of threads stay arbitrary. The assumption is needed: two producers both start at index 0, and the second would overwrite the first one's slot.

**`BufferSafe`: a token count.** Every one of the `NUM` slots is exactly one of these:
- counted by the `consumer` semaphore (empty);
- counted by the `producer` semaphore (filled);
- held by a worker between its `sem_wait` and its `sem_post`.

`RingCount(p, c)` states this:
- `Filled + Emptied = NUM`. `Filled` is `num["producer"]`, plus 1 while the producer has written a slot and not yet posted, plus 1 while the consumer holds a slot. `Emptied` is the same the other way round.
- The producer's next position `Pos(p)` equals `(Pos(c) + Filled) % NUM`. `Pos(t)` is `idx`, or `idx + 1` once the worker has used its slot and not yet advanced.
- The non-zero slots are exactly the run of `Filled` slots from `Pos(c)` round the ring (`InRun`).

`BufferInv` adds three facts:
- only producers and consumers are at ring pcs;
- the producer waits on `consumer` and posts `producer`;
- the consumer does the opposite.

The step proofs:
- Only `ProdCrit` and `ConsCrit` move the run: the first appends a slot (`RunGrow`, `EndGrow`), the second drops the first one (`RunShrink`, `StartShrink`).
- The semaphore steps move one token between a count and a worker.
- The arithmetic of `% NUM` is taken once, in `ModRun`, so that every other obligation is linear.
- `BufferInvSafe` derives `BufferSafe`:
  - While the producer holds an empty slot, `Filled <= NUM - 1`, so its position lies outside the run.
  - While the consumer holds a full slot, `Filled >= 1`, so its position is the run's first slot.

**`RmwExclusive`** needs only `IInv`, with no bound on the number of `do_work` threads. `lock` and `ml` are taken only by `do_work` and only when they are free (`RmwStep`). So nobody else is inside when a thread enters, and only the holder of `ml` writes `total_balance`.

**Only model-checked (TLC)**
- `NoHang`, which uses ENABLED and is beyond TLAPS.
- `BalanceExact`. Its right-hand side is a sum over the set of `do_work` threads (`SumWritten`). Proving that the sum changes by one when one thread's count does needs induction over finite sets. The library's theorem for that takes an operator parameter, which the installed provers cannot instantiate. `RmwExclusiveHolds` proves the exclusion the balance depends on for every instance. TLC checks the count itself.

### `FsLogProofs.tla`

The proofs use `LogAssumption`, the assumption on the constants declared in `FsLog`:
- `Threads` is finite;
- `LOGSIZE >= 1` and `1 <= MAXOPBLOCKS <= LOGSIZE`;
- `LogSize`, `Ops` and `MaxCrash` are naturals;
- `Blocks` and `Vals` are non-empty.

No bound on threads, blocks, calls or crashes is assumed.

| Theorem | Statement |
|---------|-----------|
| `TypeCorrect` | `Spec => []TypeOK` |
| `NeverPanics` | `ASSUME LogSize > LOGSIZE PROVE Spec => []NoPanic` |
| `Refinement` | `Spec => AtomicCommit`: the log refines `AtomicDisk` |
| `LogInvariant` | `Spec => []IInv` |

**The inductive invariant `IInv`.** `TypeOK` and `NoPanic` are not inductive: a state with `lh` full and a thread about to append is well typed but reachable only if `begin_op`'s reservation was broken. `IInv` adds four conjuncts, each needed by some step.

- `ReservationHolds` counts reservation *tokens*. A thread in a call that has made `k` of its `MAXOPBLOCKS` writes holds the tokens `k+1 .. MAXOPBLOCKS` (the set `Reserved`). The invariant is `Len(lh) + Cardinality(Reserved) <= LOGSIZE`, with `outstanding` at least the number of open calls.
  - `begin_op`'s admission test adds `MAXOPBLOCKS` tokens only when they fit.
  - `log_write` spends one token and adds at most one entry (none when it absorbs).
  - `end_op` drops the unspent tokens.
  - This is the fact that makes `NoPanic` hold: a thread in `log_write` still holds a token, so `Len(lh) <= LOGSIZE - 1 < LogSize - 1`.
- `CommitExclusive`: `committing` is set exactly while one thread commits, and then `outstanding = 0`. So `end_op` never meets `committing`.
- `RecoveryState`: during recovery no call runs and the cache is the home copy. While installing, the installed prefix of the header holds its log blocks at home.
- `RunState`: once up, every block whose cached data differs from home is in `lh` or being passed to `log_write`, and the on-disk header is empty except while installing. During `write_log` the log blocks written so far equal the cache, and during `install_trans` the whole log equals the cache.

**The argument.**
- `InitIInv` and `NextIInv` (one lemma per action, then `StutterIInv`) give `Spec => []IInv`.
- `TypeCorrect` follows from `IInv` directly.
- `NeverPanics` adds `NextNoPanic`. Its key step is `LogWriteCheckPasses`: in a `lw_check` state, the three unlocked tests are false.
- `Refinement` maps each action to an `AtomicDisk` step (section 2) and proves `Init => Abs!AInit` and `IInv /\ [Next]_vars => [Abs!ANext]_Abs!avars`.
  - The crux is `CommitWriteHeadRefines`. At `write_head`, `RunState` gives that the log blocks equal the cache and every dirty block is in `lh`, so the new `Durable` equals the cache.
  - Conversely, `install_trans` and the header clear leave `Durable` unchanged (`InstallKeepsDurable`), and so does a crash.

Lemmas about the data (`TokenSetBound`, `ReservedBound`, `AppendLog`, `ChooseSlot`) are stated once and cited.

**Only model-checked (TLC):**
- `AllCallsFinish`, which is liveness.
- The finding that with `LogSize = LOGSIZE` a panic *is* reachable. This is the violation run; `NeverPanics`' assumption is exactly what excludes it.

## 6. Plan and what is not modelled yet

Next steps, in order:
1. Composing `FsLog` with `ProcTable`: `exit`'s and `thread_exit`'s `begin_op`/`end_op`, with `sleep(&log, &log.lock)` going through the scheduler rather than an abstract thread state.
2. `sys_sleep` on `tickslock`.
3. A liveness module for the scheduler, under explicitly stated fairness on `ptable.lock`.

Not modelled, by design:
- The disk driver and buffer cache below the log: each block write is one atomic step, and a cached block is its data.
- `exec`, `dump`, `ps` (read-only), `main` (boot), `growproc`, the virtual-memory layer, and file and inode reference counts. They are I/O or data layout outside the table protocol.
