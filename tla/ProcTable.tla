----------------------------- MODULE ProcTable -----------------------------
(***************************************************************************)
(* The process table of the kernel (src/src/proc.c): the table of process  *)
(* control blocks guarded by ptable.lock, the per-CPU scheduler loop, the  *)
(* sched()/swtch hand-off of the lock between a process and its CPU's      *)
(* scheduler, and the lifecycle operations built on them: allocproc, fork, *)
(* exit, wait, kill, yield, forkret and the thread layer (thread_create,   *)
(* thread_join, thread_exit).  wait and thread_join block through sleep()  *)
(* on their own slot as channel; exit wakes them through wakeup1().        *)
(*                                                                         *)
(* Slots are the integers 1..NPROC in table order, because every scan in   *)
(* proc.c (allocproc, scheduler, wait, kill) takes the first match.  The   *)
(* value 0 stands for a null pointer (no parent, no channel, no process    *)
(* bound to a CPU).  An address space is named by the pid of the process   *)
(* that created it (copyuvm in fork, setupkvm in userinit), so it is fresh  *)
(* for every fork; 0 is no address space.                                  *)
(***************************************************************************)
EXTENDS Integers, FiniteSets

CONSTANTS
    NPROC,      \* capacity of the process table (param.h NPROC)
    CPUs,       \* the physical cores, each running scheduler()
    NoCpu,      \* ptable.lock is free
    MaxPid      \* bound on nextpid: allocations stop once it is reached

ASSUME ConstantsAssumption ==
    /\ NPROC \in Nat \ {0}
    /\ MaxPid \in Nat \ {0}
    /\ CPUs # {}
    /\ NoCpu \notin CPUs

VARIABLES
    state,      \* p->state
    pid,        \* p->pid
    parent,     \* p->parent (slot, 0 = null)
    killed,     \* p->killed
    isThread,   \* p->isThread
    chan,       \* p->chan (a slot used as channel, 0 = none)
    pgdir,      \* p->pgdir (address-space id, 0 = none)
    frees,      \* frees[a]: how often freevm() was applied to address space a
    nextpid,    \* the global nextpid
    pc,         \* where the kernel thread of slot p is, or will resume
    child,      \* local np of a fork/thread_create in progress in slot p
    cproc,      \* c->proc of each CPU (0 = the CPU runs its scheduler)
    pos,        \* the scheduler loop's p, as a table index, on each CPU
    lock        \* the CPU holding ptable.lock, or NoCpu

vars == <<state, pid, parent, killed, isThread, chan, pgdir, frees,
          nextpid, pc, child, cproc, pos, lock>>

Procs == 1..NPROC
Pids == 0..MaxPid
AddrSpaces == 1..MaxPid
States == {"UNUSED", "EMBRYO", "SLEEPING", "RUNNABLE", "RUNNING", "ZOMBIE"}

(* The distinguished init process: userinit allocates it first, slot 1.    *)
InitProc == 1

(* Kernel-thread locations.  "user": running outside the table code.       *)
(* "forkret": fresh, first dispatch enters forkret.  "yield", "wait",      *)
(* "join": suspended in sched() inside yield, wait, thread_join.  "fork",  *)
(* "tcreate": between allocproc and the RUNNABLE store of fork and         *)
(* thread_create.  "exited": ZOMBIE, never resumes.                        *)
PCs == {"user", "forkret", "yield", "wait", "join", "fork", "tcreate", "exited"}

(* Locations at which a suspended kernel thread continues after dispatch,  *)
(* still holding the ptable.lock the scheduler acquired.                   *)
ResumePCs == {"forkret", "yield", "wait", "join"}

-----------------------------------------------------------------------------
(* State after main() has run userinit(): slot 1 holds initcode, RUNNABLE, *)
(* with pid 1 and its own address space; every CPU is in scheduler().      *)
Init ==
    /\ state = [p \in Procs |-> IF p = InitProc THEN "RUNNABLE" ELSE "UNUSED"]
    /\ pid = [p \in Procs |-> IF p = InitProc THEN 1 ELSE 0]
    /\ parent = [p \in Procs |-> 0]
    /\ killed = [p \in Procs |-> FALSE]
    /\ isThread = [p \in Procs |-> FALSE]
    /\ chan = [p \in Procs |-> 0]
    /\ pgdir = [p \in Procs |-> IF p = InitProc THEN 1 ELSE 0]
    /\ frees = [a \in AddrSpaces |-> 0]
    /\ nextpid = 2
    /\ pc = [p \in Procs |-> IF p = InitProc THEN "forkret" ELSE "user"]
    /\ child = [p \in Procs |-> 0]
    /\ cproc = [c \in CPUs |-> 0]
    /\ pos = [c \in CPUs |-> 1]
    /\ lock = NoCpu

-----------------------------------------------------------------------------
(* wakeup1(ch): every SLEEPING slot whose chan is ch becomes RUNNABLE.     *)
Wakeup1(st, ch) ==
    [q \in Procs |-> IF st[q] = "SLEEPING" /\ chan[q] = ch
                        THEN "RUNNABLE" ELSE st[q]]

(* Variant of Sched in which scheduler() forgets c->proc = 0 after swtch  *)
(* returns (used to show that RunningOnOneCpu catches it).                 *)
SchedKeepsProc(c) ==
    /\ cproc' = cproc
    /\ pos' = [pos EXCEPT ![c] = pos[c] + 1]

(* Variant of Sched whose scan skips the slot after the one it ran (p++   *)
(* done twice) (used to show that TypeOK catches it).                      *)
SchedSkipsNext(c) ==
    /\ cproc' = [cproc EXCEPT ![c] = 0]
    /\ pos' = [pos EXCEPT ![c] = pos[c] + 2]

(* sched() from a process on CPU c: swtch back into scheduler(), which     *)
(* clears c->proc and continues its scan after the slot it dispatched,     *)
(* still holding ptable.lock.                                              *)
Sched(c) ==
    /\ cproc' = [cproc EXCEPT ![c] = 0]
    /\ pos' = [pos EXCEPT ![c] = pos[c] + 1]

-----------------------------------------------------------------------------
(* scheduler(): sti(); acquire(&ptable.lock); start the scan at slot 1.    *)
SchedAcquire(c) ==
    /\ cproc[c] = 0
    /\ lock = NoCpu
    /\ lock' = c
    /\ pos' = [pos EXCEPT ![c] = 1]
    /\ UNCHANGED <<state, pid, parent, killed, isThread, chan, pgdir, frees,
                   nextpid, pc, child, cproc>>

(* scheduler(): the first RUNNABLE slot j at or after the scan position is *)
(* bound to the CPU, marked RUNNING and switched to; the lock passes to it. *)
SchedDispatch(c) ==
    /\ cproc[c] = 0
    /\ lock = c
    /\ \E j \in Procs :
          /\ j >= pos[c]
          /\ state[j] = "RUNNABLE"
          /\ \A k \in pos[c]..(j - 1) : state[k] # "RUNNABLE"
          /\ cproc' = [cproc EXCEPT ![c] = j]
          /\ state' = [state EXCEPT ![j] = "RUNNING"]
          /\ pos' = [pos EXCEPT ![c] = j]
    /\ UNCHANGED <<pid, parent, killed, isThread, chan, pgdir, frees,
                   nextpid, pc, child, lock>>

(* scheduler(): the scan reached the end of the table; release the lock.   *)
SchedRelease(c) ==
    /\ cproc[c] = 0
    /\ lock = c
    /\ \A k \in pos[c]..NPROC : state[k] # "RUNNABLE"
    /\ lock' = NoCpu
    /\ UNCHANGED <<state, pid, parent, killed, isThread, chan, pgdir, frees,
                   nextpid, pc, child, cproc, pos>>

-----------------------------------------------------------------------------
(* Variant of Forkret that returns to user space without release(&ptable.  *)
(* lock) (used to show that LockHandoff catches it).                       *)
ForkretNoRelease(c, p) ==
    /\ cproc[c] = p
    /\ pc[p] = "forkret"
    /\ lock = c
    /\ pc' = [pc EXCEPT ![p] = "user"]
    /\ UNCHANGED <<state, pid, parent, killed, isThread, chan, pgdir, frees,
                   nextpid, child, cproc, pos, lock>>

(* forkret(): a fresh process, first scheduled, releases ptable.lock.      *)
Forkret(c, p) ==
    /\ cproc[c] = p
    /\ pc[p] = "forkret"
    /\ lock = c
    /\ lock' = NoCpu
    /\ pc' = [pc EXCEPT ![p] = "user"]
    /\ UNCHANGED <<state, pid, parent, killed, isThread, chan, pgdir, frees,
                   nextpid, child, cproc, pos>>

(* yield(): acquire ptable.lock, mark the caller RUNNABLE, sched().        *)
Yield(c, p) ==
    /\ cproc[c] = p
    /\ pc[p] = "user"
    /\ lock = NoCpu
    /\ lock' = c
    /\ state' = [state EXCEPT ![p] = "RUNNABLE"]
    /\ pc' = [pc EXCEPT ![p] = "yield"]
    /\ Sched(c)
    /\ UNCHANGED <<pid, parent, killed, isThread, chan, pgdir, frees,
                   nextpid, child>>

(* yield(): back from sched(), release ptable.lock.                        *)
YieldReturn(c, p) ==
    /\ cproc[c] = p
    /\ pc[p] = "yield"
    /\ lock = c
    /\ lock' = NoCpu
    /\ pc' = [pc EXCEPT ![p] = "user"]
    /\ UNCHANGED <<state, pid, parent, killed, isThread, chan, pgdir, frees,
                   nextpid, child, cproc, pos>>

-----------------------------------------------------------------------------
(* Variant of AllocProc that hands out nextpid without incrementing it     *)
(* (used to show that LivePidsUnique catches it).                          *)
AllocProcSamePid(c, p, to) ==
    /\ cproc[c] = p
    /\ pc[p] = "user"
    /\ lock = NoCpu
    /\ nextpid <= MaxPid
    /\ \E j \in Procs :
          /\ state[j] = "UNUSED"
          /\ \A k \in 1..(j - 1) : state[k] # "UNUSED"
          /\ state' = [state EXCEPT ![j] = "EMBRYO"]
          /\ pid' = [pid EXCEPT ![j] = nextpid]
          /\ child' = [child EXCEPT ![p] = j]
    /\ pc' = [pc EXCEPT ![p] = to]
    /\ UNCHANGED <<parent, killed, isThread, chan, pgdir, frees, cproc, pos,
                   lock, nextpid>>

(* allocproc(), as called by fork (to = "fork") or thread_create (to =     *)
(* "tcreate"): under ptable.lock take the first UNUSED slot, mark it       *)
(* EMBRYO and give it pid nextpid++.  No other field is reset.  With no    *)
(* UNUSED slot allocproc returns 0 and its caller returns -1 unchanged.    *)
AllocProc(c, p, to) ==
    /\ cproc[c] = p
    /\ pc[p] = "user"
    /\ lock = NoCpu
    /\ nextpid <= MaxPid
    /\ \E j \in Procs :
          /\ state[j] = "UNUSED"
          /\ \A k \in 1..(j - 1) : state[k] # "UNUSED"
          /\ state' = [state EXCEPT ![j] = "EMBRYO"]
          /\ pid' = [pid EXCEPT ![j] = nextpid]
          /\ child' = [child EXCEPT ![p] = j]
    /\ nextpid' = nextpid + 1
    /\ pc' = [pc EXCEPT ![p] = to]
    /\ UNCHANGED <<parent, killed, isThread, chan, pgdir, frees, cproc, pos,
                   lock>>

(* fork(): allocproc.                                                      *)
ForkAlloc(c, p) == AllocProc(c, p, "fork")

(* fork(): kalloc of the kernel stack (inside allocproc) or copyuvm fails; *)
(* the slot is set back to UNUSED without the lock, its pid left as it is. *)
ForkFail(c, p) ==
    /\ cproc[c] = p
    /\ pc[p] = "fork"
    /\ state' = [state EXCEPT ![child[p]] = "UNUSED"]
    /\ pc' = [pc EXCEPT ![p] = "user"]
    /\ child' = [child EXCEPT ![p] = 0]
    /\ UNCHANGED <<pid, parent, killed, isThread, chan, pgdir, frees,
                   nextpid, cproc, pos, lock>>

(* fork(): copyuvm gives the child a fresh address space; parent, trap     *)
(* frame, files and name are copied; then under ptable.lock the child      *)
(* becomes RUNNABLE, to start in forkret.                                  *)
ForkDone(c, p) ==
    /\ cproc[c] = p
    /\ pc[p] = "fork"
    /\ lock = NoCpu
    /\ LET np == child[p] IN
         /\ pgdir' = [pgdir EXCEPT ![np] = pid[np]]
         /\ parent' = [parent EXCEPT ![np] = p]
         /\ state' = [state EXCEPT ![np] = "RUNNABLE"]
         /\ pc' = [pc EXCEPT ![np] = "forkret", ![p] = "user"]
    /\ child' = [child EXCEPT ![p] = 0]
    /\ UNCHANGED <<pid, killed, isThread, chan, frees, nextpid, cproc, pos,
                   lock>>

-----------------------------------------------------------------------------
(* Variant of Exit without wakeup1(curproc->parent) (used to show that    *)
(* WaiterHasNoZombie catches it).                                          *)
ExitNoWakeParent(c, p) ==
    /\ cproc[c] = p
    /\ pc[p] = "user"
    /\ p # InitProc
    /\ lock = NoCpu
    /\ lock' = c
    /\ LET orphanZombie == \E q \in Procs : parent[q] = p /\ state[q] = "ZOMBIE"
           woken == state
           woken2 == IF orphanZombie THEN Wakeup1(woken, InitProc) ELSE woken
       IN  state' = [woken2 EXCEPT ![p] = "ZOMBIE"]
    /\ parent' = [q \in Procs |-> IF parent[q] = p THEN InitProc ELSE parent[q]]
    /\ pc' = [pc EXCEPT ![p] = "exited"]
    /\ Sched(c)
    /\ UNCHANGED <<pid, killed, isThread, chan, pgdir, frees, nextpid, child>>

(* Variant of Exit that does not pass its children to init (used to show  *)
(* that ParentAlive catches it).                                           *)
ExitNoReparent(c, p) ==
    /\ cproc[c] = p
    /\ pc[p] = "user"
    /\ p # InitProc
    /\ lock = NoCpu
    /\ lock' = c
    /\ LET orphanZombie == \E q \in Procs : parent[q] = p /\ state[q] = "ZOMBIE"
           woken == Wakeup1(state, parent[p])
           woken2 == IF orphanZombie THEN Wakeup1(woken, InitProc) ELSE woken
       IN  state' = [woken2 EXCEPT ![p] = "ZOMBIE"]
    /\ UNCHANGED parent
    /\ pc' = [pc EXCEPT ![p] = "exited"]
    /\ Sched(c)
    /\ UNCHANGED <<pid, killed, isThread, chan, pgdir, frees, nextpid, child>>

(* exit(): under ptable.lock wake the parent                              *)
(* (wakeup1(curproc->parent)), give every child to init and wake init if  *)
(* one of them is already a ZOMBIE, become ZOMBIE and sched() for good.    *)
(* The file closing and iput before the lock touch no table state.  The    *)
(* code panics if init exits; that path is left out.                       *)
Exit(c, p) ==
    /\ cproc[c] = p
    /\ pc[p] = "user"
    /\ p # InitProc
    /\ lock = NoCpu
    /\ lock' = c
    /\ LET orphanZombie == \E q \in Procs : parent[q] = p /\ state[q] = "ZOMBIE"
           woken == Wakeup1(state, parent[p])
           woken2 == IF orphanZombie THEN Wakeup1(woken, InitProc) ELSE woken
       IN  state' = [woken2 EXCEPT ![p] = "ZOMBIE"]
    /\ parent' = [q \in Procs |-> IF parent[q] = p THEN InitProc ELSE parent[q]]
    /\ pc' = [pc EXCEPT ![p] = "exited"]
    /\ Sched(c)
    /\ UNCHANGED <<pid, killed, isThread, chan, pgdir, frees, nextpid, child>>

(* thread_exit(): the same code as exit(), with no check that the caller   *)
(* is a thread.                                                            *)
ThreadExit(c, p) == Exit(c, p)

-----------------------------------------------------------------------------
(* One pass of the scan loop of wait() (isJoin = FALSE) or thread_join()   *)
(* (isJoin = TRUE) by p on CPU c, with ptable.lock held: reap the first    *)
(* ZOMBIE child (wait frees its address space; thread_join does not), or   *)
(* return -1 when there is no child or p is killed, or sleep on p.  ch0 is *)
(* p->chan as the pass starts: sleep() clears it on the way back.          *)
IsKid(p, q, isJoin) == parent[q] = p /\ (isJoin => isThread[q])

Kids(p, isJoin) == {q \in Procs : IsKid(p, q, isJoin)}

Zombies(p, isJoin) == {q \in Kids(p, isJoin) : state[q] = "ZOMBIE"}

(* Found one: the first ZOMBIE child z is reaped and its pid returned.     *)
WaitReap(c, p, isJoin, ch0) ==
    \E z \in Zombies(p, isJoin) :
       /\ \A k \in 1..(z - 1) : k \notin Zombies(p, isJoin)
       /\ frees' = IF isJoin THEN frees
                   ELSE [frees EXCEPT ![pgdir[z]] = @ + 1]
       /\ pid' = [pid EXCEPT ![z] = 0]
       /\ parent' = [parent EXCEPT ![z] = 0]
       /\ killed' = [killed EXCEPT ![z] = FALSE]
       /\ state' = [state EXCEPT ![z] = "UNUSED"]
       /\ pc' = [pc EXCEPT ![p] = "user"]
       /\ lock' = NoCpu
       /\ chan' = ch0
       /\ UNCHANGED <<cproc, pos>>

(* No point waiting: no children, or the caller is killed; return -1.      *)
WaitNoKids(c, p, isJoin, ch0) ==
    /\ Zombies(p, isJoin) = {}
    /\ Kids(p, isJoin) = {} \/ killed[p]
    /\ pc' = [pc EXCEPT ![p] = "user"]
    /\ lock' = NoCpu
    /\ chan' = ch0
    /\ UNCHANGED <<state, pid, parent, killed, frees, cproc, pos>>

(* sleep(curproc, &ptable.lock): chan and SLEEPING, then sched() with the  *)
(* lock kept.                                                              *)
WaitSleep(c, p, isJoin, ch0) ==
    /\ Zombies(p, isJoin) = {}
    /\ Kids(p, isJoin) # {}
    /\ ~killed[p]
    /\ chan' = [ch0 EXCEPT ![p] = p]
    /\ state' = [state EXCEPT ![p] = "SLEEPING"]
    /\ pc' = [pc EXCEPT ![p] = IF isJoin THEN "join" ELSE "wait"]
    /\ lock' = c
    /\ Sched(c)
    /\ UNCHANGED <<pid, parent, killed, frees>>

WaitScan(c, p, isJoin, ch0) ==
    \/ WaitReap(c, p, isJoin, ch0)
    \/ WaitNoKids(c, p, isJoin, ch0)
    \/ WaitSleep(c, p, isJoin, ch0)

(* wait(): acquire ptable.lock and scan.                                   *)
Wait(c, p) ==
    /\ cproc[c] = p
    /\ pc[p] = "user"
    /\ lock = NoCpu
    /\ WaitScan(c, p, FALSE, chan)
    /\ UNCHANGED <<isThread, pgdir, nextpid, child>>

(* wait(): back from sleep(curproc, &ptable.lock), which clears chan and   *)
(* keeps the lock; scan again.                                             *)
WaitResume(c, p) ==
    /\ cproc[c] = p
    /\ pc[p] = "wait"
    /\ lock = c
    /\ WaitScan(c, p, FALSE, [chan EXCEPT ![p] = 0])
    /\ UNCHANGED <<isThread, pgdir, nextpid, child>>


-----------------------------------------------------------------------------
(* thread_create(): allocproc.  (A null stack returns -1 before it.)       *)
ThreadCreateAlloc(c, p) == AllocProc(c, p, "tcreate")

(* thread_create(): the kalloc inside allocproc fails; the slot goes back  *)
(* to UNUSED without the lock and thread_create returns -1.                *)
ThreadCreateFail(c, p) ==
    /\ cproc[c] = p
    /\ pc[p] = "tcreate"
    /\ state' = [state EXCEPT ![child[p]] = "UNUSED"]
    /\ pc' = [pc EXCEPT ![p] = "user"]
    /\ child' = [child EXCEPT ![p] = 0]
    /\ UNCHANGED <<pid, parent, killed, isThread, chan, pgdir, frees,
                   nextpid, cproc, pos, lock>>

(* thread_create(): the new slot shares the caller's pgdir, is marked a    *)
(* thread, gets its entry point, argument and stack; then under            *)
(* ptable.lock it becomes RUNNABLE.                                        *)
ThreadCreateDone(c, p) ==
    /\ cproc[c] = p
    /\ pc[p] = "tcreate"
    /\ lock = NoCpu
    /\ LET np == child[p] IN
         /\ pgdir' = [pgdir EXCEPT ![np] = pgdir[p]]
         /\ parent' = [parent EXCEPT ![np] = p]
         /\ isThread' = [isThread EXCEPT ![np] = TRUE]
         /\ state' = [state EXCEPT ![np] = "RUNNABLE"]
         /\ pc' = [pc EXCEPT ![np] = "forkret", ![p] = "user"]
    /\ child' = [child EXCEPT ![p] = 0]
    /\ UNCHANGED <<pid, killed, chan, frees, nextpid, cproc, pos, lock>>

(* thread_join(): acquire ptable.lock and scan for thread children.        *)
ThreadJoin(c, p) ==
    /\ cproc[c] = p
    /\ pc[p] = "user"
    /\ lock = NoCpu
    /\ WaitScan(c, p, TRUE, chan)
    /\ UNCHANGED <<isThread, pgdir, nextpid, child>>

(* thread_join(): back from sleep(curproc, &ptable.lock); scan again.      *)
ThreadJoinResume(c, p) ==
    /\ cproc[c] = p
    /\ pc[p] = "join"
    /\ lock = c
    /\ WaitScan(c, p, TRUE, [chan EXCEPT ![p] = 0])
    /\ UNCHANGED <<isThread, pgdir, nextpid, child>>

-----------------------------------------------------------------------------
(* kill(k): under ptable.lock find the first slot whose pid is k, whatever *)
(* its state; set killed and make it RUNNABLE if it is SLEEPING.  With no  *)
(* such slot kill returns -1 and changes nothing.                          *)
Kill(c, p, k) ==
    /\ cproc[c] = p
    /\ pc[p] = "user"
    /\ lock = NoCpu
    /\ \E j \in Procs :
          /\ pid[j] = k
          /\ \A i \in 1..(j - 1) : pid[i] # k
          /\ killed' = [killed EXCEPT ![j] = TRUE]
          /\ state' = [state EXCEPT ![j] =
                          IF @ = "SLEEPING" THEN "RUNNABLE" ELSE @]
    /\ UNCHANGED <<pid, parent, isThread, chan, pgdir, frees, nextpid, pc,
                   child, cproc, pos, lock>>

-----------------------------------------------------------------------------
(* What the kernel thread running on CPU c may do next.                    *)
ProcStep(c, p) ==
    \/ Forkret(c, p)
    \/ Yield(c, p)
    \/ YieldReturn(c, p)
    \/ ForkAlloc(c, p)
    \/ ForkFail(c, p)
    \/ ForkDone(c, p)
    \/ Exit(c, p)
    \/ Wait(c, p)
    \/ WaitResume(c, p)
    \/ ThreadCreateAlloc(c, p)
    \/ ThreadCreateFail(c, p)
    \/ ThreadCreateDone(c, p)
    \/ ThreadJoin(c, p)
    \/ ThreadJoinResume(c, p)
    \/ ThreadExit(c, p)
    \/ \E k \in Pids : Kill(c, p, k)

Next ==
    \E c \in CPUs :
       \/ SchedAcquire(c)
       \/ SchedDispatch(c)
       \/ SchedRelease(c)
       \/ \E p \in Procs : ProcStep(c, p)

Spec == Init /\ [][Next]_vars

-----------------------------------------------------------------------------
(* The type invariant.                                                     *)
TypeOK ==
    /\ state \in [Procs -> States]
    /\ pid \in [Procs -> Pids]
    /\ parent \in [Procs -> 0..NPROC]
    /\ killed \in [Procs -> BOOLEAN]
    /\ isThread \in [Procs -> BOOLEAN]
    /\ chan \in [Procs -> 0..NPROC]
    /\ pgdir \in [Procs -> 0..MaxPid]
    /\ frees \in [AddrSpaces -> Nat]
    /\ nextpid \in 1..(MaxPid + 1)
    /\ pc \in [Procs -> PCs]
    /\ child \in [Procs -> 0..NPROC]
    /\ cproc \in [CPUs -> 0..NPROC]
    /\ pos \in [CPUs -> 1..(NPROC + 1)]
    /\ lock \in CPUs \cup {NoCpu}

-----------------------------------------------------------------------------
(* No process is ever RUNNING on two CPUs, and a slot is RUNNING exactly   *)
(* when some CPU's c->proc points at it (scheduler() binds, sched()        *)
(* unbinds, and every path into sched() first changes p->state).          *)
RunningOnOneCpu ==
    /\ \A p \in Procs : state[p] = "RUNNING" <=> \E c \in CPUs : cproc[c] = p
    /\ \A c, d \in CPUs : c # d /\ cproc[c] # 0 => cproc[c] # cproc[d]

(* ptable.lock crosses a context switch only by the sched()/scheduler()   *)
(* hand-off: a process holds it exactly while it runs the continuation    *)
(* after swtch (forkret, the tail of yield, the rescan of wait and        *)
(* thread_join), and never while it runs anything else.                   *)
LockHandoff ==
    \A c \in CPUs :
       cproc[c] # 0 => (pc[cproc[c]] \in ResumePCs <=> lock = c)

(* No lost wakeup: a process asleep in wait (thread_join) never has a      *)
(* ZOMBIE child (thread child) it could reap; exit's wakeup1 of the        *)
(* parent, and of init for reparented zombies, happen under the same lock  *)
(* as the waiter's scan and sleep.                                         *)
WaiterHasNoZombie ==
    \A p \in Procs :
       state[p] = "SLEEPING" /\ pc[p] \in {"wait", "join"} =>
          \A q \in Procs :
             IsKid(p, q, pc[p] = "join") => state[q] # "ZOMBIE"

(* Every live process other than init has a parent that is itself live and *)
(* not a ZOMBIE: exit reparents its children to init before it becomes a   *)
(* ZOMBIE, so a reaped slot is never a parent (no dangling p->parent).     *)
ParentAlive ==
    \A q \in Procs :
       state[q] \notin {"UNUSED", "EMBRYO"} /\ q # InitProc =>
          /\ parent[q] \in Procs
          /\ state[parent[q]] \notin {"UNUSED", "EMBRYO", "ZOMBIE"}

(* Exactly one live slot per pid (spec, data model): the pids of slots     *)
(* that are not UNUSED are distinct and below nextpid.                     *)
LivePidsUnique ==
    \A p, q \in Procs :
       state[p] # "UNUSED" =>
          /\ pid[p] \in 1..(nextpid - 1)
          /\ (p # q /\ state[q] # "UNUSED" => pid[p] # pid[q])

-----------------------------------------------------------------------------
(* An address space is never used after freevm(): no slot that can run or  *)
(* be scheduled refers to an address space that has been freed, and none   *)
(* is freed twice (spec: destroy is called exactly once, by the reaping of *)
(* its owning process).                                                    *)
NoUseAfterFree ==
    /\ \A p \in Procs :
          state[p] \in {"RUNNABLE", "RUNNING", "SLEEPING"} /\ pgdir[p] # 0 =>
             frees[pgdir[p]] = 0
    /\ \A a \in AddrSpaces : frees[a] <= 1

(* A free slot carries no kill request (spec: kill of a nonexistent pid    *)
(* fails without side effects; a reaped slot has killed cleared), so a     *)
(* process allocated into it by allocproc does not start out killed.       *)
FreeSlotNotKilled ==
    \A p \in Procs : state[p] = "UNUSED" => ~killed[p]

(* A slot flagged isThread shares an address space made by another        *)
(* process (spec 4.6: a thread never owns its address space), so wait()   *)
(* and thread_join() can tell threads from processes by the flag.  A      *)
(* forked process owns the space copyuvm made for it, named by its pid.    *)
ThreadSharesAddressSpace ==
    \A p \in Procs :
       state[p] \notin {"UNUSED", "EMBRYO"} /\ isThread[p] => pgdir[p] # pid[p]

-----------------------------------------------------------------------------
(* The inductive strengthening of TypeOK /\ RunningOnOneCpu proved in      *)
(* ProcTableProofs.  A CPU that runs a process has its scan position on    *)
(* that slot (so sched()'s p++ stays in the table), and the slot a fork or *)
(* thread_create in progress owns is EMBRYO and owned by it alone.         *)
PosOnRunning ==
    \A c \in CPUs : cproc[c] # 0 => pos[c] = cproc[c]

ChildEmbryo ==
    \A p \in Procs :
       pc[p] \in {"fork", "tcreate"} =>
          /\ child[p] \in Procs
          /\ state[child[p]] = "EMBRYO"
          /\ \A q \in Procs : q # p /\ pc[q] \in {"fork", "tcreate"} =>
                                  child[q] # child[p]

IInv == TypeOK /\ PosOnRunning /\ RunningOnOneCpu /\ ChildEmbryo

(* The strengthening proved in ProcTableSafetyProofs.  A RUNNABLE slot     *)
(* resumes where a dispatched thread continues holding ptable.lock; a      *)
(* SLEEPING slot sleeps in wait or thread_join on its own slot (the only   *)
(* sleep(curproc, &ptable.lock) of the table); init stays live with no     *)
(* parent, and no slot is its own parent.                                  *)
SuspendedAt ==
    \A p \in Procs :
       /\ state[p] = "RUNNABLE" => pc[p] \in ResumePCs
       /\ state[p] = "SLEEPING" => pc[p] \in {"wait", "join"} /\ chan[p] = p

InitShape ==
    /\ state[InitProc] \notin {"UNUSED", "EMBRYO", "ZOMBIE"}
    /\ parent[InitProc] = 0
    /\ \A q \in Procs : parent[q] # q

SafetyInv ==
    /\ IInv /\ SuspendedAt /\ InitShape
    /\ LockHandoff /\ WaiterHasNoZombie /\ ParentAlive /\ LivePidsUnique

====
