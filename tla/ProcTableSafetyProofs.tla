----------------------- MODULE ProcTableSafetyProofs -----------------------
(***************************************************************************)
(* Proofs of the table invariants of ProcTable for every table size, set   *)
(* of CPUs and pid bound: the ptable.lock hand-off across swtch, no lost   *)
(* wakeup in wait/thread_join, no dangling parent after exit, and unique   *)
(* pids among live slots.  They rest on SafetyInv, which adds to IInv     *)
(* (proved in ProcTableProofs) where suspended threads are and what init   *)
(* looks like.                                                             *)
(***************************************************************************)
EXTENDS ProcTableProofs

USE ConstantsAssumption

(* The conjuncts of SafetyInv that IInv does not already give.             *)
TableParts ==
    /\ SuspendedAt /\ InitShape /\ WaiterHasNoZombie /\ ParentAlive
    /\ LivePidsUnique

-----------------------------------------------------------------------------
(* After userinit only init is live, RUNNABLE at forkret, with pid 1.      *)
LEMMA InitSafety == Init => SafetyInv
<1> SUFFICES ASSUME Init PROVE SafetyInv
  OBVIOUS
<1>1. IInv
  BY InitIInv
<1>2. SuspendedAt /\ InitShape
  BY DEF Init, SuspendedAt, InitShape, ResumePCs, InitProc, Procs
<1>3. LockHandoff
  BY DEF Init, LockHandoff
<1>4. WaiterHasNoZombie /\ ParentAlive
  BY DEF Init, WaiterHasNoZombie, ParentAlive, InitProc, Procs
<1>5. LivePidsUnique
  BY DEF Init, LivePidsUnique, InitProc, Procs
<1>6. QED BY <1>1, <1>2, <1>3, <1>4, <1>5 DEF SafetyInv

(* A step that changes none of the slots' fields keeps the table parts.    *)
LEMMA TableUnchanged ==
    ASSUME TableParts, UNCHANGED <<state, pid, parent, chan, isThread, pc, nextpid>>
    PROVE  TableParts'
BY DEF TableParts, SuspendedAt, InitShape, WaiterHasNoZombie, ParentAlive,
       LivePidsUnique, IsKid

(* The thread bound to a CPU holds ptable.lock exactly at a resume point.  *)
LEMMA HoldsIffResume ==
    ASSUME SafetyInv, NEW c \in CPUs, NEW p \in Procs, cproc[c] = p
    PROVE  pc[p] \in ResumePCs <=> lock = c
BY DEF SafetyInv, LockHandoff, Procs

-----------------------------------------------------------------------------
(* scheduler() takes ptable.lock while every running thread is outside    *)
(* its resume points, so none of them is taken to hold it.                 *)
LEMMA SchedAcquireSafety ==
    ASSUME SafetyInv, NEW c \in CPUs, SchedAcquire(c)
    PROVE  SafetyInv'
<1>1. IInv'
  BY SchedAcquireIInv DEF SafetyInv
<1>2. TableParts'
  BY TableUnchanged DEF SchedAcquire, SafetyInv, TableParts
<1>3. LockHandoff'
  BY DEF SchedAcquire, SafetyInv, LockHandoff
<1>4. QED BY <1>1, <1>2, <1>3 DEF SafetyInv, TableParts

(* The dispatched slot was RUNNABLE, so it resumes at a point where it    *)
(* continues holding the lock the scheduler passes it.                     *)
LEMMA SchedDispatchSafety ==
    ASSUME SafetyInv, NEW c \in CPUs, SchedDispatch(c)
    PROVE  SafetyInv'
<1>1. IInv'
  BY SchedDispatchIInv DEF SafetyInv
<1>2. PICK j \in Procs :
         /\ state[j] = "RUNNABLE"
         /\ cproc' = [cproc EXCEPT ![c] = j]
         /\ state' = [state EXCEPT ![j] = "RUNNING"]
  BY DEF SchedDispatch
<1>3. /\ cproc[c] = 0 /\ lock = c
      /\ UNCHANGED <<pid, parent, killed, isThread, chan, pgdir, frees,
                     nextpid, pc, child, lock>>
  BY DEF SchedDispatch
<1>4. pc[j] \in ResumePCs
  BY <1>2 DEF SafetyInv, SuspendedAt
<1>5. LockHandoff'
  BY <1>2, <1>3, <1>4 DEF SafetyInv, LockHandoff, IInv, TypeOK
<1>6. SuspendedAt' /\ InitShape'
  BY <1>2, <1>3 DEF SafetyInv, SuspendedAt, InitShape, IInv, TypeOK
<1>7. WaiterHasNoZombie' /\ ParentAlive' /\ LivePidsUnique'
  BY <1>2, <1>3 DEF SafetyInv, WaiterHasNoZombie, ParentAlive, LivePidsUnique,
                    IsKid, IInv, TypeOK
<1>8. QED BY <1>1, <1>5, <1>6, <1>7 DEF SafetyInv

(* scheduler() drops ptable.lock at the end of its scan, while no thread   *)
(* it runs is at a resume point (the CPU runs none).                       *)
LEMMA SchedReleaseSafety ==
    ASSUME SafetyInv, NEW c \in CPUs, SchedRelease(c)
    PROVE  SafetyInv'
<1>1. IInv'
  BY SchedReleaseIInv DEF SafetyInv
<1>2. TableParts'
  BY TableUnchanged DEF SchedRelease, SafetyInv, TableParts
<1>3. LockHandoff'
  BY DEF SchedRelease, SafetyInv, LockHandoff
<1>4. QED BY <1>1, <1>2, <1>3 DEF SafetyInv, TableParts

-----------------------------------------------------------------------------
(* forkret() and the end of yield() release the lock the scheduler passed *)
(* and return to user code.                                                *)
LEMMA ReleaseToUserSafety ==
    ASSUME SafetyInv, NEW c \in CPUs, NEW p \in Procs,
           Forkret(c, p) \/ YieldReturn(c, p)
    PROVE  SafetyInv'
<1>1. /\ cproc[c] = p /\ lock = c /\ lock' = NoCpu
      /\ pc' = [pc EXCEPT ![p] = "user"]
      /\ UNCHANGED <<state, pid, parent, killed, isThread, chan, pgdir, frees,
                     nextpid, child, cproc, pos>>
  BY DEF Forkret, YieldReturn
<1>2. IInv'
  <2>1. CASE Forkret(c, p)
    BY <1>1, <2>1, ForkretIInv DEF SafetyInv
  <2>2. CASE YieldReturn(c, p)
    BY <1>1, <2>2, YieldReturnIInv DEF SafetyInv
  <2>3. QED BY <2>1, <2>2
<1>3. state[p] = "RUNNING"
  BY <1>1, BoundProc DEF SafetyInv
<1>4. SuspendedAt'
  BY <1>1, <1>3 DEF SafetyInv, SuspendedAt, IInv, TypeOK
<1>5. WaiterHasNoZombie'
  BY <1>1, <1>3 DEF SafetyInv, WaiterHasNoZombie, IsKid, IInv, TypeOK
<1>6. InitShape' /\ ParentAlive' /\ LivePidsUnique'
  BY <1>1 DEF SafetyInv, InitShape, ParentAlive, LivePidsUnique
<1>7. LockHandoff'
  BY <1>1 DEF SafetyInv, LockHandoff, IInv, TypeOK, ResumePCs
<1>8. QED BY <1>2, <1>4, <1>5, <1>6, <1>7 DEF SafetyInv

(* yield(): the caller becomes RUNNABLE at "yield", a resume point, and    *)
(* leaves its CPU holding the lock for the scheduler.                      *)
LEMMA YieldSafety ==
    ASSUME SafetyInv, NEW c \in CPUs, NEW p \in Procs, Yield(c, p)
    PROVE  SafetyInv'
<1>1. /\ cproc[c] = p /\ pc[p] = "user" /\ lock = NoCpu /\ lock' = c
      /\ state' = [state EXCEPT ![p] = "RUNNABLE"]
      /\ pc' = [pc EXCEPT ![p] = "yield"]
      /\ cproc' = [cproc EXCEPT ![c] = 0]
      /\ UNCHANGED <<pid, parent, killed, isThread, chan, pgdir, frees,
                     nextpid, child>>
  BY DEF Yield, Sched
<1>2. IInv'
  BY YieldIInv, <1>1 DEF SafetyInv
<1>3. state[p] = "RUNNING" /\ \A d \in CPUs : d # c => cproc[d] # p
  BY <1>1, BoundProc DEF SafetyInv
<1>4. SuspendedAt'
  BY <1>1, <1>3 DEF SafetyInv, SuspendedAt, IInv, TypeOK, ResumePCs
<1>5. WaiterHasNoZombie'
  BY <1>1, <1>3 DEF SafetyInv, WaiterHasNoZombie, IsKid, IInv, TypeOK
<1>6. InitShape' /\ ParentAlive'
  BY <1>1, <1>3 DEF SafetyInv, InitShape, ParentAlive, IInv, TypeOK
<1>7. LivePidsUnique'
  BY <1>1, <1>3 DEF SafetyInv, LivePidsUnique, IInv, TypeOK
<1>8. LockHandoff'
  BY <1>1, <1>3 DEF SafetyInv, LockHandoff, IInv, TypeOK
<1>9. QED BY <1>2, <1>4, <1>5, <1>6, <1>7, <1>8 DEF SafetyInv

-----------------------------------------------------------------------------
(* allocproc() takes an UNUSED slot, so no live slot had it as parent, and *)
(* hands it the fresh pid nextpid, above every live pid.                   *)
LEMMA AllocProcSafety ==
    ASSUME SafetyInv, NEW c \in CPUs, NEW p \in Procs,
           NEW dst \in {"fork", "tcreate"}, AllocProc(c, p, dst)
    PROVE  SafetyInv'
<1>1. PICK j \in Procs : /\ state[j] = "UNUSED"
                          /\ state' = [state EXCEPT ![j] = "EMBRYO"]
                          /\ pid' = [pid EXCEPT ![j] = nextpid]
  BY DEF AllocProc
<1>2. /\ cproc[c] = p /\ pc[p] = "user" /\ lock = NoCpu
      /\ nextpid' = nextpid + 1
      /\ pc' = [pc EXCEPT ![p] = dst]
      /\ UNCHANGED <<parent, killed, isThread, chan, pgdir, frees, cproc,
                     pos, lock>>
  BY DEF AllocProc
<1>3. IInv'
  BY <1>2, AllocProcIInv DEF SafetyInv
<1>4. state[p] = "RUNNING"
  BY <1>2, BoundProc DEF SafetyInv
<1>5. SuspendedAt' /\ InitShape'
  BY <1>1, <1>2, <1>4 DEF SafetyInv, SuspendedAt, InitShape, IInv, TypeOK
<1>6. WaiterHasNoZombie'
  BY <1>1, <1>2, <1>4 DEF SafetyInv, WaiterHasNoZombie, IsKid, IInv, TypeOK
<1>7. ParentAlive'
  BY <1>1, <1>2 DEF SafetyInv, ParentAlive, IInv, TypeOK
<1>8. LivePidsUnique'
  <2>1. nextpid \in Nat
    BY DEF SafetyInv, IInv, TypeOK
  <2>2. \A q \in Procs : state[q] # "UNUSED" => pid[q] \in 1..(nextpid - 1)
    BY DEF SafetyInv, LivePidsUnique
  <2>3. QED BY <1>1, <1>2, <2>1, <2>2 DEF SafetyInv, LivePidsUnique, IInv, TypeOK
<1>9. LockHandoff'
  BY <1>2 DEF SafetyInv, LockHandoff, ResumePCs
<1>10. QED BY <1>3, <1>5, <1>6, <1>7, <1>8, <1>9 DEF SafetyInv

(* The failure path of fork and thread_create puts back an EMBRYO slot,    *)
(* which no live slot has as parent; it runs without ptable.lock, and the  *)
(* caller, not at a resume point, does not hold it.                        *)
LEMMA AllocFailSafety ==
    ASSUME SafetyInv, NEW c \in CPUs, NEW p \in Procs,
           ForkFail(c, p) \/ ThreadCreateFail(c, p)
    PROVE  SafetyInv'
<1>1. /\ cproc[c] = p
      /\ pc[p] \in {"fork", "tcreate"}
      /\ state' = [state EXCEPT ![child[p]] = "UNUSED"]
      /\ pc' = [pc EXCEPT ![p] = "user"]
      /\ UNCHANGED <<pid, parent, killed, isThread, chan, pgdir, frees,
                     nextpid, cproc, pos, lock>>
  BY DEF ForkFail, ThreadCreateFail
<1>2. IInv'
  BY <1>1, AllocFailIInv DEF SafetyInv
<1>3. child[p] \in Procs /\ state[child[p]] = "EMBRYO" /\ state[p] = "RUNNING"
  BY <1>1, BoundProc DEF SafetyInv, IInv, ChildEmbryo
<1>4. lock # c
  BY <1>1, HoldsIffResume DEF ResumePCs
<1>5. SuspendedAt' /\ InitShape'
  BY <1>1, <1>3 DEF SafetyInv, SuspendedAt, InitShape, IInv, TypeOK
<1>6. WaiterHasNoZombie'
  BY <1>1, <1>3 DEF SafetyInv, WaiterHasNoZombie, IsKid, IInv, TypeOK
<1>7. ParentAlive' /\ LivePidsUnique'
  BY <1>1, <1>3 DEF SafetyInv, ParentAlive, LivePidsUnique, IInv, TypeOK
<1>8. LockHandoff'
  BY <1>1, <1>4 DEF SafetyInv, LockHandoff, IInv, TypeOK, ResumePCs
<1>9. QED BY <1>2, <1>5, <1>6, <1>7, <1>8 DEF SafetyInv

(* The common tail of fork and thread_create: the new slot becomes         *)
(* RUNNABLE at forkret, a resume point, with the running caller as its     *)
(* parent, and only its own isThread may change.                           *)
LEMMA PublishSafety ==
    ASSUME SafetyInv, NEW c \in CPUs, NEW p \in Procs, cproc[c] = p,
           pc[p] \in {"fork", "tcreate"}, lock = NoCpu,
           state' = [state EXCEPT ![child[p]] = "RUNNABLE"],
           pc' = [pc EXCEPT ![child[p]] = "forkret", ![p] = "user"],
           parent' = [parent EXCEPT ![child[p]] = p],
           \A q \in Procs : q # child[p] => isThread'[q] = isThread[q],
           IInv',
           UNCHANGED <<pid, killed, chan, frees, nextpid, cproc, pos, lock>>
    PROVE  SafetyInv'
<1> DEFINE np == child[p]
<1>1. np \in Procs /\ state[np] = "EMBRYO"
  BY DEF SafetyInv, IInv, ChildEmbryo
<1>2. state[p] = "RUNNING" /\ np # p /\ np # InitProc
  BY <1>1, BoundProc DEF SafetyInv, InitShape
<1>3. SuspendedAt'
  BY <1>1, <1>2 DEF SafetyInv, SuspendedAt, IInv, TypeOK, ResumePCs
<1>4. InitShape'
  BY <1>1, <1>2 DEF SafetyInv, InitShape, IInv, TypeOK
<1>5. WaiterHasNoZombie'
  BY <1>1, <1>2 DEF SafetyInv, WaiterHasNoZombie, IsKid, IInv, TypeOK
<1>6. ParentAlive'
  BY <1>1, <1>2 DEF SafetyInv, ParentAlive, IInv, TypeOK
<1>7. LivePidsUnique'
  BY <1>1 DEF SafetyInv, LivePidsUnique, IInv, TypeOK
<1>8. LockHandoff'
  <2>1. \A d \in CPUs : cproc[d] # np
    BY <1>1 DEF SafetyInv, IInv, RunningOnOneCpu
  <2>2. \A d \in CPUs : cproc[d] # 0 => pc[cproc[d]] \notin ResumePCs
    BY DEF SafetyInv, LockHandoff
  <2>3. ASSUME NEW d \in CPUs, cproc[d] # 0
        PROVE  pc'[cproc[d]] \notin ResumePCs
    <3>1. cproc[d] \in Procs /\ cproc[d] # np
      <4>1. cproc[d] \in 0..NPROC
        BY DEF SafetyInv, IInv, TypeOK
      <4>2. cproc[d] \in Procs
        BY <4>1, <2>3 DEF Procs
      <4>3. QED BY <2>1, <4>2
    <3>2. CASE cproc[d] = p
      BY <1>1, <1>2, <3>2 DEF SafetyInv, IInv, TypeOK, ResumePCs
    <3>3. CASE cproc[d] # p
      <4>1. pc'[cproc[d]] = pc[cproc[d]]
        BY <1>1, <3>1, <3>3 DEF SafetyInv, IInv, TypeOK
      <4>2. QED BY <2>2, <2>3, <4>1
    <3>4. QED BY <3>2, <3>3
  <2>4. QED BY <2>3 DEF LockHandoff
<1>9. QED BY <1>3, <1>4, <1>5, <1>6, <1>7, <1>8 DEF SafetyInv

(* fork() and thread_create() publish their new slot.                      *)
LEMMA PublishStepSafety ==
    ASSUME SafetyInv, NEW c \in CPUs, NEW p \in Procs,
           ForkDone(c, p) \/ ThreadCreateDone(c, p)
    PROVE  SafetyInv'
<1>1. CASE ForkDone(c, p)
  <2>1. cproc[c] = p
    BY <1>1 DEF ForkDone
  <2>2. IInv'
    BY <1>1, <2>1, ForkDoneIInv DEF SafetyInv
  <2>3. QED BY <1>1, <2>1, <2>2, PublishSafety DEF ForkDone
<1>2. CASE ThreadCreateDone(c, p)
  <2>1. cproc[c] = p
    BY <1>2 DEF ThreadCreateDone
  <2>2. IInv'
    BY <1>2, <2>1, ThreadCreateDoneIInv DEF SafetyInv
  <2>3. isThread \in [Procs -> BOOLEAN]
    BY DEF SafetyInv, IInv, TypeOK
  <2>4. QED BY <1>2, <2>1, <2>2, <2>3, PublishSafety DEF ThreadCreateDone
<1>3. QED BY <1>1, <1>2

-----------------------------------------------------------------------------
(* kill() wakes a SLEEPING slot, which sleeps at a resume point.           *)
LEMMA KillSafety ==
    ASSUME SafetyInv, NEW c \in CPUs, NEW p \in Procs, NEW k \in Pids,
           Kill(c, p, k)
    PROVE  SafetyInv'
<1>1. PICK j \in Procs :
         state' = [state EXCEPT ![j] = IF @ = "SLEEPING" THEN "RUNNABLE" ELSE @]
  BY DEF Kill
<1>2. /\ cproc[c] = p
      /\ UNCHANGED <<pid, parent, isThread, chan, pgdir, frees, nextpid, pc,
                     child, cproc, pos, lock>>
  BY DEF Kill
<1>3. IInv'
  BY <1>2, KillIInv DEF SafetyInv
<1>4. \A q \in Procs : \/ state'[q] = state[q]
                       \/ state[q] = "SLEEPING" /\ state'[q] = "RUNNABLE"
  BY <1>1 DEF SafetyInv, IInv, TypeOK
<1>5. SuspendedAt'
  BY <1>2, <1>4 DEF SafetyInv, SuspendedAt, ResumePCs
<1>6. InitShape'
  BY <1>2, <1>4 DEF SafetyInv, InitShape, InitProc, Procs
<1>7. WaiterHasNoZombie'
  BY <1>2, <1>4 DEF SafetyInv, WaiterHasNoZombie, IsKid
<1>8. ParentAlive' /\ LivePidsUnique'
  BY <1>2, <1>4 DEF SafetyInv, ParentAlive, LivePidsUnique
<1>9. LockHandoff'
  BY <1>2 DEF SafetyInv, LockHandoff
<1>10. QED BY <1>3, <1>5, <1>6, <1>7, <1>8, <1>9 DEF SafetyInv

-----------------------------------------------------------------------------
(* wakeup1(ch) makes RUNNABLE every slot asleep on ch.                     *)
LEMMA Wakeup1Wakes ==
    ASSUME NEW st \in [Procs -> States], NEW ch, NEW q \in Procs,
           st[q] = "SLEEPING", chan[q] = ch
    PROVE  Wakeup1(st, ch)[q] = "RUNNABLE"
BY DEF Wakeup1

(* exit() and thread_exit(): the parent, asleep on its own slot, is woken  *)
(* by wakeup1(curproc->parent); children go to init, which is woken when   *)
(* one of them is a ZOMBIE; the caller becomes a ZOMBIE only after that,   *)
(* and its CPU keeps the lock for the scheduler.                           *)
LEMMA ExitSafety ==
    ASSUME SafetyInv, NEW c \in CPUs, NEW p \in Procs,
           Exit(c, p) \/ ThreadExit(c, p)
    PROVE  SafetyInv'
<1> DEFINE orphanZombie == \E q \in Procs : parent[q] = p /\ state[q] = "ZOMBIE"
           woken == Wakeup1(state, parent[p])
           woken2 == IF orphanZombie THEN Wakeup1(woken, InitProc) ELSE woken
<1>1. /\ cproc[c] = p /\ pc[p] = "user" /\ p # InitProc
      /\ lock = NoCpu /\ lock' = c
      /\ state' = [woken2 EXCEPT ![p] = "ZOMBIE"]
      /\ parent' = [q \in Procs |-> IF parent[q] = p THEN InitProc ELSE parent[q]]
      /\ pc' = [pc EXCEPT ![p] = "exited"]
      /\ cproc' = [cproc EXCEPT ![c] = 0]
      /\ UNCHANGED <<pid, killed, isThread, chan, pgdir, frees, nextpid, child>>
  BY DEF Exit, ThreadExit, Sched
<1>2. IInv'
  BY <1>1, ExitIInv DEF SafetyInv, ThreadExit
<1>3. /\ state[p] = "RUNNING"
      /\ \A d \in CPUs : d # c => cproc[d] # p
  BY <1>1, BoundProc DEF SafetyInv
<1>4. /\ state \in [Procs -> States]
      /\ woken \in [Procs -> States]
      /\ woken2 \in [Procs -> States]
      /\ \A q \in Procs : \/ woken2[q] = state[q]
                          \/ state[q] = "SLEEPING" /\ woken2[q] = "RUNNABLE"
  <2>1. state \in [Procs -> States]
    BY DEF SafetyInv, IInv, TypeOK
  <2>2. /\ woken \in [Procs -> States]
        /\ \A q \in Procs : \/ woken[q] = state[q]
                            \/ state[q] = "SLEEPING" /\ woken[q] = "RUNNABLE"
    BY <2>1, Wakeup1Facts
  <2>3. /\ Wakeup1(woken, InitProc) \in [Procs -> States]
        /\ \A q \in Procs : \/ Wakeup1(woken, InitProc)[q] = woken[q]
                            \/ /\ woken[q] = "SLEEPING"
                               /\ Wakeup1(woken, InitProc)[q] = "RUNNABLE"
    BY <2>2, Wakeup1Facts
  <2>4. QED BY <2>1, <2>2, <2>3
<1>5. InitProc \in Procs /\ parent[InitProc] = 0 /\ parent[p] # p
  BY DEF SafetyInv, InitShape, InitProc, Procs
(* A slot still asleep after the wakeups was not woken: it is neither the  *)
(* parent nor, when a child was a ZOMBIE, init.                            *)
<1>6. ASSUME NEW r \in Procs, woken2[r] = "SLEEPING"
      PROVE  /\ state[r] = "SLEEPING"
             /\ r # parent[p]
             /\ orphanZombie => r # InitProc
  <2>1. state[r] = "SLEEPING"
    BY <1>4, <1>6
  <2>2. chan[r] = r
    BY <2>1 DEF SafetyInv, SuspendedAt
  <2>3. r # parent[p]
    <3>1. SUFFICES ASSUME r = parent[p] PROVE FALSE
      OBVIOUS
    <3>2. woken[r] = "RUNNABLE"
      BY <1>4, <2>1, <2>2, <3>1, Wakeup1Wakes
    <3>3. woken2[r] \in {woken[r], "RUNNABLE"}
      <4>1. CASE orphanZombie
        <5>1. woken2 = Wakeup1(woken, InitProc)
          BY <4>1
        <5>2. QED BY <5>1 DEF Wakeup1
      <4>2. CASE ~orphanZombie
        BY <4>2
      <4>3. QED BY <4>1, <4>2
    <3>4. QED BY <1>6, <3>2, <3>3
  <2>4. orphanZombie => r # InitProc
    <3>1. SUFFICES ASSUME orphanZombie, r = InitProc PROVE FALSE
      OBVIOUS
    <3>2. woken[r] = "SLEEPING"
      BY <1>4, <2>1, <2>2, <2>3 DEF Wakeup1
    <3>3. Wakeup1(woken, InitProc)[r] = "RUNNABLE"
      BY <1>4, <2>2, <3>1, <3>2, Wakeup1Wakes
    <3>4. QED BY <1>6, <3>1, <3>3
  <2>5. QED BY <2>1, <2>3, <2>4
<1>7. SuspendedAt'
  BY <1>1, <1>3, <1>4 DEF SafetyInv, SuspendedAt, IInv, TypeOK, ResumePCs
<1>8. InitShape'
  <2>1. state'[InitProc] \notin {"UNUSED", "EMBRYO", "ZOMBIE"}
    BY <1>1, <1>4, <1>5 DEF SafetyInv, InitShape
  <2>2. parent'[InitProc] = 0
    BY <1>1, <1>5 DEF Procs
  <2>3. ASSUME NEW q \in Procs PROVE parent'[q] # q
    <3>1. p # 0
      BY DEF Procs
    <3>2. CASE parent[q] = p
      BY <1>1, <1>5, <3>1, <3>2
    <3>3. CASE parent[q] # p
      BY <1>1, <3>3 DEF SafetyInv, InitShape
    <3>4. QED BY <3>2, <3>3
  <2>4. QED BY <2>1, <2>2, <2>3 DEF InitShape
<1>9. WaiterHasNoZombie'
  <2>1. SUFFICES ASSUME NEW r \in Procs, state'[r] = "SLEEPING",
                        pc'[r] \in {"wait", "join"},
                        NEW q \in Procs, IsKid(r, q, pc[r] = "join")',
                        state'[q] = "ZOMBIE"
                 PROVE  FALSE
    BY DEF WaiterHasNoZombie
  <2>2. r # p /\ woken2[r] = "SLEEPING" /\ pc'[r] = pc[r]
    BY <1>1, <1>4, <2>1
  <2>3. /\ state[r] = "SLEEPING" /\ r # parent[p]
        /\ orphanZombie => r # InitProc
    BY <2>2, <1>6
  <2>4. parent'[q] = r /\ (pc[r] = "join" => isThread[q])
    BY <1>1, <2>1, <2>2 DEF IsKid
  <2>5. CASE q = p
    BY <1>1, <1>5, <2>3, <2>4, <2>5
  <2>6. CASE q # p
    <3>1. state[q] = "ZOMBIE"
      BY <1>1, <1>4, <2>1, <2>6
    <3>2. CASE parent[q] = p
      BY <1>1, <2>3, <2>4, <3>1, <3>2
    <3>3. CASE parent[q] # p
      <4>1. IsKid(r, q, pc[r] = "join")
        BY <1>1, <2>4, <3>3 DEF IsKid
      <4>2. QED BY <2>1, <2>2, <2>3, <3>1, <4>1 DEF SafetyInv, WaiterHasNoZombie
    <3>4. QED BY <3>2, <3>3
  <2>7. QED BY <2>5, <2>6
<1>10. ParentAlive'
  <2>1. SUFFICES ASSUME NEW q \in Procs,
                        state'[q] \notin {"UNUSED", "EMBRYO"}, q # InitProc
                 PROVE  /\ parent'[q] \in Procs
                        /\ state'[parent'[q]] \notin {"UNUSED", "EMBRYO", "ZOMBIE"}
    BY DEF ParentAlive
  <2>2. \A r \in Procs : r # p /\ state[r] \notin {"UNUSED", "EMBRYO", "ZOMBIE"}
                          => state'[r] \notin {"UNUSED", "EMBRYO", "ZOMBIE"}
    BY <1>1, <1>4
  <2>3. state'[InitProc] \notin {"UNUSED", "EMBRYO", "ZOMBIE"}
    BY <1>1, <1>5, <2>2 DEF SafetyInv, InitShape
  <2>4. CASE q = p
    <3>1. parent'[p] = parent[p]
      BY <1>1, <1>5
    <3>2. parent[p] \in Procs /\ state[parent[p]] \notin {"UNUSED", "EMBRYO", "ZOMBIE"}
      BY <1>1, <1>3 DEF SafetyInv, ParentAlive
    <3>3. QED BY <1>5, <2>2, <2>4, <3>1, <3>2
  <2>5. CASE q # p
    <3>1. state[q] \notin {"UNUSED", "EMBRYO"}
      BY <1>1, <1>4, <2>1, <2>5
    <3>2. parent[q] \in Procs /\ state[parent[q]] \notin {"UNUSED", "EMBRYO", "ZOMBIE"}
      BY <2>1, <3>1 DEF SafetyInv, ParentAlive
    <3>3. CASE parent[q] = p
      BY <1>1, <1>5, <2>3, <3>3
    <3>4. CASE parent[q] # p
      BY <1>1, <2>2, <3>2, <3>4
    <3>5. QED BY <3>3, <3>4
  <2>6. QED BY <2>4, <2>5
<1>11. LivePidsUnique'
  <2>1. \A q \in Procs : state'[q] = "UNUSED" <=> state[q] = "UNUSED"
    BY <1>1, <1>3, <1>4
  <2>2. QED BY <1>1, <2>1 DEF SafetyInv, LivePidsUnique
<1>12. LockHandoff'
  BY <1>1, <1>3 DEF SafetyInv, LockHandoff, IInv, TypeOK
<1>13. QED BY <1>2, <1>7, <1>8, <1>9, <1>10, <1>11, <1>12 DEF SafetyInv

-----------------------------------------------------------------------------
(* One pass of the scan of wait() or thread_join() by p, holding the lock  *)
(* (taken on entry, or kept across sleep).  Reaping frees a ZOMBIE, which  *)
(* no live slot has as parent; returning gives the lock up; sleeping on p  *)
(* happens only with no ZOMBIE child of the kind p waits for.              *)
LEMMA WaitScanSafety ==
    ASSUME SafetyInv, NEW c \in CPUs, NEW p \in Procs, cproc[c] = p,
           lock \in {NoCpu, c},
           NEW isJoin \in BOOLEAN, NEW ch0 \in [Procs -> 0..NPROC],
           \A q \in Procs : q # p => ch0[q] = chan[q],
           WaitScan(c, p, isJoin, ch0),
           IInv',
           UNCHANGED <<isThread, pgdir, nextpid, child>>
    PROVE  SafetyInv'
<1>1. state[p] = "RUNNING" /\ \A d \in CPUs : d # c => cproc[d] # p
  BY BoundProc DEF SafetyInv
<1>2. \A d \in CPUs : d # c /\ cproc[d] # 0 => pc[cproc[d]] \notin ResumePCs
  BY DEF SafetyInv, LockHandoff
<1>3. CASE WaitReap(c, p, isJoin, ch0)
  <2>1. PICK z \in Procs : /\ state[z] = "ZOMBIE"
                           /\ parent[z] = p
                           /\ pid' = [pid EXCEPT ![z] = 0]
                           /\ parent' = [parent EXCEPT ![z] = 0]
                           /\ state' = [state EXCEPT ![z] = "UNUSED"]
                           /\ pc' = [pc EXCEPT ![p] = "user"]
                           /\ lock' = NoCpu
                           /\ chan' = ch0
                           /\ UNCHANGED <<cproc, pos>>
    BY <1>3 DEF WaitReap, Zombies, Kids, IsKid
  <2>2. z # p /\ z # InitProc
    BY <1>1, <2>1 DEF SafetyInv, InitShape
  <2>3. \A q \in Procs : state[q] \notin {"UNUSED", "EMBRYO"} /\ q # InitProc
                         => parent[q] # z
    BY <2>1 DEF SafetyInv, ParentAlive
  <2>4. SuspendedAt'
    BY <1>1, <2>1, <2>2 DEF SafetyInv, SuspendedAt, IInv, TypeOK
  <2>5. InitShape'
    <3>1. InitProc \in Procs /\ z # 0
      BY DEF InitProc, Procs
    <3>2. state'[InitProc] \notin {"UNUSED", "EMBRYO", "ZOMBIE"}
      BY <2>1, <2>2, <3>1 DEF SafetyInv, InitShape, IInv, TypeOK
    <3>3. parent'[InitProc] = 0
      BY <2>1, <2>2, <3>1 DEF SafetyInv, InitShape, IInv, TypeOK
    <3>4. \A q \in Procs : parent'[q] # q
      BY <2>1, <3>1 DEF SafetyInv, InitShape, IInv, TypeOK
    <3>5. QED BY <3>2, <3>3, <3>4 DEF InitShape
  <2>6. WaiterHasNoZombie'
    <3>1. SUFFICES ASSUME NEW r \in Procs, state'[r] = "SLEEPING",
                          pc'[r] \in {"wait", "join"},
                          NEW q \in Procs, IsKid(r, q, pc[r] = "join")',
                          state'[q] = "ZOMBIE"
                   PROVE  FALSE
      BY DEF WaiterHasNoZombie
    <3>2. r # z /\ r # p /\ state[r] = "SLEEPING" /\ pc'[r] = pc[r]
      BY <1>1, <2>1, <3>1 DEF SafetyInv, IInv, TypeOK
    <3>3. r # 0
      BY DEF Procs
    <3>4. q # z /\ parent[q] = r /\ (pc[r] = "join" => isThread[q])
      <4>1. parent'[q] = r /\ (pc'[r] = "join" => isThread'[q])
        BY <3>1 DEF IsKid
      <4>2. q # z
        BY <2>1, <3>3, <4>1 DEF SafetyInv, IInv, TypeOK
      <4>3. QED BY <2>1, <3>2, <4>1, <4>2 DEF SafetyInv, IInv, TypeOK
    <3>5. state[q] = "ZOMBIE"
      BY <2>1, <3>1, <3>4 DEF SafetyInv, IInv, TypeOK
    <3>6. IsKid(r, q, pc[r] = "join")
      BY <3>4 DEF IsKid
    <3>7. QED BY <3>1, <3>2, <3>5, <3>6 DEF SafetyInv, WaiterHasNoZombie
  <2>7. ParentAlive'
    BY <2>1, <2>2, <2>3 DEF SafetyInv, ParentAlive, InitShape, IInv, TypeOK
  <2>8. LivePidsUnique'
    BY <2>1 DEF SafetyInv, LivePidsUnique, IInv, TypeOK
  <2>9. LockHandoff'
    BY <1>1, <1>2, <2>1 DEF SafetyInv, LockHandoff, IInv, TypeOK, ResumePCs
  <2>10. QED BY <2>4, <2>5, <2>6, <2>7, <2>8, <2>9 DEF SafetyInv
<1>4. CASE WaitNoKids(c, p, isJoin, ch0)
  <2>1. /\ pc' = [pc EXCEPT ![p] = "user"]
        /\ lock' = NoCpu
        /\ chan' = ch0
        /\ UNCHANGED <<state, pid, parent, killed, frees, cproc, pos>>
    BY <1>4 DEF WaitNoKids
  <2>2. SuspendedAt'
    BY <1>1, <2>1 DEF SafetyInv, SuspendedAt, IInv, TypeOK
  <2>3. InitShape' /\ ParentAlive' /\ LivePidsUnique'
    BY <2>1 DEF SafetyInv, InitShape, ParentAlive, LivePidsUnique
  <2>4. WaiterHasNoZombie'
    BY <1>1, <2>1 DEF SafetyInv, WaiterHasNoZombie, IsKid, IInv, TypeOK
  <2>5. LockHandoff'
    BY <1>1, <1>2, <2>1 DEF SafetyInv, LockHandoff, IInv, TypeOK, ResumePCs
  <2>6. QED BY <2>2, <2>3, <2>4, <2>5 DEF SafetyInv
<1>5. CASE WaitSleep(c, p, isJoin, ch0)
  <2>1. /\ Zombies(p, isJoin) = {}
        /\ chan' = [ch0 EXCEPT ![p] = p]
        /\ state' = [state EXCEPT ![p] = "SLEEPING"]
        /\ pc' = [pc EXCEPT ![p] = IF isJoin THEN "join" ELSE "wait"]
        /\ lock' = c
        /\ cproc' = [cproc EXCEPT ![c] = 0]
        /\ UNCHANGED <<pid, parent, killed, frees>>
    BY <1>5 DEF WaitSleep, Sched
  <2>2. SuspendedAt'
    BY <1>1, <2>1 DEF SafetyInv, SuspendedAt, IInv, TypeOK
  <2>3. InitShape' /\ ParentAlive' /\ LivePidsUnique'
    BY <1>1, <2>1 DEF SafetyInv, InitShape, ParentAlive, LivePidsUnique,
                      IInv, TypeOK
  <2>4. WaiterHasNoZombie'
    <3>1. \A q \in Procs : IsKid(p, q, isJoin) => state[q] # "ZOMBIE"
      BY <2>1 DEF Zombies, Kids
    <3>2. QED BY <1>1, <2>1, <3>1 DEF SafetyInv, WaiterHasNoZombie, IsKid,
                                      IInv, TypeOK
  <2>5. LockHandoff'
    BY <1>1, <1>2, <2>1 DEF SafetyInv, LockHandoff, IInv, TypeOK
  <2>6. QED BY <2>2, <2>3, <2>4, <2>5 DEF SafetyInv
<1>6. QED BY <1>3, <1>4, <1>5 DEF WaitScan

(* wait(), thread_join() and their rescans after sleep() keep SafetyInv.   *)
LEMMA WaitSafety ==
    ASSUME SafetyInv, NEW c \in CPUs, NEW p \in Procs,
           Wait(c, p) \/ WaitResume(c, p) \/ ThreadJoin(c, p)
                      \/ ThreadJoinResume(c, p)
    PROVE  SafetyInv'
<1>1. cproc[c] = p
  BY DEF Wait, WaitResume, ThreadJoin, ThreadJoinResume
<1>2. IInv'
  BY <1>1, WaitIInv DEF SafetyInv
<1>3. chan \in [Procs -> 0..NPROC] /\ [chan EXCEPT ![p] = 0] \in [Procs -> 0..NPROC]
  BY ChanTypes DEF SafetyInv
<1>4. CASE Wait(c, p)
  BY <1>1, <1>2, <1>3, <1>4, WaitScanSafety DEF Wait
<1>5. CASE WaitResume(c, p)
  BY <1>1, <1>2, <1>3, <1>5, WaitScanSafety DEF WaitResume
<1>6. CASE ThreadJoin(c, p)
  BY <1>1, <1>2, <1>3, <1>6, WaitScanSafety DEF ThreadJoin
<1>7. CASE ThreadJoinResume(c, p)
  BY <1>1, <1>2, <1>3, <1>7, WaitScanSafety DEF ThreadJoinResume
<1>8. QED BY <1>4, <1>5, <1>6, <1>7

-----------------------------------------------------------------------------
(* Every step of the kernel, and every stutter, preserves SafetyInv.       *)
LEMMA NextSafety == SafetyInv /\ [Next]_vars => SafetyInv'
<1> SUFFICES ASSUME SafetyInv, [Next]_vars PROVE SafetyInv'
  OBVIOUS
<1>1. ASSUME NEW c \in CPUs, NEW p \in Procs, ProcStep(c, p)
      PROVE  SafetyInv'
  <2>1. CASE Forkret(c, p) \/ YieldReturn(c, p)
    BY <2>1, ReleaseToUserSafety
  <2>2. CASE Yield(c, p)
    BY <2>2, YieldSafety
  <2>3. CASE ForkAlloc(c, p) \/ ThreadCreateAlloc(c, p)
    BY <2>3, AllocProcSafety DEF ForkAlloc, ThreadCreateAlloc
  <2>4. CASE ForkFail(c, p) \/ ThreadCreateFail(c, p)
    BY <2>4, AllocFailSafety
  <2>5. CASE ForkDone(c, p) \/ ThreadCreateDone(c, p)
    BY <2>5, PublishStepSafety
  <2>6. CASE Exit(c, p) \/ ThreadExit(c, p)
    BY <2>6, ExitSafety
  <2>7. CASE Wait(c, p) \/ WaitResume(c, p) \/ ThreadJoin(c, p)
                        \/ ThreadJoinResume(c, p)
    BY <2>7, WaitSafety
  <2>8. CASE \E k \in Pids : Kill(c, p, k)
    BY <2>8, KillSafety
  <2>9. QED BY <1>1, <2>1, <2>2, <2>3, <2>4, <2>5, <2>6, <2>7, <2>8 DEF ProcStep
<1>2. CASE UNCHANGED vars
  <2>1. IInv'
    BY <1>2, NextIInv DEF SafetyInv
  <2>2. TableParts'
    BY <1>2, TableUnchanged DEF vars, SafetyInv, TableParts
  <2>3. LockHandoff'
    BY <1>2 DEF vars, SafetyInv, LockHandoff
  <2>4. QED BY <2>1, <2>2, <2>3 DEF SafetyInv, TableParts
<1>3. CASE Next
  BY <1>1, <1>3, SchedAcquireSafety, SchedDispatchSafety, SchedReleaseSafety
  DEF Next
<1>4. QED BY <1>2, <1>3

-----------------------------------------------------------------------------
(* ptable.lock crosses swtch only by the sched()/scheduler() hand-off: a   *)
(* process bound to a CPU holds the lock exactly while it runs forkret,    *)
(* the tail of yield or the rescan of wait/thread_join, for every table    *)
(* size and number of CPUs.                                                *)
THEOREM LockHandedOff == Spec => []LockHandoff
<1>1. SafetyInv => LockHandoff
  BY DEF SafetyInv
<1>2. QED BY <1>1, InitSafety, NextSafety, PTL DEF Spec

(* No lost wakeup in wait and thread_join: a process asleep there never    *)
(* has a ZOMBIE child of the kind it waits for, because exit wakes the     *)
(* parent (and init, for reparented zombies) under the lock the waiter     *)
(* scans and sleeps under.                                                 *)
THEOREM NoLostChildWakeup == Spec => []WaiterHasNoZombie
<1>1. SafetyInv => WaiterHasNoZombie
  BY DEF SafetyInv
<1>2. QED BY <1>1, InitSafety, NextSafety, PTL DEF Spec

(* exit() passes its children to init before it becomes a ZOMBIE, init    *)
(* never exits, and wait reaps only ZOMBIEs: every live process but init   *)
(* has a live, non-ZOMBIE parent.                                          *)
THEOREM ParentsStayAlive == Spec => []ParentAlive
<1>1. SafetyInv => ParentAlive
  BY DEF SafetyInv
<1>2. QED BY <1>1, InitSafety, NextSafety, PTL DEF Spec

(* allocproc's nextpid++ under ptable.lock, and the failure paths that put *)
(* the slot back, keep the pids of live slots distinct and below nextpid.  *)
THEOREM PidsUnique == Spec => []LivePidsUnique
<1>1. SafetyInv => LivePidsUnique
  BY DEF SafetyInv
<1>2. QED BY <1>1, InitSafety, NextSafety, PTL DEF Spec

(* The whole strengthening, as the run checks it.                          *)
THEOREM SafetyInvariant == Spec => []SafetyInv
BY InitSafety, NextSafety, PTL DEF Spec

====
