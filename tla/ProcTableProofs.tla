-------------------------- MODULE ProcTableProofs --------------------------
(***************************************************************************)
(* Proofs about ProcTable for every table size, every set of CPUs and     *)
(* every pid bound: the type invariant and the property that no process   *)
(* runs on two CPUs, both from the inductive invariant IInv.              *)
(***************************************************************************)
EXTENDS ProcTable, TLAPS

USE ConstantsAssumption


-----------------------------------------------------------------------------
(* The initial state (after userinit) satisfies the invariant.             *)
LEMMA InitIInv == Init => IInv
BY DEF Init, IInv, TypeOK, PosOnRunning, RunningOnOneCpu, ChildEmbryo,
       Procs, Pids, AddrSpaces, States, PCs, InitProc

-----------------------------------------------------------------------------
(* Facts about the process bound to a CPU that most steps use: it is      *)
(* RUNNING, it is the scan position of its CPU, and no other CPU runs it.  *)
LEMMA BoundProc ==
    ASSUME IInv, NEW c \in CPUs, NEW p \in Procs, cproc[c] = p
    PROVE  /\ state[p] = "RUNNING"
           /\ pos[c] = p
           /\ \A d \in CPUs : d # c => cproc[d] # p
           /\ \A q \in Procs : pc[q] \in {"fork", "tcreate"} => child[q] # p
<1>1. state[p] = "RUNNING"
  BY DEF IInv, RunningOnOneCpu
<1>2. pos[c] = p
  BY DEF IInv, PosOnRunning, Procs
<1>3. \A d \in CPUs : d # c => cproc[d] # p
  BY DEF IInv, RunningOnOneCpu, Procs
<1>4. \A q \in Procs : pc[q] \in {"fork", "tcreate"} => child[q] # p
  BY <1>1 DEF IInv, ChildEmbryo
<1>5. QED BY <1>1, <1>2, <1>3, <1>4

-----------------------------------------------------------------------------
(* A step that leaves every CPU's c->proc alone and changes no slot into   *)
(* or out of RUNNING keeps RunningOnOneCpu.                                *)
LEMMA RunningUnchanged ==
    ASSUME RunningOnOneCpu, cproc' = cproc,
           \A q \in Procs : state'[q] = "RUNNING" <=> state[q] = "RUNNING"
    PROVE  RunningOnOneCpu'
BY DEF RunningOnOneCpu

(* sched() from the process p bound to c, having moved p out of RUNNING    *)
(* and no other slot into or out of it, keeps RunningOnOneCpu.             *)
LEMMA RunningAfterSched ==
    ASSUME TypeOK, RunningOnOneCpu, NEW c \in CPUs, NEW p \in Procs,
           cproc[c] = p, cproc' = [cproc EXCEPT ![c] = 0],
           state'[p] # "RUNNING",
           \A q \in Procs \ {p} : state'[q] = "RUNNING" <=> state[q] = "RUNNING"
    PROVE  RunningOnOneCpu'
<1>1. ASSUME NEW q \in Procs
      PROVE  state'[q] = "RUNNING" <=> \E d \in CPUs : cproc'[d] = q
  <2>1. CASE q = p
    <3>1. \A d \in CPUs : cproc'[d] # p
      <4>1. cproc'[c] = 0
        BY DEF TypeOK
      <4>2. \A d \in CPUs \ {c} : cproc'[d] = cproc[d] /\ cproc[d] # p
        BY DEF TypeOK, RunningOnOneCpu, Procs
      <4>3. QED BY <4>1, <4>2 DEF Procs
    <3>2. QED BY <2>1, <3>1
  <2>2. CASE q # p
    <3>1. cproc \in [CPUs -> 0..NPROC]
      BY DEF TypeOK
    <3>2. \A d \in CPUs : cproc'[d] = q <=> cproc[d] = q
      BY <2>2, <3>1 DEF Procs
    <3>3. QED BY <2>2, <3>2 DEF RunningOnOneCpu
  <2>3. QED BY <2>1, <2>2
<1>2. \A d, e \in CPUs : d # e /\ cproc'[d] # 0 => cproc'[d] # cproc'[e]
  BY DEF TypeOK, RunningOnOneCpu
<1>3. QED BY <1>1, <1>2 DEF RunningOnOneCpu

(* sched() from the process bound to c keeps the CPU fields typed and the  *)
(* scan positions of running CPUs on their processes.                     *)
LEMMA SchedFacts ==
    ASSUME IInv, NEW c \in CPUs, NEW p \in Procs, cproc[c] = p, Sched(c)
    PROVE  /\ cproc' \in [CPUs -> 0..NPROC]
           /\ pos' \in [CPUs -> 1..(NPROC + 1)]
           /\ PosOnRunning'
<1>1. pos[c] = p
  BY DEF IInv, PosOnRunning, Procs
<1>2. cproc' \in [CPUs -> 0..NPROC]
  <2>1. cproc \in [CPUs -> 0..NPROC]
    BY DEF IInv, TypeOK
  <2>2. QED BY <2>1 DEF Sched
<1>3. pos' \in [CPUs -> 1..(NPROC + 1)]
  <2>1. pos \in [CPUs -> 1..(NPROC + 1)] /\ p \in 1..NPROC
    BY DEF IInv, TypeOK, Procs
  <2>2. pos' = [pos EXCEPT ![c] = p + 1]
    BY <1>1 DEF Sched
  <2>3. QED BY <2>1, <2>2
<1>4. PosOnRunning'
  BY DEF Sched, IInv, TypeOK, PosOnRunning
<1>5. QED BY <1>2, <1>3, <1>4

(* A step that leaves the fork/thread_create locations and their children  *)
(* alone and keeps every EMBRYO slot EMBRYO keeps ChildEmbryo.             *)
LEMMA ChildUnchanged ==
    ASSUME ChildEmbryo,
           \A q \in Procs : pc'[q] \in {"fork", "tcreate"} =>
                               /\ pc[q] \in {"fork", "tcreate"}
                               /\ child'[q] = child[q],
           \A q \in Procs : state[q] = "EMBRYO" => state'[q] = "EMBRYO"
    PROVE  ChildEmbryo'
BY DEF ChildEmbryo

(* wakeup1 only turns SLEEPING slots RUNNABLE.                             *)
LEMMA Wakeup1Facts ==
    ASSUME NEW st \in [Procs -> States], NEW ch
    PROVE  /\ Wakeup1(st, ch) \in [Procs -> States]
           /\ \A q \in Procs : \/ Wakeup1(st, ch)[q] = st[q]
                               \/ /\ st[q] = "SLEEPING"
                                  /\ Wakeup1(st, ch)[q] = "RUNNABLE"
BY DEF Wakeup1, States

-----------------------------------------------------------------------------
(* scheduler() takes ptable.lock to start a scan; it preserves IInv.       *)
LEMMA SchedAcquireIInv ==
    ASSUME IInv, NEW c \in CPUs, SchedAcquire(c)
    PROVE  IInv'
<1>1. TypeOK'
  BY DEF SchedAcquire, IInv, TypeOK
<1>2. PosOnRunning'
  BY DEF SchedAcquire, IInv, PosOnRunning
<1>3. RunningOnOneCpu'
  BY DEF SchedAcquire, IInv, RunningOnOneCpu
<1>4. ChildEmbryo'
  BY DEF SchedAcquire, IInv, ChildEmbryo
<1>5. QED BY <1>1, <1>2, <1>3, <1>4 DEF IInv

(* scheduler() dispatches the first RUNNABLE slot at or after its scan     *)
(* position; it preserves IInv because that slot was on no CPU.            *)
LEMMA SchedDispatchIInv ==
    ASSUME IInv, NEW c \in CPUs, SchedDispatch(c)
    PROVE  IInv'
<1>1. PICK j \in Procs :
         /\ state[j] = "RUNNABLE"
         /\ cproc' = [cproc EXCEPT ![c] = j]
         /\ state' = [state EXCEPT ![j] = "RUNNING"]
         /\ pos' = [pos EXCEPT ![c] = j]
  BY DEF SchedDispatch
<1>2. /\ cproc[c] = 0
      /\ UNCHANGED <<pid, parent, killed, isThread, chan, pgdir, frees,
                     nextpid, pc, child, lock>>
  BY DEF SchedDispatch
<1>3. \A d \in CPUs : cproc[d] # j
  BY <1>1 DEF IInv, RunningOnOneCpu
<1>4. TypeOK'
  <2>1. state' \in [Procs -> States]
    BY <1>1 DEF IInv, TypeOK, States
  <2>2. cproc' \in [CPUs -> 0..NPROC]
    BY <1>1 DEF IInv, TypeOK, Procs
  <2>3. pos' \in [CPUs -> 1..(NPROC + 1)]
    BY <1>1 DEF IInv, TypeOK, Procs
  <2>4. QED BY <1>2, <2>1, <2>2, <2>3 DEF IInv, TypeOK
<1>5. PosOnRunning'
  BY <1>1, <1>2 DEF IInv, TypeOK, PosOnRunning, Procs
<1>6. RunningOnOneCpu'
  <2>1. ASSUME NEW q \in Procs
        PROVE  state'[q] = "RUNNING" <=> \E d \in CPUs : cproc'[d] = q
    <3>1. CASE q = j
      BY <1>1, <3>1 DEF IInv, TypeOK
    <3>2. CASE q # j
      <4>1. state'[q] = state[q]
        BY <1>1, <3>2 DEF IInv, TypeOK
      <4>2. \A d \in CPUs : cproc'[d] = q <=> cproc[d] = q
        <5>1. cproc' = [cproc EXCEPT ![c] = j] /\ cproc[c] = 0
          BY <1>1, <1>2
        <5>2. cproc \in [CPUs -> 0..NPROC]
          BY DEF IInv, TypeOK
        <5>3. QED BY <5>1, <5>2, <3>2 DEF Procs
      <4>3. QED BY <4>1, <4>2 DEF IInv, RunningOnOneCpu
    <3>3. QED BY <3>1, <3>2
  <2>2. \A d, e \in CPUs : d # e /\ cproc'[d] # 0 => cproc'[d] # cproc'[e]
    BY <1>1, <1>2, <1>3 DEF IInv, TypeOK, RunningOnOneCpu, Procs
  <2>3. QED BY <2>1, <2>2 DEF RunningOnOneCpu
<1>7. ChildEmbryo'
  BY <1>1, <1>2 DEF IInv, TypeOK, ChildEmbryo
<1>8. QED BY <1>4, <1>5, <1>6, <1>7 DEF IInv

(* scheduler() ends a scan and releases the lock; it preserves IInv.       *)
LEMMA SchedReleaseIInv ==
    ASSUME IInv, NEW c \in CPUs, SchedRelease(c)
    PROVE  IInv'
<1>1. TypeOK'
  BY DEF SchedRelease, IInv, TypeOK
<1>2. PosOnRunning'
  BY DEF SchedRelease, IInv, PosOnRunning
<1>3. RunningOnOneCpu'
  BY DEF SchedRelease, IInv, RunningOnOneCpu
<1>4. ChildEmbryo'
  BY DEF SchedRelease, IInv, ChildEmbryo
<1>5. QED BY <1>1, <1>2, <1>3, <1>4 DEF IInv

-----------------------------------------------------------------------------
(* forkret() releases the lock; it preserves IInv.                         *)
LEMMA ForkretIInv ==
    ASSUME IInv, NEW c \in CPUs, NEW p \in Procs, cproc[c] = p, Forkret(c, p)
    PROVE  IInv'
<1>1. TypeOK'
  BY DEF Forkret, IInv, TypeOK, PCs
<1>2. PosOnRunning'
  BY DEF Forkret, IInv, PosOnRunning
<1>3. RunningOnOneCpu'
  BY DEF Forkret, IInv, RunningOnOneCpu
<1>4. ChildEmbryo'
  BY DEF Forkret, IInv, ChildEmbryo
<1>5. QED BY <1>1, <1>2, <1>3, <1>4 DEF IInv

(* The tail of yield() releases the lock; it preserves IInv.               *)
LEMMA YieldReturnIInv ==
    ASSUME IInv, NEW c \in CPUs, NEW p \in Procs, cproc[c] = p,
           YieldReturn(c, p)
    PROVE  IInv'
<1>1. TypeOK'
  BY DEF YieldReturn, IInv, TypeOK, PCs
<1>2. PosOnRunning'
  BY DEF YieldReturn, IInv, PosOnRunning
<1>3. RunningOnOneCpu'
  BY DEF YieldReturn, IInv, RunningOnOneCpu
<1>4. ChildEmbryo'
  BY DEF YieldReturn, IInv, ChildEmbryo
<1>5. QED BY <1>1, <1>2, <1>3, <1>4 DEF IInv

(* yield() makes the caller RUNNABLE and unbinds it from its CPU; it       *)
(* preserves IInv.                                                         *)
LEMMA YieldIInv ==
    ASSUME IInv, NEW c \in CPUs, NEW p \in Procs, cproc[c] = p, Yield(c, p)
    PROVE  IInv'
<1>1. /\ pc[p] = "user"
      /\ lock' = c
      /\ state' = [state EXCEPT ![p] = "RUNNABLE"]
      /\ pc' = [pc EXCEPT ![p] = "yield"]
      /\ Sched(c)
      /\ UNCHANGED <<pid, parent, killed, isThread, chan, pgdir, frees,
                     nextpid, child>>
  BY DEF Yield
<1>2. state[p] = "RUNNING"
  BY BoundProc
<1>3. TypeOK'
  <2>1. state' \in [Procs -> States] /\ pc' \in [Procs -> PCs]
    BY <1>1 DEF IInv, TypeOK, States, PCs
  <2>2. cproc' \in [CPUs -> 0..NPROC] /\ pos' \in [CPUs -> 1..(NPROC + 1)]
    BY <1>1, SchedFacts
  <2>3. QED BY <1>1, <2>1, <2>2 DEF IInv, TypeOK
<1>4. PosOnRunning'
  BY <1>1, SchedFacts
<1>5. RunningOnOneCpu'
  <2>1. state'[p] # "RUNNING"
    BY <1>1 DEF IInv, TypeOK
  <2>2. \A q \in Procs \ {p} : state'[q] = "RUNNING" <=> state[q] = "RUNNING"
    BY <1>1 DEF IInv, TypeOK
  <2>3. QED BY <1>1, <2>1, <2>2, RunningAfterSched DEF IInv, Sched
<1>6. ChildEmbryo'
  <2>1. \A q \in Procs : state[q] = "EMBRYO" => state'[q] = "EMBRYO"
    BY <1>1, <1>2 DEF IInv, TypeOK
  <2>2. \A q \in Procs : pc'[q] \in {"fork", "tcreate"} =>
                            /\ pc[q] \in {"fork", "tcreate"}
                            /\ child'[q] = child[q]
    BY <1>1 DEF IInv, TypeOK
  <2>3. QED BY <2>1, <2>2, ChildUnchanged DEF IInv
<1>7. QED BY <1>3, <1>4, <1>5, <1>6 DEF IInv

-----------------------------------------------------------------------------
(* allocproc() for fork or thread_create turns the first UNUSED slot into  *)
(* an EMBRYO owned by the caller; it preserves IInv.                       *)
LEMMA AllocProcIInv ==
    ASSUME IInv, NEW c \in CPUs, NEW p \in Procs,
           NEW dst \in {"fork", "tcreate"}, cproc[c] = p, AllocProc(c, p, dst)
    PROVE  IInv'
<1>1. PICK j \in Procs : /\ state[j] = "UNUSED"
                          /\ state' = [state EXCEPT ![j] = "EMBRYO"]
                          /\ pid' = [pid EXCEPT ![j] = nextpid]
                          /\ child' = [child EXCEPT ![p] = j]
  BY DEF AllocProc
<1>2. /\ pc[p] = "user"
      /\ nextpid <= MaxPid
      /\ nextpid' = nextpid + 1
      /\ pc' = [pc EXCEPT ![p] = dst]
      /\ UNCHANGED <<parent, killed, isThread, chan, pgdir, frees, cproc,
                     pos, lock>>
  BY DEF AllocProc
<1>3. TypeOK'
  <2>1. state' \in [Procs -> States]
    BY <1>1 DEF IInv, TypeOK, States
  <2>2. pid' \in [Procs -> Pids] /\ nextpid' \in 1..(MaxPid + 1)
    BY <1>1, <1>2 DEF IInv, TypeOK, Pids
  <2>3. child' \in [Procs -> 0..NPROC]
    <3>1. j \in 0..NPROC
      BY DEF Procs
    <3>2. child \in [Procs -> 0..NPROC]
      BY DEF IInv, TypeOK
    <3>3. QED BY <1>1, <3>1, <3>2
  <2>4. pc' \in [Procs -> PCs]
    BY <1>2 DEF IInv, TypeOK, PCs
  <2>5. QED BY <1>2, <2>1, <2>2, <2>3, <2>4 DEF IInv, TypeOK
<1>4. PosOnRunning'
  BY <1>2 DEF IInv, PosOnRunning
<1>5. RunningOnOneCpu'
  <2>1. \A q \in Procs : state'[q] = "RUNNING" <=> state[q] = "RUNNING"
    BY <1>1 DEF IInv, TypeOK
  <2>2. QED BY <1>2, <2>1, RunningUnchanged DEF IInv
<1>6. ChildEmbryo'
  <2>1. \A q \in Procs : pc[q] \in {"fork", "tcreate"} => child[q] # j
    BY <1>1 DEF IInv, ChildEmbryo
  <2>2. ASSUME NEW q \in Procs, pc'[q] \in {"fork", "tcreate"}
        PROVE  /\ child'[q] \in Procs
               /\ state'[child'[q]] = "EMBRYO"
               /\ \A r \in Procs : r # q /\ pc'[r] \in {"fork", "tcreate"} =>
                                     child'[r] # child'[q]
    <3>1. CASE q = p
      BY <1>1, <1>2, <2>1, <2>2, <3>1 DEF IInv, TypeOK
    <3>2. CASE q # p
      <4>1. pc[q] \in {"fork", "tcreate"} /\ child'[q] = child[q]
        BY <1>1, <1>2, <2>2, <3>2 DEF IInv, TypeOK
      <4>2. child[q] \in Procs /\ state[child[q]] = "EMBRYO"
        BY <4>1 DEF IInv, ChildEmbryo
      <4>3. \A r \in Procs : r # q /\ pc'[r] \in {"fork", "tcreate"} =>
                                child'[r] # child'[q]
        BY <1>1, <1>2, <2>1, <3>2, <4>1 DEF IInv, TypeOK, ChildEmbryo
      <4>4. QED BY <1>1, <2>1, <4>1, <4>2, <4>3 DEF IInv, TypeOK
    <3>3. QED BY <3>1, <3>2
  <2>3. QED BY <2>2 DEF ChildEmbryo
<1>7. QED BY <1>3, <1>4, <1>5, <1>6 DEF IInv

(* The failure path of fork and thread_create puts their EMBRYO back to    *)
(* UNUSED; it preserves IInv.                                              *)
LEMMA AllocFailIInv ==
    ASSUME IInv, NEW c \in CPUs, NEW p \in Procs, cproc[c] = p,
           ForkFail(c, p) \/ ThreadCreateFail(c, p)
    PROVE  IInv'
<1>1. /\ pc[p] \in {"fork", "tcreate"}
      /\ state' = [state EXCEPT ![child[p]] = "UNUSED"]
      /\ pc' = [pc EXCEPT ![p] = "user"]
      /\ child' = [child EXCEPT ![p] = 0]
      /\ UNCHANGED <<pid, parent, killed, isThread, chan, pgdir, frees,
                     nextpid, cproc, pos, lock>>
  BY DEF ForkFail, ThreadCreateFail
<1>2. child[p] \in Procs /\ state[child[p]] = "EMBRYO"
  BY <1>1 DEF IInv, ChildEmbryo
<1>3. TypeOK'
  BY <1>1, <1>2 DEF IInv, TypeOK, States, PCs
<1>4. PosOnRunning'
  BY <1>1 DEF IInv, PosOnRunning
<1>5. RunningOnOneCpu'
  <2>1. \A q \in Procs : state'[q] = "RUNNING" <=> state[q] = "RUNNING"
    BY <1>1, <1>2 DEF IInv, TypeOK
  <2>2. QED BY <1>1, <2>1, RunningUnchanged DEF IInv
<1>6. ChildEmbryo'
  <2>1. \A q \in Procs : q # p /\ pc[q] \in {"fork", "tcreate"} =>
                            child[q] # child[p]
    BY <1>1 DEF IInv, ChildEmbryo
  <2>2. QED BY <1>1, <1>2, <2>1 DEF IInv, TypeOK, ChildEmbryo
<1>7. QED BY <1>3, <1>4, <1>5, <1>6 DEF IInv

-----------------------------------------------------------------------------
(* The common tail of fork and thread_create: the EMBRYO np the caller     *)
(* owns becomes RUNNABLE, to start in forkret, and the caller returns.     *)
(* It preserves IInv whatever pgdir and isThread the new slot gets.        *)
LEMMA PublishIInv ==
    ASSUME IInv, NEW c \in CPUs, NEW p \in Procs, cproc[c] = p,
           pc[p] \in {"fork", "tcreate"},
           state' = [state EXCEPT ![child[p]] = "RUNNABLE"],
           pc' = [pc EXCEPT ![child[p]] = "forkret", ![p] = "user"],
           child' = [child EXCEPT ![p] = 0],
           parent' = [parent EXCEPT ![child[p]] = p],
           pgdir' \in [Procs -> 0..MaxPid],
           isThread' \in [Procs -> BOOLEAN],
           UNCHANGED <<pid, killed, chan, frees, nextpid, cproc, pos, lock>>
    PROVE  IInv'
<1> DEFINE np == child[p]
<1>1. np \in Procs /\ state[np] = "EMBRYO"
  BY DEF IInv, ChildEmbryo
<1>2. np # p
  BY <1>1, BoundProc
<1>3. TypeOK'
  <2>1. state' \in [Procs -> States]
    BY <1>1 DEF IInv, TypeOK, States
  <2>2. pc' \in [Procs -> PCs]
    BY <1>1 DEF IInv, TypeOK, PCs
  <2>3. child' \in [Procs -> 0..NPROC]
    BY DEF IInv, TypeOK
  <2>4. parent' \in [Procs -> 0..NPROC]
    <3>1. p \in 0..NPROC
      BY DEF Procs
    <3>2. parent \in [Procs -> 0..NPROC]
      BY DEF IInv, TypeOK
    <3>3. QED BY <3>1, <3>2
  <2>5. QED BY <2>1, <2>2, <2>3, <2>4 DEF IInv, TypeOK
<1>4. PosOnRunning'
  BY DEF IInv, PosOnRunning
<1>5. RunningOnOneCpu'
  <2>1. \A q \in Procs : state'[q] = "RUNNING" <=> state[q] = "RUNNING"
    BY <1>1 DEF IInv, TypeOK
  <2>2. QED BY <2>1, RunningUnchanged DEF IInv
<1>6. ChildEmbryo'
  <2>1. \A q \in Procs : q # p /\ pc[q] \in {"fork", "tcreate"} => child[q] # np
    BY DEF IInv, ChildEmbryo
  <2>2. \A q \in Procs : pc'[q] \in {"fork", "tcreate"} =>
                            /\ pc[q] \in {"fork", "tcreate"}
                            /\ child'[q] = child[q]
                            /\ q # p /\ q # np
    BY <1>1, <1>2 DEF IInv, TypeOK
  <2>3. QED BY <1>1, <2>1, <2>2 DEF IInv, TypeOK, ChildEmbryo
<1>7. QED BY <1>3, <1>4, <1>5, <1>6 DEF IInv

(* fork() publishes its child.                                             *)
LEMMA ForkDoneIInv ==
    ASSUME IInv, NEW c \in CPUs, NEW p \in Procs, cproc[c] = p, ForkDone(c, p)
    PROVE  IInv'
<1>1. pgdir' \in [Procs -> 0..MaxPid]
  <2>1. child[p] \in Procs
    BY DEF ForkDone, IInv, ChildEmbryo
  <2>2. pid[child[p]] \in 0..MaxPid /\ pgdir \in [Procs -> 0..MaxPid]
    BY <2>1 DEF IInv, TypeOK, Pids
  <2>3. QED BY <2>2 DEF ForkDone
<1>2. isThread' \in [Procs -> BOOLEAN]
  BY DEF ForkDone, IInv, TypeOK
<1>3. /\ pc[p] \in {"fork", "tcreate"}
      /\ state' = [state EXCEPT ![child[p]] = "RUNNABLE"]
      /\ pc' = [pc EXCEPT ![child[p]] = "forkret", ![p] = "user"]
      /\ child' = [child EXCEPT ![p] = 0]
      /\ parent' = [parent EXCEPT ![child[p]] = p]
      /\ UNCHANGED <<pid, killed, chan, frees, nextpid, cproc, pos, lock>>
  BY DEF ForkDone
<1>4. QED BY <1>1, <1>2, <1>3, PublishIInv

(* thread_create() publishes its thread, sharing the caller's pgdir.       *)
LEMMA ThreadCreateDoneIInv ==
    ASSUME IInv, NEW c \in CPUs, NEW p \in Procs, cproc[c] = p,
           ThreadCreateDone(c, p)
    PROVE  IInv'
<1>1. pgdir' \in [Procs -> 0..MaxPid] /\ isThread' \in [Procs -> BOOLEAN]
  BY DEF ThreadCreateDone, IInv, TypeOK
<1>2. /\ pc[p] \in {"fork", "tcreate"}
      /\ state' = [state EXCEPT ![child[p]] = "RUNNABLE"]
      /\ pc' = [pc EXCEPT ![child[p]] = "forkret", ![p] = "user"]
      /\ child' = [child EXCEPT ![p] = 0]
      /\ parent' = [parent EXCEPT ![child[p]] = p]
      /\ UNCHANGED <<pid, killed, chan, frees, nextpid, cproc, pos, lock>>
  BY DEF ThreadCreateDone
<1>3. QED BY <1>1, <1>2, PublishIInv

-----------------------------------------------------------------------------
(* exit() and thread_exit(): wakeups only move SLEEPING slots to RUNNABLE, *)
(* the caller leaves RUNNING for ZOMBIE and sched() unbinds it.            *)
LEMMA ExitIInv ==
    ASSUME IInv, NEW c \in CPUs, NEW p \in Procs, cproc[c] = p, Exit(c, p)
    PROVE  IInv'
<1> DEFINE orphanZombie == \E q \in Procs : parent[q] = p /\ state[q] = "ZOMBIE"
           woken == Wakeup1(state, parent[p])
           woken2 == IF orphanZombie THEN Wakeup1(woken, InitProc) ELSE woken
<1>1. /\ pc[p] = "user"
      /\ state' = [woken2 EXCEPT ![p] = "ZOMBIE"]
      /\ parent' = [q \in Procs |-> IF parent[q] = p THEN InitProc ELSE parent[q]]
      /\ pc' = [pc EXCEPT ![p] = "exited"]
      /\ lock' = c
      /\ Sched(c)
      /\ UNCHANGED <<pid, killed, isThread, chan, pgdir, frees, nextpid, child>>
  BY DEF Exit
<1>2. /\ woken2 \in [Procs -> States]
      /\ \A q \in Procs : \/ woken2[q] = state[q]
                          \/ state[q] = "SLEEPING" /\ woken2[q] = "RUNNABLE"
  <2>1. state \in [Procs -> States]
    BY DEF IInv, TypeOK
  <2>2. /\ woken \in [Procs -> States]
        /\ \A q \in Procs : \/ woken[q] = state[q]
                            \/ state[q] = "SLEEPING" /\ woken[q] = "RUNNABLE"
    BY <2>1, Wakeup1Facts
  <2>3. /\ Wakeup1(woken, InitProc) \in [Procs -> States]
        /\ \A q \in Procs : \/ Wakeup1(woken, InitProc)[q] = woken[q]
                            \/ /\ woken[q] = "SLEEPING"
                               /\ Wakeup1(woken, InitProc)[q] = "RUNNABLE"
    BY <2>2, Wakeup1Facts
  <2>4. QED BY <2>2, <2>3
<1>3. state[p] = "RUNNING"
  BY BoundProc
<1>4. TypeOK'
  <2>1. state' \in [Procs -> States]
    BY <1>1, <1>2 DEF States
  <2>2. parent' \in [Procs -> 0..NPROC]
    <3>1. InitProc \in 0..NPROC
      BY DEF InitProc
    <3>2. parent \in [Procs -> 0..NPROC]
      BY DEF IInv, TypeOK
    <3>3. QED BY <1>1, <3>1, <3>2
  <2>3. pc' \in [Procs -> PCs]
    BY <1>1 DEF IInv, TypeOK, PCs
  <2>4. cproc' \in [CPUs -> 0..NPROC] /\ pos' \in [CPUs -> 1..(NPROC + 1)]
    BY <1>1, SchedFacts
  <2>5. QED BY <1>1, <2>1, <2>2, <2>3, <2>4 DEF IInv, TypeOK
<1>5. PosOnRunning'
  BY <1>1, SchedFacts
<1>6. RunningOnOneCpu'
  <2>1. state'[p] # "RUNNING"
    BY <1>1, <1>2
  <2>2. \A q \in Procs \ {p} : state'[q] = "RUNNING" <=> state[q] = "RUNNING"
    BY <1>1, <1>2
  <2>3. QED BY <1>1, <2>1, <2>2, RunningAfterSched DEF IInv, Sched
<1>7. ChildEmbryo'
  <2>1. \A q \in Procs : state[q] = "EMBRYO" => state'[q] = "EMBRYO"
    BY <1>1, <1>2, <1>3
  <2>2. \A q \in Procs : pc'[q] \in {"fork", "tcreate"} =>
                            /\ pc[q] \in {"fork", "tcreate"}
                            /\ child'[q] = child[q]
    BY <1>1 DEF IInv, TypeOK
  <2>3. QED BY <2>1, <2>2, ChildUnchanged DEF IInv
<1>8. QED BY <1>4, <1>5, <1>6, <1>7 DEF IInv

-----------------------------------------------------------------------------
(* One pass of the scan of wait() or thread_join(): reaping a ZOMBIE child *)
(* frees a slot nobody runs or owns, returning changes only the caller, and *)
(* sleeping takes the caller off its CPU through sched().                  *)
LEMMA WaitScanIInv ==
    ASSUME IInv, NEW c \in CPUs, NEW p \in Procs, cproc[c] = p,
           pc[p] \in {"user", "wait", "join"},
           NEW isJoin \in BOOLEAN, NEW ch0 \in [Procs -> 0..NPROC],
           WaitScan(c, p, isJoin, ch0),
           UNCHANGED <<isThread, pgdir, nextpid, child>>
    PROVE  IInv'
<1>1. CASE WaitReap(c, p, isJoin, ch0)
  <2>1. PICK z \in Procs : /\ state[z] = "ZOMBIE"
                           /\ frees' = IF isJoin THEN frees
                                       ELSE [frees EXCEPT ![pgdir[z]] = @ + 1]
                           /\ pid' = [pid EXCEPT ![z] = 0]
                           /\ parent' = [parent EXCEPT ![z] = 0]
                           /\ killed' = [killed EXCEPT ![z] = FALSE]
                           /\ state' = [state EXCEPT ![z] = "UNUSED"]
                           /\ pc' = [pc EXCEPT ![p] = "user"]
                           /\ lock' = NoCpu
                           /\ chan' = ch0
                           /\ UNCHANGED <<cproc, pos>>
    BY <1>1 DEF WaitReap, Zombies, Kids
  <2>2. TypeOK'
    <3>1. state' \in [Procs -> States] /\ pc' \in [Procs -> PCs]
      BY <2>1 DEF IInv, TypeOK, States, PCs
    <3>2. pid' \in [Procs -> Pids] /\ parent' \in [Procs -> 0..NPROC]
      BY <2>1 DEF IInv, TypeOK, Pids
    <3>3. killed' \in [Procs -> BOOLEAN]
      BY <2>1 DEF IInv, TypeOK
    <3>4. frees' \in [AddrSpaces -> Nat]
      <4>1. frees \in [AddrSpaces -> Nat]
        BY DEF IInv, TypeOK
      <4>2. [frees EXCEPT ![pgdir[z]] = @ + 1] \in [AddrSpaces -> Nat]
        <5>1. CASE pgdir[z] \in AddrSpaces
          BY <4>1, <5>1
        <5>2. CASE pgdir[z] \notin AddrSpaces
          <6>1. [frees EXCEPT ![pgdir[z]] = @ + 1] = frees
            BY <4>1, <5>2
          <6>2. QED BY <4>1, <6>1
        <5>3. QED BY <5>1, <5>2
      <4>3. QED BY <2>1, <4>1, <4>2
    <3>5. QED BY <2>1, <3>1, <3>2, <3>3, <3>4 DEF IInv, TypeOK
  <2>3. PosOnRunning'
    BY <2>1 DEF IInv, PosOnRunning
  <2>4. RunningOnOneCpu'
    <3>1. \A q \in Procs : state'[q] = "RUNNING" <=> state[q] = "RUNNING"
      BY <2>1 DEF IInv, TypeOK
    <3>2. QED BY <2>1, <3>1, RunningUnchanged DEF IInv
  <2>5. ChildEmbryo'
    <3>1. \A q \in Procs : state[q] = "EMBRYO" => state'[q] = "EMBRYO"
      BY <2>1 DEF IInv, TypeOK
    <3>2. \A q \in Procs : pc'[q] \in {"fork", "tcreate"} =>
                              /\ pc[q] \in {"fork", "tcreate"}
                              /\ child'[q] = child[q]
      BY <2>1 DEF IInv, TypeOK
    <3>3. QED BY <3>1, <3>2, ChildUnchanged DEF IInv
  <2>6. QED BY <2>2, <2>3, <2>4, <2>5 DEF IInv
<1>2. CASE WaitNoKids(c, p, isJoin, ch0)
  <2>1. /\ pc' = [pc EXCEPT ![p] = "user"]
        /\ lock' = NoCpu
        /\ chan' = ch0
        /\ UNCHANGED <<state, pid, parent, killed, frees, cproc, pos>>
    BY <1>2 DEF WaitNoKids
  <2>2. TypeOK'
    BY <2>1 DEF IInv, TypeOK, PCs
  <2>3. PosOnRunning' /\ RunningOnOneCpu'
    BY <2>1 DEF IInv, PosOnRunning, RunningOnOneCpu
  <2>4. ChildEmbryo'
    <3>1. \A q \in Procs : pc'[q] \in {"fork", "tcreate"} =>
                              /\ pc[q] \in {"fork", "tcreate"}
                              /\ child'[q] = child[q]
      BY <2>1 DEF IInv, TypeOK
    <3>2. QED BY <2>1, <3>1, ChildUnchanged DEF IInv
  <2>5. QED BY <2>2, <2>3, <2>4 DEF IInv
<1>3. CASE WaitSleep(c, p, isJoin, ch0)
  <2>1. /\ chan' = [ch0 EXCEPT ![p] = p]
        /\ state' = [state EXCEPT ![p] = "SLEEPING"]
        /\ pc' = [pc EXCEPT ![p] = IF isJoin THEN "join" ELSE "wait"]
        /\ lock' = c
        /\ Sched(c)
        /\ UNCHANGED <<pid, parent, killed, frees>>
    BY <1>3 DEF WaitSleep
  <2>2. TypeOK'
    <3>1. state' \in [Procs -> States] /\ pc' \in [Procs -> PCs]
      BY <2>1 DEF IInv, TypeOK, States, PCs
    <3>2. chan' \in [Procs -> 0..NPROC]
      <4>1. p \in 0..NPROC
        BY DEF Procs
      <4>2. QED BY <2>1, <4>1
    <3>3. cproc' \in [CPUs -> 0..NPROC] /\ pos' \in [CPUs -> 1..(NPROC + 1)]
      BY <2>1, SchedFacts
    <3>4. QED BY <2>1, <3>1, <3>2, <3>3 DEF IInv, TypeOK
  <2>3. PosOnRunning'
    BY <2>1, SchedFacts
  <2>4. RunningOnOneCpu'
    <3>1. state'[p] # "RUNNING"
      BY <2>1 DEF IInv, TypeOK
    <3>2. \A q \in Procs \ {p} : state'[q] = "RUNNING" <=> state[q] = "RUNNING"
      BY <2>1 DEF IInv, TypeOK
    <3>3. QED BY <2>1, <3>1, <3>2, RunningAfterSched DEF IInv, Sched
  <2>5. ChildEmbryo'
    <3>1. state[p] = "RUNNING"
      BY BoundProc
    <3>2. \A q \in Procs : state[q] = "EMBRYO" => state'[q] = "EMBRYO"
      BY <2>1, <3>1 DEF IInv, TypeOK
    <3>3. \A q \in Procs : pc'[q] \in {"fork", "tcreate"} =>
                              /\ pc[q] \in {"fork", "tcreate"}
                              /\ child'[q] = child[q]
      BY <2>1 DEF IInv, TypeOK
    <3>4. QED BY <3>2, <3>3, ChildUnchanged DEF IInv
  <2>6. QED BY <2>2, <2>3, <2>4, <2>5 DEF IInv
<1>4. QED BY <1>1, <1>2, <1>3 DEF WaitScan

(* p->chan, and p->chan cleared by sleep() on return, are channels.        *)
LEMMA ChanTypes ==
    ASSUME IInv, NEW p \in Procs
    PROVE  /\ chan \in [Procs -> 0..NPROC]
           /\ [chan EXCEPT ![p] = 0] \in [Procs -> 0..NPROC]
BY DEF IInv, TypeOK

(* wait(), thread_join() and their rescans after sleep() preserve IInv.    *)
LEMMA WaitIInv ==
    ASSUME IInv, NEW c \in CPUs, NEW p \in Procs, cproc[c] = p,
           Wait(c, p) \/ WaitResume(c, p) \/ ThreadJoin(c, p)
                      \/ ThreadJoinResume(c, p)
    PROVE  IInv'
<1>1. CASE Wait(c, p)
  BY <1>1, ChanTypes, WaitScanIInv DEF Wait
<1>2. CASE WaitResume(c, p)
  BY <1>2, ChanTypes, WaitScanIInv DEF WaitResume
<1>3. CASE ThreadJoin(c, p)
  BY <1>3, ChanTypes, WaitScanIInv DEF ThreadJoin
<1>4. CASE ThreadJoinResume(c, p)
  BY <1>4, ChanTypes, WaitScanIInv DEF ThreadJoinResume
<1>5. QED BY <1>1, <1>2, <1>3, <1>4

-----------------------------------------------------------------------------
(* kill() only sets killed and moves a SLEEPING slot to RUNNABLE.          *)
LEMMA KillIInv ==
    ASSUME IInv, NEW c \in CPUs, NEW p \in Procs, cproc[c] = p,
           NEW k \in Pids, Kill(c, p, k)
    PROVE  IInv'
<1>1. PICK j \in Procs :
         /\ killed' = [killed EXCEPT ![j] = TRUE]
         /\ state' = [state EXCEPT ![j] = IF @ = "SLEEPING" THEN "RUNNABLE" ELSE @]
  BY DEF Kill
<1>2. UNCHANGED <<pid, parent, isThread, chan, pgdir, frees, nextpid, pc,
                  child, cproc, pos, lock>>
  BY DEF Kill
<1>3. \A q \in Procs : \/ state'[q] = state[q]
                       \/ state[q] = "SLEEPING" /\ state'[q] = "RUNNABLE"
  BY <1>1 DEF IInv, TypeOK
<1>4. TypeOK'
  BY <1>1, <1>2 DEF IInv, TypeOK, States
<1>5. PosOnRunning'
  BY <1>2 DEF IInv, PosOnRunning
<1>6. RunningOnOneCpu'
  <2>1. \A q \in Procs : state'[q] = "RUNNING" <=> state[q] = "RUNNING"
    BY <1>3
  <2>2. QED BY <1>2, <2>1, RunningUnchanged DEF IInv
<1>7. ChildEmbryo'
  <2>1. \A q \in Procs : state[q] = "EMBRYO" => state'[q] = "EMBRYO"
    BY <1>3
  <2>2. QED BY <1>2, <2>1, ChildUnchanged DEF IInv
<1>8. QED BY <1>4, <1>5, <1>6, <1>7 DEF IInv

-----------------------------------------------------------------------------
(* Every step of the kernel, and every stutter, preserves IInv.            *)
LEMMA NextIInv == IInv /\ [Next]_vars => IInv'
<1> SUFFICES ASSUME IInv, [Next]_vars PROVE IInv'
  OBVIOUS
<1>1. ASSUME NEW c \in CPUs, NEW p \in Procs, ProcStep(c, p)
      PROVE  IInv'
  <2>1. CASE Forkret(c, p)
    <3>1. cproc[c] = p
      BY <2>1 DEF Forkret
    <3>2. QED BY <3>1, <2>1, ForkretIInv
  <2>2. CASE Yield(c, p)
    <3>1. cproc[c] = p
      BY <2>2 DEF Yield
    <3>2. QED BY <3>1, <2>2, YieldIInv
  <2>3. CASE YieldReturn(c, p)
    <3>1. cproc[c] = p
      BY <2>3 DEF YieldReturn
    <3>2. QED BY <3>1, <2>3, YieldReturnIInv
  <2>4. CASE ForkAlloc(c, p) \/ ThreadCreateAlloc(c, p)
    <3>1. cproc[c] = p
      BY <2>4 DEF ForkAlloc, ThreadCreateAlloc, AllocProc
    <3>2. QED BY <3>1, <2>4, AllocProcIInv DEF ForkAlloc, ThreadCreateAlloc
  <2>5. CASE ForkFail(c, p) \/ ThreadCreateFail(c, p)
    <3>1. cproc[c] = p
      BY <2>5 DEF ForkFail, ThreadCreateFail
    <3>2. QED BY <3>1, <2>5, AllocFailIInv
  <2>6. CASE ForkDone(c, p)
    <3>1. cproc[c] = p
      BY <2>6 DEF ForkDone
    <3>2. QED BY <3>1, <2>6, ForkDoneIInv
  <2>7. CASE ThreadCreateDone(c, p)
    <3>1. cproc[c] = p
      BY <2>7 DEF ThreadCreateDone
    <3>2. QED BY <3>1, <2>7, ThreadCreateDoneIInv
  <2>8. CASE Exit(c, p) \/ ThreadExit(c, p)
    <3>1. cproc[c] = p
      BY <2>8 DEF Exit, ThreadExit
    <3>2. QED BY <3>1, <2>8, ExitIInv DEF ThreadExit
  <2>9. CASE Wait(c, p) \/ WaitResume(c, p) \/ ThreadJoin(c, p)
                        \/ ThreadJoinResume(c, p)
    <3>1. cproc[c] = p
      BY <2>9 DEF Wait, WaitResume, ThreadJoin, ThreadJoinResume
    <3>2. QED BY <3>1, <2>9, WaitIInv
  <2>10. CASE \E k \in Pids : Kill(c, p, k)
    <3>1. cproc[c] = p
      BY <2>10 DEF Kill
    <3>2. QED BY <3>1, <2>10, KillIInv
  <2>11. QED BY <1>1, <2>1, <2>2, <2>3, <2>4, <2>5, <2>6, <2>7, <2>8, <2>9,
                <2>10 DEF ProcStep
<1>2. CASE UNCHANGED vars
  BY <1>2 DEF vars, IInv, TypeOK, PosOnRunning, RunningOnOneCpu, ChildEmbryo
<1>3. CASE Next
  BY <1>1, <1>3, SchedAcquireIInv, SchedDispatchIInv, SchedReleaseIInv
  DEF Next
<1>4. QED BY <1>2, <1>3

-----------------------------------------------------------------------------
(* Type correctness of the process table: in every reachable state every   *)
(* field of every slot (state, pid, parent, chan, pgdir), nextpid, each    *)
(* CPU's c->proc and scan position, and the owner of ptable.lock stay in   *)
(* their ranges, whatever NPROC, CPUs and the pid bound are.               *)
THEOREM TypeCorrect == Spec => []TypeOK
<1>1. IInv => TypeOK
  BY DEF IInv
<1>2. QED BY <1>1, InitIInv, NextIInv, PTL DEF Spec

(* scheduler() and sched() never run one process on two CPUs: a slot is     *)
(* RUNNING exactly when some CPU's c->proc points at it, and no two CPUs   *)
(* point at the same slot, for every table size and number of CPUs.        *)
THEOREM RunningExclusive == Spec => []RunningOnOneCpu
<1>1. IInv => RunningOnOneCpu
  BY DEF IInv
<1>2. QED BY <1>1, InitIInv, NextIInv, PTL DEF Spec

(* The process table's inductive invariant holds in every reachable       *)
(* state: scheduler positions match the running slots, no slot runs on   *)
(* two CPUs, and the child a fork or thread_create is filling in is an   *)
(* EMBRYO no other fork or thread_create has picked.                     *)
THEOREM TableInvariant == Spec => []IInv
BY InitIInv, NextIInv, PTL DEF Spec
====
