--------------------------- MODULE UserSyncProofs ---------------------------
(***************************************************************************)
(* Proofs about UserSync for every set of worker threads, every MAX_NUM,  *)
(* every ring size and every amount: the type invariant, and that a       *)
(* thread never sleeps in mysleep through the wakeup it waits for, both   *)
(* from the inductive invariant IInv.                                     *)
(***************************************************************************)
EXTENDS UserSync, TLAPS

USE UserSyncAssumption

-----------------------------------------------------------------------------
(* The state semm_test and cond_var_test start from satisfies IInv.        *)
LEMMA InitIInv == Init => IInv
<1> SUFFICES ASSUME Init PROVE IInv
  OBVIOUS
<1>1. TypeOK
  <2>1. owner \in [Objs -> Threads \cup {NoThread}] /\ num \in [Sems -> Nat]
    BY DEF Init, Objs, Sems
  <2>2. ptr \in Senders \cup {NoThread} /\ queue \in [Slots -> 0..(MaxNum + 1)]
    BY DEF Init, Slots
  <2>3. chan \in [Threads -> Objs \cup {NoChan}] /\ asleep \in [Threads -> BOOLEAN]
    BY DEF Init
  <2>4. pc \in [Threads -> PCs]
    BY DEF Init, PCs
  <2>5. sem \in [Threads -> Sems] /\ ret \in [Threads -> PCs]
    BY DEF Init, Sems, PCs
  <2>6. count \in [Threads -> Nat] /\ idx \in [Threads -> Slots]
    BY DEF Init, Slots
  <2>7. got \in [Receivers -> Senders \cup {NoThread}] /\ balance \in Nat
        /\ old \in [Depositors -> Nat]
    BY DEF Init
  <2>8. QED BY <2>1, <2>2, <2>3, <2>4, <2>5, <2>6, <2>7 DEF TypeOK
<1>2. NoLostWakeup
  BY DEF Init, NoLostWakeup, SleepJustified
<1>3. ASSUME NEW t \in Threads PROVE ThreadBelongs(t)
  <2>1. ~asleep[t] /\ count[t] = 0
    BY DEF Init
  <2>2. pc[t] \in {"send_lock", "send_spin"} => t \in Senders
    BY DEF Init
  <2>3. pc[t] \in DepPCs => t \in Depositors
    BY DEF Init, DepPCs
  <2>4. pc[t] \notin WaitPCs \cup PostPCs \cup CritPCs
    BY DEF Init, WaitPCs, PostPCs, CritPCs
  <2>5. QED BY <2>1, <2>2, <2>3, <2>4 DEF ThreadBelongs
<1>4. QED BY <1>1, <1>2, <1>3 DEF IInv, ThreadsWhereTheyBelong

-----------------------------------------------------------------------------
(* A step that touches none of the state NoLostWakeup reads (the channel *)
(* of a thread that is awake does not count), and keeps                    *)
(* every thread that is about to signal a semaphore there, keeps it.      *)
LEMMA WakeupFrame ==
    ASSUME NoLostWakeup, asleep' = asleep, num' = num, ptr' = ptr,
           \A u \in Threads : asleep[u] => chan'[u] = chan[u],
           \A u \in Threads : pc[u] = "sp_signal" => pc'[u] = "sp_signal" /\ sem'[u] = sem[u]
    PROVE  NoLostWakeup'
BY DEF NoLostWakeup, SleepJustified

(* Likewise for ThreadsWhereTheyBelong, for a step of thread t that is   *)
(* not asleep, leaves every other thread, the sleep flags, ret and count  *)
(* alone, and moves t between states of the same kind.                    *)
LEMMA BelongFrame ==
    ASSUME ThreadsWhereTheyBelong, NEW t \in Threads,
           asleep' = asleep, ret' = ret, count' = count,
           \A u \in Threads \ {t} : pc'[u] = pc[u],
           ~asleep[t],
           pc'[t] \in WaitPCs => pc[t] \in WaitPCs,
           pc'[t] \in PostPCs => pc[t] \in PostPCs,
           pc'[t] \in CritPCs => pc[t] \in WaitPCs \cup CritPCs,
           pc'[t] \in {"send_lock", "send_spin"} => pc[t] \in {"send_lock", "send_spin"},
           pc'[t] \in DepPCs => pc[t] \in DepPCs
    PROVE  ThreadsWhereTheyBelong'
<1>1. ASSUME NEW u \in Threads \ {t}
      PROVE  ThreadBelongs(u)'
  BY <1>1 DEF ThreadsWhereTheyBelong, ThreadBelongs
<1>2. ThreadBelongs(t)'
  BY DEF ThreadsWhereTheyBelong, ThreadBelongs, WaitPCs, PostPCs, CritPCs, DepPCs
<1>3. QED BY <1>1, <1>2 DEF ThreadsWhereTheyBelong

(* A thread that is not at one of mysleep's call sites is awake.         *)
LEMMA AwakeActor ==
    ASSUME IInv, NEW t \in Threads, pc[t] \notin {"sw_sleep", "recv_sleep"}
    PROVE  ~asleep[t]
BY DEF IInv, ThreadsWhereTheyBelong, ThreadBelongs

-----------------------------------------------------------------------------
(* The steps that only take a lock, or only move the thread's pc and a    *)
(* local: each keeps IInv.                                                *)
LEMMA SemWaitLockIInv ==
    ASSUME IInv, NEW t \in Threads, SemWaitLock(t)
    PROVE  IInv'
<1>1. ~asleep[t]
  <2>1. CASE pc[t] = "sw_lock"
    BY <2>1, AwakeActor
  <2>2. CASE pc[t] = "sw_sleep"
    BY <2>2 DEF SemWaitLock, LockStep
  <2>3. QED BY <2>1, <2>2 DEF SemWaitLock, LockStep
<1>2. TypeOK'
  BY DEF IInv, TypeOK, SemWaitLock, LockStep, Acquire, Sems, Objs, PCs
<1>3. NoLostWakeup'
  BY <1>1, WakeupFrame DEF IInv, SemWaitLock, LockStep
<1>4. ThreadsWhereTheyBelong'
  <2>1. pc'[t] = "sw_check" /\ pc[t] \in WaitPCs
    BY DEF IInv, TypeOK, SemWaitLock, LockStep, WaitPCs
  <2>2. \A u \in Threads \ {t} : pc'[u] = pc[u]
    BY DEF IInv, TypeOK, SemWaitLock, LockStep
  <2>3. QED
    BY <1>1, <2>1, <2>2, BelongFrame
       DEF IInv, SemWaitLock, WaitPCs, PostPCs, CritPCs, DepPCs
<1>5. QED BY <1>2, <1>3, <1>4 DEF IInv

LEMMA SemPostLockIInv ==
    ASSUME IInv, NEW t \in Threads, SemPostLock(t)
    PROVE  IInv'
<1>1. ~asleep[t]
  BY AwakeActor DEF SemPostLock
<1>2. TypeOK'
  BY DEF IInv, TypeOK, SemPostLock, PCs, Acquire, Sems, Objs
<1>3. NoLostWakeup'
  BY <1>1, WakeupFrame DEF IInv, SemPostLock
<1>4. ThreadsWhereTheyBelong'
  <2>1. pc'[t] = "sp_inc" /\ pc[t] = "sp_lock"
    BY DEF IInv, TypeOK, SemPostLock
  <2>2. \A u \in Threads \ {t} : pc'[u] = pc[u]
    BY DEF IInv, TypeOK, SemPostLock
  <2>3. QED
    BY <1>1, <2>1, <2>2, BelongFrame
       DEF IInv, SemPostLock, WaitPCs, PostPCs, CritPCs, DepPCs
<1>5. QED BY <1>2, <1>3, <1>4 DEF IInv

LEMMA PrintLockIInv ==
    ASSUME IInv, NEW t \in Threads, PrintLock(t)
    PROVE  IInv'
<1>1. ~asleep[t]
  BY AwakeActor DEF PrintLock
<1>2. TypeOK'
  BY DEF IInv, TypeOK, PrintLock, PCs, Acquire, Objs
<1>3. NoLostWakeup'
  BY <1>1, WakeupFrame DEF IInv, PrintLock
<1>4. ThreadsWhereTheyBelong'
  <2>1. pc'[t] \in {"prod_crit", "cons_crit"} /\ pc[t] \in {"prod_lock", "cons_lock"}
    BY DEF IInv, TypeOK, PrintLock
  <2>2. \A u \in Threads \ {t} : pc'[u] = pc[u]
    BY DEF IInv, TypeOK, PrintLock
  <2>3. QED
    BY <1>1, <2>1, <2>2, BelongFrame
       DEF IInv, PrintLock, WaitPCs, PostPCs, CritPCs, DepPCs
<1>5. QED BY <1>2, <1>3, <1>4 DEF IInv

LEMMA SendLockIInv ==
    ASSUME IInv, NEW t \in Threads, SendLock(t)
    PROVE  IInv'
<1>1. ~asleep[t]
  BY AwakeActor DEF SendLock
<1>2. TypeOK'
  BY DEF IInv, TypeOK, SendLock, PCs, Acquire, Objs
<1>3. NoLostWakeup'
  BY <1>1, WakeupFrame DEF IInv, SendLock
<1>4. ThreadsWhereTheyBelong'
  <2>1. pc'[t] = "send_spin" /\ pc[t] = "send_lock"
    BY DEF IInv, TypeOK, SendLock
  <2>2. \A u \in Threads \ {t} : pc'[u] = pc[u]
    BY DEF IInv, TypeOK, SendLock
  <2>3. QED
    BY <1>1, <2>1, <2>2, BelongFrame
       DEF IInv, SendLock, WaitPCs, PostPCs, CritPCs, DepPCs
<1>5. QED BY <1>2, <1>3, <1>4 DEF IInv

LEMMA DepSpinLockIInv ==
    ASSUME IInv, NEW t \in Threads, DepSpinLock(t)
    PROVE  IInv'
<1>1. ~asleep[t]
  BY AwakeActor DEF DepSpinLock
<1>2. TypeOK'
  BY DEF IInv, TypeOK, DepSpinLock, PCs, Acquire, Objs
<1>3. NoLostWakeup'
  BY <1>1, WakeupFrame DEF IInv, DepSpinLock
<1>4. ThreadsWhereTheyBelong'
  <2>1. pc'[t] = "dep_mutex" /\ pc[t] = "dep_spin"
    BY DEF IInv, TypeOK, DepSpinLock
  <2>2. \A u \in Threads \ {t} : pc'[u] = pc[u]
    BY DEF IInv, TypeOK, DepSpinLock
  <2>3. QED
    BY <1>1, <2>1, <2>2, BelongFrame
       DEF IInv, DepSpinLock, WaitPCs, PostPCs, CritPCs, DepPCs
<1>5. QED BY <1>2, <1>3, <1>4 DEF IInv

LEMMA DepMutexLockIInv ==
    ASSUME IInv, NEW t \in Threads, DepMutexLock(t)
    PROVE  IInv'
<1>1. ~asleep[t]
  BY AwakeActor DEF DepMutexLock
<1>2. TypeOK'
  BY DEF IInv, TypeOK, DepMutexLock, PCs, Acquire, Objs
<1>3. NoLostWakeup'
  BY <1>1, WakeupFrame DEF IInv, DepMutexLock
<1>4. ThreadsWhereTheyBelong'
  <2>1. pc'[t] = "dep_read" /\ pc[t] = "dep_mutex"
    BY DEF IInv, TypeOK, DepMutexLock
  <2>2. \A u \in Threads \ {t} : pc'[u] = pc[u]
    BY DEF IInv, TypeOK, DepMutexLock
  <2>3. QED
    BY <1>1, <2>1, <2>2, BelongFrame
       DEF IInv, DepMutexLock, WaitPCs, PostPCs, CritPCs, DepPCs
<1>5. QED BY <1>2, <1>3, <1>4 DEF IInv

LEMMA DepReadIInv ==
    ASSUME IInv, NEW t \in Threads, DepRead(t)
    PROVE  IInv'
<1>1. ~asleep[t]
  BY AwakeActor DEF DepRead
<1>2. TypeOK'
  BY DEF IInv, TypeOK, DepRead, PCs
<1>3. NoLostWakeup'
  BY <1>1, WakeupFrame DEF IInv, DepRead
<1>4. ThreadsWhereTheyBelong'
  <2>1. pc'[t] = "dep_write" /\ pc[t] = "dep_read"
    BY DEF IInv, TypeOK, DepRead
  <2>2. \A u \in Threads \ {t} : pc'[u] = pc[u]
    BY DEF IInv, TypeOK, DepRead
  <2>3. QED
    BY <1>1, <2>1, <2>2, BelongFrame
       DEF IInv, DepRead, WaitPCs, PostPCs, CritPCs, DepPCs
<1>5. QED BY <1>2, <1>3, <1>4 DEF IInv

LEMMA WorkNextIInv ==
    ASSUME IInv, NEW t \in Threads, WorkNext(t)
    PROVE  IInv'
<1>1. ~asleep[t]
  BY AwakeActor DEF WorkNext
<1>2. TypeOK'
  <2>1. idx' \in [Threads -> Slots]
    <3>1. (idx[t] + 1) % NUM \in Slots
      BY DEF IInv, TypeOK, Slots
    <3>2. QED BY <3>1 DEF IInv, TypeOK, WorkNext
  <2>2. QED BY <2>1 DEF IInv, TypeOK, WorkNext, PCs
<1>3. NoLostWakeup'
  BY <1>1, WakeupFrame DEF IInv, WorkNext
<1>4. ThreadsWhereTheyBelong'
  <2>1. pc'[t] = "top" /\ pc[t] \in {"prod_next", "cons_next"}
    BY DEF IInv, TypeOK, WorkNext
  <2>2. \A u \in Threads \ {t} : pc'[u] = pc[u]
    BY DEF IInv, TypeOK, WorkNext
  <2>3. QED
    BY <1>1, <2>1, <2>2, BelongFrame
       DEF IInv, WorkNext, WaitPCs, PostPCs, CritPCs, DepPCs
<1>5. QED BY <1>2, <1>3, <1>4 DEF IInv


LEMMA DepTopIInv ==
    ASSUME IInv, NEW t \in Threads, DepTop(t)
    PROVE  IInv'
<1>1. ~asleep[t]
  BY AwakeActor DEF DepTop
<1>2. TypeOK'
  BY DEF IInv, TypeOK, DepTop, PCs
<1>3. NoLostWakeup'
  BY <1>1, WakeupFrame DEF IInv, DepTop
<1>4. ThreadsWhereTheyBelong'
  <2>1. pc'[t] \in {"dep_spin", "done"} /\ pc[t] = "dep_top"
    BY DEF IInv, TypeOK, DepTop
  <2>2. \A u \in Threads \ {t} : pc'[u] = pc[u]
    BY DEF IInv, TypeOK, DepTop
  <2>3. QED
    BY <1>1, <2>1, <2>2, BelongFrame
       DEF IInv, DepTop, WaitPCs, PostPCs, CritPCs, DepPCs
<1>5. QED BY <1>2, <1>3, <1>4 DEF IInv

(* total_balance = old + 1 is well typed because only do_work threads     *)
(* reach the write.                                                       *)
LEMMA DepWriteIInv ==
    ASSUME IInv, NEW t \in Threads, DepWrite(t)
    PROVE  IInv'
<1>1. ~asleep[t] /\ t \in Depositors
  BY AwakeActor DEF DepWrite, IInv, ThreadsWhereTheyBelong, ThreadBelongs, DepPCs
<1>2. TypeOK'
  BY <1>1 DEF IInv, TypeOK, DepWrite, PCs
<1>3. NoLostWakeup'
  BY <1>1, WakeupFrame DEF IInv, DepWrite
<1>4. ThreadsWhereTheyBelong'
  <2>1. pc'[t] = "dep_unlock" /\ pc[t] = "dep_write"
    BY DEF IInv, TypeOK, DepWrite
  <2>2. \A u \in Threads \ {t} : pc'[u] = pc[u]
    BY DEF IInv, TypeOK, DepWrite
  <2>3. QED
    BY <1>1, <2>1, <2>2, BelongFrame
       DEF IInv, DepWrite, WaitPCs, PostPCs, CritPCs, DepPCs
<1>5. QED BY <1>2, <1>3, <1>4 DEF IInv

(* Both unlocks and i++: count grows, but only outside sem_wait and the   *)
(* printLock sections.                                                    *)
LEMMA DepUnlockIInv ==
    ASSUME IInv, NEW t \in Threads, DepUnlock(t)
    PROVE  IInv'
<1>1. ~asleep[t] /\ t \in Depositors
  BY AwakeActor DEF DepUnlock, IInv, ThreadsWhereTheyBelong, ThreadBelongs, DepPCs
<1>2. TypeOK'
  BY DEF IInv, TypeOK, DepUnlock, PCs, Objs
<1>3. NoLostWakeup'
  BY <1>1, WakeupFrame DEF IInv, DepUnlock
<1>4. ThreadsWhereTheyBelong'
  <2>1. ASSUME NEW u \in Threads \ {t} PROVE ThreadBelongs(u)'
    BY DEF IInv, TypeOK, DepUnlock, ThreadsWhereTheyBelong, ThreadBelongs
  <2>2. ThreadBelongs(t)'
    BY <1>1 DEF IInv, TypeOK, DepUnlock, ThreadBelongs, WaitPCs, PostPCs, CritPCs, DepPCs
  <2>3. QED BY <2>1, <2>2 DEF ThreadsWhereTheyBelong
<1>5. QED BY <1>2, <1>3, <1>4 DEF IInv

LEMMA RecvLockIInv ==
    ASSUME IInv, NEW t \in Threads, RecvLock(t)
    PROVE  IInv'
<1>1. ~asleep[t]
  <2>1. CASE pc[t] = "recv_lock"
    BY <2>1, AwakeActor
  <2>2. CASE pc[t] = "recv_sleep"
    BY <2>2 DEF RecvLock, LockStep
  <2>3. QED BY <2>1, <2>2 DEF RecvLock, LockStep
<1>2. TypeOK'
  BY DEF IInv, TypeOK, RecvLock, LockStep, Acquire, Objs, PCs
<1>3. NoLostWakeup'
  BY <1>1, WakeupFrame DEF IInv, RecvLock, LockStep
<1>4. ThreadsWhereTheyBelong'
  <2>1. pc'[t] = "recv_check" /\ pc[t] \in {"recv_lock", "recv_sleep"}
    BY DEF IInv, TypeOK, RecvLock, LockStep
  <2>2. \A u \in Threads \ {t} : pc'[u] = pc[u]
    BY DEF IInv, TypeOK, RecvLock, LockStep
  <2>3. QED
    BY <1>1, <2>1, <2>2, BelongFrame
       DEF IInv, RecvLock, WaitPCs, PostPCs, CritPCs, DepPCs
<1>5. QED BY <1>2, <1>3, <1>4 DEF IInv

-----------------------------------------------------------------------------
(* sem_post's num++: a thread asleep on that semaphore now has t as the    *)
(* sem_post that has still to signal it.                                   *)
LEMMA SemPostIncIInv ==
    ASSUME IInv, NEW t \in Threads, SemPostInc(t)
    PROVE  IInv'
<1>1. ~asleep[t] /\ sem[t] \in Sems
  BY AwakeActor DEF SemPostInc, IInv, TypeOK
<1>2. TypeOK'
  BY <1>1 DEF IInv, TypeOK, SemPostInc, Release, PCs, Objs, Sems
<1>3. NoLostWakeup'
  <2> SUFFICES ASSUME NEW v \in Threads, asleep'[v]
               PROVE  SleepJustified(chan[v])'
    BY DEF SemPostInc, NoLostWakeup
  <2>1. asleep[v] /\ v # t /\ SleepJustified(chan[v])
    BY <1>1 DEF SemPostInc, IInv, NoLostWakeup
  <2>2. CASE chan[v] = sem[t]
    <3>1. pc'[t] = "sp_signal" /\ sem'[t] = sem[t]
      BY DEF SemPostInc, IInv, TypeOK
    <3>2. QED BY <1>1, <2>2, <3>1 DEF SleepJustified, SemPostInc
  <2>3. CASE chan[v] # sem[t]
    <3>1. \A u \in Threads : pc[u] = "sp_signal" => pc'[u] = "sp_signal" /\ sem'[u] = sem[u]
      BY DEF SemPostInc, IInv, TypeOK
    <3>2. chan[v] \in Sems => num'[chan[v]] = num[chan[v]]
      BY <2>3 DEF SemPostInc, IInv, TypeOK
    <3>3. QED BY <2>1, <3>1, <3>2 DEF SleepJustified, SemPostInc
  <2>4. QED BY <2>2, <2>3
<1>4. ThreadsWhereTheyBelong'
  <2>1. pc'[t] = "sp_signal" /\ pc[t] = "sp_inc"
    BY DEF IInv, TypeOK, SemPostInc
  <2>2. \A u \in Threads \ {t} : pc'[u] = pc[u]
    BY DEF IInv, TypeOK, SemPostInc
  <2>3. QED
    BY <1>1, <2>1, <2>2, BelongFrame
       DEF IInv, SemPostInc, WaitPCs, PostPCs, CritPCs, DepPCs
<1>5. QED BY <1>2, <1>3, <1>4 DEF IInv

(* After mywakeup(c) no thread sleeps on c, and nobody new sleeps.        *)
LEMMA WakeupFacts ==
    ASSUME TypeOK, NEW c, MyWakeup(c)
    PROVE  /\ asleep' \in [Threads -> BOOLEAN]
           /\ \A v \in Threads : asleep'[v] => asleep[v] /\ chan[v] # c
BY DEF MyWakeup, TypeOK

(* sem_post's signal wakes every thread asleep on the semaphore; the      *)
(* others still have the reason they had.                                 *)
LEMMA SemPostSignalIInv ==
    ASSUME IInv, NEW t \in Threads, SemPostSignal(t)
    PROVE  IInv'
<1>1. ~asleep[t] /\ sem[t] \in Sems /\ ret[t] \in {"prod_next", "cons_next"}
  BY AwakeActor DEF SemPostSignal, IInv, TypeOK, ThreadsWhereTheyBelong, ThreadBelongs,
                    PostPCs
<1>2. /\ asleep' \in [Threads -> BOOLEAN]
      /\ \A v \in Threads : asleep'[v] => asleep[v] /\ chan[v] # sem[t]
  BY WakeupFacts DEF SemPostSignal, IInv
<1>3. TypeOK'
  BY <1>1, <1>2 DEF IInv, TypeOK, SemPostSignal, PCs
<1>4. NoLostWakeup'
  <2> SUFFICES ASSUME NEW v \in Threads, asleep'[v]
               PROVE  SleepJustified(chan[v])'
    BY DEF SemPostSignal, NoLostWakeup
  <2>1. asleep[v] /\ chan[v] # sem[t] /\ SleepJustified(chan[v])
    BY <1>2 DEF IInv, NoLostWakeup
  <2>2. \A u \in Threads : pc[u] = "sp_signal" /\ sem[u] = chan[v]
                           => pc'[u] = "sp_signal" /\ sem'[u] = sem[u]
    BY <2>1 DEF SemPostSignal, IInv, TypeOK
  <2>3. QED BY <2>1, <2>2 DEF SleepJustified, SemPostSignal
<1>5. ThreadsWhereTheyBelong'
  <2>1. ASSUME NEW u \in Threads \ {t} PROVE ThreadBelongs(u)'
    BY <1>2 DEF IInv, TypeOK, SemPostSignal, ThreadsWhereTheyBelong, ThreadBelongs
  <2>2. ThreadBelongs(t)'
    BY <1>1, <1>2 DEF IInv, TypeOK, SemPostSignal, ThreadBelongs,
                      WaitPCs, PostPCs, CritPCs, DepPCs
  <2>3. QED BY <2>1, <2>2 DEF ThreadsWhereTheyBelong
<1>6. QED BY <1>3, <1>4, <1>5 DEF IInv

-----------------------------------------------------------------------------
(* sem_wait's test.  Going to sleep: the semaphore is 0, so the new       *)
(* sleeper is justified.  Taking the count: it was not 0, so a thread     *)
(* already asleep on the semaphore had a signal still to come, which it   *)
(* keeps.                                                                  *)
LEMMA SemWaitCheckIInv ==
    ASSUME IInv, NEW t \in Threads, SemWaitCheck(t)
    PROVE  IInv'
<1>1. /\ ~asleep[t] /\ sem[t] \in Sems /\ pc[t] = "sw_check"
      /\ ret[t] \in CritPCs /\ count[t] <= MaxNum
  BY AwakeActor DEF SemWaitCheck, IInv, TypeOK, ThreadsWhereTheyBelong, ThreadBelongs,
                    WaitPCs
<1>2. \A u \in Threads : pc[u] = "sp_signal" => u # t
  BY <1>1
<1>3. CASE num[sem[t]] = 0
  <2>1. /\ owner' = [owner EXCEPT ![sem[t]] = NoThread]
        /\ chan' = [chan EXCEPT ![t] = sem[t]]
        /\ asleep' = [asleep EXCEPT ![t] = TRUE]
        /\ pc' = [pc EXCEPT ![t] = "sw_sleep"]
        /\ UNCHANGED <<num, ptr, queue, sem, ret, count, idx, got, balance, old>>
    BY <1>3 DEF SemWaitCheck, MySleep
  <2>2. TypeOK'
    BY <1>1, <2>1 DEF IInv, TypeOK, PCs, Objs, Sems
  <2>3. NoLostWakeup'
    <3> SUFFICES ASSUME NEW v \in Threads, asleep'[v]
                 PROVE  SleepJustified(chan[v])'
      BY <2>1 DEF NoLostWakeup
    <3>1. CASE v = t
      BY <1>1, <1>3, <2>1, <3>1 DEF IInv, TypeOK, SleepJustified
    <3>2. CASE v # t
      <4>1. asleep[v] /\ chan'[v] = chan[v] /\ SleepJustified(chan[v])
        BY <2>1, <3>2 DEF IInv, TypeOK, NoLostWakeup
      <4>2. \A u \in Threads : pc[u] = "sp_signal" => pc'[u] = "sp_signal"
        BY <1>2, <2>1 DEF IInv, TypeOK
      <4>3. QED BY <2>1, <4>1, <4>2 DEF SleepJustified
    <3>3. QED BY <3>1, <3>2
  <2>4. ThreadsWhereTheyBelong'
    <3>1. ASSUME NEW u \in Threads \ {t} PROVE ThreadBelongs(u)'
      BY <2>1 DEF IInv, TypeOK, ThreadsWhereTheyBelong, ThreadBelongs
    <3>2. ThreadBelongs(t)'
      BY <1>1, <2>1 DEF IInv, TypeOK, ThreadBelongs, WaitPCs, PostPCs, CritPCs, DepPCs
    <3>3. QED BY <3>1, <3>2 DEF ThreadsWhereTheyBelong
  <2>5. QED BY <2>2, <2>3, <2>4 DEF IInv
<1>4. CASE num[sem[t]] # 0
  <2>1. /\ num' = [num EXCEPT ![sem[t]] = @ - 1]
        /\ owner' = [owner EXCEPT ![sem[t]] = NoThread]
        /\ pc' = [pc EXCEPT ![t] = ret[t]]
        /\ UNCHANGED <<chan, asleep, ptr, queue, sem, ret, count, idx, got, balance, old>>
    BY <1>4 DEF SemWaitCheck, Release
  <2>2. TypeOK'
    BY <1>1, <1>4, <2>1 DEF IInv, TypeOK, PCs, Objs, Sems, CritPCs
  <2>3. NoLostWakeup'
    <3> SUFFICES ASSUME NEW v \in Threads, asleep'[v]
                 PROVE  SleepJustified(chan[v])'
      BY <2>1 DEF NoLostWakeup
    <3>1. asleep[v] /\ SleepJustified(chan[v])
      BY <2>1 DEF IInv, NoLostWakeup
    <3>2. \A u \in Threads : pc[u] = "sp_signal" => pc'[u] = "sp_signal"
      BY <1>2, <2>1 DEF IInv, TypeOK
    <3>3. CASE chan[v] = sem[t]
      BY <1>4, <2>1, <3>1, <3>2, <3>3 DEF SleepJustified
    <3>4. CASE chan[v] # sem[t]
      <4>1. chan[v] \in Sems => num'[chan[v]] = num[chan[v]]
        BY <2>1, <3>4 DEF IInv, TypeOK
      <4>2. QED BY <2>1, <3>1, <3>2, <4>1 DEF SleepJustified
    <3>5. QED BY <3>3, <3>4
  <2>4. ThreadsWhereTheyBelong'
    <3>1. ASSUME NEW u \in Threads \ {t} PROVE ThreadBelongs(u)'
      BY <2>1 DEF IInv, TypeOK, ThreadsWhereTheyBelong, ThreadBelongs
    <3>2. ThreadBelongs(t)'
      BY <1>1, <2>1 DEF IInv, TypeOK, ThreadBelongs, WaitPCs, PostPCs, CritPCs, DepPCs
    <3>3. QED BY <3>1, <3>2 DEF ThreadsWhereTheyBelong
  <2>5. QED BY <2>2, <2>3, <2>4 DEF IInv
<1>5. QED BY <1>3, <1>4

-----------------------------------------------------------------------------
(* The loop head: leaving ends the thread; going on calls sem_wait with   *)
(* count <= MAX_NUM and the printLock section as return point.             *)
LEMMA WorkTopIInv ==
    ASSUME IInv, NEW t \in Threads, WorkTop(t)
    PROVE  IInv'
<1>1. ~asleep[t] /\ pc[t] = "top"
  BY AwakeActor DEF WorkTop
<1>2. TypeOK'
  BY DEF IInv, TypeOK, WorkTop, Call, PCs, Sems
<1>3. NoLostWakeup'
  BY <1>1, WakeupFrame DEF IInv, TypeOK, WorkTop, Call
<1>4. ThreadsWhereTheyBelong'
  <2>1. ASSUME NEW u \in Threads \ {t} PROVE ThreadBelongs(u)'
    BY DEF IInv, TypeOK, WorkTop, Call, ThreadsWhereTheyBelong, ThreadBelongs
  <2>2. ThreadBelongs(t)'
    BY <1>1 DEF IInv, TypeOK, WorkTop, Call, ThreadBelongs,
                WaitPCs, PostPCs, CritPCs, DepPCs
  <2>3. QED BY <2>1, <2>2 DEF ThreadsWhereTheyBelong
<1>5. QED BY <1>2, <1>3, <1>4 DEF IInv

(* The producer's printLock section writes count + 1 <= MAX_NUM + 1 into  *)
(* the ring and calls sem_post.                                            *)
LEMMA ProdCritIInv ==
    ASSUME IInv, NEW t \in Threads, ProdCrit(t)
    PROVE  IInv'
<1>1. ~asleep[t] /\ pc[t] = "prod_crit" /\ count[t] <= MaxNum
  BY AwakeActor DEF ProdCrit, IInv, ThreadsWhereTheyBelong, ThreadBelongs, CritPCs
<1>2. TypeOK'
  <2>1. queue' \in [Slots -> 0..(MaxNum + 1)]
    BY <1>1 DEF IInv, TypeOK, ProdCrit
  <2>2. QED BY <2>1 DEF IInv, TypeOK, ProdCrit, Call, Release, PCs, Sems, Objs
<1>3. NoLostWakeup'
  BY <1>1, WakeupFrame DEF IInv, TypeOK, ProdCrit, Call
<1>4. ThreadsWhereTheyBelong'
  <2>1. ASSUME NEW u \in Threads \ {t} PROVE ThreadBelongs(u)'
    BY DEF IInv, TypeOK, ProdCrit, Call, ThreadsWhereTheyBelong, ThreadBelongs
  <2>2. ThreadBelongs(t)'
    BY <1>1 DEF IInv, TypeOK, ProdCrit, Call, ThreadBelongs,
                WaitPCs, PostPCs, CritPCs, DepPCs
  <2>3. QED BY <2>1, <2>2 DEF ThreadsWhereTheyBelong
<1>5. QED BY <1>2, <1>3, <1>4 DEF IInv

(* The consumer's printLock section empties its slot and calls sem_post.  *)
LEMMA ConsCritIInv ==
    ASSUME IInv, NEW t \in Threads, ConsCrit(t)
    PROVE  IInv'
<1>1. ~asleep[t] /\ pc[t] = "cons_crit"
  BY AwakeActor DEF ConsCrit
<1>2. TypeOK'
  BY DEF IInv, TypeOK, ConsCrit, Call, Release, PCs, Sems, Objs
<1>3. NoLostWakeup'
  BY <1>1, WakeupFrame DEF IInv, TypeOK, ConsCrit, Call
<1>4. ThreadsWhereTheyBelong'
  <2>1. ASSUME NEW u \in Threads \ {t} PROVE ThreadBelongs(u)'
    BY DEF IInv, TypeOK, ConsCrit, Call, ThreadsWhereTheyBelong, ThreadBelongs
  <2>2. ThreadBelongs(t)'
    BY <1>1 DEF IInv, TypeOK, ConsCrit, Call, ThreadBelongs,
                WaitPCs, PostPCs, CritPCs, DepPCs
  <2>3. QED BY <2>1, <2>2 DEF ThreadsWhereTheyBelong
<1>5. QED BY <1>2, <1>3, <1>4 DEF IInv

(* send stores its message and wakes every thread asleep on messageQ, so  *)
(* no receiver sleeps on a full slot.                                      *)
LEMMA SendPutIInv ==
    ASSUME IInv, NEW t \in Threads, SendPut(t)
    PROVE  IInv'
<1>1. ~asleep[t] /\ pc[t] = "send_spin" /\ t \in Senders
  BY AwakeActor DEF SendPut, IInv, ThreadsWhereTheyBelong, ThreadBelongs
<1>2. /\ asleep' \in [Threads -> BOOLEAN]
      /\ \A v \in Threads : asleep'[v] => asleep[v] /\ chan[v] # "messageQ"
  BY WakeupFacts DEF SendPut, IInv
<1>3. TypeOK'
  BY <1>1, <1>2 DEF IInv, TypeOK, SendPut, Release, PCs, Objs
<1>4. NoLostWakeup'
  <2> SUFFICES ASSUME NEW v \in Threads, asleep'[v]
               PROVE  SleepJustified(chan[v])'
    BY DEF SendPut, NoLostWakeup
  <2>1. asleep[v] /\ chan[v] # "messageQ" /\ SleepJustified(chan[v])
    BY <1>2 DEF IInv, NoLostWakeup
  <2>2. \A u \in Threads : pc[u] = "sp_signal" => pc'[u] = "sp_signal" /\ sem'[u] = sem[u]
    BY <1>1 DEF SendPut, IInv, TypeOK
  <2>3. QED BY <2>1, <2>2 DEF SleepJustified, SendPut
<1>5. ThreadsWhereTheyBelong'
  <2>1. ASSUME NEW u \in Threads \ {t} PROVE ThreadBelongs(u)'
    BY <1>2 DEF IInv, TypeOK, SendPut, ThreadsWhereTheyBelong, ThreadBelongs
  <2>2. ThreadBelongs(t)'
    BY <1>1, <1>2 DEF IInv, TypeOK, SendPut, ThreadBelongs,
                      WaitPCs, PostPCs, CritPCs, DepPCs
  <2>3. QED BY <2>1, <2>2 DEF ThreadsWhereTheyBelong
<1>6. QED BY <1>3, <1>4, <1>5 DEF IInv

(* recv's test.  Going to sleep: the slot is empty.  Taking the message:  *)
(* the slot becomes empty, which justifies every receiver asleep on it.    *)
LEMMA RecvCheckIInv ==
    ASSUME IInv, NEW t \in Threads, RecvCheck(t)
    PROVE  IInv'
<1>1. ~asleep[t] /\ pc[t] = "recv_check"
  BY AwakeActor DEF RecvCheck
<1>2. \A u \in Threads : pc[u] = "sp_signal" => u # t
  BY <1>1
<1>3. CASE ptr = NoThread
  <2>1. /\ owner' = [owner EXCEPT !["messageQ"] = NoThread]
        /\ chan' = [chan EXCEPT ![t] = "messageQ"]
        /\ asleep' = [asleep EXCEPT ![t] = TRUE]
        /\ pc' = [pc EXCEPT ![t] = "recv_sleep"]
        /\ UNCHANGED <<num, ptr, queue, sem, ret, count, idx, got, balance, old>>
    BY <1>3 DEF RecvCheck, MySleep
  <2>2. TypeOK'
    BY <2>1 DEF IInv, TypeOK, PCs, Objs
  <2>3. NoLostWakeup'
    <3> SUFFICES ASSUME NEW v \in Threads, asleep'[v]
                 PROVE  SleepJustified(chan[v])'
      BY <2>1 DEF NoLostWakeup
    <3>1. CASE v = t
      BY <1>3, <2>1, <3>1 DEF IInv, TypeOK, SleepJustified
    <3>2. CASE v # t
      <4>1. asleep[v] /\ chan'[v] = chan[v] /\ SleepJustified(chan[v])
        BY <2>1, <3>2 DEF IInv, TypeOK, NoLostWakeup
      <4>2. \A u \in Threads : pc[u] = "sp_signal" => pc'[u] = "sp_signal"
        BY <1>2, <2>1 DEF IInv, TypeOK
      <4>3. QED BY <2>1, <4>1, <4>2 DEF SleepJustified
    <3>3. QED BY <3>1, <3>2
  <2>4. ThreadsWhereTheyBelong'
    <3>1. ASSUME NEW u \in Threads \ {t} PROVE ThreadBelongs(u)'
      BY <2>1 DEF IInv, TypeOK, ThreadsWhereTheyBelong, ThreadBelongs
    <3>2. ThreadBelongs(t)'
      BY <1>1, <2>1 DEF IInv, TypeOK, ThreadBelongs, WaitPCs, PostPCs, CritPCs, DepPCs
    <3>3. QED BY <3>1, <3>2 DEF ThreadsWhereTheyBelong
  <2>5. QED BY <2>2, <2>3, <2>4 DEF IInv
<1>4. CASE ptr # NoThread
  <2>1. /\ got' = [got EXCEPT ![t] = ptr]
        /\ ptr' = NoThread
        /\ owner' = [owner EXCEPT !["messageQ"] = NoThread]
        /\ pc' = [pc EXCEPT ![t] = "done"]
        /\ UNCHANGED <<chan, asleep, num, queue, sem, ret, count, idx, balance, old>>
    BY <1>4 DEF RecvCheck, Release
  <2>2. TypeOK'
    BY <1>4, <2>1 DEF IInv, TypeOK, PCs, Objs
  <2>3. NoLostWakeup'
    <3> SUFFICES ASSUME NEW v \in Threads, asleep'[v]
                 PROVE  SleepJustified(chan[v])'
      BY <2>1 DEF NoLostWakeup
    <3>1. asleep[v] /\ SleepJustified(chan[v])
      BY <2>1 DEF IInv, NoLostWakeup
    <3>2. \A u \in Threads : pc[u] = "sp_signal" => pc'[u] = "sp_signal"
      BY <1>2, <2>1 DEF IInv, TypeOK
    <3>3. QED BY <2>1, <3>1, <3>2 DEF SleepJustified
  <2>4. ThreadsWhereTheyBelong'
    <3>1. ASSUME NEW u \in Threads \ {t} PROVE ThreadBelongs(u)'
      BY <2>1 DEF IInv, TypeOK, ThreadsWhereTheyBelong, ThreadBelongs
    <3>2. ThreadBelongs(t)'
      BY <1>1, <2>1 DEF IInv, TypeOK, ThreadBelongs, WaitPCs, PostPCs, CritPCs, DepPCs
    <3>3. QED BY <3>1, <3>2 DEF ThreadsWhereTheyBelong
  <2>5. QED BY <2>2, <2>3, <2>4 DEF IInv
<1>5. QED BY <1>3, <1>4

-----------------------------------------------------------------------------
(* Every step of every thread, and a stutter, keeps IInv.                  *)
LEMMA NextIInv == IInv /\ [Next]_vars => IInv'
<1> SUFFICES ASSUME IInv, [Next]_vars PROVE IInv'
  OBVIOUS
<1>1. ASSUME NEW t \in Threads, ThreadStep(t) PROVE IInv'
  BY <1>1, WorkTopIInv, PrintLockIInv, ProdCritIInv, ConsCritIInv, WorkNextIInv,
     SemWaitLockIInv, SemWaitCheckIInv, SemPostLockIInv, SemPostIncIInv,
     SemPostSignalIInv, SendLockIInv, SendPutIInv, RecvLockIInv, RecvCheckIInv,
     DepTopIInv, DepSpinLockIInv, DepMutexLockIInv, DepReadIInv, DepWriteIInv,
     DepUnlockIInv
  DEF ThreadStep
<1>2. CASE UNCHANGED vars
  BY <1>2 DEF vars, IInv, TypeOK, NoLostWakeup, SleepJustified,
              ThreadsWhereTheyBelong, ThreadBelongs
<1>3. QED BY <1>1, <1>2 DEF Next

-----------------------------------------------------------------------------
(* Type correctness of the user-level synchronisation model: owner, the   *)
(* semaphores, the slot, the ring, the kernel sleep state and every        *)
(* thread's locals stay in their types for every instance.                 *)
THEOREM TypeCorrect == Spec => []TypeOK
<1>1. IInv => TypeOK BY DEF IInv
<1>2. QED BY <1>1, InitIInv, NextIInv, PTL DEF Spec

(* No lost wakeup, for every number of producers, consumers, senders,     *)
(* receivers and do_work threads, every MAX_NUM and ring size: a thread    *)
(* asleep in mysleep (from sem_wait or recv) always has its condition      *)
(* still false or a thread_cond_signal still to come.                      *)
THEOREM WakeupNeverLost == Spec => []NoLostWakeup
<1>1. IInv => NoLostWakeup BY DEF IInv
<1>2. QED BY <1>1, InitIInv, NextIInv, PTL DEF Spec

(* The inductive invariant of the synchronisation model holds in every    *)
(* reachable state: types, no lost wakeup, and every thread at a point    *)
(* of its own code (sleeping only inside mysleep, returning from sem_wait *)
(* and sem_post to the call site, inside the loop bound).                 *)
THEOREM SyncInvariant == Spec => []IInv
BY InitIInv, NextIInv, PTL DEF Spec
=============================================================================
