------------------------ MODULE UserSyncClientProofs ------------------------
(***************************************************************************)
(* Proofs about the two client programs of the thread library.             *)
(*                                                                         *)
(* semm_test (extracredit1.c): its semaphores keep the ring buffer         *)
(* consistent (BufferSafe), for every MAX_NUM, every ring size NUM and any *)
(* set of other threads, with the one producer and one consumer semm_test  *)
(* starts (t1 runs prod_work, t2 cons_work).  The argument is a token     *)
(* count: every one of the NUM slots is either counted by one of the two   *)
(* semaphores or held by exactly one worker between its sem_wait and its  *)
(* sem_post, and the filled slots are a run round the ring from the        *)
(* consumer's position to the producer's (BufferInv).                      *)
(*                                                                         *)
(* thread.c: do_work's read-modify-write of total_balance is exclusive     *)
(* (RmwExclusive), for any number of do_work threads and any amount.      *)
(***************************************************************************)
EXTENDS UserSyncProofs

USE UserSyncAssumption

(* The one producer p and the one consumer c of semm_test.                 *)
OneEach(p, c) == Producers = {p} /\ Consumers = {c}

(* The part of BufferInv that speaks of p and c.                           *)
RingParts(p, c) == ProdAt(p) /\ ConsAt(c) /\ RingCount(p, c)

-----------------------------------------------------------------------------
(* Arithmetic of the ring: % NUM of a position plus a run length, taken    *)
(* once here so that the step proofs stay linear.                          *)
LEMMA ModRun ==
    ASSUME NEW s \in Slots, NEW n \in 0..NUM
    PROVE  (s + n) % NUM = IF s + n < NUM THEN s + n ELSE s + n - NUM
BY DEF Slots

LEMMA ModSucc ==
    ASSUME NEW s \in Slots
    PROVE  /\ (s + 1) % NUM = IF s + 1 < NUM THEN s + 1 ELSE 0
           /\ (s + 1) % NUM \in Slots
<1>1. (s + 1) % NUM = IF s + 1 < NUM THEN s + 1 ELSE s + 1 - NUM
  BY ModRun, 1 \in 0..NUM
<1>2. QED BY <1>1 DEF Slots

(* Where a worker writes or reads next is a slot.                          *)
LEMMA PosSlot ==
    ASSUME TypeOK, NEW t \in Threads
    PROVE  Pos(t) \in Slots
<1>1. idx[t] \in Slots
  BY DEF TypeOK
<1>2. QED BY <1>1, ModSucc DEF Pos

(* Appending the slot at the end of a run, or dropping its first slot.     *)
LEMMA RunGrow ==
    ASSUME NEW s \in Slots, NEW n \in 0..(NUM - 1), NEW i \in Slots
    PROVE  InRun(i, s, n + 1) <=> InRun(i, s, n) \/ i = (s + n) % NUM
<1>1. (s + n) % NUM = IF s + n < NUM THEN s + n ELSE s + n - NUM
  BY ModRun
<1>2. QED BY <1>1 DEF InRun, Slots

LEMMA RunShrink ==
    ASSUME NEW s \in Slots, NEW n \in 1..NUM, NEW i \in Slots
    PROVE  InRun(i, (s + 1) % NUM, n - 1) <=> InRun(i, s, n) /\ i # s
<1>1. (s + 1) % NUM = IF s + 1 < NUM THEN s + 1 ELSE 0
  BY ModSucc
<1>2. QED BY <1>1 DEF InRun, Slots

LEMMA EndGrow ==
    ASSUME NEW s \in Slots, NEW n \in 0..(NUM - 1)
    PROVE  (((s + n) % NUM) + 1) % NUM = (s + (n + 1)) % NUM
<1>1. (s + n) % NUM = IF s + n < NUM THEN s + n ELSE s + n - NUM
  BY ModRun
<1>2. (s + n) % NUM \in Slots
  BY <1>1 DEF Slots
<1>3. (((s + n) % NUM) + 1) % NUM = IF ((s + n) % NUM) + 1 < NUM THEN ((s + n) % NUM) + 1 ELSE 0
  BY <1>2, ModSucc
<1>4. (s + (n + 1)) % NUM = IF s + (n + 1) < NUM THEN s + (n + 1) ELSE s + (n + 1) - NUM
  BY ModRun, n + 1 \in 0..NUM
<1>5. QED BY <1>1, <1>3, <1>4 DEF Slots

LEMMA StartShrink ==
    ASSUME NEW s \in Slots, NEW n \in 1..NUM
    PROVE  (((s + 1) % NUM) + (n - 1)) % NUM = (s + n) % NUM
<1>1. (s + 1) % NUM = IF s + 1 < NUM THEN s + 1 ELSE 0
  BY ModSucc
<1>2. (s + 1) % NUM \in Slots
  BY ModSucc
<1>3. (((s + 1) % NUM) + (n - 1)) % NUM
        = IF ((s + 1) % NUM) + (n - 1) < NUM THEN ((s + 1) % NUM) + (n - 1)
          ELSE ((s + 1) % NUM) + (n - 1) - NUM
  BY <1>2, ModRun, n - 1 \in 0..NUM
<1>4. (s + n) % NUM = IF s + n < NUM THEN s + n ELSE s + n - NUM
  BY ModRun
<1>5. QED BY <1>1, <1>3, <1>4 DEF Slots

-----------------------------------------------------------------------------
(* prod_work, cons_work and the other workers are different threads.      *)
LEMMA KindsDisjoint ==
    /\ Producers \cap Consumers = {}
    /\ (Producers \cup Consumers) \cap (Senders \cup Receivers \cup Depositors) = {}
<1>1. \A i, j \in 1..5 : i # j => Kinds[i] \cap Kinds[j] = {}
  BY UserSyncAssumption
<1>2. /\ Kinds[1] = Producers /\ Kinds[2] = Consumers /\ Kinds[3] = Senders
      /\ Kinds[4] = Receivers /\ Kinds[5] = Depositors
  BY DEF Kinds
<1>3. QED BY <1>1, <1>2

(* A step of thread t changes the locals of no other thread.              *)
LEMMA StepFrame ==
    ASSUME TypeOK, NEW t \in Threads, ThreadStep(t)
    PROVE  \A u \in Threads \ {t} :
              /\ pc'[u] = pc[u] /\ idx'[u] = idx[u]
              /\ sem'[u] = sem[u] /\ ret'[u] = ret[u]
<1> USE DEF TypeOK
<1>1. CASE WorkTop(t)
  BY <1>1 DEF WorkTop, Call
<1>2. CASE PrintLock(t) \/ WorkNext(t) \/ SemPostLock(t) \/ SemPostInc(t) \/ SemPostSignal(t)
  BY <1>2 DEF PrintLock, WorkNext, SemPostLock, SemPostInc, SemPostSignal
<1>3. CASE ProdCrit(t) \/ ConsCrit(t)
  BY <1>3 DEF ProdCrit, ConsCrit, Call
<1>4. CASE SemWaitLock(t) \/ RecvLock(t)
  BY <1>4 DEF SemWaitLock, RecvLock, LockStep
<1>5. CASE SemWaitCheck(t) \/ RecvCheck(t)
  BY <1>5 DEF SemWaitCheck, RecvCheck, MySleep
<1>6. CASE SendLock(t) \/ SendPut(t) \/ DepTop(t) \/ DepSpinLock(t)
  BY <1>6 DEF SendLock, SendPut, DepTop, DepSpinLock
<1>7. CASE DepMutexLock(t) \/ DepRead(t) \/ DepWrite(t) \/ DepUnlock(t)
  BY <1>7 DEF DepMutexLock, DepRead, DepWrite, DepUnlock
<1>8. QED BY <1>1, <1>2, <1>3, <1>4, <1>5, <1>6, <1>7 DEF ThreadStep

-----------------------------------------------------------------------------
(* semm_test starts with every slot empty, both workers at index 0, the    *)
(* consumer semaphore at NUM and the producer semaphore at 0.              *)
LEMMA InitBuffer ==
    ASSUME NEW p, NEW c, OneEach(p, c), Init
    PROVE  BufferInv
<1>1. IInv
  BY InitIInv
<1>2. OnlyWorkersInRing
  BY DEF Init, OnlyWorkersInRing, Threads, RingPCs, WaitPCs, PostPCs, CritPCs
<1>3. \A q \in Producers : ProdAt(q)
  BY KindsDisjoint DEF Init, Threads, ProdAt, WaitPCs, PostPCs
<1>4. \A q \in Consumers : ConsAt(q)
  BY KindsDisjoint DEF Init, Threads, ConsAt, WaitPCs, PostPCs
<1>5. RingCount(p, c)
  <2>1. p \in Threads /\ c \in Threads /\ 0 \in Slots
    BY DEF OneEach, Threads, Slots
  <2>2. p \notin Senders \cup Receivers \cup Depositors /\ c \notin Senders \cup Receivers \cup Depositors
    BY KindsDisjoint DEF OneEach
  <2>3. pc[p] = "top" /\ pc[c] = "top" /\ idx[p] = 0 /\ idx[c] = 0
    BY <2>1, <2>2 DEF Init
  <2>4. Pos(p) = 0 /\ Pos(c) = 0
    BY <2>3 DEF Pos, PostPCs
  <2>5. Filled(p, c) = 0 /\ Emptied(p, c) = NUM
    BY <2>3 DEF Init, Sems, Filled, Emptied, Bit, CritPCs
  <2>6. (0 + 0) % NUM = 0
    BY <2>1, ModRun
  <2>7. \A i \in Slots : queue[i] = 0 /\ ~InRun(i, 0, 0)
    BY DEF Init, InRun, Slots
  <2>8. QED BY <2>4, <2>5, <2>6, <2>7 DEF RingCount
<1>6. QED BY <1>1, <1>2, <1>3, <1>4, <1>5 DEF BufferInv, OneEach

-----------------------------------------------------------------------------
(* RingCount only reads the queue, the two positions and the two counts.  *)
LEMMA RingSame ==
    ASSUME NEW p, NEW c, RingCount(p, c), queue' = queue,
           Pos(p)' = Pos(p), Pos(c)' = Pos(c),
           Filled(p, c)' = Filled(p, c), Emptied(p, c)' = Emptied(p, c)
    PROVE  RingCount(p, c)'
BY DEF RingCount

(* A step that leaves the semaphores, the queue and the locals of p and c *)
(* alone keeps RingParts.                                                  *)
LEMMA RingFrame ==
    ASSUME NEW p, NEW c, RingParts(p, c), num' = num, queue' = queue,
           pc'[p] = pc[p], pc'[c] = pc[c], idx'[p] = idx[p], idx'[c] = idx[c],
           sem'[p] = sem[p], sem'[c] = sem[c], ret'[p] = ret[p], ret'[c] = ret[c]
    PROVE  RingParts(p, c)'
<1>1. Pos(p)' = Pos(p) /\ Pos(c)' = Pos(c)
  BY DEF Pos
<1>2. Filled(p, c)' = Filled(p, c) /\ Emptied(p, c)' = Emptied(p, c)
  BY DEF Filled, Emptied
<1>3. QED BY <1>1, <1>2, RingSame DEF RingParts, ProdAt, ConsAt

(* A sender, receiver or do_work thread never enters the ring code, and   *)
(* its step touches neither the semaphores nor the queue.                  *)
LEMMA OtherStep ==
    ASSUME NEW p, NEW c, OneEach(p, c), BufferInv,
           NEW t \in Threads \ {p, c}, ThreadStep(t)
    PROVE  OnlyWorkersInRing' /\ RingParts(p, c)'
<1>1. TypeOK /\ pc[t] \notin RingPCs
  BY DEF BufferInv, IInv, OnlyWorkersInRing, OneEach
<1>2. num' = num /\ queue' = queue /\ pc'[t] \notin RingPCs
  <2>1. CASE WorkTop(t) \/ PrintLock(t) \/ ProdCrit(t) \/ ConsCrit(t) \/ WorkNext(t)
    BY <1>1, <2>1 DEF WorkTop, PrintLock, ProdCrit, ConsCrit, WorkNext, RingPCs, CritPCs
  <2>2. CASE SemWaitLock(t) \/ SemWaitCheck(t)
    BY <1>1, <2>2 DEF SemWaitLock, LockStep, SemWaitCheck, RingPCs, WaitPCs
  <2>3. CASE SemPostLock(t) \/ SemPostInc(t) \/ SemPostSignal(t)
    BY <1>1, <2>3 DEF SemPostLock, SemPostInc, SemPostSignal, RingPCs, PostPCs
  <2>4. CASE SendLock(t) \/ SendPut(t) \/ RecvLock(t) \/ RecvCheck(t)
    BY <1>1, <2>4 DEF SendLock, SendPut, RecvLock, LockStep, RecvCheck, MySleep,
                      TypeOK, RingPCs, WaitPCs, PostPCs, CritPCs
  <2>5. CASE DepTop(t) \/ DepSpinLock(t) \/ DepMutexLock(t) \/ DepRead(t)
             \/ DepWrite(t) \/ DepUnlock(t)
    BY <1>1, <2>5 DEF DepTop, DepSpinLock, DepMutexLock, DepRead, DepWrite,
                      DepUnlock, TypeOK, RingPCs, WaitPCs, PostPCs, CritPCs
  <2>6. QED BY <2>1, <2>2, <2>3, <2>4, <2>5 DEF ThreadStep
<1>3. \A u \in Threads \ {t} :
         /\ pc'[u] = pc[u] /\ idx'[u] = idx[u] /\ sem'[u] = sem[u] /\ ret'[u] = ret[u]
  BY <1>1, StepFrame
<1>4. OnlyWorkersInRing'
  BY <1>1, <1>2, <1>3 DEF BufferInv, OnlyWorkersInRing
<1>5. RingParts(p, c)
  BY DEF BufferInv, OneEach, RingParts
<1>6. p \in Threads \ {t} /\ c \in Threads \ {t}
  BY DEF OneEach, Threads
<1>7. RingParts(p, c)'
  BY <1>2, <1>3, <1>5, <1>6, RingFrame
<1>8. QED BY <1>4, <1>7

-----------------------------------------------------------------------------
(* What a step of the producer or the consumer t may assume, and keeps of *)
(* the rest.                                                               *)
LEMMA WorkerFacts ==
    ASSUME NEW p, NEW c, OneEach(p, c), BufferInv, NEW t \in {p, c}, ThreadStep(t)
    PROVE  /\ TypeOK /\ RingParts(p, c)
           /\ p \in Threads /\ c \in Threads /\ p # c /\ p \in Producers /\ c \notin Producers
           /\ \A u \in Threads \ {t} :
                 /\ pc'[u] = pc[u] /\ idx'[u] = idx[u] /\ sem'[u] = sem[u] /\ ret'[u] = ret[u]
           /\ OnlyWorkersInRing'
<1>1. TypeOK /\ RingParts(p, c) /\ OnlyWorkersInRing
  BY DEF BufferInv, IInv, OneEach, RingParts
<1>2. p \in Threads /\ c \in Threads /\ p # c /\ p \in Producers /\ c \notin Producers
  BY KindsDisjoint DEF OneEach, Threads
<1>3. \A u \in Threads \ {t} :
         /\ pc'[u] = pc[u] /\ idx'[u] = idx[u] /\ sem'[u] = sem[u] /\ ret'[u] = ret[u]
  BY <1>1, <1>2, StepFrame
<1>4. OnlyWorkersInRing'
  BY <1>1, <1>3 DEF OnlyWorkersInRing, OneEach
<1>5. QED BY <1>1, <1>2, <1>3, <1>4

(* The steps of prod_work: only ProdCrit (queue[p] = count) and the two   *)
(* semaphore updates move a token, and each moves exactly one.            *)
LEMMA ProdStep ==
    ASSUME NEW p, NEW c, OneEach(p, c), BufferInv, ThreadStep(p)
    PROVE  OnlyWorkersInRing' /\ RingParts(p, c)'
<1>1. /\ TypeOK /\ ProdAt(p) /\ ConsAt(c) /\ RingCount(p, c)
      /\ p \in Threads /\ c \in Threads /\ p # c /\ p \in Producers
      /\ pc'[c] = pc[c] /\ idx'[c] = idx[c] /\ sem'[c] = sem[c] /\ ret'[c] = ret[c]
      /\ OnlyWorkersInRing'
  BY WorkerFacts DEF RingParts
<1>2. ConsAt(c)' /\ Pos(c)' = Pos(c)
  BY <1>1 DEF ConsAt, Pos
<1> USE DEF TypeOK
<1>3. CASE ProdCrit(p)
  <2> DEFINE s == Pos(c)
             n == Filled(p, c)
  <2>1. /\ pc[p] = "prod_crit" /\ pc'[p] = "sp_lock"
        /\ sem'[p] = "producer" /\ ret'[p] = "prod_next"
        /\ idx'[p] = idx[p] /\ num' = num
        /\ queue' = [queue EXCEPT ![idx[p]] = count[p] + 1]
    BY <1>1, <1>3 DEF ProdCrit, Call
  <2>2. ProdAt(p)'
    BY <2>1 DEF ProdAt, WaitPCs, PostPCs
  <2>3. Pos(p) = idx[p] /\ Pos(p)' = (idx[p] + 1) % NUM
    BY <1>1, <2>1 DEF Pos, PostPCs
  <2>4. /\ Filled(p, c)' = n + 1 /\ Emptied(p, c)' = Emptied(p, c) - 1
        /\ n \in 0..(NUM - 1) /\ Emptied(p, c) \in Nat
    BY <1>1, <2>1 DEF Filled, Emptied, Bit, Sems, CritPCs, RingCount
  <2>5. s \in Slots
    BY <1>1, PosSlot
  <2>6. idx[p] = (s + n) % NUM
    BY <1>1, <2>3 DEF RingCount
  <2>7. Pos(p)' = (s + (n + 1)) % NUM
    BY <2>3, <2>4, <2>5, <2>6, EndGrow
  <2>8. ASSUME NEW i \in Slots PROVE queue'[i] # 0 <=> InRun(i, s, n + 1)
    <3>1. queue'[i] # 0 <=> queue[i] # 0 \/ i = idx[p]
      BY <1>1, <2>1, <2>5, <2>6
    <3>2. queue[i] # 0 <=> InRun(i, s, n)
      BY <1>1 DEF RingCount
    <3>3. QED BY <2>4, <2>5, <2>6, <3>1, <3>2, RunGrow
  <2>9. RingCount(p, c)'
    <3>1. Filled(p, c)' + Emptied(p, c)' = NUM
      BY <1>1, <2>4 DEF RingCount
    <3>2. Pos(p)' = (Pos(c)' + Filled(p, c)') % NUM
      BY <1>2, <2>4, <2>7
    <3>3. \A i \in Slots : queue'[i] # 0 <=> InRun(i, Pos(c)', Filled(p, c)')
      BY <1>2, <2>4, <2>8
    <3>4. QED BY <3>1, <3>2, <3>3 DEF RingCount
  <2>10. QED BY <1>1, <1>2, <2>2, <2>9 DEF RingParts
<1>4. CASE ~ProdCrit(p)
  <2>1. /\ ProdAt(p)'
        /\ queue' = queue /\ Pos(p)' = Pos(p)
        /\ Filled(p, c)' = Filled(p, c) /\ Emptied(p, c)' = Emptied(p, c)
    <3>1. CASE WorkTop(p)
      BY <1>1, <3>1 DEF WorkTop, Call, ProdAt, Pos, Filled, Emptied, WaitPCs, PostPCs, CritPCs
    <3>2. CASE PrintLock(p) \/ WorkNext(p)
      BY <1>1, <3>2 DEF PrintLock, WorkNext, ProdAt, Pos, Filled, Emptied, WaitPCs, PostPCs, CritPCs
    <3>3. CASE SemWaitLock(p)
      BY <1>1, <3>3 DEF SemWaitLock, LockStep, ProdAt, Pos, Filled, Emptied, WaitPCs, PostPCs, CritPCs
    <3>4. CASE SemWaitCheck(p)
      BY <1>1, <3>4 DEF SemWaitCheck, MySleep, Release, ProdAt, Pos, Filled, Emptied, Bit,
                        Sems, WaitPCs, PostPCs, CritPCs
    <3>5. CASE SemPostLock(p) \/ SemPostSignal(p)
      BY <1>1, <3>5 DEF SemPostLock, SemPostSignal, ProdAt, Pos, Filled, Emptied, WaitPCs, PostPCs, CritPCs
    <3>6. CASE SemPostInc(p)
      BY <1>1, <3>6 DEF SemPostInc, ProdAt, Pos, Filled, Emptied, Bit, Sems, WaitPCs, PostPCs, CritPCs
    <3>7. CASE ConsCrit(p) \/ SendLock(p) \/ SendPut(p) \/ RecvLock(p) \/ RecvCheck(p)
      BY <1>1, <3>7 DEF ConsCrit, SendLock, SendPut, RecvLock, LockStep, RecvCheck, ProdAt,
                        WaitPCs, PostPCs
    <3>8. CASE DepTop(p) \/ DepSpinLock(p) \/ DepMutexLock(p) \/ DepRead(p)
               \/ DepWrite(p) \/ DepUnlock(p)
      BY <1>1, <3>8 DEF DepTop, DepSpinLock, DepMutexLock, DepRead, DepWrite, DepUnlock,
                        ProdAt, WaitPCs, PostPCs
    <3>9. QED BY <1>4, <3>1, <3>2, <3>3, <3>4, <3>5, <3>6, <3>7, <3>8 DEF ThreadStep
  <2>2. QED BY <1>1, <1>2, <2>1, RingSame DEF RingParts
<1>5. QED BY <1>3, <1>4

(* The steps of cons_work: ConsCrit (queue[c] = 0) drops the first slot   *)
(* of the filled run, and the two semaphore updates move one token each.  *)
LEMMA ConsStep ==
    ASSUME NEW p, NEW c, OneEach(p, c), BufferInv, ThreadStep(c)
    PROVE  OnlyWorkersInRing' /\ RingParts(p, c)'
<1>1. /\ TypeOK /\ ProdAt(p) /\ ConsAt(c) /\ RingCount(p, c)
      /\ p \in Threads /\ c \in Threads /\ p # c /\ c \notin Producers
      /\ pc'[p] = pc[p] /\ idx'[p] = idx[p] /\ sem'[p] = sem[p] /\ ret'[p] = ret[p]
      /\ OnlyWorkersInRing'
  BY WorkerFacts DEF RingParts
<1>2. ProdAt(p)' /\ Pos(p)' = Pos(p)
  BY <1>1 DEF ProdAt, Pos
<1> USE DEF TypeOK
<1>3. CASE ConsCrit(c)
  <2> DEFINE s == Pos(c)
             n == Filled(p, c)
  <2>1. /\ pc[c] = "cons_crit" /\ pc'[c] = "sp_lock"
        /\ sem'[c] = "consumer" /\ ret'[c] = "cons_next"
        /\ idx'[c] = idx[c] /\ num' = num
        /\ queue' = [queue EXCEPT ![idx[c]] = 0]
    BY <1>1, <1>3 DEF ConsCrit, Call
  <2>2. ConsAt(c)'
    BY <2>1 DEF ConsAt, WaitPCs, PostPCs
  <2>3. s = idx[c] /\ Pos(c)' = (s + 1) % NUM
    BY <1>1, <2>1 DEF Pos, PostPCs
  <2>4. /\ Filled(p, c)' = n - 1 /\ Emptied(p, c)' = Emptied(p, c) + 1
        /\ n \in 1..NUM /\ Emptied(p, c) \in Nat
    BY <1>1, <2>1 DEF Filled, Emptied, Bit, Sems, CritPCs, RingCount
  <2>5. s \in Slots
    BY <1>1, PosSlot
  <2>6. Pos(p)' = (((s + 1) % NUM) + (n - 1)) % NUM
    <3>1. Pos(p) = (s + n) % NUM
      BY <1>1 DEF RingCount
    <3>2. QED BY <1>2, <2>4, <2>5, <3>1, StartShrink
  <2>7. ASSUME NEW i \in Slots PROVE queue'[i] # 0 <=> InRun(i, (s + 1) % NUM, n - 1)
    <3>1. queue'[i] # 0 <=> queue[i] # 0 /\ i # s
      BY <1>1, <2>1, <2>3, <2>5
    <3>2. queue[i] # 0 <=> InRun(i, s, n)
      BY <1>1 DEF RingCount
    <3>3. QED BY <2>4, <2>5, <3>1, <3>2, RunShrink
  <2>8. RingCount(p, c)'
    <3>1. Filled(p, c)' + Emptied(p, c)' = NUM
      BY <1>1, <2>4 DEF RingCount
    <3>2. Pos(p)' = (Pos(c)' + Filled(p, c)') % NUM
      BY <2>3, <2>4, <2>6
    <3>3. \A i \in Slots : queue'[i] # 0 <=> InRun(i, Pos(c)', Filled(p, c)')
      BY <2>3, <2>4, <2>7
    <3>4. QED BY <3>1, <3>2, <3>3 DEF RingCount
  <2>9. QED BY <1>1, <1>2, <2>2, <2>8 DEF RingParts
<1>4. CASE ~ConsCrit(c)
  <2>1. /\ ConsAt(c)'
        /\ queue' = queue /\ Pos(c)' = Pos(c)
        /\ Filled(p, c)' = Filled(p, c) /\ Emptied(p, c)' = Emptied(p, c)
    <3>1. CASE WorkTop(c)
      BY <1>1, <3>1 DEF WorkTop, Call, ConsAt, Pos, Filled, Emptied, WaitPCs, PostPCs, CritPCs
    <3>2. CASE PrintLock(c) \/ WorkNext(c)
      BY <1>1, <3>2 DEF PrintLock, WorkNext, ConsAt, Pos, Filled, Emptied, WaitPCs, PostPCs, CritPCs
    <3>3. CASE SemWaitLock(c)
      BY <1>1, <3>3 DEF SemWaitLock, LockStep, ConsAt, Pos, Filled, Emptied, WaitPCs, PostPCs, CritPCs
    <3>4. CASE SemWaitCheck(c)
      BY <1>1, <3>4 DEF SemWaitCheck, MySleep, Release, ConsAt, Pos, Filled, Emptied, Bit,
                        Sems, WaitPCs, PostPCs, CritPCs
    <3>5. CASE SemPostLock(c) \/ SemPostSignal(c)
      BY <1>1, <3>5 DEF SemPostLock, SemPostSignal, ConsAt, Pos, Filled, Emptied, WaitPCs, PostPCs, CritPCs
    <3>6. CASE SemPostInc(c)
      BY <1>1, <3>6 DEF SemPostInc, ConsAt, Pos, Filled, Emptied, Bit, Sems, WaitPCs, PostPCs, CritPCs
    <3>7. CASE ProdCrit(c) \/ SendLock(c) \/ SendPut(c) \/ RecvLock(c) \/ RecvCheck(c)
      BY <1>1, <3>7 DEF ProdCrit, SendLock, SendPut, RecvLock, LockStep, RecvCheck, ConsAt,
                        WaitPCs, PostPCs
    <3>8. CASE DepTop(c) \/ DepSpinLock(c) \/ DepMutexLock(c) \/ DepRead(c)
               \/ DepWrite(c) \/ DepUnlock(c)
      BY <1>1, <3>8 DEF DepTop, DepSpinLock, DepMutexLock, DepRead, DepWrite, DepUnlock,
                        ConsAt, WaitPCs, PostPCs
    <3>9. QED BY <1>4, <3>1, <3>2, <3>3, <3>4, <3>5, <3>6, <3>7, <3>8 DEF ThreadStep
  <2>2. QED BY <1>1, <1>2, <2>1, RingSame DEF RingParts
<1>5. QED BY <1>3, <1>4

-----------------------------------------------------------------------------
(* Every step of semm_test's threads keeps BufferInv.                      *)
LEMMA NextBuffer ==
    ASSUME NEW p, NEW c, OneEach(p, c), BufferInv, [Next]_vars
    PROVE  BufferInv'
<1>1. IInv'
  BY NextIInv DEF BufferInv
<1>2. OnlyWorkersInRing' /\ RingParts(p, c)'
  <2>1. CASE UNCHANGED vars
    <3>1. OnlyWorkersInRing'
      BY <2>1 DEF vars, BufferInv, OnlyWorkersInRing
    <3>2. RingParts(p, c)'
      BY <2>1, RingFrame DEF vars, BufferInv, OneEach, RingParts
    <3>3. QED BY <3>1, <3>2
  <2>2. CASE Next
    <3>1. PICK t \in Threads : ThreadStep(t)
      BY <2>2 DEF Next
    <3>2. CASE t = p
      BY <3>1, <3>2, ProdStep
    <3>3. CASE t = c
      BY <3>1, <3>3, ConsStep
    <3>4. CASE t \notin {p, c}
      BY <3>1, <3>4, OtherStep
    <3>5. QED BY <3>2, <3>3, <3>4
  <2>3. QED BY <2>1, <2>2
<1>3. QED BY <1>1, <1>2 DEF BufferInv, OneEach, RingParts

(* The filled run never covers the slot the producer writes next (it is   *)
(* at most NUM - 1 long while the producer holds an empty slot), and it   *)
(* starts at the slot the consumer reads (it is at least 1 long while the *)
(* consumer holds a full one).                                             *)
LEMMA BufferInvSafe ==
    ASSUME NEW p, NEW c, OneEach(p, c), BufferInv
    PROVE  BufferSafe
<1>1. /\ TypeOK /\ OnlyWorkersInRing /\ ProdAt(p) /\ ConsAt(c) /\ RingCount(p, c)
      /\ p \in Threads /\ c \in Threads
  BY DEF BufferInv, IInv, OneEach, Threads
<1>2. Pos(c) \in Slots /\ Filled(p, c) \in Nat /\ Emptied(p, c) \in Nat
  BY <1>1, PosSlot DEF TypeOK, Filled, Emptied, Bit, Sems
<1>3. ASSUME NEW t \in Threads, pc[t] = "prod_crit" PROVE queue[idx[t]] = 0
  <2>1. t = p
    BY <1>1, <1>3 DEF OnlyWorkersInRing, OneEach, ConsAt, RingPCs, CritPCs, WaitPCs, PostPCs
  <2>2. Pos(p) = idx[p] /\ Filled(p, c) \in 0..(NUM - 1)
    BY <1>1, <1>2, <1>3, <2>1 DEF Pos, PostPCs, RingCount, Emptied, Bit, CritPCs, TypeOK, Sems
  <2>3. idx[p] = IF Pos(c) + Filled(p, c) < NUM THEN Pos(c) + Filled(p, c)
                 ELSE Pos(c) + Filled(p, c) - NUM
    BY <1>1, <1>2, <2>2, ModRun DEF RingCount
  <2>4. ~InRun(idx[p], Pos(c), Filled(p, c))
    BY <1>2, <2>2, <2>3 DEF InRun, Slots
  <2>5. QED BY <1>1, <2>1, <2>4 DEF RingCount, TypeOK
<1>4. ASSUME NEW t \in Threads, pc[t] = "cons_crit" PROVE queue[idx[t]] # 0
  <2>1. t = c
    BY <1>1, <1>4 DEF OnlyWorkersInRing, OneEach, ProdAt, RingPCs, CritPCs, WaitPCs, PostPCs
  <2>2. Pos(c) = idx[c] /\ Filled(p, c) \in 1..NUM
    BY <1>1, <1>2, <1>4, <2>1 DEF Pos, PostPCs, RingCount, Filled, Bit, CritPCs, TypeOK, Sems
  <2>3. InRun(idx[c], Pos(c), Filled(p, c))
    BY <1>2, <2>2 DEF InRun, Slots
  <2>4. QED BY <1>1, <2>1, <2>3 DEF RingCount, TypeOK
<1>5. QED BY <1>3, <1>4 DEF BufferSafe

-----------------------------------------------------------------------------
(* The token count of semm_test's ring holds in every reachable state:    *)
(* for the one producer and the one consumer, the two semaphores and the  *)
(* workers' sem_wait-to-sem_post sections account for all NUM slots, and  *)
(* the filled slots run from cons_work's c to prod_work's p.               *)
THEOREM BufferInvariant ==
    ASSUME NEW p, NEW c, OneEach(p, c)
    PROVE  Spec => []BufferInv
<1>1. Init => BufferInv
  BY InitBuffer
<1>2. BufferInv /\ [Next]_vars => BufferInv'
  BY NextBuffer
<1>3. QED BY <1>1, <1>2, PTL DEF Spec

(* semm_test's semaphores keep its ring buffer consistent for every NUM   *)
(* and MAX_NUM: prod_work only writes queue[p] when that slot is empty,   *)
(* and cons_work only reads queue[c] when that slot is full.              *)
THEOREM RingBufferSafe ==
    ASSUME NEW p, NEW c, OneEach(p, c)
    PROVE  Spec => []BufferSafe
<1>1. BufferInv => BufferSafe
  BY BufferInvSafe
<1>2. QED BY <1>1, BufferInvariant, PTL

-----------------------------------------------------------------------------
(* do_work's critical section: the points of do_work at which the thread  *)
(* holds lock.                                                             *)
Holding == {"dep_mutex", "dep_read", "dep_write", "dep_unlock"}

(* do_work starts with nobody in its critical section.                     *)
LEMMA InitRmw == Init => RmwExclusive
BY DEF Init, RmwExclusive, Threads

(* Every step keeps RmwExclusive: only do_work takes or frees lock and ml, *)
(* it takes lock only when it is free (so nobody is inside), ml only while *)
(* holding lock, and only the holder of ml reads or writes total_balance.  *)
LEMMA RmwStep ==
    ASSUME IInv, RmwExclusive, NEW t \in Threads, ThreadStep(t)
    PROVE  RmwExclusive'
<1>1. TypeOK /\ ThreadBelongs(t) /\ NoThread \notin Threads
  BY DEF IInv, ThreadsWhereTheyBelong
<1>2. \A u \in Threads \ {t} : pc'[u] = pc[u]
  BY <1>1, StepFrame
<1>3. \A u \in Depositors : pc[u] \in Holding => owner["lock"] = u
  BY DEF RmwExclusive, Holding
<1>4. SUFFICES ASSUME NEW u \in Depositors
               PROVE  /\ pc'[u] \in Holding => owner'["lock"] = u
                      /\ pc'[u] \in {"dep_read", "dep_write", "dep_unlock"} => owner'["ml"] = u
                      /\ pc'[u] = "dep_write" => old'[u] = balance'
  BY DEF RmwExclusive, Holding
<1>5. u \in Threads
  BY DEF Threads
<1> USE <1>1, <1>5 DEF TypeOK
<1>6. CASE \/ WorkTop(t) \/ PrintLock(t) \/ ProdCrit(t) \/ ConsCrit(t) \/ WorkNext(t)
           \/ SemWaitLock(t) \/ SemWaitCheck(t) \/ SemPostLock(t) \/ SemPostInc(t)
           \/ SemPostSignal(t) \/ SendLock(t) \/ SendPut(t) \/ RecvLock(t) \/ RecvCheck(t)
           \/ DepTop(t)
  <2>1. /\ owner'["lock"] = owner["lock"] /\ owner'["ml"] = owner["ml"]
        /\ balance' = balance /\ old' = old /\ pc'[t] \notin Holding
    <3>1. CASE WorkTop(t) \/ PrintLock(t) \/ ProdCrit(t) \/ ConsCrit(t) \/ WorkNext(t)
      BY <3>1 DEF WorkTop, Call, PrintLock, ProdCrit, ConsCrit, WorkNext, Acquire,
                  Release, Objs, Holding
    <3>2. CASE SemWaitLock(t) \/ SemWaitCheck(t)
      BY <3>2 DEF SemWaitLock, LockStep, Acquire, SemWaitCheck, MySleep, Release,
                  ThreadBelongs, WaitPCs, CritPCs, Sems, Objs, Holding
    <3>3. CASE SemPostLock(t) \/ SemPostInc(t) \/ SemPostSignal(t)
      BY <3>3 DEF SemPostLock, SemPostInc, SemPostSignal, Acquire, Release,
                  ThreadBelongs, PostPCs, Sems, Objs, Holding
    <3>4. CASE SendLock(t) \/ SendPut(t) \/ RecvLock(t) \/ RecvCheck(t)
      BY <3>4 DEF SendLock, SendPut, RecvLock, LockStep, RecvCheck, Acquire,
                  MySleep, Release, Objs, Holding
    <3>5. CASE DepTop(t)
      BY <3>5 DEF DepTop, Holding
    <3>6. QED BY <1>6, <3>1, <3>2, <3>3, <3>4, <3>5
  <2>2. QED BY <1>2, <1>5, <2>1 DEF RmwExclusive, Holding
<1>7. CASE DepSpinLock(t)
  <2>1. /\ owner["lock"] = NoThread /\ owner'["lock"] = t /\ pc'[t] = "dep_mutex"
        /\ owner'["ml"] = owner["ml"] /\ balance' = balance /\ old' = old
    BY <1>7 DEF DepSpinLock, Acquire, Objs
  <2>2. u # t => pc[u] \notin Holding
    BY <1>1, <1>3, <2>1
  <2>3. QED BY <1>2, <1>5, <2>1, <2>2 DEF Holding
<1>8. CASE DepMutexLock(t)
  <2>1. /\ pc[t] = "dep_mutex" /\ owner["ml"] = NoThread /\ owner'["ml"] = t
        /\ pc'[t] = "dep_read" /\ owner'["lock"] = owner["lock"]
        /\ balance' = balance /\ old' = old
    BY <1>8 DEF DepMutexLock, Acquire, Objs
  <2>2. t \in Depositors
    BY <1>1, <2>1 DEF ThreadBelongs, DepPCs
  <2>3. u # t => pc[u] \notin {"dep_read", "dep_write", "dep_unlock"}
    BY <1>1, <2>1 DEF RmwExclusive
  <2>4. QED BY <1>2, <1>3, <1>5, <2>1, <2>2, <2>3 DEF Holding
<1>9. CASE DepRead(t) \/ DepWrite(t)
  <2>1. pc[t] \in {"dep_read", "dep_write"}
    BY <1>9 DEF DepRead, DepWrite
  <2>2. t \in Depositors
    BY <2>1 DEF ThreadBelongs, DepPCs
  <2>3. owner["ml"] = t /\ owner["lock"] = t
    BY <2>1, <2>2 DEF RmwExclusive
  <2>7. /\ owner' = owner
        /\ pc'[t] = IF pc[t] = "dep_read" THEN "dep_write" ELSE "dep_unlock"
        /\ (pc[t] = "dep_read" => old'[t] = balance /\ balance' = balance)
        /\ (pc[t] = "dep_write" => old' = old)
        /\ \A v \in Depositors \ {t} : old'[v] = old[v]
    BY <1>9, <2>2 DEF DepRead, DepWrite
  <2>4. CASE u = t
    BY <2>1, <2>3, <2>4, <2>7 DEF Holding
  <2>5. CASE u # t
    <3>1. pc'[u] = pc[u] /\ old'[u] = old[u] /\ owner' = owner
      BY <1>2, <2>5, <2>7
    <3>2. pc[u] \notin {"dep_read", "dep_write", "dep_unlock"}
      BY <2>3, <2>5 DEF RmwExclusive
    <3>3. QED BY <1>3, <3>1, <3>2 DEF Holding
  <2>6. QED BY <2>4, <2>5
<1>10. CASE DepUnlock(t)
  <2>1. /\ pc[t] = "dep_unlock" /\ pc'[t] = "dep_top"
        /\ owner'["lock"] = NoThread /\ owner'["ml"] = NoThread
    BY <1>10 DEF DepUnlock, Objs
  <2>2. t \in Depositors /\ owner["lock"] = t
    BY <1>1, <2>1 DEF ThreadBelongs, DepPCs, RmwExclusive
  <2>3. u # t => pc[u] \notin Holding
    BY <1>3, <2>2
  <2>4. QED BY <1>2, <1>5, <2>1, <2>3 DEF Holding
<1>11. QED BY <1>6, <1>7, <1>8, <1>9, <1>10 DEF ThreadStep

(* do_work's read-modify-write of total_balance is exclusive in every      *)
(* reachable state, for any number of do_work threads and any amount:     *)
(* the thread inside holds lock and ml, and nobody writes total_balance    *)
(* between its read and its write, so no increment is lost.                *)
THEOREM RmwExclusiveHolds == Spec => []RmwExclusive
<1>1. IInv /\ RmwExclusive /\ [Next]_vars => RmwExclusive'
  <2> SUFFICES ASSUME IInv, RmwExclusive, [Next]_vars PROVE RmwExclusive'
    OBVIOUS
  <2>1. CASE UNCHANGED vars
    BY <2>1 DEF vars, RmwExclusive
  <2>2. CASE Next
    BY <2>2, RmwStep DEF Next
  <2>3. QED BY <2>1, <2>2
<1>2. QED BY <1>1, InitIInv, NextIInv, InitRmw, PTL DEF Spec

====
