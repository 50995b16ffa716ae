------------------------------ MODULE UserSync ------------------------------
(***************************************************************************)
(* User-level synchronisation of the thread library and its clients:       *)
(* thread_mutex (src/src/lockFunc.h), the condition wait/signal pair built *)
(* on the mysleep/mywakeup system calls (src/src/proc.c), and the          *)
(* semaphores and one-slot message queue of src/src/extracredit1.c with    *)
(* the producer/consumer and sender/receiver threads that use them, and   *)
(* the do_work threads of src/src/thread.c that update a shared balance    *)
(* under a thread_spinlock and a thread_mutex.                             *)
(*                                                                         *)
(* Every struct q and the printLock mutex is an object of Objs; its lock   *)
(* word is owner[o] (NoThread when 0).  A thread's kernel side is reduced  *)
(* to what mysleep/mywakeup see of it: asleep (p->state == SLEEPING) and   *)
(* chan (p->chan, the address of a q's cv, so an object).  mysleep runs    *)
(* its store of the channel and SLEEPING, and the release of the caller's  *)
(* mutex, inside one ptable.lock critical section, and mywakeup scans      *)
(* under the same lock, so each is one step here.                          *)
(***************************************************************************)
EXTENDS Integers

CONSTANTS
    Producers,  \* threads running prod_work
    Consumers,  \* threads running cons_work
    Senders,    \* threads running write_work (send)
    Receivers,  \* threads running read_work (recv)
    Depositors, \* threads running do_work of thread.c
    NoThread,   \* a free lock word, an empty message slot
    MaxNum,     \* MAX_NUM: a worker loops while count <= MAX_NUM
    NUM,        \* NUM: size of the ring queue[] and initial consumer count
    Amount      \* b->amount: the increments each do_work thread makes

Kinds == <<Producers, Consumers, Senders, Receivers, Depositors>>

Threads == Producers \cup Consumers \cup Senders \cup Receivers \cup Depositors

ASSUME UserSyncAssumption ==
    /\ NoThread \notin Threads
    /\ MaxNum \in Nat
    /\ NUM \in Nat \ {0}
    /\ Amount \in Nat
    /\ \A i, j \in 1..5 : i # j => Kinds[i] \cap Kinds[j] = {}

VARIABLES
    owner,      \* owner[o]: the thread whose xchg set o's lock word
    num,        \* num[s]: semm->num of the two semaphores
    ptr,        \* messageQ.ptr: the sender whose message is there, or NoThread
    queue,      \* queue[]: the ring buffer of semm_test
    chan,       \* p->chan of each thread (an object, or NoChan)
    asleep,     \* p->state == SLEEPING
    pc,         \* where each thread is
    sem,        \* the semaphore of the sem_wait/sem_post in progress
    ret,        \* where that sem_wait/sem_post returns to
    count,      \* the local count of prod_work/cons_work
    idx,        \* the local p (c) of prod_work (cons_work)
    got,        \* what recv returned to each receiver
    balance,    \* total_balance of thread.c
    old         \* the local old of do_work

vars == <<owner, num, ptr, queue, chan, asleep, pc, sem, ret, count, idx, got,
          balance, old>>

Sems == {"producer", "consumer"}
Objs == Sems \cup {"messageQ", "printLock", "lock", "ml"}
NoChan == "none"
Slots == 0..(NUM - 1)

PCs == {"top", "prod_lock", "prod_crit", "prod_next", "cons_lock", "cons_crit",
        "cons_next", "sw_lock", "sw_check", "sw_sleep", "sp_lock", "sp_inc",
        "sp_signal", "send_lock", "send_spin", "recv_lock",
        "recv_check", "recv_sleep", "dep_top", "dep_spin", "dep_mutex",
        "dep_read", "dep_write", "dep_unlock", "done"}

-----------------------------------------------------------------------------
(* semm_test: printLock and both semaphores initialised (consumer to NUM,  *)
(* producer to 0, messageQ.ptr global 0); all four kinds of worker start.  *)
Init ==
    /\ owner = [o \in Objs |-> NoThread]
    /\ num = [s \in Sems |-> IF s = "consumer" THEN NUM ELSE 0]
    /\ ptr = NoThread
    /\ queue = [i \in Slots |-> 0]
    /\ chan = [t \in Threads |-> NoChan]
    /\ asleep = [t \in Threads |-> FALSE]
    /\ pc = [t \in Threads |-> IF t \in Senders THEN "send_lock"
                               ELSE IF t \in Receivers THEN "recv_lock"
                               ELSE IF t \in Depositors THEN "dep_top"
                               ELSE "top"]
    /\ sem = [t \in Threads |-> "producer"]
    /\ ret = [t \in Threads |-> "top"]
    /\ count = [t \in Threads |-> 0]
    /\ idx = [t \in Threads |-> 0]
    /\ got = [t \in Receivers |-> NoThread]
    /\ balance = 0
    /\ old = [t \in Depositors |-> 0]

-----------------------------------------------------------------------------
(* Variant of Acquire that ignores the value xchg returns (used to show    *)
(* that BalanceExact catches a lock that does not exclude).                *)
AcquireIgnoresResult(t, o) ==
    owner' = [owner EXCEPT ![o] = t]

(* thread_mutex_lock(o) (and kernel_mutex_lock): the xchg that finds the   *)
(* word 0 and sets it; a failing xchg only sleeps a tick (yields) and      *)
(* retries, which changes nothing.                                          *)
Acquire(t, o) ==
    /\ owner[o] = NoThread
    /\ owner' = [owner EXCEPT ![o] = t]

(* thread_mutex_unlock(o): store 0 into the lock word.                     *)
Release(o) == owner' = [owner EXCEPT ![o] = NoThread]

(* Variant of MySleep that forgets kernel_mutex_unlock of the caller's     *)
(* mutex (used to show that NoHang catches it).                            *)
MySleepKeepsLock(t, o, at) ==
    /\ UNCHANGED owner
    /\ chan' = [chan EXCEPT ![t] = o]
    /\ asleep' = [asleep EXCEPT ![t] = TRUE]
    /\ pc' = [pc EXCEPT ![t] = at]

(* mysleep(&cv, &o->ml) from user space, lk != &ptable.lock: under         *)
(* ptable.lock release the caller's mutex, record the channel, go          *)
(* SLEEPING and sched().                                                   *)
MySleep(t, o, at) ==
    /\ owner' = [owner EXCEPT ![o] = NoThread]
    /\ chan' = [chan EXCEPT ![t] = o]
    /\ asleep' = [asleep EXCEPT ![t] = TRUE]
    /\ pc' = [pc EXCEPT ![t] = at]

(* The xchg that takes the caller's mutex at a lock step: the first      *)
(* thread_mutex_lock, or, once the thread sleeping at sleepAt is RUNNABLE  *)
(* again, the kernel_mutex_lock that ends mysleep (after sched() returns,  *)
(* p->chan = 0 and ptable.lock is released; the lock loops are the same    *)
(* xchg, one yielding, one sleeping a tick, between failed attempts).      *)
LockStep(t, lockAt, sleepAt, o, next) ==
    /\ \/ pc[t] = lockAt
       \/ pc[t] = sleepAt /\ ~asleep[t]
    /\ Acquire(t, o)
    /\ chan' = [chan EXCEPT ![t] = NoChan]
    /\ pc' = [pc EXCEPT ![t] = next]

(* Variant of MyWakeup that wakes nobody (used to show that NoLostWakeup    *)
(* catches a dropped thread_cond_signal).                                  *)
MyWakeupNone(o) == asleep' = asleep

(* mywakeup(&cv): under ptable.lock every SLEEPING thread whose chan is    *)
(* that cv becomes RUNNABLE.                                               *)
MyWakeup(o) ==
    asleep' = [u \in Threads |-> IF asleep[u] /\ chan[u] = o THEN FALSE
                                 ELSE asleep[u]]

-----------------------------------------------------------------------------
(* sem_wait(s) / sem_post(s) as a call: remember where to return.          *)
Call(t, s, entry, back) ==
    /\ pc' = [pc EXCEPT ![t] = entry]
    /\ sem' = [sem EXCEPT ![t] = s]
    /\ ret' = [ret EXCEPT ![t] = back]

(* sem_wait: thread_mutex_lock(&semm->ml), or mysleep's kernel_mutex_lock *)
(* of it when thread_cond_wait returns.                                    *)
SemWaitLock(t) ==
    /\ LockStep(t, "sw_lock", "sw_sleep", sem[t], "sw_check")
    /\ UNCHANGED <<num, ptr, queue, asleep, sem, ret, count, idx, got, balance, old>>

(* Variant of SemWaitCheck that forgets semm->num-- (used to show that     *)
(* BufferSafe catches it).                                                 *)
SemWaitCheckNoDec(t) ==
    /\ pc[t] = "sw_check"
    /\ \/ /\ num[sem[t]] = 0
          /\ MySleep(t, sem[t], "sw_sleep")
          /\ UNCHANGED num
       \/ /\ num[sem[t]] # 0
          /\ UNCHANGED num
          /\ Release(sem[t])
          /\ pc' = [pc EXCEPT ![t] = ret[t]]
          /\ UNCHANGED <<chan, asleep>>
    /\ UNCHANGED <<ptr, queue, sem, ret, count, idx, got, balance, old>>

(* sem_wait: while (semm->num == 0) thread_cond_wait(&cv, &ml); then       *)
(* semm->num--, thread_mutex_unlock(&ml) and return.                       *)
SemWaitCheck(t) ==
    /\ pc[t] = "sw_check"
    /\ \/ /\ num[sem[t]] = 0
          /\ MySleep(t, sem[t], "sw_sleep")
          /\ UNCHANGED num
       \/ /\ num[sem[t]] # 0
          /\ num' = [num EXCEPT ![sem[t]] = @ - 1]
          /\ Release(sem[t])
          /\ pc' = [pc EXCEPT ![t] = ret[t]]
          /\ UNCHANGED <<chan, asleep>>
    /\ UNCHANGED <<ptr, queue, sem, ret, count, idx, got, balance, old>>

(* sem_post: thread_mutex_lock(&semm->ml).                                 *)
SemPostLock(t) ==
    /\ pc[t] = "sp_lock"
    /\ Acquire(t, sem[t])
    /\ pc' = [pc EXCEPT ![t] = "sp_inc"]
    /\ UNCHANGED <<num, ptr, queue, chan, asleep, sem, ret, count, idx, got, balance, old>>

(* sem_post: semm->num++; thread_mutex_unlock(&semm->ml).                  *)
SemPostInc(t) ==
    /\ pc[t] = "sp_inc"
    /\ num' = [num EXCEPT ![sem[t]] = @ + 1]
    /\ Release(sem[t])
    /\ pc' = [pc EXCEPT ![t] = "sp_signal"]
    /\ UNCHANGED <<ptr, queue, chan, asleep, sem, ret, count, idx, got, balance, old>>

(* sem_post: thread_cond_signal(&semm->cv), after the unlock; return.      *)
SemPostSignal(t) ==
    /\ pc[t] = "sp_signal"
    /\ MyWakeup(sem[t])
    /\ pc' = [pc EXCEPT ![t] = ret[t]]
    /\ UNCHANGED <<owner, num, ptr, queue, chan, sem, ret, count, idx, got, balance, old>>

-----------------------------------------------------------------------------
(* Variant of WorkTop whose loop runs one round too many (used to show     *)
(* that TypeOK bounds count and the values written to queue[]).            *)
WorkTopPastMax(t) ==
    /\ pc[t] = "top"
    /\ \/ /\ count[t] > MaxNum + 1
          /\ pc' = [pc EXCEPT ![t] = "done"]
          /\ UNCHANGED <<sem, ret>>
       \/ /\ count[t] <= MaxNum + 1
          /\ IF t \in Producers THEN Call(t, "consumer", "sw_lock", "prod_lock")
                                ELSE Call(t, "producer", "sw_lock", "cons_lock")
    /\ UNCHANGED <<owner, num, ptr, queue, chan, asleep, count, idx, got, balance, old>>

(* prod_work/cons_work loop head: break (and thread_exit) once count >     *)
(* MAX_NUM, else sem_wait(&consumer) (sem_wait(&producer)).                *)
WorkTop(t) ==
    /\ pc[t] = "top"
    /\ \/ /\ count[t] > MaxNum
          /\ pc' = [pc EXCEPT ![t] = "done"]
          /\ UNCHANGED <<sem, ret>>
       \/ /\ count[t] <= MaxNum
          /\ IF t \in Producers THEN Call(t, "consumer", "sw_lock", "prod_lock")
                                ELSE Call(t, "producer", "sw_lock", "cons_lock")
    /\ UNCHANGED <<owner, num, ptr, queue, chan, asleep, count, idx, got, balance, old>>

(* thread_mutex_lock(&printLock) in prod_work or cons_work.                *)
PrintLock(t) ==
    /\ pc[t] \in {"prod_lock", "cons_lock"}
    /\ Acquire(t, "printLock")
    /\ pc' = [pc EXCEPT ![t] = IF pc[t] = "prod_lock" THEN "prod_crit"
                                                    ELSE "cons_crit"]
    /\ UNCHANGED <<num, ptr, queue, chan, asleep, sem, ret, count, idx, got, balance, old>>

(* prod_work: count++; queue[p] = count; unlock printLock; sem_post(&producer). *)
ProdCrit(t) ==
    /\ pc[t] = "prod_crit"
    /\ count' = [count EXCEPT ![t] = @ + 1]
    /\ queue' = [queue EXCEPT ![idx[t]] = count[t] + 1]
    /\ Release("printLock")
    /\ Call(t, "producer", "sp_lock", "prod_next")
    /\ UNCHANGED <<num, ptr, chan, asleep, idx, got, balance, old>>

(* cons_work: read queue[c]; count++; queue[c] = 0; unlock printLock;      *)
(* sem_post(&consumer).                                                    *)
ConsCrit(t) ==
    /\ pc[t] = "cons_crit"
    /\ count' = [count EXCEPT ![t] = @ + 1]
    /\ queue' = [queue EXCEPT ![idx[t]] = 0]
    /\ Release("printLock")
    /\ Call(t, "consumer", "sp_lock", "cons_next")
    /\ UNCHANGED <<num, ptr, chan, asleep, idx, got, balance, old>>

(* p = (p + 1) % NUM (c = ...); sleep(1) (sleep(3)); back to the loop head. *)
WorkNext(t) ==
    /\ pc[t] \in {"prod_next", "cons_next"}
    /\ idx' = [idx EXCEPT ![t] = (@ + 1) % NUM]
    /\ pc' = [pc EXCEPT ![t] = "top"]
    /\ UNCHANGED <<owner, num, ptr, queue, chan, asleep, sem, ret, count, got, balance, old>>

-----------------------------------------------------------------------------
(* send: thread_mutex_lock(&q->ml).                                        *)
SendLock(t) ==
    /\ pc[t] = "send_lock"
    /\ Acquire(t, "messageQ")
    /\ pc' = [pc EXCEPT ![t] = "send_spin"]
    /\ UNCHANGED <<num, ptr, queue, chan, asleep, sem, ret, count, idx, got, balance, old>>

(* send: while (q->ptr != 0) ; spins holding ml, so it can only leave the  *)
(* loop once the slot is empty; then q->ptr = p, thread_cond_signal,       *)
(* unlock, and write_work calls thread_exit.                               *)
SendPut(t) ==
    /\ pc[t] = "send_spin"
    /\ ptr = NoThread
    /\ ptr' = t
    /\ MyWakeup("messageQ")
    /\ Release("messageQ")
    /\ pc' = [pc EXCEPT ![t] = "done"]
    /\ UNCHANGED <<num, queue, chan, sem, ret, count, idx, got, balance, old>>

(* recv: thread_mutex_lock(&q->ml), or mysleep's kernel_mutex_lock of it  *)
(* when thread_cond_wait returns.                                          *)
RecvLock(t) ==
    /\ LockStep(t, "recv_lock", "recv_sleep", "messageQ", "recv_check")
    /\ UNCHANGED <<num, ptr, queue, asleep, sem, ret, count, idx, got, balance, old>>

(* recv: while ((p = q->ptr) == 0) thread_cond_wait(&q->cv, &q->ml); then  *)
(* q->ptr = 0, unlock, return p (read_work then calls thread_exit).        *)
RecvCheck(t) ==
    /\ pc[t] = "recv_check"
    /\ \/ /\ ptr = NoThread
          /\ MySleep(t, "messageQ", "recv_sleep")
          /\ UNCHANGED <<ptr, got, balance, old>>
       \/ /\ ptr # NoThread
          /\ got' = [got EXCEPT ![t] = ptr]
          /\ ptr' = NoThread
          /\ Release("messageQ")
          /\ pc' = [pc EXCEPT ![t] = "done"]
          /\ UNCHANGED <<chan, asleep>>
    /\ UNCHANGED <<num, queue, sem, ret, count, idx, balance, old>>

-----------------------------------------------------------------------------
(* do_work loop head: for (i = 0; i < b->amount; i++); count holds i.      *)
(* After the loop the thread calls thread_exit.                            *)
DepTop(t) ==
    /\ pc[t] = "dep_top"
    /\ pc' = [pc EXCEPT ![t] = IF count[t] < Amount THEN "dep_spin" ELSE "done"]
    /\ UNCHANGED <<owner, num, ptr, queue, chan, asleep, sem, ret, count, idx, got, balance, old>>

(* do_work: thread_spin_lock(&lock), the xchg loop without sleeping.       *)
DepSpinLock(t) ==
    /\ pc[t] = "dep_spin"
    /\ Acquire(t, "lock")
    /\ pc' = [pc EXCEPT ![t] = "dep_mutex"]
    /\ UNCHANGED <<num, ptr, queue, chan, asleep, sem, ret, count, idx, got, balance, old>>

(* do_work: thread_mutex_lock(&ml).                                        *)
DepMutexLock(t) ==
    /\ pc[t] = "dep_mutex"
    /\ Acquire(t, "ml")
    /\ pc' = [pc EXCEPT ![t] = "dep_read"]
    /\ UNCHANGED <<num, ptr, queue, chan, asleep, sem, ret, count, idx, got, balance, old>>

(* do_work: old = total_balance.                                           *)
DepRead(t) ==
    /\ pc[t] = "dep_read"
    /\ old' = [old EXCEPT ![t] = balance]
    /\ pc' = [pc EXCEPT ![t] = "dep_write"]
    /\ UNCHANGED <<owner, num, ptr, queue, chan, asleep, sem, ret, count, idx, got, balance>>

(* do_work: delay(100000); total_balance = old + 1.                        *)
DepWrite(t) ==
    /\ pc[t] = "dep_write"
    /\ balance' = old[t] + 1
    /\ pc' = [pc EXCEPT ![t] = "dep_unlock"]
    /\ UNCHANGED <<owner, num, ptr, queue, chan, asleep, sem, ret, count, idx, got, old>>

(* Variant of DepUnlock that forgets thread_spin_unlock (used to show that *)
(* NoHang catches it).                                                     *)
DepUnlockKeepsSpin(t) ==
    /\ pc[t] = "dep_unlock"
    /\ owner' = [owner EXCEPT !["ml"] = NoThread]
    /\ count' = [count EXCEPT ![t] = @ + 1]
    /\ pc' = [pc EXCEPT ![t] = "dep_top"]
    /\ UNCHANGED <<num, ptr, queue, chan, asleep, sem, ret, idx, got, balance, old>>

(* do_work: thread_mutex_unlock(&ml); thread_spin_unlock(&lock); i++.  No  *)
(* thread can take ml between the two stores: every taker of ml holds lock *)
(* first, so the two releases are one step.                                *)
DepUnlock(t) ==
    /\ pc[t] = "dep_unlock"
    /\ owner' = [owner EXCEPT !["ml"] = NoThread, !["lock"] = NoThread]
    /\ count' = [count EXCEPT ![t] = @ + 1]
    /\ pc' = [pc EXCEPT ![t] = "dep_top"]
    /\ UNCHANGED <<num, ptr, queue, chan, asleep, sem, ret, idx, got, balance, old>>

-----------------------------------------------------------------------------
ThreadStep(t) ==
    \/ WorkTop(t) \/ PrintLock(t) \/ ProdCrit(t) \/ ConsCrit(t) \/ WorkNext(t)
    \/ SemWaitLock(t) \/ SemWaitCheck(t)
    \/ SemPostLock(t) \/ SemPostInc(t) \/ SemPostSignal(t)
    \/ SendLock(t) \/ SendPut(t) \/ RecvLock(t) \/ RecvCheck(t)
    \/ DepTop(t) \/ DepSpinLock(t) \/ DepMutexLock(t) \/ DepRead(t)
    \/ DepWrite(t) \/ DepUnlock(t)

Next == \E t \in Threads : ThreadStep(t)

Spec == Init /\ [][Next]_vars

-----------------------------------------------------------------------------
(* The type invariant.                                                     *)
TypeOK ==
    /\ owner \in [Objs -> Threads \cup {NoThread}]
    /\ num \in [Sems -> Nat]
    /\ ptr \in Senders \cup {NoThread}
    /\ queue \in [Slots -> 0..(MaxNum + 1)]
    /\ chan \in [Threads -> Objs \cup {NoChan}]
    /\ asleep \in [Threads -> BOOLEAN]
    /\ pc \in [Threads -> PCs]
    /\ sem \in [Threads -> Sems]
    /\ ret \in [Threads -> PCs]
    /\ count \in [Threads -> Nat]
    /\ idx \in [Threads -> Slots]
    /\ got \in [Receivers -> Senders \cup {NoThread}]
    /\ balance \in Nat
    /\ old \in [Depositors -> Nat]

(* A sleeper on channel c is justified: c is a semaphore that is 0 or    *)
(* whose sem_post has still to signal, or c is messageQ and it is empty.  *)
SleepJustified(c) ==
    \/ c \in Sems /\ num[c] = 0
    \/ c \in Sems /\ \E u \in Threads : pc[u] = "sp_signal" /\ sem[u] = c
    \/ c = "messageQ" /\ ptr = NoThread

(* No lost wakeup through mysleep/mywakeup: a thread asleep in sem_wait    *)
(* only sleeps while the semaphore is 0 or a sem_post that raised it has   *)
(* still to signal, and a thread asleep in recv only while the slot is     *)
(* empty.  It rests on mysleep releasing the mutex under ptable.lock and   *)
(* on sem_post signalling after every increment.                           *)
NoLostWakeup ==
    \A t \in Threads : asleep[t] => SleepJustified(chan[t])

(* The semaphores keep the ring buffer of semm_test consistent: the        *)
(* producer only writes into a slot the consumer has emptied, and the      *)
(* consumer only reads a slot the producer has filled.                     *)
BufferSafe ==
    \A t \in Threads :
       /\ pc[t] = "prod_crit" => queue[idx[t]] = 0
       /\ pc[t] = "cons_crit" => queue[idx[t]] # 0

(* Where each thread may be, as the proofs need it: a sleeping thread is  *)
(* at one of mysleep's two call sites; sem_wait returns into a            *)
(* printLock section and sem_post to the ring-index update; a thread in a *)
(* sem_wait or printLock section has count <= MAX_NUM (the loop test);    *)
(* and send and do_work states belong to the threads that run them.       *)
WaitPCs == {"sw_lock", "sw_check", "sw_sleep"}
PostPCs == {"sp_lock", "sp_inc", "sp_signal"}
CritPCs == {"prod_lock", "prod_crit", "cons_lock", "cons_crit"}
DepPCs == {"dep_top", "dep_spin", "dep_mutex", "dep_read", "dep_write", "dep_unlock"}

ThreadBelongs(t) ==
    /\ asleep[t] => pc[t] \in {"sw_sleep", "recv_sleep"}
    /\ pc[t] \in WaitPCs => ret[t] \in CritPCs
    /\ pc[t] \in PostPCs => ret[t] \in {"prod_next", "cons_next"}
    /\ pc[t] \in WaitPCs \cup CritPCs => count[t] <= MaxNum
    /\ pc[t] \in {"send_lock", "send_spin"} => t \in Senders
    /\ pc[t] \in DepPCs => t \in Depositors

ThreadsWhereTheyBelong == \A t \in Threads : ThreadBelongs(t)

(* The inductive invariant behind the proof of NoLostWakeup.              *)
IInv == TypeOK /\ NoLostWakeup /\ ThreadsWhereTheyBelong

(* The strengthening behind the proof of BufferSafe (UserSyncBufferProofs). *)
(* Only prod_work and cons_work threads run the ring code; the producer   *)
(* waits on consumer and posts producer, the consumer the other way; and, *)
(* for the one producer p and one consumer c semm_test creates, the       *)
(* semaphore counts plus the tokens in flight add up to NUM, and the      *)
(* filled slots are the run of Filled(p, c) slots from the consumer's     *)
(* position, which ends where the producer writes next.                   *)
RingPCs == WaitPCs \cup PostPCs \cup CritPCs \cup {"top", "prod_next", "cons_next"}

OnlyWorkersInRing == \A t \in Threads \ (Producers \cup Consumers) : pc[t] \notin RingPCs

ProdAt(p) ==
    /\ pc[p] \in WaitPCs \cup PostPCs \cup {"top", "prod_lock", "prod_crit", "prod_next", "done"}
    /\ pc[p] \in WaitPCs => sem[p] = "consumer" /\ ret[p] = "prod_lock"
    /\ pc[p] \in PostPCs => sem[p] = "producer" /\ ret[p] = "prod_next"

ConsAt(c) ==
    /\ pc[c] \in WaitPCs \cup PostPCs \cup {"top", "cons_lock", "cons_crit", "cons_next", "done"}
    /\ pc[c] \in WaitPCs => sem[c] = "producer" /\ ret[c] = "cons_lock"
    /\ pc[c] \in PostPCs => sem[c] = "consumer" /\ ret[c] = "cons_next"

Bit(b) == IF b THEN 1 ELSE 0

(* A worker's next ring position: idx, or idx + 1 once it has used slot   *)
(* idx and not yet run p = (p + 1) % NUM.                                  *)
Pos(t) == IF pc[t] \in PostPCs \cup {"prod_next", "cons_next"}
          THEN (idx[t] + 1) % NUM ELSE idx[t]

(* Full slots: posted on producer, written and not yet posted, or taken    *)
(* by the consumer's sem_wait and not yet read; Emptied the other way.     *)
Filled(p, c) == num["producer"] + Bit(pc[p] \in {"sp_lock", "sp_inc"}) + Bit(pc[c] \in CritPCs)
Emptied(p, c) == num["consumer"] + Bit(pc[c] \in {"sp_lock", "sp_inc"}) + Bit(pc[p] \in CritPCs)

(* Slot i lies in the run of n slots from s, round the ring.               *)
InRun(i, s, n) == (s <= i /\ i < s + n) \/ i + NUM < s + n

RingCount(p, c) ==
    /\ Filled(p, c) + Emptied(p, c) = NUM
    /\ Pos(p) = (Pos(c) + Filled(p, c)) % NUM
    /\ \A i \in Slots : queue[i] # 0 <=> InRun(i, Pos(c), Filled(p, c))

BufferInv ==
    /\ IInv
    /\ OnlyWorkersInRing
    /\ \A p \in Producers : ProdAt(p)
    /\ \A c \in Consumers : ConsAt(c)
    /\ \A p \in Producers, c \in Consumers : RingCount(p, c)

(* The tests never hang: until every worker has called thread_exit (and  *)
(* the main thread's thread_joins return) some worker can take a step;    *)
(* a thread blocked in mysleep or spinning in send does not count.        *)
NoHang ==
    (\A t \in Threads : pc[t] = "done") \/ ENABLED Next

(* Increments of total_balance each do_work thread has written: one per   *)
(* finished iteration, one more while it is between write and unlock.     *)
Written == [t \in Depositors |-> count[t] + IF pc[t] = "dep_unlock" THEN 1 ELSE 0]

SumWritten[S \in SUBSET Depositors] ==
    IF S = {} THEN 0
    ELSE LET d == CHOOSE x \in S : TRUE IN Written[d] + SumWritten[S \ {d}]

(* do_work's read-modify-write of total_balance loses no update: the      *)
(* balance is exactly the number of increments the threads have written,  *)
(* so thread.c prints the sum of the amounts once both threads are joined. *)
BalanceExact == balance = SumWritten[Depositors]

(* do_work's read-modify-write of total_balance is exclusive: from the    *)
(* thread_spin_lock(&lock) to the unlocks the thread holds lock, from     *)
(* thread_mutex_lock(&ml) it also holds ml, and between old =            *)
(* total_balance and total_balance = old + 1 no other thread has written   *)
(* total_balance.  It is what makes BalanceExact hold, and it is what the *)
(* single DepUnlock step rests on (nobody takes ml without lock).          *)
RmwExclusive ==
    \A t \in Depositors :
       /\ pc[t] \in {"dep_mutex", "dep_read", "dep_write", "dep_unlock"} => owner["lock"] = t
       /\ pc[t] \in {"dep_read", "dep_write", "dep_unlock"} => owner["ml"] = t
       /\ pc[t] = "dep_write" => old[t] = balance

=============================================================================
