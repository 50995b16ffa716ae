------------------------------- MODULE FsLog -------------------------------
(***************************************************************************)
(* The write-ahead log of src/src/log.c: begin_op/end_op bracketing of     *)
(* file-system calls with the space reservation and the sleeps on &log,    *)
(* log_write with absorption, the group commit run by the last end_op      *)
(* (write_log, write_head, install_trans, clear), and recovery at boot     *)
(* (initlog -> recover_from_log), with crashes at any point.               *)
(*                                                                         *)
(* Disk state survives a crash: the home blocks, the log blocks and the    *)
(* on-disk header.  Memory state does not: the buffer cache, log.lh,       *)
(* outstanding, committing and the threads.  A block's data is a member    *)
(* of Vals; the buffer cache is a full map from blocks to data (a block    *)
(* that is not cached reads as its home copy, and B_DIRTY keeps logged     *)
(* blocks from being evicted).                                             *)
(***************************************************************************)
EXTENDS Integers, Sequences, FiniteSets

CONSTANTS
    Threads,     \* processes that make file-system calls
    Blocks,      \* disk block numbers a call may write
    Vals,        \* block contents
    LOGSIZE,     \* LOGSIZE: entries of logheader.block[]
    MAXOPBLOCKS, \* MAXOPBLOCKS: blocks one call may write
    LogSize,     \* log.size, the superblock's nlog (header included)
    Ops,         \* file-system calls each thread makes
    MaxCrash     \* crashes in one behaviour

ASSUME LogAssumption ==
    /\ IsFiniteSet(Threads)
    /\ LOGSIZE \in Nat \ {0}
    /\ MAXOPBLOCKS \in 1..LOGSIZE
    /\ LogSize \in Nat
    /\ Ops \in Nat
    /\ MaxCrash \in Nat
    /\ Vals # {}
    /\ Blocks # {}

VARIABLES
    home,        \* the home location of every block on disk
    logdisk,     \* the log blocks on disk, log.start + 1 ..
    dhead,       \* the header block on disk: <<block[0], ..., block[n-1]>>
    lh,          \* log.lh in memory
    cache,       \* the buffer cache's data of every block
    outstanding, \* log.outstanding
    committing,  \* log.committing
    pc,          \* where each thread is
    nw,          \* log_write calls of the thread's current call
    wb,          \* the block the thread is passing to log_write
    done,        \* file-system calls the thread has finished
    tail,        \* the loop index of write_log / install_trans
    rpc,         \* the boot-time recovery: where initlog is, or "up"
    crashes      \* crashes so far

vars == <<home, logdisk, dhead, lh, cache, outstanding, committing, pc, nw,
          wb, done, tail, rpc, crashes>>

LogSlots == 1..LOGSIZE

PCs == {"idle", "asleep", "woken", "op", "lw_check", "lw_add", "c_wlog",
        "c_install", "c_end", "panic"}

InLog(b, s) == \E i \in 1..Len(s) : s[i] = b

-----------------------------------------------------------------------------
(* A fresh machine: whatever is on the disk, an empty log, and initlog     *)
(* about to run.                                                           *)
Init ==
    /\ home \in [Blocks -> Vals]
    /\ logdisk \in [LogSlots -> Vals]
    /\ dhead = <<>>
    /\ lh = <<>>
    /\ cache = home
    /\ outstanding = 0
    /\ committing = FALSE
    /\ pc = [t \in Threads |-> "idle"]
    /\ nw = [t \in Threads |-> 0]
    /\ wb = [t \in Threads |-> CHOOSE b \in Blocks : TRUE]
    /\ done = [t \in Threads |-> 0]
    /\ tail = 0
    /\ rpc = "read"
    /\ crashes = 0

(* panic() stops the machine: no thread runs on after it, and only a      *)
(* reboot follows.                                                         *)
Halted == \E t \in Threads : pc[t] = "panic"

(* wakeup(&log): every thread asleep in begin_op becomes runnable.         *)
Wakeup(p) == [u \in Threads |-> IF p[u] = "asleep" THEN "woken" ELSE p[u]]

(* One iteration of install_trans: copy log block tail to its home         *)
(* location; bwrite goes through the cached dbuf, which gets the same data. *)
InstallBlock ==
    /\ tail < Len(lh)
    /\ home' = [home EXCEPT ![lh[tail + 1]] = logdisk[tail + 1]]
    /\ cache' = [cache EXCEPT ![lh[tail + 1]] = logdisk[tail + 1]]
    /\ tail' = tail + 1

-----------------------------------------------------------------------------
(* Variant of RecoverRead that does not load the header, so recovery       *)
(* installs nothing and then erases a committed transaction (used to show  *)
(* that AtomicCommit catches it).                                          *)
RecoverReadNoInstall ==
    /\ rpc = "read"
    /\ lh' = <<>>
    /\ tail' = 0
    /\ rpc' = "install"
    /\ UNCHANGED <<home, logdisk, dhead, cache, outstanding, committing, pc,
                   nw, wb, done, crashes>>

(* Boot: initlog -> recover_from_log.  read_head loads the on-disk header. *)
RecoverRead ==
    /\ rpc = "read"
    /\ lh' = dhead
    /\ tail' = 0
    /\ rpc' = "install"
    /\ UNCHANGED <<home, logdisk, dhead, cache, outstanding, committing, pc,
                   nw, wb, done, crashes>>

(* install_trans of recover_from_log, one block per step.                  *)
RecoverInstall ==
    /\ rpc = "install"
    /\ InstallBlock
    /\ UNCHANGED <<logdisk, dhead, lh, outstanding, committing, pc, nw, wb,
                   done, rpc, crashes>>

(* log.lh.n = 0; write_head(): the log is cleared and the system is up.    *)
RecoverClear ==
    /\ rpc = "install"
    /\ tail = Len(lh)
    /\ lh' = <<>>
    /\ dhead' = <<>>
    /\ rpc' = "up"
    /\ UNCHANGED <<home, logdisk, cache, outstanding, committing, pc, nw, wb,
                   done, tail, crashes>>

-----------------------------------------------------------------------------
(* Variants of BeginOp that leave out the space test (used to show that    *)
(* TypeOK catches the log outgrowing logheader.block[]) or the committing  *)
(* test (used to show that NoPanic catches a call begun inside a commit).  *)
BeginOpNoSpaceCheck(t) ==
    /\ ~Halted
    /\ rpc = "up"
    /\ \/ pc[t] = "idle" /\ done[t] < Ops
       \/ pc[t] = "woken"
    /\ IF committing
       THEN /\ pc' = [pc EXCEPT ![t] = "asleep"]
            /\ UNCHANGED <<outstanding, nw>>
       ELSE /\ outstanding' = outstanding + 1
            /\ nw' = [nw EXCEPT ![t] = 0]
            /\ pc' = [pc EXCEPT ![t] = "op"]
    /\ UNCHANGED <<home, logdisk, dhead, lh, cache, committing, wb, done, tail,
                   rpc, crashes>>

BeginOpIgnoresCommit(t) ==
    /\ ~Halted
    /\ rpc = "up"
    /\ \/ pc[t] = "idle" /\ done[t] < Ops
       \/ pc[t] = "woken"
    /\ IF Len(lh) + (outstanding + 1) * MAXOPBLOCKS > LOGSIZE
       THEN /\ pc' = [pc EXCEPT ![t] = "asleep"]
            /\ UNCHANGED <<outstanding, nw>>
       ELSE /\ outstanding' = outstanding + 1
            /\ nw' = [nw EXCEPT ![t] = 0]
            /\ pc' = [pc EXCEPT ![t] = "op"]
    /\ UNCHANGED <<home, logdisk, dhead, lh, cache, committing, wb, done, tail,
                   rpc, crashes>>

(* begin_op: under log.lock, sleep on &log while a commit runs or while    *)
(* this call's MAXOPBLOCKS might not fit; otherwise reserve by             *)
(* outstanding += 1.  A woken thread retakes log.lock and tests again.     *)
BeginOp(t) ==
    /\ ~Halted
    /\ rpc = "up"
    /\ \/ pc[t] = "idle" /\ done[t] < Ops
       \/ pc[t] = "woken"
    /\ IF committing \/ Len(lh) + (outstanding + 1) * MAXOPBLOCKS > LOGSIZE
       THEN /\ pc' = [pc EXCEPT ![t] = "asleep"]
            /\ UNCHANGED <<outstanding, nw>>
       ELSE /\ outstanding' = outstanding + 1
            /\ nw' = [nw EXCEPT ![t] = 0]
            /\ pc' = [pc EXCEPT ![t] = "op"]
    /\ UNCHANGED <<home, logdisk, dhead, lh, cache, committing, wb, done, tail,
                   rpc, crashes>>

(* The call modifies a block it has bread (bp->data) and calls             *)
(* log_write(bp); callers write at most MAXOPBLOCKS blocks.                *)
OpWrite(t) ==
    /\ ~Halted
    /\ pc[t] = "op"
    /\ nw[t] < MAXOPBLOCKS
    /\ \E b \in Blocks, v \in Vals :
          /\ cache' = [cache EXCEPT ![b] = v]
          /\ wb' = [wb EXCEPT ![t] = b]
    /\ pc' = [pc EXCEPT ![t] = "lw_check"]
    /\ UNCHANGED <<home, logdisk, dhead, lh, outstanding, committing, nw,
                   done, tail, rpc, crashes>>

(* log_write's two panics, tested before it takes log.lock.                *)
LogWriteCheck(t) ==
    /\ ~Halted
    /\ pc[t] = "lw_check"
    /\ pc' = [pc EXCEPT ![t] =
                IF Len(lh) >= LOGSIZE \/ Len(lh) >= LogSize - 1 \/ outstanding < 1
                THEN "panic" ELSE "lw_add"]
    /\ UNCHANGED <<home, logdisk, dhead, lh, cache, outstanding, committing,
                   nw, wb, done, tail, rpc, crashes>>

(* Under log.lock: absorb the block if log.lh already holds it, else       *)
(* append it (log.lh.n++).                                                 *)
LogWriteAdd(t) ==
    /\ ~Halted
    /\ pc[t] = "lw_add"
    /\ lh' = IF InLog(wb[t], lh) THEN lh ELSE Append(lh, wb[t])
    /\ nw' = [nw EXCEPT ![t] = nw[t] + 1]
    /\ pc' = [pc EXCEPT ![t] = "op"]
    /\ UNCHANGED <<home, logdisk, dhead, cache, outstanding, committing, wb,
                   done, tail, rpc, crashes>>

(* end_op under log.lock: outstanding -= 1; panic if a commit runs; the    *)
(* last call sets committing and goes on to commit(), any other wakes the  *)
(* sleepers and returns.                                                   *)
EndOp(t) ==
    /\ ~Halted
    /\ pc[t] = "op"
    /\ outstanding' = outstanding - 1
    /\ IF committing
       THEN /\ pc' = [pc EXCEPT ![t] = "panic"]
            /\ UNCHANGED <<committing, done, tail>>
       ELSE \/ /\ outstanding = 1
               /\ committing' = TRUE
               /\ tail' = 0
               /\ pc' = [pc EXCEPT ![t] = "c_wlog"]
               /\ UNCHANGED done
            \/ /\ outstanding # 1
               /\ pc' = [Wakeup(pc) EXCEPT ![t] = "idle"]
               /\ done' = [done EXCEPT ![t] = done[t] + 1]
               /\ UNCHANGED <<committing, tail>>
    /\ UNCHANGED <<home, logdisk, dhead, lh, cache, nw, wb, rpc, crashes>>

-----------------------------------------------------------------------------
(* commit() by the last end_op, without log.lock.  write_log: one log      *)
(* block per step, copied from the cached block.                           *)
CommitWriteLog(t) ==
    /\ ~Halted
    /\ pc[t] = "c_wlog"
    /\ tail < Len(lh)
    /\ logdisk' = [logdisk EXCEPT ![tail + 1] = cache[lh[tail + 1]]]
    /\ tail' = tail + 1
    /\ UNCHANGED <<home, dhead, lh, cache, outstanding, committing, pc, nw,
                   wb, done, rpc, crashes>>

(* write_head: the commit point.  commit() does nothing when lh.n = 0.     *)
CommitWriteHead(t) ==
    /\ ~Halted
    /\ pc[t] = "c_wlog"
    /\ tail = Len(lh)
    /\ dhead' = lh
    /\ tail' = 0
    /\ pc' = [pc EXCEPT ![t] = IF Len(lh) > 0 THEN "c_install" ELSE "c_end"]
    /\ UNCHANGED <<home, logdisk, lh, cache, outstanding, committing, nw, wb,
                   done, rpc, crashes>>

(* install_trans of commit.                                                *)
CommitInstall(t) ==
    /\ ~Halted
    /\ pc[t] = "c_install"
    /\ InstallBlock
    /\ UNCHANGED <<logdisk, dhead, lh, outstanding, committing, pc, nw, wb,
                   done, rpc, crashes>>

(* log.lh.n = 0; write_head(): erase the transaction from the log.         *)
CommitClear(t) ==
    /\ ~Halted
    /\ pc[t] = "c_install"
    /\ tail = Len(lh)
    /\ lh' = <<>>
    /\ dhead' = <<>>
    /\ pc' = [pc EXCEPT ![t] = "c_end"]
    /\ UNCHANGED <<home, logdisk, cache, outstanding, committing, nw, wb,
                   done, tail, rpc, crashes>>

(* Variant of CommitEnd that forgets wakeup(&log) (used to show that      *)
(* AllCallsFinish catches a begin_op left asleep).                         *)
CommitEndNoWakeup(t) ==
    /\ ~Halted
    /\ pc[t] = "c_end"
    /\ committing' = FALSE
    /\ pc' = [pc EXCEPT ![t] = "idle"]
    /\ done' = [done EXCEPT ![t] = done[t] + 1]
    /\ UNCHANGED <<home, logdisk, dhead, lh, cache, outstanding, nw, wb,
                   tail, rpc, crashes>>

(* Back under log.lock: committing = 0, wakeup(&log), and end_op returns. *)
CommitEnd(t) ==
    /\ ~Halted
    /\ pc[t] = "c_end"
    /\ committing' = FALSE
    /\ pc' = [Wakeup(pc) EXCEPT ![t] = "idle"]
    /\ done' = [done EXCEPT ![t] = done[t] + 1]
    /\ UNCHANGED <<home, logdisk, dhead, lh, cache, outstanding, nw, wb,
                   tail, rpc, crashes>>

-----------------------------------------------------------------------------
(* Power failure, or a reboot after a panic: the disk stays, memory is    *)
(* lost, and initlog will run again; a call in progress is lost and made   *)
(* again.                                                                  *)
Crash ==
    /\ crashes < MaxCrash
    /\ crashes' = crashes + 1
    /\ lh' = <<>>
    /\ cache' = home
    /\ outstanding' = 0
    /\ committing' = FALSE
    /\ pc' = [t \in Threads |-> "idle"]
    /\ nw' = [t \in Threads |-> 0]
    /\ tail' = 0
    /\ rpc' = "read"
    /\ UNCHANGED <<home, logdisk, dhead, wb, done>>

ThreadStep(t) ==
    \/ BeginOp(t) \/ OpWrite(t) \/ LogWriteCheck(t) \/ LogWriteAdd(t)
    \/ EndOp(t) \/ CommitWriteLog(t) \/ CommitWriteHead(t)
    \/ CommitInstall(t) \/ CommitClear(t) \/ CommitEnd(t)

Recovery == RecoverRead \/ RecoverInstall \/ RecoverClear

Next == Recovery \/ Crash \/ \E t \in Threads : ThreadStep(t)

(* Every runnable process is scheduled again (round-robin scheduler), and  *)
(* initlog runs in the first process's forkret; a crash is never forced.   *)
Fairness == WF_vars(Recovery) /\ \A t \in Threads : WF_vars(ThreadStep(t))

Spec == Init /\ [][Next]_vars /\ Fairness

-----------------------------------------------------------------------------
TypeOK ==
    /\ home \in [Blocks -> Vals]
    /\ logdisk \in [LogSlots -> Vals]
    /\ dhead \in Seq(Blocks) /\ Len(dhead) <= LOGSIZE
    /\ lh \in Seq(Blocks) /\ Len(lh) <= LOGSIZE
    /\ cache \in [Blocks -> Vals]
    /\ outstanding \in Nat
    /\ committing \in BOOLEAN
    /\ pc \in [Threads -> PCs]
    /\ nw \in [Threads -> 0..MAXOPBLOCKS]
    /\ wb \in [Threads -> Blocks]
    /\ done \in [Threads -> 0..Ops]
    /\ tail \in 0..LOGSIZE
    /\ rpc \in {"read", "install", "up"}
    /\ crashes \in 0..MaxCrash

(* Neither of log_write's panics ("too big a transaction", "log_write      *)
(* outside of trans") nor end_op's "log.committing" is ever reached: the   *)
(* reservation begin_op makes under log.lock covers every block a call    *)
(* logs, although log_write tests the log's length without the lock, and  *)
(* no call begins while a commit runs.                                     *)
NoPanic == \A t \in Threads : pc[t] # "panic"

(* Every thread finishes all its file-system calls: no begin_op sleeps on  *)
(* &log forever, since an end_op or the end of a commit always wakes it.   *)
AllCallsFinish == <>(\A t \in Threads : done[t] = Ops)

-----------------------------------------------------------------------------
(* The disk as recovery would leave it: a block the on-disk header names   *)
(* reads as its log block, any other as its home copy.                     *)
LogVal(b) == logdisk[CHOOSE i \in 1..Len(dhead) : dhead[i] = b]

Durable == [b \in Blocks |-> IF InLog(b, dhead) THEN LogVal(b) ELSE home[b]]

(* What file-system calls see: the buffer cache once the log is up.        *)
Seen == IF rpc = "up" THEN cache ELSE Durable

Abs == INSTANCE AtomicDisk WITH disk <- Durable, mem <- Seen, open <- outstanding

(* The log implements an atomic disk: whatever crashes happen, the disk    *)
(* as recovery reads it only ever changes to the whole of what the calls   *)
(* wrote, at a moment when no call is open (group commit at write_head),   *)
(* and a crash brings the calls back to exactly that disk.                 *)
AtomicCommit == Abs!ASpec
-----------------------------------------------------------------------------
(* The inductive invariant behind NoPanic and AtomicCommit.               *)

(* The calls between begin_op and end_op, and what their reservations     *)
(* still cover: one token <<t, k>> for each block t may still log.         *)
OpPCs == {"op", "lw_check", "lw_add"}

InOp == {t \in Threads : pc[t] \in OpPCs}

Reserved == {p \in InOp \X (1..MAXOPBLOCKS) : p[2] > nw[p[1]]}

CommitPCs == {"c_wlog", "c_install", "c_end"}

At(ph) == \E t \in Threads : pc[t] = ph

(* A block written into the cache whose log_write has not finished.       *)
Pending(b) == \E t \in Threads : pc[t] \in {"lw_check", "lw_add"} /\ wb[t] = b

Distinct(s) == \A i, j \in 1..Len(s) : s[i] = s[j] => i = j

(* outstanding counts the open calls, and log.lh plus what they may still *)
(* log fits in LOGSIZE.                                                    *)
ReservationHolds ==
    /\ Cardinality(InOp) <= outstanding
    /\ Len(lh) + Cardinality(Reserved) <= LOGSIZE
    /\ \A t \in Threads : pc[t] \in {"lw_check", "lw_add"} => nw[t] < MAXOPBLOCKS

(* log.committing is set exactly while one thread commits, and then no    *)
(* call is open.                                                           *)
CommitExclusive ==
    /\ committing <=> \E t \in Threads : pc[t] \in CommitPCs
    /\ \A t, u \in Threads : pc[t] \in CommitPCs /\ pc[u] \in CommitPCs => t = u
    /\ committing => outstanding = 0

(* During recovery nothing else runs, the cache is the home copy, and the *)
(* installed prefix of the header holds its log blocks.                   *)
RecoveryState ==
    /\ rpc # "up" => /\ cache = home /\ outstanding = 0
                    /\ \A t \in Threads : pc[t] = "idle"
    /\ rpc = "install" => /\ lh = dhead /\ tail <= Len(lh)
                         /\ \A i \in 1..tail : home[lh[i]] = logdisk[i]

(* Once up: a block the cache changed is logged or being logged; the disk *)
(* header is empty except while installing; the log blocks written so far *)
(* hold the cached data; installed blocks hold it at home.                *)
RunState ==
    rpc = "up" /\ ~Halted =>
        /\ \A b \in Blocks : home[b] # cache[b] => InLog(b, lh) \/ Pending(b)
        /\ ~At("c_install") => dhead = <<>>
        /\ At("c_wlog") => /\ tail <= Len(lh)
                           /\ \A i \in 1..tail : logdisk[i] = cache[lh[i]]
        /\ At("c_install") => /\ dhead = lh /\ tail <= Len(lh)
                              /\ \A i \in 1..Len(lh) : logdisk[i] = cache[lh[i]]
                              /\ \A i \in 1..tail : home[lh[i]] = cache[lh[i]]
        /\ At("c_end") => lh = <<>> /\ home = cache

(* A thread that has left idle is making a call it has not yet counted.   *)
CallsBounded == \A t \in Threads : pc[t] # "idle" => done[t] < Ops

IInv ==
    /\ TypeOK /\ CallsBounded /\ ReservationHolds /\ CommitExclusive
    /\ Distinct(lh) /\ Distinct(dhead) /\ RecoveryState /\ RunState
=============================================================================
