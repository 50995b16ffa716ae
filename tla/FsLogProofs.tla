---------------------------- MODULE FsLogProofs ----------------------------
(***************************************************************************)
(* Proofs about the file-system log of FsLog.tla, for every set of         *)
(* threads and blocks and every LOGSIZE, MAXOPBLOCKS, LogSize, Ops and     *)
(* MaxCrash: IInv is inductive; the log never outgrows logheader.block[];  *)
(* when the log area holds LOGSIZE blocks besides the header, no panic of  *)
(* log_write or end_op is reachable; and the log implements AtomicDisk.    *)
(***************************************************************************)
EXTENDS FsLog, FiniteSetTheorems, SequenceTheorems, TLAPS

USE LogAssumption

-----------------------------------------------------------------------------
(* Sets of threads, and sets of reservation tokens, are finite.           *)
LEMMA ThreadSetFinite ==
    ASSUME NEW S \in SUBSET Threads
    PROVE  IsFiniteSet(S) /\ Cardinality(S) \in Nat
BY FS_Subset, FS_CardinalityType

LEMMA TokenSetBound ==
    ASSUME NEW I \in SUBSET Threads, NEW S \in SUBSET (I \X (1..MAXOPBLOCKS))
    PROVE  /\ IsFiniteSet(S)
           /\ Cardinality(S) \in Nat
           /\ Cardinality(S) <= Cardinality(I) * MAXOPBLOCKS
<1>1. IsFiniteSet(I) /\ Cardinality(I) \in Nat
  BY ThreadSetFinite
<1>2. IsFiniteSet(1..MAXOPBLOCKS) /\ Cardinality(1..MAXOPBLOCKS) = MAXOPBLOCKS
  BY FS_Interval
<1>3. IsFiniteSet(I \X (1..MAXOPBLOCKS))
      /\ Cardinality(I \X (1..MAXOPBLOCKS)) = Cardinality(I) * MAXOPBLOCKS
  BY <1>1, <1>2, FS_Product
<1>4. QED BY <1>3, FS_Subset, FS_CardinalityType

(* A non-empty finite set has at least one element counted.               *)
LEMMA CardPositive ==
    ASSUME NEW S, IsFiniteSet(S), NEW x \in S
    PROVE  Cardinality(S) >= 1
BY FS_EmptySet, FS_CardinalityType

(* Reserved is finite and bounded by outstanding reservations.             *)
LEMMA ReservedBound ==
    ASSUME ReservationHolds, outstanding \in Nat
    PROVE  /\ IsFiniteSet(InOp) /\ Cardinality(InOp) \in Nat
           /\ IsFiniteSet(Reserved) /\ Cardinality(Reserved) \in Nat
           /\ Cardinality(Reserved) <= outstanding * MAXOPBLOCKS
<1>1. InOp \in SUBSET Threads /\ Reserved \in SUBSET (InOp \X (1..MAXOPBLOCKS))
  BY DEF InOp, Reserved
<1>2. IsFiniteSet(InOp) /\ Cardinality(InOp) \in Nat
  BY <1>1, ThreadSetFinite
<1>3. Cardinality(Reserved) <= Cardinality(InOp) * MAXOPBLOCKS
      /\ IsFiniteSet(Reserved) /\ Cardinality(Reserved) \in Nat
  BY <1>1, TokenSetBound
<1>4. Cardinality(InOp) * MAXOPBLOCKS <= outstanding * MAXOPBLOCKS
  BY <1>2 DEF ReservationHolds
<1>5. QED BY <1>2, <1>3, <1>4

(* When nobody may be between begin_op and end_op, nobody is.              *)
LEMMA NoOpenCall ==
    ASSUME ReservationHolds, outstanding = 0
    PROVE  InOp = {} /\ Reserved = {}
<1>1. IsFiniteSet(InOp) /\ Cardinality(InOp) \in Nat
  BY ThreadSetFinite DEF InOp
<1>2. InOp = {}
  BY <1>1, CardPositive DEF ReservationHolds
<1>3. QED BY <1>2 DEF Reserved

(* A step that keeps every thread inside or outside a call and keeps nw   *)
(* keeps the open calls and their reservations.                           *)
LEMMA CallsFrame ==
    ASSUME \A u \in Threads : pc'[u] \in OpPCs <=> pc[u] \in OpPCs, nw' = nw
    PROVE  InOp' = InOp /\ Reserved' = Reserved
BY DEF InOp, Reserved

-----------------------------------------------------------------------------
(* The initial states satisfy IInv.                                        *)
LEMMA InitIInv == Init => IInv
<1> SUFFICES ASSUME Init PROVE IInv
  OBVIOUS
<1>1. TypeOK
  <2>1. (CHOOSE b \in Blocks : TRUE) \in Blocks
    OBVIOUS
  <2>2. wb \in [Threads -> Blocks]
    BY <2>1 DEF Init
  <2>3. dhead \in Seq(Blocks) /\ Len(dhead) <= LOGSIZE /\ lh \in Seq(Blocks) /\ Len(lh) <= LOGSIZE
    BY DEF Init
  <2>4. pc \in [Threads -> PCs] /\ nw \in [Threads -> 0..MAXOPBLOCKS]
        /\ done \in [Threads -> 0..Ops]
    BY DEF Init, PCs
  <2>5. home \in [Blocks -> Vals] /\ logdisk \in [LogSlots -> Vals]
        /\ cache \in [Blocks -> Vals]
    BY DEF Init
  <2>6. outstanding \in Nat /\ committing \in BOOLEAN
    BY DEF Init
  <2>8. tail \in 0..LOGSIZE /\ crashes \in 0..MaxCrash
    BY DEF Init
  <2>9. rpc \in {"read", "install", "up"}
    BY DEF Init
  <2>7. QED BY <2>2, <2>3, <2>4, <2>5, <2>6, <2>8, <2>9 DEF TypeOK
<1>2. InOp = {} /\ Reserved = {}
  BY DEF Init, InOp, OpPCs, Reserved
<1>3. ReservationHolds
  BY <1>2, FS_EmptySet DEF Init, ReservationHolds
<1>4. CommitExclusive
  BY DEF Init, CommitExclusive, CommitPCs
<1>5. Distinct(lh) /\ Distinct(dhead) /\ CallsBounded
  BY DEF Init, Distinct, CallsBounded
<1>6. RecoveryState /\ RunState
  BY DEF Init, RecoveryState, RunState
<1>7. QED BY <1>1, <1>3, <1>4, <1>5, <1>6 DEF IInv
-----------------------------------------------------------------------------
(* Frame lemmas: a step that leaves the disk, the log, the cache and the   *)
(* commit phase alone, and drops no pending log_write, keeps RunState; one *)
(* that keeps who commits keeps CommitExclusive.                           *)
LEMMA RunFrame ==
    ASSUME RunState, ~Halted,
           rpc' = rpc, home' = home, cache' = cache, lh' = lh, dhead' = dhead,
           logdisk' = logdisk, tail' = tail,
           \A b \in Blocks : Pending(b) => Pending(b)',
           \A ph \in CommitPCs : At(ph)' <=> At(ph)
    PROVE  RunState'
<1>1. rpc = "up" => /\ \A b \in Blocks : home[b] # cache[b] => InLog(b, lh) \/ Pending(b)
                    /\ ~At("c_install") => dhead = <<>>
                    /\ At("c_wlog") => /\ tail <= Len(lh)
                                       /\ \A i \in 1..tail : logdisk[i] = cache[lh[i]]
                    /\ At("c_install") => /\ dhead = lh /\ tail <= Len(lh)
                                          /\ \A i \in 1..Len(lh) : logdisk[i] = cache[lh[i]]
                                          /\ \A i \in 1..tail : home[lh[i]] = cache[lh[i]]
                    /\ At("c_end") => lh = <<>> /\ home = cache
  BY DEF RunState
<1>2. /\ At("c_wlog")' <=> At("c_wlog")
      /\ At("c_install")' <=> At("c_install")
      /\ At("c_end")' <=> At("c_end")
  BY DEF CommitPCs
<1>3. \A b \in Blocks : InLog(b, lh)' <=> InLog(b, lh)
  BY DEF InLog
<1>4. QED BY <1>1, <1>2, <1>3 DEF RunState

LEMMA CommitFrame ==
    ASSUME CommitExclusive, committing' = committing,
           committing => outstanding' = outstanding,
           \A u \in Threads : pc'[u] \in CommitPCs <=> pc[u] \in CommitPCs
    PROVE  CommitExclusive'
BY DEF CommitExclusive

(* A step of a running system that keeps the log and the header keeps     *)
(* them free of repeats and asks nothing of recovery.                      *)
LEMMA UpKeeps ==
    ASSUME Distinct(lh), Distinct(dhead), lh' = lh, dhead' = dhead,
           rpc = "up", rpc' = rpc
    PROVE  Distinct(lh)' /\ Distinct(dhead)' /\ RecoveryState'
<1>1. RecoveryState'
  BY DEF RecoveryState
<1>2. QED BY <1>1 DEF Distinct

(* A thread that is not idle runs on a machine that is up.                *)
LEMMA BusyMeansUp ==
    ASSUME RecoveryState, NEW t \in Threads, pc[t] # "idle"
    PROVE  rpc = "up"
BY DEF RecoveryState

(* While recovery is done nothing of RecoveryState is asked.               *)
LEMMA UpRecovery ==
    ASSUME rpc' = "up"
    PROVE  RecoveryState'
BY DEF RecoveryState

(* The thread that commits is alone: committing is set, no call is open,  *)
(* nothing is pending, and the commit phase is its own.                    *)
LEMMA Committer ==
    ASSUME IInv, NEW t \in Threads, pc[t] \in CommitPCs
    PROVE  /\ committing /\ outstanding = 0 /\ rpc = "up"
           /\ InOp = {} /\ Reserved = {}
           /\ \A u \in Threads : pc[u] \in CommitPCs => u = t
           /\ \A b \in Blocks : ~Pending(b)
           /\ \A ph \in CommitPCs : At(ph) <=> pc[t] = ph
<1>1. committing /\ outstanding = 0 /\ (\A u \in Threads : pc[u] \in CommitPCs => u = t)
  BY DEF IInv, CommitExclusive
<1>2. rpc = "up"
  BY BusyMeansUp DEF IInv, CommitPCs
<1>3. InOp = {} /\ Reserved = {}
  BY <1>1, NoOpenCall DEF IInv
<1>4. \A b \in Blocks : ~Pending(b)
  BY <1>3 DEF Pending, InOp, OpPCs
<1>5. \A ph \in CommitPCs : At(ph) <=> pc[t] = ph
  BY <1>1 DEF At
<1>6. QED BY <1>1, <1>2, <1>3, <1>4, <1>5

(* A thread inside a call holds a reservation, so no commit runs.          *)
LEMMA InCall ==
    ASSUME IInv, NEW t \in Threads, pc[t] \in OpPCs
    PROVE  /\ t \in InOp /\ outstanding >= 1 /\ ~committing /\ rpc = "up"
           /\ \A u \in Threads : pc[u] \notin CommitPCs
<1>1. t \in InOp
  BY DEF InOp
<1>2. outstanding \in Nat /\ ReservationHolds
  BY DEF IInv, TypeOK
<1>3. IsFiniteSet(InOp) /\ Cardinality(InOp) \in Nat /\ Cardinality(InOp) <= outstanding
  BY <1>2, ReservedBound DEF ReservationHolds
<1>4. outstanding >= 1
  <2>1. Cardinality(InOp) >= 1
    BY <1>1, <1>3, CardPositive
  <2>2. QED BY <1>2, <1>3, <2>1
<1>5. ~committing /\ \A u \in Threads : pc[u] \notin CommitPCs
  BY <1>4 DEF IInv, CommitExclusive
<1>6. rpc = "up"
  BY BusyMeansUp DEF IInv, OpPCs
<1>7. QED BY <1>1, <1>4, <1>5, <1>6

(* A step taken while no commit runs, and that starts none, keeps RunState *)
(* when every block it leaves changed in the cache is logged or pending.   *)
LEMMA QuietRunFrame ==
    ASSUME RunState, rpc = "up", ~Halted,
           \A u \in Threads : pc[u] \notin CommitPCs /\ pc'[u] \notin CommitPCs,
           rpc' = rpc, home' = home, dhead' = dhead,
           \A b \in Blocks : home[b] # cache'[b] => InLog(b, lh') \/ Pending(b)'
    PROVE  RunState'
<1>1. \A ph \in CommitPCs : ~At(ph) /\ ~At(ph)'
  BY DEF At
<1>2. dhead = <<>>
  BY <1>1 DEF RunState, CommitPCs
<1>3. QED BY <1>1, <1>2 DEF RunState, CommitPCs

-----------------------------------------------------------------------------
(* begin_op keeps IInv: sleeping changes only the thread's pc; admitting   *)
(* adds the thread to the open calls and MAXOPBLOCKS tokens, which the    *)
(* space test guarantees still fit.                                        *)
LEMMA BeginOpIInv ==
    ASSUME IInv, NEW t \in Threads, BeginOp(t)
    PROVE  IInv'
<1>0. /\ TypeOK /\ CallsBounded /\ ReservationHolds /\ CommitExclusive
      /\ Distinct(lh) /\ Distinct(dhead) /\ RecoveryState /\ RunState
  BY DEF IInv
<1>1. pc[t] \in {"idle", "woken"} /\ done[t] < Ops /\ rpc = "up" /\ ~Halted
  BY <1>0 DEF BeginOp, CallsBounded
<1>2. \A u \in Threads \ {t} : pc'[u] = pc[u]
  BY <1>0 DEF BeginOp, TypeOK
<1>3. pc[t] \notin OpPCs \cup CommitPCs \cup {"lw_check", "lw_add", "panic"}
  BY <1>1 DEF OpPCs, CommitPCs
<1>4. Distinct(lh)' /\ Distinct(dhead)' /\ RecoveryState'
  BY <1>0, <1>1, UpRecovery DEF BeginOp, Distinct
<1>5. CASE committing \/ Len(lh) + (outstanding + 1) * MAXOPBLOCKS > LOGSIZE
  <2>1. pc' = [pc EXCEPT ![t] = "asleep"] /\ outstanding' = outstanding /\ nw' = nw
    BY <1>5 DEF BeginOp
  <2>2. TypeOK'
    BY <1>0, <2>1 DEF BeginOp, TypeOK, PCs
  <2>3. CallsBounded'
    BY <1>0, <1>1, <2>1 DEF BeginOp, CallsBounded
  <2>4. InOp' = InOp /\ Reserved' = Reserved
    <3>1. \A u \in Threads : pc'[u] \in OpPCs <=> pc[u] \in OpPCs
      BY <1>0, <1>3, <2>1 DEF TypeOK, OpPCs
    <3>2. QED BY <3>1, <2>1, CallsFrame
  <2>5. ReservationHolds'
    BY <1>0, <2>1, <2>4 DEF BeginOp, ReservationHolds
  <2>6. \A u \in Threads : pc'[u] \in CommitPCs <=> pc[u] \in CommitPCs
    BY <1>0, <1>3, <2>1 DEF TypeOK, CommitPCs
  <2>7. CommitExclusive'
    BY <1>0, <2>1, <2>6, CommitFrame DEF BeginOp
  <2>8. RunState'
    <3>1. \A b \in Blocks : Pending(b) => Pending(b)'
      BY <1>0, <1>3, <2>1 DEF TypeOK, Pending, BeginOp
    <3>2. \A ph \in CommitPCs : At(ph)' <=> At(ph)
      BY <1>0, <1>3, <2>1 DEF TypeOK, At, CommitPCs
    <3>3. QED BY <1>0, <1>1, <3>1, <3>2, RunFrame DEF BeginOp
  <2>9. QED BY <1>0, <1>4, <2>2, <2>3, <2>5, <2>7, <2>8 DEF IInv
<1>6. CASE ~(committing \/ Len(lh) + (outstanding + 1) * MAXOPBLOCKS > LOGSIZE)
  <2>1. /\ pc' = [pc EXCEPT ![t] = "op"] /\ outstanding' = outstanding + 1
        /\ nw' = [nw EXCEPT ![t] = 0] /\ ~committing
        /\ Len(lh) + (outstanding + 1) * MAXOPBLOCKS <= LOGSIZE
    BY <1>0, <1>6 DEF BeginOp, TypeOK
  <2>2. TypeOK'
    BY <1>0, <2>1 DEF BeginOp, TypeOK, PCs
  <2>3. CallsBounded'
    BY <1>0, <1>1, <2>1 DEF BeginOp, CallsBounded
  <2>4. InOp' = InOp \cup {t} /\ t \notin InOp
    BY <1>0, <1>3, <2>1 DEF TypeOK, InOp, OpPCs
  <2>5. Reserved' = Reserved \cup ({t} \X (1..MAXOPBLOCKS))
    BY <1>0, <2>1, <2>4 DEF TypeOK, Reserved
  <2>6. ReservationHolds'
    <3>1. IsFiniteSet(InOp) /\ Cardinality(InOp) \in Nat
          /\ IsFiniteSet(Reserved) /\ Cardinality(Reserved) \in Nat
          /\ Cardinality(Reserved) <= outstanding * MAXOPBLOCKS
      BY <1>0, ReservedBound DEF TypeOK
    <3>2. Cardinality(InOp') = Cardinality(InOp) + 1
      BY <2>4, <3>1, FS_AddElement
    <3>3. IsFiniteSet({t} \X (1..MAXOPBLOCKS))
          /\ Cardinality({t} \X (1..MAXOPBLOCKS)) = MAXOPBLOCKS
      <4>1. IsFiniteSet({t}) /\ Cardinality({t}) = 1
        BY FS_Singleton
      <4>2. IsFiniteSet(1..MAXOPBLOCKS) /\ Cardinality(1..MAXOPBLOCKS) = MAXOPBLOCKS
        BY FS_Interval
      <4>3. IsFiniteSet({t} \X (1..MAXOPBLOCKS))
            /\ Cardinality({t} \X (1..MAXOPBLOCKS))
                 = Cardinality({t}) * Cardinality(1..MAXOPBLOCKS)
        BY <4>1, <4>2, FS_Product
      <4>4. QED BY <4>1, <4>2, <4>3
    <3>4. Cardinality(Reserved') <= Cardinality(Reserved) + MAXOPBLOCKS
      <4> DEFINE T == {t} \X (1..MAXOPBLOCKS)
      <4>1. IsFiniteSet(Reserved \cap T) /\ Cardinality(Reserved \cap T) \in Nat
        BY <3>1, FS_Intersection, FS_CardinalityType
      <4>2. Cardinality(Reserved \cup T)
              = Cardinality(Reserved) + Cardinality(T) - Cardinality(Reserved \cap T)
        BY <3>1, <3>3, FS_Union
      <4>3. QED BY <2>5, <3>1, <3>3, <4>1, <4>2
    <3>5. Len(lh') + Cardinality(Reserved') <= LOGSIZE
      <4>1. (outstanding + 1) * MAXOPBLOCKS = outstanding * MAXOPBLOCKS + MAXOPBLOCKS
        BY <1>0 DEF TypeOK
      <4>2. lh' = lh
        BY DEF BeginOp
      <4>3. Len(lh) \in Nat /\ outstanding \in Nat
        BY <1>0 DEF TypeOK
      <4>4. IsFiniteSet(Reserved') /\ Cardinality(Reserved') \in Nat
        <5>1. IsFiniteSet(Reserved \cup ({t} \X (1..MAXOPBLOCKS)))
          BY <3>1, <3>3, FS_Union
        <5>2. QED BY <2>5, <5>1, FS_CardinalityType
      <4>5. QED BY <2>1, <3>1, <3>4, <4>1, <4>2, <4>3, <4>4
    <3>6. Cardinality(InOp') <= outstanding'
      <4>1. outstanding \in Nat /\ Cardinality(InOp) <= outstanding
        BY <1>0 DEF TypeOK, ReservationHolds
      <4>2. QED BY <2>1, <3>1, <3>2, <4>1
    <3>7. \A u \in Threads : pc'[u] \in {"lw_check", "lw_add"} => nw'[u] < MAXOPBLOCKS
      BY <1>0, <2>1 DEF ReservationHolds, TypeOK
    <3>8. QED BY <3>5, <3>6, <3>7 DEF ReservationHolds
  <2>7. CommitExclusive'
    <3>1. \A u \in Threads : pc'[u] \notin CommitPCs
      BY <1>0, <1>3, <2>1 DEF TypeOK, CommitExclusive, CommitPCs
    <3>2. QED BY <3>1, <2>1 DEF BeginOp, CommitExclusive
  <2>8. RunState'
    <3>1. \A b \in Blocks : Pending(b) => Pending(b)'
      BY <1>0, <1>3, <2>1 DEF TypeOK, Pending, BeginOp
    <3>2. \A ph \in CommitPCs : At(ph)' <=> At(ph)
      BY <1>0, <1>3, <2>1 DEF TypeOK, At, CommitPCs
    <3>3. QED BY <1>0, <1>1, <3>1, <3>2, RunFrame DEF BeginOp
  <2>9. QED BY <1>0, <1>4, <2>2, <2>3, <2>6, <2>7, <2>8 DEF IInv
<1>7. QED BY <1>5, <1>6
-----------------------------------------------------------------------------
(* A write inside a call: the block becomes pending in the cache, and the  *)
(* thread's reservation is unchanged.                                      *)
LEMMA OpWriteIInv ==
    ASSUME IInv, NEW t \in Threads, OpWrite(t)
    PROVE  IInv'
<1>0. /\ TypeOK /\ CallsBounded /\ ReservationHolds /\ CommitExclusive
      /\ Distinct(lh) /\ Distinct(dhead) /\ RecoveryState /\ RunState
  BY DEF IInv
<1>1. PICK b \in Blocks, v \in Vals :
        cache' = [cache EXCEPT ![b] = v] /\ wb' = [wb EXCEPT ![t] = b]
  BY DEF OpWrite
<1>2. /\ pc[t] = "op" /\ nw[t] < MAXOPBLOCKS /\ ~Halted
      /\ pc' = [pc EXCEPT ![t] = "lw_check"]
      /\ UNCHANGED <<home, logdisk, dhead, lh, outstanding, committing, nw,
                     done, tail, rpc, crashes>>
  BY DEF OpWrite
<1>3. /\ outstanding >= 1 /\ ~committing /\ rpc = "up"
      /\ \A u \in Threads : pc[u] \notin CommitPCs
  BY <1>2, InCall DEF OpPCs
<1>4. TypeOK'
  BY <1>0, <1>1, <1>2 DEF TypeOK, PCs
<1>5. CallsBounded'
  BY <1>0, <1>2 DEF CallsBounded
<1>6. InOp' = InOp /\ Reserved' = Reserved
  <2>1. \A u \in Threads : pc'[u] \in OpPCs <=> pc[u] \in OpPCs
    BY <1>0, <1>2 DEF TypeOK, OpPCs
  <2>2. QED BY <1>2, <2>1, CallsFrame
<1>7. ReservationHolds'
  BY <1>0, <1>2, <1>6 DEF ReservationHolds, TypeOK
<1>8. \A u \in Threads : pc'[u] \notin CommitPCs
  BY <1>0, <1>2, <1>3 DEF TypeOK, CommitPCs
<1>9. CommitExclusive'
  BY <1>2, <1>3, <1>8 DEF CommitExclusive
<1>10. Distinct(lh)' /\ Distinct(dhead)' /\ RecoveryState'
  BY <1>0, <1>2, <1>3, UpRecovery DEF Distinct
<1>11. RunState'
  <2>1. \A c \in Blocks : home[c] # cache'[c] => InLog(c, lh') \/ Pending(c)'
    <3> SUFFICES ASSUME NEW c \in Blocks, home[c] # cache'[c]
                 PROVE  InLog(c, lh') \/ Pending(c)'
      OBVIOUS
    <3>1. CASE c = b
      BY <3>1, <1>0, <1>1, <1>2 DEF Pending, TypeOK
    <3>2. CASE c # b
      <4>1. home[c] # cache[c]
        BY <3>2, <1>0, <1>1 DEF TypeOK
      <4>2. InLog(c, lh) \/ Pending(c)
        BY <4>1, <1>0, <1>2, <1>3 DEF RunState
      <4>3. Pending(c) => Pending(c)'
        BY <1>0, <1>1, <1>2 DEF Pending, TypeOK
      <4>4. QED BY <4>2, <4>3, <1>2 DEF InLog
    <3>3. QED BY <3>1, <3>2
  <2>2. QED BY <1>0, <1>2, <1>3, <1>8, <2>1, QuietRunFrame
<1>12. QED BY <1>4, <1>5, <1>7, <1>9, <1>10, <1>11 DEF IInv

(* log_write's unlocked checks: a panic halts the machine and drops the    *)
(* thread from the open calls; otherwise only the pc moves on.             *)
LEMMA LogWriteCheckIInv ==
    ASSUME IInv, NEW t \in Threads, LogWriteCheck(t)
    PROVE  IInv'
<1>0. /\ TypeOK /\ CallsBounded /\ ReservationHolds /\ CommitExclusive
      /\ Distinct(lh) /\ Distinct(dhead) /\ RecoveryState /\ RunState
  BY DEF IInv
<1>1. /\ pc[t] = "lw_check" /\ ~Halted
      /\ UNCHANGED <<home, logdisk, dhead, lh, cache, outstanding, committing,
                     nw, wb, done, tail, rpc, crashes>>
  BY DEF LogWriteCheck
<1>2. /\ outstanding >= 1 /\ ~committing /\ rpc = "up"
      /\ \A u \in Threads : pc[u] \notin CommitPCs
  BY <1>1, InCall DEF OpPCs
<1>3. PICK x \in {"panic", "lw_add"} : pc' = [pc EXCEPT ![t] = x]
  BY DEF LogWriteCheck
<1>4. TypeOK'
  BY <1>0, <1>1, <1>3 DEF TypeOK, PCs
<1>5. CallsBounded'
  BY <1>0, <1>1, <1>3 DEF CallsBounded
<1>6. \A u \in Threads : pc'[u] \notin CommitPCs
  BY <1>0, <1>2, <1>3 DEF TypeOK, CommitPCs
<1>7. CommitExclusive'
  BY <1>1, <1>2, <1>6 DEF CommitExclusive
<1>8. Distinct(lh)' /\ Distinct(dhead)' /\ RecoveryState'
  BY <1>0, <1>1, <1>2, UpKeeps
<1>9. ReservationHolds'
  <2>1. InOp' \subseteq InOp /\ Reserved' \subseteq Reserved
    BY <1>0, <1>1, <1>3 DEF InOp, Reserved, OpPCs, TypeOK
  <2>2. /\ IsFiniteSet(InOp) /\ Cardinality(InOp) \in Nat
        /\ IsFiniteSet(Reserved) /\ Cardinality(Reserved) \in Nat
        /\ outstanding \in Nat /\ Len(lh) \in Nat
        /\ Cardinality(InOp) <= outstanding /\ Len(lh) + Cardinality(Reserved) <= LOGSIZE
    BY <1>0, ReservedBound DEF TypeOK, ReservationHolds
  <2>3. /\ IsFiniteSet(InOp') /\ Cardinality(InOp') \in Nat
        /\ IsFiniteSet(Reserved') /\ Cardinality(Reserved') \in Nat
        /\ Cardinality(InOp') <= Cardinality(InOp)
        /\ Cardinality(Reserved') <= Cardinality(Reserved)
    BY <2>1, <2>2, FS_Subset, FS_CardinalityType
  <2>4. \A u \in Threads : pc'[u] \in {"lw_check", "lw_add"} => nw'[u] < MAXOPBLOCKS
    BY <1>0, <1>1, <1>3 DEF ReservationHolds, TypeOK
  <2>5. Cardinality(InOp') <= outstanding' /\ Len(lh') + Cardinality(Reserved') <= LOGSIZE
    BY <1>1, <2>2, <2>3
  <2>6. QED BY <2>4, <2>5 DEF ReservationHolds
<1>10. RunState'
  <2>1. CASE x = "panic"
    BY <2>1, <1>0, <1>3 DEF RunState, Halted, TypeOK
  <2>2. CASE x = "lw_add"
    <3>1. \A b \in Blocks : Pending(b) => Pending(b)'
      BY <2>2, <1>0, <1>1, <1>3 DEF Pending, TypeOK
    <3>2. \A ph \in CommitPCs : At(ph)' <=> At(ph)
      BY <2>2, <1>0, <1>1, <1>3 DEF At, CommitPCs, TypeOK
    <3>3. QED BY <1>0, <1>1, <3>1, <3>2, RunFrame
  <2>3. QED BY <2>1, <2>2
<1>11. QED BY <1>4, <1>5, <1>7, <1>8, <1>9, <1>10 DEF IInv
-----------------------------------------------------------------------------
(* Appending a block to a log header: the new log holds what the old one  *)
(* did and the block, and stays without repeats if the block was absent.   *)
LEMMA AppendLog ==
    ASSUME NEW s \in Seq(Blocks), NEW x \in Blocks
    PROVE  /\ \A c \in Blocks : InLog(c, Append(s, x)) <=> InLog(c, s) \/ c = x
           /\ Distinct(s) /\ ~InLog(x, s) => Distinct(Append(s, x))
           /\ Len(Append(s, x)) = Len(s) + 1
<1>0. /\ Len(Append(s, x)) = Len(s) + 1 /\ Len(s) \in Nat
      /\ \A i \in 1..Len(s) : Append(s, x)[i] = s[i]
      /\ Append(s, x)[Len(s) + 1] = x
  BY AppendProperties, LenProperties
<1>1. \A c \in Blocks : InLog(c, Append(s, x)) <=> InLog(c, s) \/ c = x
  BY <1>0 DEF InLog
<1>2. Distinct(s) /\ ~InLog(x, s) => Distinct(Append(s, x))
  BY <1>0 DEF InLog, Distinct
<1>3. QED BY <1>0, <1>1, <1>2

(* log_write under log.lock: absorbing or appending the block spends one   *)
(* of the thread's reserved tokens, so the log stays within LOGSIZE.      *)
LEMMA LogWriteAddIInv ==
    ASSUME IInv, NEW t \in Threads, LogWriteAdd(t)
    PROVE  IInv'
<1>0. /\ TypeOK /\ CallsBounded /\ ReservationHolds /\ CommitExclusive
      /\ Distinct(lh) /\ Distinct(dhead) /\ RecoveryState /\ RunState
  BY DEF IInv
<1>1. /\ pc[t] = "lw_add" /\ ~Halted
      /\ lh' = IF InLog(wb[t], lh) THEN lh ELSE Append(lh, wb[t])
      /\ nw' = [nw EXCEPT ![t] = nw[t] + 1]
      /\ pc' = [pc EXCEPT ![t] = "op"]
      /\ UNCHANGED <<home, logdisk, dhead, cache, outstanding, committing, wb,
                     done, tail, rpc, crashes>>
  BY DEF LogWriteAdd
<1>2. /\ outstanding >= 1 /\ ~committing /\ rpc = "up"
      /\ \A u \in Threads : pc[u] \notin CommitPCs
  BY <1>1, InCall DEF OpPCs
<1>3. nw[t] < MAXOPBLOCKS /\ nw[t] \in Nat /\ wb[t] \in Blocks /\ lh \in Seq(Blocks)
  BY <1>0, <1>1 DEF ReservationHolds, TypeOK
<1>4. /\ \A c \in Blocks : InLog(c, lh') <=> InLog(c, lh) \/ c = wb[t]
      /\ Distinct(lh')
      /\ lh' \in Seq(Blocks)
      /\ Len(lh') <= Len(lh) + 1
  <2>1. CASE InLog(wb[t], lh)
    BY <2>1, <1>0, <1>1, <1>3
  <2>2. CASE ~InLog(wb[t], lh)
    BY <2>2, <1>0, <1>1, <1>3, AppendLog
  <2>3. QED BY <2>1, <2>2
<1>5. InOp' = InOp
  BY <1>0, <1>1 DEF InOp, OpPCs, TypeOK
<1>6. Reserved' = Reserved \ {<<t, nw[t] + 1>>} /\ <<t, nw[t] + 1>> \in Reserved
  BY <1>0, <1>1, <1>3, <1>5 DEF Reserved, InOp, OpPCs, TypeOK
<1>7. ReservationHolds'
  <2>1. IsFiniteSet(Reserved) /\ Cardinality(Reserved) \in Nat /\ outstanding \in Nat
        /\ Cardinality(InOp) <= outstanding /\ Len(lh) + Cardinality(Reserved) <= LOGSIZE
    BY <1>0, ReservedBound DEF TypeOK, ReservationHolds
  <2>2. Cardinality(Reserved') = Cardinality(Reserved) - 1
    BY <1>6, <2>1, FS_RemoveElement
  <2>3. Len(lh') + Cardinality(Reserved') <= LOGSIZE
    BY <1>3, <1>4, <2>1, <2>2
  <2>4. \A u \in Threads : pc'[u] \in {"lw_check", "lw_add"} => nw'[u] < MAXOPBLOCKS
    BY <1>0, <1>1 DEF ReservationHolds, TypeOK
  <2>5. QED BY <1>1, <1>5, <2>1, <2>3, <2>4 DEF ReservationHolds
<1>8. TypeOK'
  <2>1. Len(lh') <= LOGSIZE
    <3>1. IsFiniteSet(Reserved) /\ Cardinality(Reserved) \in Nat
          /\ Len(lh) + Cardinality(Reserved) <= LOGSIZE
      BY <1>0, ReservedBound DEF TypeOK, ReservationHolds
    <3>2. Cardinality(Reserved) >= 1
      BY <1>6, <3>1, CardPositive
    <3>3. QED BY <1>3, <1>4, <3>1, <3>2
  <2>2. nw' \in [Threads -> 0..MAXOPBLOCKS] /\ pc' \in [Threads -> PCs]
    BY <1>0, <1>1, <1>3 DEF TypeOK, PCs
  <2>3. QED BY <1>0, <1>1, <1>4, <2>1, <2>2 DEF TypeOK
<1>9. CallsBounded'
  BY <1>0, <1>1 DEF CallsBounded
<1>10. \A u \in Threads : pc'[u] \notin CommitPCs
  BY <1>0, <1>1, <1>2 DEF TypeOK, CommitPCs
<1>11. CommitExclusive'
  BY <1>1, <1>2, <1>10 DEF CommitExclusive
<1>12. Distinct(dhead)' /\ RecoveryState'
  BY <1>0, <1>1, <1>2, UpRecovery DEF Distinct
<1>13. RunState'
  <2>1. \A c \in Blocks : home[c] # cache'[c] => InLog(c, lh') \/ Pending(c)'
    <3> SUFFICES ASSUME NEW c \in Blocks, home[c] # cache[c]
                 PROVE  InLog(c, lh') \/ Pending(c)'
      BY <1>1
    <3>1. InLog(c, lh) \/ Pending(c)
      BY <1>0, <1>1, <1>2 DEF RunState
    <3>2. CASE c = wb[t]
      BY <3>2, <1>4
    <3>3. CASE c # wb[t] /\ Pending(c)
      BY <3>3, <1>0, <1>1 DEF Pending, TypeOK
    <3>4. QED BY <3>1, <3>2, <3>3, <1>4
  <2>2. QED BY <1>0, <1>1, <1>2, <1>10, <2>1, QuietRunFrame
<1>14. QED BY <1>4, <1>7, <1>8, <1>9, <1>11, <1>12, <1>13 DEF IInv
-----------------------------------------------------------------------------
(* wakeup(&log) only turns sleepers into runnable threads.                *)
LEMMA WakeupKeeps ==
    ASSUME pc \in [Threads -> PCs]
    PROVE  /\ Wakeup(pc) \in [Threads -> PCs]
           /\ \A u \in Threads : \/ Wakeup(pc)[u] = pc[u]
                                 \/ pc[u] = "asleep" /\ Wakeup(pc)[u] = "woken"
BY DEF Wakeup, PCs

(* end_op: the thread leaves the open calls and gives back what its       *)
(* reservation had left; the last one out starts the commit with no call  *)
(* open, any other wakes the sleepers.  The committing panic is           *)
(* unreachable, since the thread's own reservation excludes a commit.     *)
LEMMA EndOpIInv ==
    ASSUME IInv, NEW t \in Threads, EndOp(t)
    PROVE  IInv'
<1>0. /\ TypeOK /\ CallsBounded /\ ReservationHolds /\ CommitExclusive
      /\ Distinct(lh) /\ Distinct(dhead) /\ RecoveryState /\ RunState
  BY DEF IInv
<1>1. /\ pc[t] = "op" /\ ~Halted /\ outstanding' = outstanding - 1
      /\ UNCHANGED <<home, logdisk, dhead, lh, cache, nw, wb, rpc, crashes>>
  BY DEF EndOp
<1>2. /\ outstanding >= 1 /\ ~committing /\ rpc = "up" /\ t \in InOp
      /\ \A u \in Threads : pc[u] \notin CommitPCs
  BY <1>1, InCall DEF OpPCs
<1>3. \/ /\ outstanding = 1 /\ committing' = TRUE /\ tail' = 0
         /\ pc' = [pc EXCEPT ![t] = "c_wlog"] /\ done' = done
      \/ /\ outstanding # 1 /\ committing' = committing /\ tail' = tail
         /\ pc' = [Wakeup(pc) EXCEPT ![t] = "idle"]
         /\ done' = [done EXCEPT ![t] = done[t] + 1]
  BY <1>2 DEF EndOp
<1>4. /\ Wakeup(pc) \in [Threads -> PCs]
      /\ \A u \in Threads : \/ Wakeup(pc)[u] = pc[u]
                            \/ pc[u] = "asleep" /\ Wakeup(pc)[u] = "woken"
  BY <1>0, WakeupKeeps DEF TypeOK
<1>5. /\ pc' \in [Threads -> PCs]
      /\ pc'[t] \in {"c_wlog", "idle"}
      /\ \A u \in Threads \ {t} : \/ pc'[u] = pc[u]
                                  \/ pc[u] = "asleep" /\ pc'[u] = "woken"
  BY <1>0, <1>3, <1>4 DEF TypeOK, PCs
<1>6. /\ InOp' = InOp \ {t}
      /\ Reserved' \subseteq Reserved
      /\ \A b \in Blocks : Pending(b) => Pending(b)'
  BY <1>1, <1>5 DEF InOp, OpPCs, Reserved, Pending
<1>7. /\ IsFiniteSet(InOp) /\ Cardinality(InOp) \in Nat /\ outstanding \in Nat
      /\ IsFiniteSet(Reserved) /\ Cardinality(Reserved) \in Nat
      /\ Cardinality(InOp) <= outstanding /\ Len(lh) + Cardinality(Reserved) <= LOGSIZE
  BY <1>0, ReservedBound DEF TypeOK, ReservationHolds
<1>8. ReservationHolds'
  <2>1. Cardinality(InOp') = Cardinality(InOp) - 1
    BY <1>2, <1>6, <1>7, FS_RemoveElement
  <2>2. Cardinality(Reserved') <= Cardinality(Reserved)
    BY <1>6, <1>7, FS_Subset
  <2>3. IsFiniteSet(Reserved') /\ Cardinality(Reserved') \in Nat
    BY <1>6, <1>7, FS_Subset, FS_CardinalityType
  <2>4. \A u \in Threads : pc'[u] \in {"lw_check", "lw_add"} => nw'[u] < MAXOPBLOCKS
    BY <1>0, <1>1, <1>5 DEF ReservationHolds
  <2>5. QED BY <1>1, <1>7, <2>1, <2>2, <2>3, <2>4 DEF ReservationHolds
<1>9. CASE outstanding = 1
  <2>1. /\ committing' = TRUE /\ tail' = 0 /\ done' = done
        /\ pc' = [pc EXCEPT ![t] = "c_wlog"]
    BY <1>3, <1>9
  <2>2. TypeOK'
    BY <1>0, <1>1, <1>5, <1>9, <2>1 DEF TypeOK
  <2>3. CallsBounded'
    BY <1>0, <1>1, <2>1 DEF CallsBounded
  <2>4. \A u \in Threads : pc'[u] \in CommitPCs <=> u = t
    BY <1>0, <1>2, <2>1 DEF TypeOK, CommitPCs
  <2>5. CommitExclusive'
    BY <1>1, <1>9, <2>1, <2>4 DEF CommitExclusive
  <2>6. /\ At("c_wlog")' /\ ~At("c_install")' /\ ~At("c_end")' /\ ~At("c_install")
    BY <1>2, <2>1, <2>4 DEF At, CommitPCs
  <2>7. RunState'
    <3>1. dhead = <<>>
      BY <1>0, <1>1, <1>2, <2>6 DEF RunState
    <3>2. \A c \in Blocks : home[c] # cache[c] => InLog(c, lh) \/ Pending(c)
      BY <1>0, <1>1, <1>2 DEF RunState
    <3>3. QED BY <1>0, <1>1, <1>2, <1>6, <2>1, <2>6, <3>1, <3>2 DEF RunState, InLog, TypeOK
  <2>8. QED BY <1>0, <1>1, <1>2, <1>8, <2>2, <2>3, <2>5, <2>7, UpRecovery
            DEF IInv, Distinct
<1>10. CASE outstanding # 1
  <2>1. /\ committing' = committing /\ tail' = tail
        /\ pc' = [Wakeup(pc) EXCEPT ![t] = "idle"]
        /\ done' = [done EXCEPT ![t] = done[t] + 1]
    BY <1>3, <1>10
  <2>2. TypeOK'
    <3>1. done[t] < Ops /\ done \in [Threads -> 0..Ops]
      BY <1>0, <1>1 DEF CallsBounded, TypeOK
    <3>2. done' \in [Threads -> 0..Ops]
      BY <2>1, <3>1
    <3>3. QED BY <1>0, <1>1, <1>5, <1>10, <1>2, <2>1, <3>2 DEF TypeOK
  <2>3. CallsBounded'
    BY <1>0, <1>5, <2>1 DEF CallsBounded
  <2>4. \A u \in Threads : pc'[u] \notin CommitPCs
    <3>1. pc'[t] = "idle"
      BY <1>4, <2>1
    <3>2. QED BY <1>2, <1>5, <3>1 DEF CommitPCs
  <2>5. CommitExclusive'
    BY <1>2, <2>1, <2>4 DEF CommitExclusive
  <2>6. RunState'
    <3>1. \A ph \in CommitPCs : At(ph)' <=> At(ph)
      BY <1>2, <2>4 DEF At
    <3>2. QED BY <1>0, <1>1, <1>6, <2>1, <3>1, RunFrame
  <2>7. QED BY <1>0, <1>1, <1>2, <1>8, <2>2, <2>3, <2>5, <2>6, UpRecovery
            DEF IInv, Distinct
<1>11. QED BY <1>9, <1>10
-----------------------------------------------------------------------------
(* write_log: one more log block holds the cached data of its block.       *)
LEMMA CommitWriteLogIInv ==
    ASSUME IInv, NEW t \in Threads, CommitWriteLog(t)
    PROVE  IInv'
<1>0. /\ TypeOK /\ CallsBounded /\ ReservationHolds /\ CommitExclusive
      /\ Distinct(lh) /\ Distinct(dhead) /\ RecoveryState /\ RunState
  BY DEF IInv
<1>1. /\ pc[t] = "c_wlog" /\ ~Halted /\ tail < Len(lh) /\ tail' = tail + 1
      /\ logdisk' = [logdisk EXCEPT ![tail + 1] = cache[lh[tail + 1]]]
      /\ UNCHANGED <<home, dhead, lh, cache, outstanding, committing, pc, nw,
                     wb, done, rpc, crashes>>
  BY DEF CommitWriteLog
<1>2. /\ rpc = "up"
      /\ \A ph \in CommitPCs : At(ph) <=> pc[t] = ph
  BY <1>1, Committer DEF CommitPCs
<1>3. /\ tail \in Nat /\ tail + 1 \in LogSlots /\ lh[tail + 1] \in Blocks
      /\ cache[lh[tail + 1]] \in Vals
  BY <1>0, <1>1 DEF TypeOK, LogSlots
<1>4. TypeOK'
  BY <1>0, <1>1, <1>3 DEF TypeOK
<1>5. CallsBounded' /\ ReservationHolds' /\ CommitExclusive'
      /\ Distinct(lh)' /\ Distinct(dhead)'
  BY <1>0, <1>1 DEF CallsBounded, ReservationHolds, CommitExclusive,
                    Distinct, InOp, Reserved
<1>6. RunState'
  <2>1. \A i \in 1..tail : logdisk[i] = cache[lh[i]]
    BY <1>0, <1>1, <1>2 DEF RunState, CommitPCs
  <2>2. \A i \in 1..tail + 1 : logdisk'[i] = cache[lh[i]]
    BY <1>0, <1>1, <1>3, <2>1 DEF TypeOK, LogSlots
  <2>3. /\ At("c_wlog") /\ ~At("c_install") /\ ~At("c_end")
        /\ At("c_wlog")' /\ ~At("c_install")' /\ ~At("c_end")'
    BY <1>1, <1>2 DEF At, CommitPCs
  <2>4. dhead = <<>>
    BY <1>0, <1>1, <1>2, <2>3 DEF RunState
  <2>5. \A c \in Blocks : home[c] # cache[c] => InLog(c, lh) \/ Pending(c)
    BY <1>0, <1>1, <1>2 DEF RunState
  <2>6. \A c \in Blocks : Pending(c)' <=> Pending(c)
    BY <1>1 DEF Pending
  <2>7. tail' <= Len(lh') /\ \A i \in 1..tail' : logdisk'[i] = cache'[lh'[i]]
    BY <1>0, <1>1, <2>2 DEF TypeOK
  <2>8. \A c \in Blocks : home'[c] # cache'[c] => InLog(c, lh') \/ Pending(c)'
    BY <1>1, <2>5, <2>6 DEF InLog
  <2>9. dhead' = <<>>
    BY <1>1, <2>4
  <2>10. QED BY <2>3, <2>7, <2>8, <2>9 DEF RunState
<1>7. QED BY <1>0, <1>1, <1>2, <1>4, <1>5, <1>6, UpKeeps DEF IInv

(* write_head, the commit point: the on-disk header names the log, whose   *)
(* blocks all hold the cached data; an empty log skips to the end.         *)
LEMMA CommitWriteHeadIInv ==
    ASSUME IInv, NEW t \in Threads, CommitWriteHead(t)
    PROVE  IInv'
<1>0. /\ TypeOK /\ CallsBounded /\ ReservationHolds /\ CommitExclusive
      /\ Distinct(lh) /\ Distinct(dhead) /\ RecoveryState /\ RunState
  BY DEF IInv
<1>1. /\ pc[t] = "c_wlog" /\ ~Halted /\ tail = Len(lh) /\ dhead' = lh /\ tail' = 0
      /\ pc' = [pc EXCEPT ![t] = IF Len(lh) > 0 THEN "c_install" ELSE "c_end"]
      /\ UNCHANGED <<home, logdisk, lh, cache, outstanding, committing, nw, wb,
                     done, rpc, crashes>>
  BY DEF CommitWriteHead
<1>2. /\ rpc = "up" /\ committing /\ InOp = {}
      /\ \A u \in Threads : pc[u] \in CommitPCs => u = t
      /\ \A b \in Blocks : ~Pending(b)
  BY <1>1, Committer DEF CommitPCs
<1>3. TypeOK'
  BY <1>0, <1>1 DEF TypeOK, PCs
<1>4. \A u \in Threads : pc'[u] \in CommitPCs <=> pc[u] \in CommitPCs
  BY <1>0, <1>1 DEF TypeOK, CommitPCs
<1>5. CommitExclusive'
  BY <1>0, <1>1, <1>4, CommitFrame
<1>6. CallsBounded' /\ ReservationHolds' /\ Distinct(lh)' /\ Distinct(dhead)'
  <2>1. \A u \in Threads : pc'[u] \in OpPCs <=> pc[u] \in OpPCs
    BY <1>0, <1>1 DEF TypeOK, OpPCs
  <2>2. InOp' = InOp /\ Reserved' = Reserved
    BY <1>1, <2>1, CallsFrame
  <2>3. QED BY <1>0, <1>1, <2>2 DEF CallsBounded, ReservationHolds, Distinct, TypeOK
<1>7. RunState'
  <2>1. \A i \in 1..Len(lh) : logdisk[i] = cache[lh[i]]
    BY <1>0, <1>1, <1>2 DEF RunState, At
  <2>2. \A c \in Blocks : home[c] # cache[c] => InLog(c, lh)
    BY <1>0, <1>1, <1>2 DEF RunState
  <2>3. \A c \in Blocks : ~Pending(c)'
    BY <1>0, <1>1, <1>2 DEF Pending, TypeOK
  <2>4. ~At("c_wlog")'
    BY <1>0, <1>1, <1>2 DEF At, TypeOK, CommitPCs
  <2>5. CASE Len(lh) > 0
    <3>1. At("c_install")' /\ ~At("c_end")'
      BY <2>5, <1>0, <1>1, <1>2 DEF At, TypeOK, CommitPCs
    <3>2. QED BY <1>1, <2>1, <2>2, <2>4, <3>1 DEF RunState, InLog
  <2>6. CASE ~(Len(lh) > 0)
    <3>1. ~At("c_install")' /\ At("c_end")'
      BY <2>6, <1>0, <1>1, <1>2 DEF At, TypeOK, CommitPCs
    <3>2. lh = <<>>
      BY <2>6, <1>0 DEF TypeOK
    <3>3. home = cache
      BY <2>2, <3>2, <1>0 DEF InLog, TypeOK
    <3>4. QED BY <1>1, <2>4, <3>1, <3>2, <3>3 DEF RunState
  <2>7. QED BY <2>5, <2>6
<1>8. QED BY <1>1, <1>2, <1>3, <1>5, <1>6, <1>7, UpRecovery DEF IInv
-----------------------------------------------------------------------------
(* install_trans of commit: the log block already holds the cached data,   *)
(* so the cache keeps its contents and one more home block matches it.     *)
LEMMA CommitInstallIInv ==
    ASSUME IInv, NEW t \in Threads, CommitInstall(t)
    PROVE  IInv'
<1>0. /\ TypeOK /\ CallsBounded /\ ReservationHolds /\ CommitExclusive
      /\ Distinct(lh) /\ Distinct(dhead) /\ RecoveryState /\ RunState
  BY DEF IInv
<1>1. /\ pc[t] = "c_install" /\ ~Halted /\ tail < Len(lh) /\ tail' = tail + 1
      /\ home' = [home EXCEPT ![lh[tail + 1]] = logdisk[tail + 1]]
      /\ cache' = [cache EXCEPT ![lh[tail + 1]] = logdisk[tail + 1]]
      /\ UNCHANGED <<logdisk, dhead, lh, outstanding, committing, pc, nw, wb,
                     done, rpc, crashes>>
  BY DEF CommitInstall, InstallBlock
<1>2. /\ rpc = "up"
      /\ \A ph \in CommitPCs : At(ph) <=> pc[t] = ph
      /\ \A b \in Blocks : ~Pending(b)
  BY <1>1, Committer DEF CommitPCs
<1>3. /\ dhead = lh /\ tail <= Len(lh)
      /\ \A i \in 1..Len(lh) : logdisk[i] = cache[lh[i]]
      /\ \A i \in 1..tail : home[lh[i]] = cache[lh[i]]
      /\ \A c \in Blocks : home[c] # cache[c] => InLog(c, lh) \/ Pending(c)
  BY <1>0, <1>1, <1>2 DEF RunState, CommitPCs
<1>4. /\ tail \in Nat /\ lh[tail + 1] \in Blocks /\ tail + 1 \in 1..Len(lh)
      /\ logdisk[tail + 1] \in Vals
  BY <1>0, <1>1 DEF TypeOK, LogSlots
<1>5. cache' = cache
  BY <1>0, <1>1, <1>3, <1>4 DEF TypeOK
<1>6. home' = [home EXCEPT ![lh[tail + 1]] = cache[lh[tail + 1]]]
  BY <1>1, <1>3, <1>4
<1>7. TypeOK'
  BY <1>0, <1>1, <1>4, <1>5 DEF TypeOK
<1>8. CallsBounded' /\ ReservationHolds' /\ CommitExclusive'
      /\ Distinct(lh)' /\ Distinct(dhead)'
  BY <1>0, <1>1 DEF CallsBounded, ReservationHolds, CommitExclusive,
                    Distinct, InOp, Reserved
<1>9. RunState'
  <2>1. \A c \in Blocks : home'[c] # cache'[c] => InLog(c, lh) \/ Pending(c)
    BY <1>0, <1>3, <1>4, <1>5, <1>6 DEF TypeOK
  <2>2. \A i \in 1..tail + 1 : home'[lh[i]] = cache'[lh[i]]
    BY <1>0, <1>3, <1>4, <1>5, <1>6 DEF TypeOK
  <2>3. /\ At("c_install")' /\ ~At("c_wlog")' /\ ~At("c_end")'
    BY <1>1, <1>2 DEF At, CommitPCs
  <2>4. \A c \in Blocks : Pending(c)' <=> Pending(c)
    BY <1>1 DEF Pending
  <2>5. \A c \in Blocks : home'[c] # cache'[c] => InLog(c, lh') \/ Pending(c)'
    BY <1>1, <2>1, <2>4 DEF InLog
  <2>6. /\ dhead' = lh' /\ tail' <= Len(lh')
        /\ \A i \in 1..Len(lh') : logdisk'[i] = cache'[lh'[i]]
        /\ \A i \in 1..tail' : home'[lh'[i]] = cache'[lh'[i]]
    BY <1>0, <1>1, <1>3, <1>4, <1>5, <2>2 DEF TypeOK
  <2>7. QED BY <2>3, <2>5, <2>6 DEF RunState
<1>10. QED BY <1>0, <1>1, <1>2, <1>7, <1>8, <1>9, UpKeeps DEF IInv

(* The end of commit(): with every logged block installed, home equals    *)
(* the cache, and the log and the on-disk header are emptied.              *)
LEMMA CommitClearIInv ==
    ASSUME IInv, NEW t \in Threads, CommitClear(t)
    PROVE  IInv'
<1>0. /\ TypeOK /\ CallsBounded /\ ReservationHolds /\ CommitExclusive
      /\ Distinct(lh) /\ Distinct(dhead) /\ RecoveryState /\ RunState
  BY DEF IInv
<1>1. /\ pc[t] = "c_install" /\ ~Halted /\ tail = Len(lh)
      /\ lh' = <<>> /\ dhead' = <<>> /\ pc' = [pc EXCEPT ![t] = "c_end"]
      /\ UNCHANGED <<home, logdisk, cache, outstanding, committing, nw, wb,
                     done, tail, rpc, crashes>>
  BY DEF CommitClear
<1>2. /\ rpc = "up" /\ InOp = {} /\ Reserved = {}
      /\ \A u \in Threads : pc[u] \in CommitPCs => u = t
      /\ \A b \in Blocks : ~Pending(b)
  BY <1>1, Committer DEF CommitPCs
<1>3. /\ \A i \in 1..tail : home[lh[i]] = cache[lh[i]]
      /\ \A c \in Blocks : home[c] # cache[c] => InLog(c, lh) \/ Pending(c)
  BY <1>0, <1>1, <1>2 DEF RunState, At
<1>4. home = cache
  BY <1>0, <1>1, <1>2, <1>3 DEF InLog, TypeOK
<1>5. TypeOK'
  BY <1>0, <1>1 DEF TypeOK, PCs
<1>6. \A u \in Threads : pc'[u] \in CommitPCs <=> pc[u] \in CommitPCs
  BY <1>0, <1>1 DEF TypeOK, CommitPCs
<1>7. CommitExclusive'
  BY <1>0, <1>1, <1>6, CommitFrame
<1>8. InOp' = {} /\ Reserved' = {}
  BY <1>0, <1>1, <1>2 DEF InOp, Reserved, OpPCs, TypeOK
<1>9. ReservationHolds'
  <2>1. Cardinality(InOp') = 0 /\ Cardinality(Reserved') = 0
    BY <1>8, FS_EmptySet
  <2>2. Len(lh') = 0 /\ outstanding' \in Nat
    BY <1>0, <1>1 DEF TypeOK
  <2>3. \A u \in Threads : pc'[u] \notin {"lw_check", "lw_add"}
    BY <1>8 DEF InOp, OpPCs
  <2>4. QED BY <2>1, <2>2, <2>3 DEF ReservationHolds
<1>10. CallsBounded' /\ Distinct(lh)' /\ Distinct(dhead)'
  BY <1>0, <1>1 DEF CallsBounded, Distinct
<1>11. RunState'
  <2>1. /\ At("c_end")' /\ ~At("c_wlog")' /\ ~At("c_install")'
    BY <1>0, <1>1, <1>2 DEF At, TypeOK, CommitPCs
  <2>2. QED BY <1>1, <1>4, <2>1 DEF RunState
<1>12. RecoveryState'
  BY <1>1, <1>2, UpRecovery
<1>13. QED BY <1>5, <1>7, <1>9, <1>10, <1>11, <1>12 DEF IInv

(* commit() returns to end_op: committing is cleared, the sleepers woken, *)
(* and the call is counted.                                                *)
LEMMA CommitEndIInv ==
    ASSUME IInv, NEW t \in Threads, CommitEnd(t)
    PROVE  IInv'
<1>0. /\ TypeOK /\ CallsBounded /\ ReservationHolds /\ CommitExclusive
      /\ Distinct(lh) /\ Distinct(dhead) /\ RecoveryState /\ RunState
  BY DEF IInv
<1>1. /\ pc[t] = "c_end" /\ ~Halted /\ committing' = FALSE
      /\ pc' = [Wakeup(pc) EXCEPT ![t] = "idle"]
      /\ done' = [done EXCEPT ![t] = done[t] + 1]
      /\ UNCHANGED <<home, logdisk, dhead, lh, cache, outstanding, nw, wb,
                     tail, rpc, crashes>>
  BY DEF CommitEnd
<1>2. /\ rpc = "up" /\ InOp = {} /\ Reserved = {} /\ outstanding = 0
      /\ \A u \in Threads : pc[u] \in CommitPCs => u = t
      /\ \A ph \in CommitPCs : At(ph) <=> pc[t] = ph
  BY <1>1, Committer DEF CommitPCs
<1>3. /\ Wakeup(pc) \in [Threads -> PCs]
      /\ \A u \in Threads : \/ Wakeup(pc)[u] = pc[u]
                            \/ pc[u] = "asleep" /\ Wakeup(pc)[u] = "woken"
  BY <1>0, WakeupKeeps DEF TypeOK
<1>4. /\ pc' \in [Threads -> PCs] /\ pc'[t] = "idle"
      /\ \A u \in Threads \ {t} : \/ pc'[u] = pc[u]
                                  \/ pc[u] = "asleep" /\ pc'[u] = "woken"
  BY <1>0, <1>1, <1>3 DEF TypeOK, PCs
<1>5. TypeOK'
  <2>1. done[t] < Ops /\ done \in [Threads -> 0..Ops]
    BY <1>0, <1>1 DEF CallsBounded, TypeOK
  <2>2. done' \in [Threads -> 0..Ops]
    BY <1>1, <2>1
  <2>3. QED BY <1>0, <1>1, <1>4, <2>2 DEF TypeOK
<1>6. CallsBounded'
  BY <1>0, <1>1, <1>4 DEF CallsBounded
<1>7. \A u \in Threads : pc'[u] \notin CommitPCs
  BY <1>2, <1>4 DEF CommitPCs
<1>8. CommitExclusive'
  BY <1>1, <1>7 DEF CommitExclusive
<1>9. InOp' = {} /\ Reserved' = {}
  BY <1>2, <1>4 DEF InOp, Reserved, OpPCs
<1>10. ReservationHolds'
  <2>1. \A u \in Threads : pc'[u] \notin {"lw_check", "lw_add"}
    BY <1>2, <1>4 DEF InOp, OpPCs
  <2>2. QED BY <1>0, <1>1, <1>2, <1>9, <2>1, FS_EmptySet DEF ReservationHolds, TypeOK
<1>11. RunState'
  <2>1. home = cache /\ dhead = <<>>
    BY <1>0, <1>1, <1>2 DEF RunState, CommitPCs
  <2>2. \A ph \in CommitPCs : ~At(ph)'
    BY <1>7 DEF At
  <2>3. QED BY <1>1, <2>1, <2>2 DEF RunState, CommitPCs
<1>12. Distinct(lh)' /\ Distinct(dhead)' /\ RecoveryState'
  BY <1>0, <1>1, <1>2, UpKeeps
<1>13. QED BY <1>5, <1>6, <1>8, <1>10, <1>11, <1>12 DEF IInv
-----------------------------------------------------------------------------
(* While recovery runs every thread is idle, so nobody is in a call or     *)
(* commits.                                                                *)
LEMMA Recovering ==
    ASSUME IInv, rpc # "up"
    PROVE  /\ InOp = {} /\ Reserved = {} /\ ~committing /\ ~Halted
           /\ cache = home /\ outstanding = 0
           /\ \A t \in Threads : pc[t] = "idle"
<1>1. /\ cache = home /\ outstanding = 0 /\ \A t \in Threads : pc[t] = "idle"
  BY DEF IInv, RecoveryState
<1>2. InOp = {} /\ Reserved = {}
  BY <1>1 DEF InOp, Reserved, OpPCs
<1>3. ~committing
  BY <1>1 DEF IInv, CommitExclusive, CommitPCs
<1>4. QED BY <1>1, <1>2, <1>3 DEF Halted

(* A recovery step that leaves the threads alone and a log within LOGSIZE *)
(* keeps ReservationHolds: nobody holds a reservation.                     *)
LEMMA RecoveryReservation ==
    ASSUME InOp = {}, pc' = pc, nw' = nw, outstanding' = outstanding,
           outstanding \in Nat, Len(lh') <= LOGSIZE
    PROVE  ReservationHolds'
<1>1. InOp' = {} /\ Reserved' = {}
  BY DEF InOp, Reserved
<1>2. Cardinality(InOp') = 0 /\ Cardinality(Reserved') = 0
  BY <1>1, FS_EmptySet
<1>3. \A u \in Threads : pc'[u] \notin {"lw_check", "lw_add"}
  BY <1>1 DEF InOp, OpPCs
<1>4. QED BY <1>2, <1>3 DEF ReservationHolds

(* read_head: recovery takes the on-disk header as its log.                *)
LEMMA RecoverReadIInv ==
    ASSUME IInv, RecoverRead
    PROVE  IInv'
<1>1. /\ rpc = "read" /\ lh' = dhead /\ tail' = 0 /\ rpc' = "install"
      /\ UNCHANGED <<home, logdisk, dhead, cache, outstanding, committing, pc,
                     nw, wb, done, crashes>>
  BY DEF RecoverRead
<1>2. InOp = {} /\ Reserved = {} /\ ~committing /\ cache = home /\ outstanding = 0
      /\ \A t \in Threads : pc[t] = "idle"
  BY <1>1, Recovering
<1>3. TypeOK'
  BY <1>1 DEF IInv, TypeOK
<1>4. ReservationHolds'
  BY <1>1, <1>2, <1>3, RecoveryReservation DEF TypeOK
<1>5. CallsBounded' /\ CommitExclusive' /\ Distinct(lh)' /\ Distinct(dhead)'
  BY <1>1, <1>2 DEF IInv, CallsBounded, CommitExclusive, Distinct, CommitPCs
<1>6. RecoveryState' /\ RunState'
  BY <1>1, <1>2 DEF RecoveryState, RunState
<1>7. QED BY <1>3, <1>4, <1>5, <1>6 DEF IInv

(* install_trans of recovery: the log holds no block twice, so one more   *)
(* home block holds its log block and the earlier ones keep theirs.        *)
LEMMA RecoverInstallIInv ==
    ASSUME IInv, RecoverInstall
    PROVE  IInv'
<1>0. /\ TypeOK /\ CallsBounded /\ ReservationHolds /\ CommitExclusive
      /\ Distinct(lh) /\ Distinct(dhead) /\ RecoveryState /\ RunState
  BY DEF IInv
<1>1. /\ rpc = "install" /\ tail < Len(lh) /\ tail' = tail + 1
      /\ home' = [home EXCEPT ![lh[tail + 1]] = logdisk[tail + 1]]
      /\ cache' = [cache EXCEPT ![lh[tail + 1]] = logdisk[tail + 1]]
      /\ UNCHANGED <<logdisk, dhead, lh, outstanding, committing, pc, nw, wb,
                     done, rpc, crashes>>
  BY DEF RecoverInstall, InstallBlock
<1>2. cache = home /\ lh = dhead /\ tail <= Len(lh)
      /\ \A i \in 1..tail : home[lh[i]] = logdisk[i]
  BY <1>0, <1>1 DEF RecoveryState
<1>3. /\ tail \in Nat /\ lh[tail + 1] \in Blocks /\ logdisk[tail + 1] \in Vals
  BY <1>0, <1>1 DEF TypeOK, LogSlots
<1>4. TypeOK'
  BY <1>0, <1>1, <1>3 DEF TypeOK
<1>5. \A i \in 1..tail + 1 : home'[lh[i]] = logdisk[i]
  <2> SUFFICES ASSUME NEW i \in 1..tail + 1 PROVE home'[lh[i]] = logdisk[i]
    OBVIOUS
  <2>1. CASE i = tail + 1
    BY <2>1, <1>0, <1>1, <1>3 DEF TypeOK
  <2>2. CASE i # tail + 1
    <3>0. i \in 1..Len(lh) /\ tail + 1 \in 1..Len(lh) /\ lh \in Seq(Blocks)
      BY <1>0, <1>1, <1>3 DEF TypeOK
    <3>1. lh[i] # lh[tail + 1] /\ lh[i] \in Blocks
      BY <2>2, <3>0, <1>0 DEF Distinct
    <3>2. QED BY <2>2, <3>1, <1>0, <1>1, <1>2 DEF TypeOK
  <2>3. QED BY <2>1, <2>2
<1>6. RecoveryState'
  <2>1. cache' = home' /\ outstanding' = 0 /\ \A u \in Threads : pc'[u] = "idle"
    BY <1>0, <1>1, <1>2 DEF RecoveryState
  <2>2. lh' = dhead' /\ tail' <= Len(lh')
    BY <1>1, <1>2, <1>3
  <2>3. \A i \in 1..tail' : home'[lh'[i]] = logdisk'[i]
    BY <1>1, <1>5
  <2>4. QED BY <1>1, <2>1, <2>2, <2>3 DEF RecoveryState
<1>7. CallsBounded' /\ ReservationHolds' /\ CommitExclusive'
      /\ Distinct(lh)' /\ Distinct(dhead)' /\ RunState'
  BY <1>0, <1>1 DEF CallsBounded, ReservationHolds, CommitExclusive,
                    Distinct, InOp, Reserved, RunState
<1>8. QED BY <1>4, <1>6, <1>7 DEF IInv

(* Recovery ends: every logged block is installed, so clearing the header  *)
(* and the log brings the system up with the cache equal to home.          *)
LEMMA RecoverClearIInv ==
    ASSUME IInv, RecoverClear
    PROVE  IInv'
<1>1. /\ rpc = "install" /\ tail = Len(lh) /\ lh' = <<>> /\ dhead' = <<>> /\ rpc' = "up"
      /\ UNCHANGED <<home, logdisk, cache, outstanding, committing, pc, nw, wb,
                     done, tail, crashes>>
  BY DEF RecoverClear
<1>2. InOp = {} /\ Reserved = {} /\ ~committing /\ cache = home /\ outstanding = 0
      /\ \A t \in Threads : pc[t] = "idle"
  BY <1>1, Recovering
<1>3. TypeOK'
  BY <1>1 DEF IInv, TypeOK
<1>4. ReservationHolds'
  BY <1>1, <1>2, <1>3, RecoveryReservation DEF TypeOK
<1>5. CallsBounded' /\ CommitExclusive' /\ Distinct(lh)' /\ Distinct(dhead)'
  BY <1>1, <1>2 DEF IInv, CallsBounded, CommitExclusive, Distinct, CommitPCs
<1>6. RecoveryState'
  BY <1>1 DEF RecoveryState
<1>7. RunState'
  BY <1>1, <1>2 DEF RunState, At, CommitPCs
<1>8. QED BY <1>3, <1>4, <1>5, <1>6, <1>7 DEF IInv

(* A crash or reboot: memory is lost and recovery will run again.          *)
LEMMA CrashIInv ==
    ASSUME IInv, Crash
    PROVE  IInv'
<1>1. /\ crashes < MaxCrash /\ crashes' = crashes + 1 /\ lh' = <<>> /\ cache' = home
      /\ outstanding' = 0 /\ committing' = FALSE /\ pc' = [t \in Threads |-> "idle"]
      /\ nw' = [t \in Threads |-> 0] /\ tail' = 0 /\ rpc' = "read"
      /\ UNCHANGED <<home, logdisk, dhead, wb, done>>
  BY DEF Crash
<1>2. TypeOK'
  <2>1. crashes' \in 0..MaxCrash /\ tail' \in 0..LOGSIZE /\ outstanding' \in Nat
    BY <1>1 DEF IInv, TypeOK
  <2>2. pc' \in [Threads -> PCs] /\ nw' \in [Threads -> 0..MAXOPBLOCKS]
    BY <1>1 DEF PCs
  <2>3. lh' \in Seq(Blocks) /\ Len(lh') <= LOGSIZE /\ cache' \in [Blocks -> Vals]
    BY <1>1 DEF IInv, TypeOK
  <2>4. /\ home' \in [Blocks -> Vals] /\ logdisk' \in [LogSlots -> Vals]
        /\ dhead' \in Seq(Blocks) /\ Len(dhead') <= LOGSIZE
        /\ wb' \in [Threads -> Blocks] /\ done' \in [Threads -> 0..Ops]
    BY <1>1 DEF IInv, TypeOK
  <2>5. QED BY <1>1, <2>1, <2>2, <2>3, <2>4 DEF TypeOK
<1>3. InOp' = {} /\ Reserved' = {}
  BY <1>1 DEF InOp, Reserved, OpPCs
<1>4. ReservationHolds'
  BY <1>1, <1>3, FS_EmptySet DEF ReservationHolds
<1>5. CallsBounded' /\ CommitExclusive' /\ Distinct(lh)' /\ Distinct(dhead)'
  BY <1>1 DEF IInv, CallsBounded, CommitExclusive, Distinct, CommitPCs
<1>6. RecoveryState' /\ RunState'
  BY <1>1 DEF RecoveryState, RunState
<1>7. QED BY <1>2, <1>4, <1>5, <1>6 DEF IInv

(* A stuttering step keeps everything.                                     *)
LEMMA StutterIInv ==
    ASSUME IInv, UNCHANGED vars
    PROVE  IInv'
<1>1. /\ home' = home /\ logdisk' = logdisk /\ dhead' = dhead /\ lh' = lh
      /\ cache' = cache /\ outstanding' = outstanding /\ committing' = committing
      /\ pc' = pc /\ nw' = nw /\ wb' = wb /\ done' = done /\ tail' = tail
      /\ rpc' = rpc /\ crashes' = crashes
  BY DEF vars
<1>2. InOp' = InOp /\ Reserved' = Reserved
  BY <1>1 DEF InOp, Reserved
<1>3. TypeOK' /\ CallsBounded' /\ ReservationHolds' /\ CommitExclusive'
  BY <1>1, <1>2 DEF IInv, TypeOK, CallsBounded, ReservationHolds, CommitExclusive
<1>4. Distinct(lh)' /\ Distinct(dhead)' /\ RecoveryState'
  BY <1>1 DEF IInv, Distinct, RecoveryState
<1>5. RunState'
  BY <1>1 DEF IInv, RunState, Halted, At, Pending, InLog
<1>6. QED BY <1>3, <1>4, <1>5 DEF IInv

-----------------------------------------------------------------------------
(* IInv is an inductive invariant of the log.                             *)
LEMMA NextIInv ==
    ASSUME IInv, [Next]_vars
    PROVE  IInv'
<1>1. CASE Recovery
  BY <1>1, RecoverReadIInv, RecoverInstallIInv, RecoverClearIInv DEF Recovery
<1>2. CASE Crash
  BY <1>2, CrashIInv
<1>3. CASE \E t \in Threads : ThreadStep(t)
  <2>1. PICK t \in Threads : ThreadStep(t)
    BY <1>3
  <2>2. QED BY <2>1, BeginOpIInv, OpWriteIInv, LogWriteCheckIInv,
                LogWriteAddIInv, EndOpIInv, CommitWriteLogIInv,
                CommitWriteHeadIInv, CommitInstallIInv, CommitClearIInv,
                CommitEndIInv DEF ThreadStep
<1>4. CASE UNCHANGED vars
  BY <1>4, StutterIInv
<1>5. QED BY <1>1, <1>2, <1>3, <1>4 DEF Next

(* TypeOK holds in every reachable state of the log: in particular log.lh  *)
(* never outgrows logheader.block[LOGSIZE] (log_write appends only under   *)
(* a reservation begin_op made) and the installed tail stays in the log.   *)
THEOREM TypeCorrect == Spec => []TypeOK
<1>1. Init => IInv
  BY InitIInv
<1>2. IInv /\ [Next]_vars => IInv'
  BY NextIInv
<1>3. IInv => TypeOK
  BY DEF IInv
<1>4. QED BY <1>1, <1>2, <1>3, PTL DEF Spec
-----------------------------------------------------------------------------
(* When the log area has room for LOGSIZE blocks besides the header,      *)
(* log_write's unlocked tests always pass: the thread still holds a token *)
(* of its reservation, so log.lh.n < LOGSIZE <= log.size - 1, and its     *)
(* open call keeps outstanding >= 1.                                       *)
LEMMA LogWriteCheckPasses ==
    ASSUME IInv, LogSize > LOGSIZE, NEW t \in Threads, LogWriteCheck(t)
    PROVE  pc' = [pc EXCEPT ![t] = "lw_add"]
<1>1. pc[t] = "lw_check"
  BY DEF LogWriteCheck
<1>2. outstanding >= 1 /\ t \in InOp
  BY <1>1, InCall DEF OpPCs
<1>3. nw[t] < MAXOPBLOCKS /\ nw[t] \in Nat /\ Len(lh) \in Nat /\ outstanding \in Nat
  BY <1>1 DEF IInv, ReservationHolds, TypeOK
<1>4. <<t, nw[t] + 1>> \in Reserved
  BY <1>2, <1>3 DEF Reserved
<1>5. IsFiniteSet(Reserved) /\ Cardinality(Reserved) \in Nat
      /\ Len(lh) + Cardinality(Reserved) <= LOGSIZE
  BY ReservedBound DEF IInv, TypeOK, ReservationHolds
<1>6. Cardinality(Reserved) >= 1
  BY <1>4, <1>5, CardPositive
<1>7. ~(Len(lh) >= LOGSIZE \/ Len(lh) >= LogSize - 1 \/ outstanding < 1)
  BY <1>2, <1>3, <1>5, <1>6
<1>8. QED BY <1>7 DEF LogWriteCheck

(* No step makes a thread panic.                                           *)
LEMMA NextNoPanic ==
    ASSUME IInv, NoPanic, LogSize > LOGSIZE, [Next]_vars
    PROVE  NoPanic'
<1>1. CASE Recovery \/ UNCHANGED vars
  BY <1>1 DEF Recovery, RecoverRead, RecoverInstall, RecoverClear, vars, NoPanic
<1>2. CASE Crash
  BY <1>2 DEF Crash, NoPanic
<1>3. CASE \E t \in Threads : ThreadStep(t)
  <2>1. PICK t \in Threads : ThreadStep(t)
    BY <1>3
  <2>2. pc \in [Threads -> PCs] /\ Wakeup(pc) \in [Threads -> PCs]
        /\ \A u \in Threads : Wakeup(pc)[u] # "panic"
    BY WakeupKeeps DEF IInv, TypeOK, NoPanic
  <2>3. CASE LogWriteCheck(t)
    BY <2>3, <2>2, LogWriteCheckPasses DEF NoPanic
  <2>4. CASE EndOp(t)
    <3>1. ~committing
      BY <2>4, InCall DEF EndOp, OpPCs
    <3>2. QED BY <2>4, <3>1, <2>2 DEF EndOp, NoPanic
  <2>5. CASE BeginOp(t) \/ OpWrite(t) \/ LogWriteAdd(t) \/ CommitWriteLog(t)
             \/ CommitWriteHead(t) \/ CommitInstall(t) \/ CommitClear(t)
             \/ CommitEnd(t)
    BY <2>5, <2>2 DEF BeginOp, OpWrite, LogWriteAdd, CommitWriteLog,
                      CommitWriteHead, CommitInstall, CommitClear, CommitEnd,
                      NoPanic
  <2>6. QED BY <2>1, <2>3, <2>4, <2>5 DEF ThreadStep
<1>4. QED BY <1>1, <1>2, <1>3 DEF Next

(* When the log area holds LOGSIZE blocks besides the header (log.size >   *)
(* LOGSIZE), no panic of log_write ("too big a transaction", "log_write    *)
(* outside of trans") or of end_op ("log.committing") is ever reached.     *)
THEOREM NeverPanics ==
    ASSUME LogSize > LOGSIZE
    PROVE  Spec => []NoPanic
<1>1. Init => IInv /\ NoPanic
  BY InitIInv DEF Init, NoPanic
<1>2. IInv /\ NoPanic /\ [Next]_vars => IInv' /\ NoPanic'
  BY NextIInv, NextNoPanic
<1>3. QED BY <1>1, <1>2, PTL DEF Spec
-----------------------------------------------------------------------------
(* Refinement of AtomicDisk.  The disk recovery would produce depends     *)
(* only on home, the log blocks and the on-disk header.                    *)
LEMMA DurableFrame ==
    ASSUME home' = home, logdisk' = logdisk, dhead' = dhead
    PROVE  Durable' = Durable
BY DEF Durable, LogVal, InLog

(* The initial states are initial states of AtomicDisk.                   *)
LEMMA InitRefines == Init => Abs!AInit
<1> SUFFICES ASSUME Init PROVE Abs!AInit
  OBVIOUS
<1>1. Durable = home
  BY DEF Init, Durable, InLog
<1>2. Seen = Durable
  BY DEF Init, Seen
<1>3. QED BY <1>1, <1>2 DEF Init, Abs!AInit

(* A step that changes neither the disk recovery would produce, nor what  *)
(* calls see, nor the number of open calls is a stutter of AtomicDisk.    *)
LEMMA AbsStutter ==
    ASSUME Durable' = Durable, Seen' = Seen, outstanding' = outstanding
    PROVE  [Abs!ANext]_Abs!avars
BY DEF Abs!avars

(* What calls see follows the cache once the log is up, and the durable    *)
(* disk before.                                                            *)
LEMMA SeenFrame ==
    ASSUME rpc' = rpc, cache' = cache, Durable' = Durable
    PROVE  Seen' = Seen
BY DEF Seen

(* begin_op is a stutter when it sleeps and ABegin when it admits.         *)
LEMMA BeginOpRefines ==
    ASSUME IInv, NEW t \in Threads, BeginOp(t)
    PROVE  [Abs!ANext]_Abs!avars
<1>1. Durable' = Durable /\ Seen' = Seen
  BY DurableFrame, SeenFrame DEF BeginOp
<1>2. CASE committing \/ Len(lh) + (outstanding + 1) * MAXOPBLOCKS > LOGSIZE
  BY <1>1, <1>2, AbsStutter DEF BeginOp
<1>3. CASE ~(committing \/ Len(lh) + (outstanding + 1) * MAXOPBLOCKS > LOGSIZE)
  <2>1. outstanding' = outstanding + 1
    BY <1>3 DEF BeginOp
  <2>2. QED BY <1>1, <2>1 DEF Abs!ANext, Abs!ABegin
<1>4. QED BY <1>2, <1>3

(* The write of a block inside a call is AWrite.                           *)
LEMMA OpWriteRefines ==
    ASSUME IInv, NEW t \in Threads, OpWrite(t)
    PROVE  [Abs!ANext]_Abs!avars
<1>1. outstanding >= 1 /\ rpc = "up" /\ outstanding \in Nat
  BY InCall DEF OpWrite, OpPCs, IInv, TypeOK
<1>2. PICK blk \in Blocks, val \in Vals : cache' = [cache EXCEPT ![blk] = val]
  BY DEF OpWrite
<1>3. Durable' = Durable /\ outstanding' = outstanding
  BY DurableFrame DEF OpWrite
<1>4. Seen' = [Seen EXCEPT ![blk] = val]
  BY <1>1, <1>2 DEF OpWrite, Seen
<1>5. \E b \in Blocks, v \in Vals : Seen' = [Seen EXCEPT ![b] = v]
  BY <1>4
<1>6. Abs!AWrite
  BY <1>1, <1>3, <1>5 DEF Abs!AWrite, Seen
<1>7. QED BY <1>6 DEF Abs!ANext

(* end_op is AEnd: the call held a reservation, so outstanding > 0.        *)
LEMMA EndOpRefines ==
    ASSUME IInv, NEW t \in Threads, EndOp(t)
    PROVE  [Abs!ANext]_Abs!avars
<1>1. outstanding >= 1 /\ outstanding \in Nat
  BY InCall DEF EndOp, OpPCs, IInv, TypeOK
<1>2. Durable' = Durable /\ Seen' = Seen /\ outstanding' = outstanding - 1
  BY DurableFrame, SeenFrame DEF EndOp
<1>3. QED BY <1>1, <1>2 DEF Abs!ANext, Abs!AEnd

(* write_log fills log blocks while the on-disk header is still empty, so *)
(* the durable disk is home and does not change.                           *)
LEMMA CommitWriteLogRefines ==
    ASSUME IInv, NEW t \in Threads, CommitWriteLog(t)
    PROVE  [Abs!ANext]_Abs!avars
<1>1. rpc = "up" /\ \A ph \in CommitPCs : At(ph) <=> pc[t] = ph
  BY Committer DEF CommitWriteLog, CommitPCs
<1>2. dhead = <<>>
  BY <1>1 DEF CommitWriteLog, IInv, RunState, CommitPCs
<1>3. Durable = home /\ Durable' = home
  <2>1. dhead' = <<>> /\ home' = home /\ home \in [Blocks -> Vals]
    BY <1>2 DEF CommitWriteLog, IInv, TypeOK
  <2>2. QED BY <1>2, <2>1 DEF Durable, InLog
<1>4. Seen' = Seen
  BY <1>3, SeenFrame DEF CommitWriteLog
<1>5. QED BY <1>3, <1>4, AbsStutter DEF CommitWriteLog

(* The other steps of a call and the end of a commit change neither disk  *)
(* nor cache.                                                              *)
LEMMA QuietStepRefines ==
    ASSUME NEW t \in Threads, LogWriteCheck(t) \/ LogWriteAdd(t) \/ CommitEnd(t)
    PROVE  [Abs!ANext]_Abs!avars
<1>1. home' = home /\ logdisk' = logdisk /\ dhead' = dhead /\ cache' = cache
      /\ outstanding' = outstanding /\ rpc' = rpc
  BY DEF LogWriteCheck, LogWriteAdd, CommitEnd
<1>2. Durable' = Durable /\ Seen' = Seen
  BY <1>1, DurableFrame, SeenFrame
<1>3. QED BY <1>1, <1>2, AbsStutter

(* read_head: a stutter, calls see the durable disk before and after.      *)
LEMMA RecoverReadRefines ==
    ASSUME RecoverRead
    PROVE  [Abs!ANext]_Abs!avars
<1>1. Durable' = Durable
  BY DurableFrame DEF RecoverRead
<1>2. Seen' = Seen
  BY <1>1 DEF RecoverRead, Seen
<1>3. QED BY <1>1, <1>2, AbsStutter DEF RecoverRead

(* The slot recovery reads a logged block from holds that block.           *)
LEMMA ChooseSlot ==
    ASSUME NEW s, NEW b, \E i \in 1..Len(s) : s[i] = b
    PROVE  /\ (CHOOSE i \in 1..Len(s) : s[i] = b) \in 1..Len(s)
           /\ s[CHOOSE i \in 1..Len(s) : s[i] = b] = b
OBVIOUS

(* write_head with a non-empty log is the commit point, ACommit: every    *)
(* block the header names has its cached data in the log, every other     *)
(* block has it at home, so the durable disk becomes the cache at once.   *)
LEMMA CommitWriteHeadRefines ==
    ASSUME IInv, NEW t \in Threads, CommitWriteHead(t)
    PROVE  [Abs!ANext]_Abs!avars
<1>1. /\ pc[t] = "c_wlog" /\ ~Halted /\ tail = Len(lh) /\ dhead' = lh
      /\ UNCHANGED <<home, logdisk, lh, cache, outstanding, rpc>>
  BY DEF CommitWriteHead
<1>2. /\ rpc = "up" /\ outstanding = 0
      /\ \A b \in Blocks : ~Pending(b)
      /\ \A ph \in CommitPCs : At(ph) <=> pc[t] = ph
  BY <1>1, Committer DEF CommitPCs
<1>3. /\ \A i \in 1..Len(lh) : logdisk[i] = cache[lh[i]]
      /\ \A c \in Blocks : home[c] # cache[c] => InLog(c, lh)
      /\ dhead = <<>>
  BY <1>1, <1>2 DEF IInv, RunState, CommitPCs
<1>4. Seen' = cache /\ Seen = cache
  BY <1>1, <1>2 DEF Seen
<1>5. CASE Len(lh) = 0
  <2>1. dhead' = dhead
    BY <1>1, <1>3, <1>5 DEF IInv, TypeOK
  <2>2. Durable' = Durable
    BY <1>1, <2>1, DurableFrame
  <2>3. QED BY <1>1, <1>4, <2>2, AbsStutter
<1>6. CASE Len(lh) # 0
  <2>1. \A b \in Blocks : InLog(b, lh) =>
            logdisk[CHOOSE i \in 1..Len(lh) : lh[i] = b] = cache[b]
    <3> SUFFICES ASSUME NEW b \in Blocks, InLog(b, lh)
                 PROVE  logdisk[CHOOSE i \in 1..Len(lh) : lh[i] = b] = cache[b]
      OBVIOUS
    <3>1. /\ (CHOOSE i \in 1..Len(lh) : lh[i] = b) \in 1..Len(lh)
          /\ lh[CHOOSE i \in 1..Len(lh) : lh[i] = b] = b
      BY ChooseSlot DEF InLog
    <3>2. QED BY <3>1, <1>3
  <2>2. Durable' = [b \in Blocks |->
                      IF InLog(b, lh) THEN logdisk[CHOOSE i \in 1..Len(lh) : lh[i] = b]
                      ELSE home[b]]
    BY <1>1 DEF Durable, LogVal, InLog
  <2>3. Durable' = cache
    BY <1>3, <2>1, <2>2 DEF IInv, TypeOK
  <2>4. QED BY <1>1, <1>2, <1>4, <2>3 DEF Abs!ANext, Abs!ACommit
<1>7. QED BY <1>5, <1>6

(* Installing a block the on-disk header names changes its home copy but   *)
(* not what recovery would read for it.                                    *)
LEMMA InstallKeepsDurable ==
    ASSUME IInv, InstallBlock, lh = dhead,
           UNCHANGED <<logdisk, dhead>>
    PROVE  Durable' = Durable
<1>1. tail \in Nat /\ tail + 1 \in 1..Len(lh) /\ lh[tail + 1] \in Blocks
  BY DEF InstallBlock, IInv, TypeOK
<1>2. InLog(lh[tail + 1], dhead)
  BY <1>1 DEF InLog
<1>3. \A b \in Blocks : ~InLog(b, dhead) => home'[b] = home[b]
  BY <1>1, <1>2 DEF InstallBlock, IInv, TypeOK
<1>4. QED BY <1>3 DEF Durable, LogVal, InLog

(* install_trans of commit: a stutter; the cache keeps its contents.       *)
LEMMA CommitInstallRefines ==
    ASSUME IInv, NEW t \in Threads, CommitInstall(t)
    PROVE  [Abs!ANext]_Abs!avars
<1>1. /\ pc[t] = "c_install" /\ ~Halted /\ tail < Len(lh)
      /\ cache' = [cache EXCEPT ![lh[tail + 1]] = logdisk[tail + 1]]
      /\ UNCHANGED <<logdisk, dhead, lh, outstanding, rpc>>
  BY DEF CommitInstall, InstallBlock
<1>2. rpc = "up" /\ \A ph \in CommitPCs : At(ph) <=> pc[t] = ph
  BY <1>1, Committer DEF CommitPCs
<1>3. dhead = lh /\ \A i \in 1..Len(lh) : logdisk[i] = cache[lh[i]]
  BY <1>1, <1>2 DEF IInv, RunState, CommitPCs
<1>4. tail \in Nat /\ tail + 1 \in 1..Len(lh) /\ lh[tail + 1] \in Blocks
  BY <1>1 DEF IInv, TypeOK
<1>5. cache' = cache
  BY <1>1, <1>3, <1>4 DEF IInv, TypeOK
<1>6. Durable' = Durable
  BY <1>1, <1>3, InstallKeepsDurable DEF CommitInstall
<1>7. QED BY <1>1, <1>5, <1>6, SeenFrame, AbsStutter

(* The end of commit(): with everything installed the durable disk is     *)
(* home both before and after the header is cleared.                       *)
LEMMA CommitClearRefines ==
    ASSUME IInv, NEW t \in Threads, CommitClear(t)
    PROVE  [Abs!ANext]_Abs!avars
<1>1. /\ pc[t] = "c_install" /\ ~Halted /\ tail = Len(lh) /\ dhead' = <<>>
      /\ UNCHANGED <<home, logdisk, cache, outstanding, rpc>>
  BY DEF CommitClear
<1>2. /\ rpc = "up" /\ \A ph \in CommitPCs : At(ph) <=> pc[t] = ph
      /\ \A b \in Blocks : ~Pending(b)
  BY <1>1, Committer DEF CommitPCs
<1>3. /\ dhead = lh
      /\ \A i \in 1..tail : home[lh[i]] = cache[lh[i]]
      /\ \A i \in 1..Len(lh) : logdisk[i] = cache[lh[i]]
      /\ \A c \in Blocks : home[c] # cache[c] => InLog(c, lh) \/ Pending(c)
  <2>1. RunState
    BY DEF IInv
  <2>2. At("c_install")
    BY <1>1 DEF At
  <2>3. QED BY <1>1, <1>2, <2>1, <2>2 DEF RunState
<1>4. home = cache
  <2>1. home \in [Blocks -> Vals] /\ cache \in [Blocks -> Vals]
    BY DEF IInv, TypeOK
  <2>2. \A c \in Blocks : home[c] = cache[c]
    <3> SUFFICES ASSUME NEW c \in Blocks, home[c] # cache[c] PROVE FALSE
      OBVIOUS
    <3>1. InLog(c, lh)
      BY <1>2, <1>3
    <3>2. PICK i \in 1..Len(lh) : lh[i] = c
      BY <3>1 DEF InLog
    <3>3. QED BY <3>2, <1>1, <1>3
  <2>3. QED BY <2>1, <2>2
<1>5. \A b \in Blocks : InLog(b, dhead) => LogVal(b) = home[b]
  <2> SUFFICES ASSUME NEW b \in Blocks, InLog(b, dhead) PROVE LogVal(b) = home[b]
    OBVIOUS
  <2>1. /\ (CHOOSE i \in 1..Len(dhead) : dhead[i] = b) \in 1..Len(dhead)
        /\ dhead[CHOOSE i \in 1..Len(dhead) : dhead[i] = b] = b
    BY ChooseSlot DEF InLog
  <2>2. QED BY <2>1, <1>3, <1>4 DEF LogVal
<1>6. Durable = home /\ Durable' = home
  BY <1>1, <1>5 DEF Durable, InLog, IInv, TypeOK
<1>7. QED BY <1>1, <1>6, SeenFrame, AbsStutter

(* install_trans of recovery: a stutter, since calls see the durable disk *)
(* until recovery ends.                                                    *)
LEMMA RecoverInstallRefines ==
    ASSUME IInv, RecoverInstall
    PROVE  [Abs!ANext]_Abs!avars
<1>1. rpc = "install" /\ rpc' = rpc /\ outstanding' = outstanding
  BY DEF RecoverInstall
<1>2. lh = dhead
  BY <1>1 DEF IInv, RecoveryState
<1>3. Durable' = Durable
  BY <1>2, InstallKeepsDurable DEF RecoverInstall
<1>4. Seen' = Seen
  BY <1>1, <1>3 DEF Seen
<1>5. QED BY <1>1, <1>3, <1>4, AbsStutter

(* Recovery ends: every block of the header is installed, so the durable  *)
(* disk was already home, and the cache the calls will see is home too.   *)
LEMMA RecoverClearRefines ==
    ASSUME IInv, RecoverClear
    PROVE  [Abs!ANext]_Abs!avars
<1>1. /\ rpc = "install" /\ tail = Len(lh) /\ dhead' = <<>> /\ rpc' = "up"
      /\ UNCHANGED <<home, logdisk, cache, outstanding>>
  BY DEF RecoverClear
<1>2. /\ cache = home /\ lh = dhead
      /\ \A i \in 1..tail : home[lh[i]] = logdisk[i]
  BY <1>1 DEF IInv, RecoveryState
<1>3. \A b \in Blocks : InLog(b, dhead) => LogVal(b) = home[b]
  <2> SUFFICES ASSUME NEW b \in Blocks, InLog(b, dhead) PROVE LogVal(b) = home[b]
    OBVIOUS
  <2>1. /\ (CHOOSE i \in 1..Len(dhead) : dhead[i] = b) \in 1..Len(dhead)
        /\ dhead[CHOOSE i \in 1..Len(dhead) : dhead[i] = b] = b
    BY ChooseSlot DEF InLog
  <2>2. QED BY <2>1, <1>1, <1>2 DEF LogVal
<1>4. Durable = home /\ Durable' = home
  BY <1>1, <1>3 DEF Durable, InLog, IInv, TypeOK
<1>5. Seen = home /\ Seen' = home
  BY <1>1, <1>2, <1>4 DEF Seen
<1>6. QED BY <1>1, <1>4, <1>5, AbsStutter

(* A crash is ACrash: the durable disk stays, and what calls see falls    *)
(* back to it with no call open.                                           *)
LEMMA CrashRefines ==
    ASSUME Crash
    PROVE  [Abs!ANext]_Abs!avars
<1>1. Durable' = Durable
  BY DurableFrame DEF Crash
<1>2. Seen' = Durable' /\ outstanding' = 0
  BY DEF Crash, Seen
<1>3. QED BY <1>1, <1>2 DEF Abs!ANext, Abs!ACrash

(* Every step of the log is a step of AtomicDisk or leaves its state alone. *)
LEMMA NextRefines ==
    ASSUME IInv, [Next]_vars
    PROVE  [Abs!ANext]_Abs!avars
<1>1. CASE RecoverRead
  BY <1>1, RecoverReadRefines
<1>2. CASE RecoverInstall
  BY <1>2, RecoverInstallRefines
<1>3. CASE RecoverClear
  BY <1>3, RecoverClearRefines
<1>4. CASE Crash
  BY <1>4, CrashRefines
<1>5. CASE \E t \in Threads : ThreadStep(t)
  <2>1. PICK t \in Threads : ThreadStep(t)
    BY <1>5
  <2>2. QED BY <2>1, BeginOpRefines, OpWriteRefines, QuietStepRefines,
                EndOpRefines, CommitWriteLogRefines, CommitWriteHeadRefines,
                CommitInstallRefines, CommitClearRefines DEF ThreadStep
<1>6. CASE UNCHANGED vars
  BY <1>6, DurableFrame, SeenFrame, AbsStutter DEF vars
<1>7. QED BY <1>1, <1>2, <1>3, <1>4, <1>5, <1>6 DEF Next, Recovery

(* The log implements AtomicDisk (AtomicCommit): under the refinement      *)
(* mapping Durable / Seen / outstanding, every behaviour of begin_op,      *)
(* log_write, end_op, commit, crashes and recovery is one of AtomicDisk:   *)
(* the disk as recovery reads it only ever becomes what the calls wrote,   *)
(* all at once at write_head with no call open, and a crash brings the    *)
(* calls back to it.                                                       *)
THEOREM Refinement == Spec => AtomicCommit
<1>1. Init => Abs!AInit /\ IInv
  BY InitRefines, InitIInv
<1>2. IInv /\ [Next]_vars => IInv' /\ [Abs!ANext]_Abs!avars
  BY NextIInv, NextRefines
<1>3. QED BY <1>1, <1>2, PTL DEF Spec, AtomicCommit, Abs!ASpec

(* The log's inductive invariant holds in every reachable state: every    *)
(* open call holds a reservation and log.lh fits within them, at most one *)
(* thread commits, log.lh and the on-disk header name no block twice, and *)
(* the log on disk, the header and the cache agree at each point of       *)
(* commit and of recovery (install_trans, write_head), across crashes.    *)
THEOREM LogInvariant == Spec => []IInv
BY InitIInv, NextIInv, PTL DEF Spec
=============================================================================
