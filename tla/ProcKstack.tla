----------------------------- MODULE ProcKstack -----------------------------
(***************************************************************************)
(* The kernel stacks of the process table (src/src/proc.c) on top of       *)
(* ProcTable: every step of ProcTable, together with what it does to       *)
(* p->kstack and to the pages kalloc has handed out for kernel stacks.     *)
(* allocproc kallocs a stack for the slot it takes; fork's failure path    *)
(* and wait's reaping kfree it; thread_join only clears the pointer, its   *)
(* kfree being commented out.                                              *)
(*                                                                         *)
(* The kalloc failure inside allocproc (proc.c:90-93) is taken as a stack  *)
(* that ForkFail or ThreadCreateFail gives back at once: the slot ends      *)
(* UNUSED with kstack 0 and no page held, as in the code.                  *)
(***************************************************************************)
EXTENDS ProcTable

VARIABLES
    kstack,     \* kstack[p]: p->kstack points to a page (p->kstack # 0)
    kpages      \* pages kalloc has given out as kernel stacks, not kfreed

kvars == <<kstack, kpages>>

allvars == <<vars, kvars>>

(* userinit's allocproc gave init its stack.                               *)
KInit ==
    /\ Init
    /\ kstack = [p \in Procs |-> p = InitProc]
    /\ kpages = 1

(* allocproc: p->kstack = kalloc() for the slot just made EMBRYO.          *)
KstackAlloc(c, p, to) ==
    /\ AllocProc(c, p, to)
    /\ kstack' = [kstack EXCEPT ![child'[p]] = TRUE]
    /\ kpages' = kpages + 1

(* fork: copyuvm failed, kfree(np->kstack); np->kstack = 0; (or the       *)
(* kalloc in allocproc failed, and the slot never held a page).            *)
KstackFail(c, p) ==
    /\ ForkFail(c, p) \/ ThreadCreateFail(c, p)
    /\ kstack' = [kstack EXCEPT ![child[p]] = FALSE]
    /\ kpages' = kpages - 1

(* The slots a step reaps: ZOMBIE before it, UNUSED after it.              *)
Reaped == {z \in Procs : state[z] = "ZOMBIE" /\ state'[z] = "UNUSED"}

(* wait: kfree(p->kstack); p->kstack = 0; for the child it reaps.          *)
KstackWait(c, p) ==
    /\ Wait(c, p) \/ WaitResume(c, p)
    /\ kstack' = [q \in Procs |-> kstack[q] /\ q \notin Reaped]
    /\ kpages' = kpages - Cardinality(Reaped)

(* thread_join: //kfree(p->kstack); p->kstack = 0; the pointer is cleared *)
(* and the page is never given back.                                       *)
KstackJoin(c, p) ==
    /\ ThreadJoin(c, p) \/ ThreadJoinResume(c, p)
    /\ kstack' = [q \in Procs |-> kstack[q] /\ q \notin Reaped]
    /\ UNCHANGED kpages

(* Every other step of ProcTable leaves the kernel stacks alone.           *)
KstackKeep(c, p) ==
    /\ \/ Forkret(c, p) \/ Yield(c, p) \/ YieldReturn(c, p)
       \/ ForkDone(c, p) \/ ThreadCreateDone(c, p)
       \/ Exit(c, p) \/ ThreadExit(c, p)
       \/ \E k \in Pids : Kill(c, p, k)
    /\ UNCHANGED kvars

KNext ==
    \E c \in CPUs :
       \/ (SchedAcquire(c) \/ SchedDispatch(c) \/ SchedRelease(c)) /\ UNCHANGED kvars
       \/ \E p \in Procs :
             \/ \E to \in {"fork", "tcreate"} : KstackAlloc(c, p, to)
             \/ KstackFail(c, p)
             \/ KstackWait(c, p)
             \/ KstackJoin(c, p)
             \/ KstackKeep(c, p)

KSpec == KInit /\ [][KNext]_allvars

-----------------------------------------------------------------------------
(* No kernel stack is leaked (spec, data model: the kernel stack is an     *)
(* owned resource, released on reap): every page kalloc gave out as a      *)
(* kernel stack is the stack of some slot, so reaping a process or a       *)
(* thread, in wait or in thread_join, gives its page back.                 *)
KstackOwned ==
    kpages = Cardinality({p \in Procs : kstack[p]})

====
