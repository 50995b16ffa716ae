----------------------------- MODULE AtomicDisk -----------------------------
(***************************************************************************)
(* What the file-system log of src/src/log.c promises, stated without the  *)
(* log: file-system calls update an in-memory view of the blocks (mem),    *)
(* and the durable disk only ever takes that view as a whole, at a moment  *)
(* when no file-system call is open.  A crash loses the memory view and    *)
(* the open calls; the disk is what survives.                              *)
(***************************************************************************)
EXTENDS Naturals

CONSTANTS Blocks, Vals

VARIABLES
    disk,   \* the durable contents of every block
    mem,    \* the contents file-system calls see and update
    open    \* how many file-system calls are between begin and end

avars == <<disk, mem, open>>

AInit ==
    /\ disk \in [Blocks -> Vals]
    /\ mem = disk
    /\ open = 0

(* A file-system call starts or finishes.                                  *)
ABegin == open' = open + 1 /\ UNCHANGED <<disk, mem>>
AEnd == open > 0 /\ open' = open - 1 /\ UNCHANGED <<disk, mem>>

(* An open call writes a block.                                            *)
AWrite ==
    /\ open > 0
    /\ \E b \in Blocks, v \in Vals : mem' = [mem EXCEPT ![b] = v]
    /\ UNCHANGED <<disk, open>>

(* With no call open, the whole memory view becomes durable at once.       *)
ACommit == open = 0 /\ disk' = mem /\ UNCHANGED <<mem, open>>

(* A crash: what was not committed is gone.                                *)
ACrash == mem' = disk /\ open' = 0 /\ UNCHANGED disk

ANext == ABegin \/ AEnd \/ AWrite \/ ACommit \/ ACrash

ASpec == AInit /\ [][ANext]_avars
=============================================================================
