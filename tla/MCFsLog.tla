------------------------------ MODULE MCFsLog ------------------------------
EXTENDS FsLog, TLC

CONSTANTS t1, t2, t3, b1, b2, b3

MCThreads == {t1, t2, t3}
MCBlocks == {b1, b2, b3}
MCVals == {0, 1}

(* Start from a freshly made file system, every block zero; the calls     *)
(* write zeros and ones, so any block a commit changed reads 1.           *)
MCInit == Init /\ home = [b \in Blocks |-> 0] /\ logdisk = [i \in LogSlots |-> 0]

MCSpec == MCInit /\ [][Next]_vars /\ Fairness
=============================================================================
