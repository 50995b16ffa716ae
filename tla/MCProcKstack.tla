---------------------------- MODULE MCProcKstack ----------------------------
(* Model-checking instance of ProcKstack: CPUs are model values.           *)
EXTENDS ProcKstack, TLC

CONSTANTS c1, c2

MCCPUs == {c1, c2}

(* The CPUs are interchangeable: each runs the same scheduler loop.      *)
CpuSymmetry == Permutations(MCCPUs)
====
