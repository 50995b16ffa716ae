---------------------------- MODULE MCProcTable ----------------------------
(* Model-checking instance of ProcTable: CPUs are model values.            *)
EXTENDS ProcTable, TLC

CONSTANTS c1, c2

MCCPUs == {c1, c2}

(* The CPUs are interchangeable: each runs the same scheduler loop.      *)
CpuSymmetry == Permutations(MCCPUs)
====
