----------------------------- MODULE MCUserSync -----------------------------
(* Model-checking instance of UserSync: the workers of cond_var_test and   *)
(* semm_test are model values.                                            *)
EXTENDS UserSync, TLC

CONSTANTS p1, c1, s1, s2, r1, r2, d1, d2

(* semm_test: one prod_work and one cons_work thread.                      *)
MCProducers == {p1}
MCConsumers == {c1}

(* cond_var_test: one write_work and one read_work thread.                 *)
MCSenders == {s1}
MCReceivers == {r1}

(* thread.c: the two do_work threads.                                     *)
MCDepositors == {d1, d2}

(* Two writers and two readers on the same messageQ, with no semaphore     *)
(* workers beside them.                                                    *)
MCNone == {}
MCSenders2 == {s1, s2}
MCReceivers2 == {r1, r2}
====
