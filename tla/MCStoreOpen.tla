------------------------------ MODULE MCStoreOpen ------------------------------
(* Constants for model checking StoreOpen: two processes of this version and *)
(* one compiled before migration 3.                                          *)
EXTENDS StoreOpen, TLC

CONSTANTS p1, p2, old, t1, t2

MCSupports == [p \in Procs |-> IF p = old THEN 2 ELSE 3]

OpenSymmetry == Permutations({p1, p2}) \cup Permutations(Tasks)
===============================================================================
