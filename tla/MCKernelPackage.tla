---------------------------- MODULE MCKernelPackage ----------------------------
(* Constants for model checking KernelPackage. *)
EXTENDS KernelPackage, TLC

CONSTANTS f1, f2, v1, v2

PackageSymmetry == Permutations(Paths) \cup Permutations(Contents)

\* What Install does with a package does not depend on whether Verify accepts it: one
\* Verify reports is installed once.
Bounded == embedded # Missing /\ ~verified => count.installs <= 1
MCSpec == Init /\ [][Next /\ Bounded']_vars
===============================================================================
