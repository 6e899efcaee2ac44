------------------------------- MODULE MCEventLog -------------------------------
(* Constants for model checking EventLog. *)
EXTENDS EventLog, TLC

CONSTANTS p1, p2, e1, e2

EventLogSymmetry == Permutations(Procs) \cup Permutations(Events)
===============================================================================
