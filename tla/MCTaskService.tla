----------------------------- MODULE MCTaskService -----------------------------
(* Constants for model checking TaskService: one task of one work class, and *)
(* the requests that tell its handlers apart.                                *)
EXTENDS TaskService, TLC

CONSTANTS p1, p2, e1, e2, e3, r1, r2, none, exec, advisor, o1, o2, o3, o4

Req(kind) ==
    [kind |-> kind, evidence |-> {}, reason |-> none, agent |-> exec,
     bucket |-> "active", dryRun |-> FALSE]

MCRequests ==
    {[Req("complete") EXCEPT !.evidence = {e1}],
     [Req("complete") EXCEPT !.evidence = {e2}],
     [Req("complete") EXCEPT !.evidence = {e3}],
     [Req("block") EXCEPT !.reason = r1],
     [Req("block") EXCEPT !.reason = r2],
     [Req("consult") EXCEPT !.agent = advisor],
     [Req("list") EXCEPT !.bucket = "completed"]}

ProcSymmetry == Permutations(Procs)
===============================================================================
