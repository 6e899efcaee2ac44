---------------------------- MODULE MCTaskCreation ----------------------------
(* Constants for model checking TaskCreation. *)
EXTENDS TaskCreation

CONSTANTS p1, e1, r1, none, exec, advisor, o1, o2

Req(kind) ==
    [kind |-> kind, evidence |-> {}, reason |-> none, agent |-> exec,
     bucket |-> "active", dryRun |-> FALSE]

MCRequests ==
    {[Req("complete") EXCEPT !.evidence = {e1}],
     [Req("block") EXCEPT !.reason = r1],
     [Req("consult") EXCEPT !.agent = advisor],
     Req("status")}
===============================================================================
