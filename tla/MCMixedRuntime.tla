---------------------------- MODULE MCMixedRuntime ----------------------------
(* Constants for model checking MixedRuntime. *)
EXTENDS MixedRuntime

CONSTANTS p1, q1, e1, e2, r1, r2, none, exec, advisor, o1, o2, o3, o4

Req(kind) ==
    [kind |-> kind, evidence |-> {}, reason |-> none, agent |-> exec,
     bucket |-> "active", dryRun |-> FALSE]

Complete1 == [Req("complete") EXCEPT !.evidence = {e1}]
Block1 == [Req("block") EXCEPT !.reason = r1]

MCRequests ==
    {Complete1, [Complete1 EXCEPT !.dryRun = TRUE],
     Block1, [Block1 EXCEPT !.dryRun = TRUE],
     [Req("consult") EXCEPT !.agent = advisor],
     Req("status")}
        \cup {[Req("list") EXCEPT !.bucket = b] : b \in {"active", "completed"}}

PsReq(kind) ==
    [kind |-> kind, evidence |-> {}, reason |-> none, agent |-> exec, blocking |-> FALSE]

MCShellRequests ==
    {[PsReq("complete") EXCEPT !.evidence = {e1}],
     [PsReq("complete") EXCEPT !.evidence = {e2}],
     [PsReq("block") EXCEPT !.reason = r1],
     [PsReq("consult") EXCEPT !.agent = advisor],
     [PsReq("consult") EXCEPT !.agent = advisor, !.blocking = TRUE]}
===============================================================================
