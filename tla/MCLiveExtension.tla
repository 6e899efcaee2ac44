-------------------------- MODULE MCLiveExtension --------------------------
(* Two folders, two chats of the first one, sessions with and without a      *)
(* choreography, a graph whose rules activate agents in both ways.           *)
EXTENDS LiveExtension

CONSTANTS w1, w2, a, b

Quiescent == [rules |-> <<>>, agents |-> <<>>, domains |-> <<>>, specialists |-> <<>>,
              skills |-> <<>>, subs |-> <<>>, ev |-> 0]
MCSessionData ==
    [empty |-> Quiescent,
     code |-> [Quiescent EXCEPT !.rules = <<"r1">>, !.agents = <<"writer">>,
                                !.skills = <<"edit">>, !.subs = <<"shell">>, !.ev = 2]]

Edge(type, from, to) == [type |-> type, from |-> from, to |-> to, via |-> None]
MCGraphData ==
    [full |->
       [rules |-> <<[id |-> "r1", agents |-> <<"writer">>], [id |-> "r2", agents |-> <<>>],
                    [id |-> "r3", agents |-> <<>>]>>,
        agents |-> <<[id |-> "writer", kind |-> "operational", skills |-> <<"lint">>,
                      consults |-> <<"style">>],
                     [id |-> "style", kind |-> "domain", skills |-> <<>>,
                      consults |-> <<>>]>>,
        skills |-> <<"edit", "lint">>,
        edges |-> <<Edge("may_invoke_skill", "writer", "edit"),
                    Edge("activates_agent", "r2", "style")>>]]

MCFolderOrder == <<w1, w2>>
MCHome == a :> w1 @@ b :> w1
MCFolderOf == [f1 |-> w2]

\* A window opened on an ARAH folder where chat a has run.
MCInit ==
    /\ Init /\ arah = {w1} /\ editor = None
    /\ manifest = (w1 :> a @@ w2 :> None)
MCSpec == MCInit /\ [][Next]_vars
=============================================================================
