-------------------------- MODULE MCComposerFocus --------------------------
(* Two chats in the first of two folders; the sessions are empty or          *)
(* choreographed.                                                           *)
EXTENDS ComposerFocus

CONSTANTS w1, w2, a, b

Quiescent == [rules |-> <<>>, agents |-> <<>>, domains |-> <<>>, specialists |-> <<>>,
              skills |-> <<>>, subs |-> <<>>, ev |-> 0]
MCSessionData ==
    [empty |-> Quiescent,
     docs |-> [Quiescent EXCEPT !.rules = <<"r1">>, !.agents = <<"writer">>, !.ev = 1]]
MCGraphData == [full |-> [rules |-> <<>>, agents |-> <<>>, skills |-> <<>>, edges |-> <<>>]]

MCFolderOrder == <<w1, w2>>
MCHome == a :> w1 @@ b :> w1
MCFolderOf == [f1 |-> w1]

\* A window opened on two ARAH folders where no session was ever written; the
\* chats have no names yet.
MCInit ==
    /\ FocusInit /\ arah = Folders
    /\ manifest = [f \in Folders |-> None] /\ header = [d \in Chats |-> None]
MCSpec ==
    /\ MCInit /\ [][FocusNext]_focusVars
    /\ WF_focusVars(PollLoop) /\ WF_focusVars(FocusScript)
=============================================================================
