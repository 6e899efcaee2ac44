----------------------------- MODULE FocusFeed -----------------------------
(***************************************************************************)
(* What the panel may count on from the composer's watcher: a chat and its *)
(* name per folder (getLastComposerFocus), and a call of onFocus after     *)
(* every change of the focus, late because a script runs in between.  A    *)
(* new name alone comes without a call.  ComposerFocus implements this.    *)
(***************************************************************************)
EXTENDS LiveWorkspace

VARIABLES
    lastFocusMeta,  \* folder -> [cid, name] as last read, or None
    owed            \* folders whose focus changed and onFocus was not called

feedVars == <<lastFocusMeta, owed>>

Focus == [cid : Chats, name : ChatNames \cup {None}]

FeedTypeOK ==
    /\ lastFocusMeta \in [Folders -> Focus \cup {None}]
    /\ owed \subseteq Folders

FeedInit == lastFocusMeta = [f \in Folders |-> None] /\ owed = {}

\* The poll reads a focus with a new signature and runs conversation-focus,
\* if there is anything to run.
FocusMoves(f, focus) ==
    /\ lastFocusMeta' = [lastFocusMeta EXCEPT ![f] = focus]
    /\ owed' = owed \cup {f}

\* The run is over, one way or the other.
AnnouncedOnFocus(f) ==
    /\ f \in owed /\ owed' = owed \ {f}
    /\ UNCHANGED lastFocusMeta

FocusRenamed(f, focus) ==
    /\ lastFocusMeta[f] # None /\ lastFocusMeta[f].cid = focus.cid
    /\ lastFocusMeta' = [lastFocusMeta EXCEPT ![f] = focus]
    /\ UNCHANGED owed

FeedCleared ==
    /\ lastFocusMeta' = [f \in Folders |-> None]
    /\ UNCHANGED owed

FeedNext ==
    \/ \E f \in Folders :
          \/ AnnouncedOnFocus(f)
          \/ \E focus \in Focus : \/ FocusMoves(f, focus)
                                  \/ FocusRenamed(f, focus)
    \/ FeedCleared

\* onFocus is called in the end.
FeedSpec ==
    /\ FeedInit /\ [][FeedNext]_feedVars
    /\ \A f \in Folders : WF_feedVars(AnnouncedOnFocus(f))
=============================================================================
