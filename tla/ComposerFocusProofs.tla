------------------------ MODULE ComposerFocusProofs ------------------------
(***************************************************************************)
(* The chat the panel is told of has a session file of its own once the    *)
(* poll that found it is over, and the watcher keeps its contract,         *)
(* FocusFeed.  Both rest on what the watcher remembers: the signature it   *)
(* compares with is one of the focus it shows, and the chat that           *)
(* conversation-focus would skip has a file, which no hook and no other    *)
(* script takes away for good.                                             *)
(***************************************************************************)
EXTENDS ComposerFocus, LiveWorkspaceProofs

\* The order of the chats stays one of chats.
LEMMA ToFrontType ==
    ASSUME NEW order \in Seq(Chats), NEW c \in Chats
    PROVE  ToFront(order, c) \in Seq(Chats) /\ ToFront(order, c) # <<>>
<1>1. CASE c \notin ToSet(order)
    BY <1>1 DEF ToFront
<1>2. CASE c \in ToSet(order)
    <2> DEFINE i == CHOOSE i \in DOMAIN order : order[i] = c
    <2>1. i \in 1..Len(order)
        BY <1>2 DEF ToSet
    <2>2. SubSeq(order, 1, i - 1) \in Seq(Chats) /\ SubSeq(order, i + 1, Len(order)) \in Seq(Chats)
        <3> HIDE DEF i
        <3> QED
            BY <2>1
    <2>3. ToFront(order, c) = <<c>> \o (SubSeq(order, 1, i - 1) \o SubSeq(order, i + 1, Len(order)))
        BY <1>2 DEF ToFront, RemoveAt
    <2> HIDE DEF i
    <2> QED
        BY <2>2, <2>3
<1> QED
    BY <1>1, <1>2

-----------------------------------------------------------------------------
(* Types.                                                                  *)

\* Files of the editor that are in one of the window's folders.
Resolvable == {file \in Files : FolderOf[file] \in Folders}

\* What context-resolve is run for is in a folder of the window, and a run that
\* has got past its start has a chat.
EditorOK ==
    /\ editorTimer \in Resolvable \cup {None}
    /\ \A r \in editorRuns :
          /\ r.file \in Resolvable
          /\ r.step # "started" => r.chat # None

TypeInv == WorkspaceInv /\ FocusTypeOK /\ EditorOK

LEMMA TypeStart == FocusInit => TypeInv
<1> SUFFICES ASSUME FocusInit PROVE TypeInv
    OBVIOUS
<1>1. WorkspaceInv
    BY WorkspaceStart DEF FocusInit
<1>2. PICK c \in [Folders -> Chats \cup {None}] :
        composer = [f \in Folders |-> [order |-> <<>>, selected |-> c[f]]]
    BY DEF FocusInit
<1>3. composer \in [Folders -> [order : Seq(Chats), selected : Chats \cup {None}]]
    BY <1>2
<1>4. editorTimer \in Resolvable \cup {None}
    BY <1>1 DEF FocusInit, EditorFolder, Resolvable, WorkspaceInv, WorkspaceTypeOK
<1>5. /\ lastFocusSignature \in [Folders -> (Chats \X Seq(Chats)) \cup {None}]
      /\ lastFocusMeta \in [Folders -> Focus \cup {None}]
    BY DEF FocusInit
<1>6. poll \in [pc : {"idle", "reading", "read", "resolving"},
                rest : SUBSET Folders, focus : Focus \cup {None}]
      /\ poll.pc = "idle" /\ poll.rest = {}
    BY DEF FocusInit, Idling
<1>7. FocusTypeOK
    BY <1>3, <1>4, <1>5, <1>6 DEF FocusInit, FocusTypeOK, Resolvable
<1> QED
    BY <1>1, <1>4, <1>7 DEF TypeInv, EditorOK, FocusInit

-----------------------------------------------------------------------------
(* The files under the steps of the scripts and of everybody else.         *)

\* A step that leaves the files alone, but for the count of events.
LEMMA FilesAlone ==
    ASSUME WorkspaceInv, Event \/ UNCHANGED events,
           UNCHANGED <<arah, editor, manifest, session, legacy, graph, hook>>
    PROVE  WorkspaceInv' /\ Kept
<1>1. events' \in 0..MaxEvents
    BY WorkspaceAssumption DEF Event, WorkspaceInv, WorkspaceTypeOK
<1> QED
    BY <1>1 DEF WorkspaceInv, WorkspaceTypeOK, SessionsNamed, Kept, HasFile

\* A script writes a chat's file.
LEMMA ScriptWrites ==
    ASSUME WorkspaceInv, NEW f \in Folders, NEW file \in SessionFile, WriteSession(f, file),
           UNCHANGED <<arah, editor, manifest, graph, hook, events>>
    PROVE  WorkspaceInv' /\ Kept
<1>1. /\ session' \in [Folders -> [SessionIds -> SessionFile \cup {None}]]
      /\ legacy' \in [Folders -> SessionFile \cup {NoSession}]
      /\ SessionsNamed'
      /\ \A g \in Folders, d \in SessionIds :
            session[g][d] # None => session'[g][d] # None
    BY WriteSessionStep
<1> QED
    BY <1>1 DEF WorkspaceInv, WorkspaceTypeOK, Kept, HasFile

\* The conversation-focus in progress is for a chat, in a folder of the window.
LEMMA RunType ==
    ASSUME TypeInv, focusRun # None
    PROVE  /\ focusRun \in [folder : Folders, focus : Focus, step : Steps]
           /\ focusRun.folder \in Folders /\ focusRun.focus.cid \in SessionIds
BY DEF TypeInv, FocusTypeOK, Focus, SessionIds

LEMMA FilesStep ==
    ASSUME TypeInv, [FocusNext]_focusVars
    PROVE  WorkspaceInv' /\ Kept
<1>0. WorkspaceInv
    BY DEF TypeInv
<1>1. CASE UNCHANGED focusVars
    BY <1>0, <1>1, FilesAlone DEF focusVars, fileVars
<1>2. CASE User
    BY <1>0, <1>2, FilesAlone DEF User, FocusTab, RenameChat, FocusCommand, WatcherDisposed
<1>3. CASE Surroundings
    <2>1. ASSUME NEW c \in Chats, NEW b \in Bodies, HookBegins(Home[c], c, b)
          PROVE  WorkspaceInv' /\ Kept
        <3>1. Home[c] \in Folders
            BY FocusAssumption
        <3> QED
            BY <1>0, <2>1, <3>1, HookBeginsStep
    <2> QED
        BY <1>0, <1>3, <2>1, HookEndsStep, WindowStep DEF Surroundings
<1>4. CASE PollLoop
    BY <1>0, <1>4, FilesAlone
    DEF PollLoop, PollStarts, ReadFocus, PollSeesNoChange, PollRunsScript, PollFindsResolved,
        FocusBegins, FocusReturnsOnFocus, fileVars
<1>5. CASE FocusScriptPoints
    BY <1>0, <1>5, RunType, EnsureSessionStep DEF FocusScriptPoints, AtStep
<1>6. CASE FocusScriptWrites
    <2> DEFINE f == focusRun.folder
               old == ReadSession(f, focusRun.focus.cid)
               name == focusRun.focus.name
               file(b) == [old EXCEPT !.body = b, !.chat = IF name # None THEN name ELSE @]
    <2>1. focusRun # None
        BY <1>6 DEF FocusScriptWrites, AtStep
    <2>2. f \in Folders /\ old \in SessionFile /\ name \in ChatNames \cup {None}
        BY <1>0, <2>1, RunType, ReadSessionType DEF Focus
    <2>3. \A b \in Bodies : file(b) \in SessionFile
        BY <2>2 DEF SessionFile
    <2>4. old.body \in Bodies
        BY <2>2 DEF SessionFile
    <2>5. PICK b \in Choreograph(old.body) : WriteSession(f, file(b))
        BY <1>6 DEF FocusScriptWrites
    <2>6. b \in Bodies
        BY <2>4, <2>5 DEF Choreograph
    <2>7. UNCHANGED <<arah, editor, manifest, graph, hook, events>>
        BY <1>6 DEF FocusScriptWrites
    <2> HIDE DEF f, file
    <2> QED
        BY <1>0, <2>2, <2>3, <2>5, <2>6, <2>7, ScriptWrites
<1>7. CASE EditorAlreadyResolvedOnDone \/ EditorRunStarts
    BY <1>0, <1>7, FilesAlone DEF EditorAlreadyResolvedOnDone, EditorRunStarts, fileVars
<1>8. ASSUME NEW r \in editorRuns, EditorScriptPoints(r)
      PROVE  WorkspaceInv' /\ Kept
    <2>1. FolderOf[r.file] \in Folders /\ r.chat \in SessionIds \cup {None}
        BY DEF TypeInv, FocusTypeOK, EditorOK, Resolvable
    <2>2. EditorChat \in SessionIds
        BY DEF SessionIds
    <2> QED
        BY <1>0, <1>8, <2>1, <2>2, EnsureSessionStep, FilesAlone DEF EditorScriptPoints
<1>9. ASSUME NEW r \in editorRuns, EditorScriptApplies(r)
      PROVE  WorkspaceInv' /\ Kept
    <2> DEFINE f == FolderOf[r.file]
               file(b) == [ReadSession(f, r.chat) EXCEPT !.body = b]
    <2>1. f \in Folders /\ r.chat \in SessionIds
        BY <1>9 DEF TypeInv, FocusTypeOK, EditorOK, Resolvable, EditorScriptApplies
    <2>2. ReadSession(f, r.chat) \in SessionFile
        BY <1>0, <2>1, ReadSessionType
    <2>3. \A b \in Bodies : file(b) \in SessionFile
        BY <2>2 DEF SessionFile
    <2>4. (\E b \in Bodies : WriteSession(f, file(b))) \/ UNCHANGED <<session, legacy>>
        BY <1>9 DEF EditorScriptApplies
    <2>5. UNCHANGED <<arah, editor, manifest, graph, hook, events>>
        BY <1>9 DEF EditorScriptApplies
    <2> HIDE DEF f, file
    <2> QED
        BY <1>0, <2>1, <2>3, <2>4, <2>5, ScriptWrites, FilesAlone
<1>10. ASSUME NEW r \in editorRuns, EditorReturnsOnDone(r) \/ EditorFailsOnDone(r)
       PROVE  WorkspaceInv' /\ Kept
    BY <1>0, <1>10, FilesAlone DEF EditorReturnsOnDone, EditorFailsOnDone, fileVars
<1>11. CASE ReadFails \/ FocusFailsOnFocus
    BY <1>0, <1>11, FilesAlone DEF ReadFails, FocusFailsOnFocus
<1> QED
    BY <1>1, <1>2, <1>3, <1>4, <1>5, <1>6, <1>7, <1>8, <1>9, <1>10, <1>11
    DEF FocusNext, FocusScript, EditorContext, Failure

-----------------------------------------------------------------------------
(* The variables of the watcher.                                           *)

Reading == [pc : {"idle", "reading", "read", "resolving"},
            rest : SUBSET Folders, focus : Focus \cup {None}]
Run == [folder : Folders, focus : Focus, step : Steps]
Signatures == (Chats \X Seq(Chats)) \cup {None}

\* While a poll has a folder to see, that folder is one of the window's.
LEMMA HereType ==
    ASSUME TypeInv, poll.pc # "idle"
    PROVE  Here \in poll.rest /\ Here \in Folders
<1>1. poll.rest \in (SUBSET Folders) \ {{}}
    BY DEF TypeInv, FocusTypeOK
<1> QED
    BY <1>1, FirstFolderIn DEF Here

\* Going on to the next folder leaves a poll that reads, or none.
LEMMA NextFolderType ==
    ASSUME TypeInv, poll.pc # "idle", NextFolder
    PROVE  /\ poll' \in Reading /\ poll'.pc # "resolving" /\ poll'.pc # "read"
           /\ poll'.pc = "idle" <=> poll'.rest = {}
<1>1. poll.rest \subseteq Folders /\ Here \in poll.rest
    BY HereType DEF TypeInv, FocusTypeOK
<1> QED
    BY <1>1 DEF NextFolder, Idling, Reading

\* What Cursor's database says is focused.
LEMMA ReadComposerType ==
    ASSUME TypeInv, NEW f \in Folders
    PROVE  ReadComposer(f) \in Focus \cup {None}
<1>1. composer[f] \in [order : Seq(Chats), selected : Chats \cup {None}]
      /\ header \in [Chats -> ChatNames \cup {None}]
    BY DEF TypeInv, FocusTypeOK
<1>2. composer[f].order \in Seq(Chats) /\ composer[f].selected \in Chats \cup {None}
    BY <1>1
<1>3. Focused(f) \in Chats \cup {None}
    BY <1>2 DEF Focused
<1> QED
    BY <1>1, <1>2, <1>3 DEF ReadComposer, Focus

\* A poll that has found a new focus.
LEMMA ChangeType ==
    ASSUME TypeInv, PollSeesChange
    PROVE  /\ poll.pc = "read" /\ Here \in Folders /\ poll.focus \in Focus
           /\ lastFocusMeta' = [lastFocusMeta EXCEPT ![Here] = poll.focus]
           /\ lastFocusSignature' = [lastFocusSignature EXCEPT ![Here] = Signature(poll.focus)]
           /\ lastFocusMeta' \in [Folders -> Focus \cup {None}]
           /\ lastFocusSignature' \in [Folders -> Signatures]
<1>1. poll.pc = "read" /\ poll.focus # None
    BY DEF PollSeesChange, Changed
<1>2. Here \in Folders /\ poll.focus \in Focus
    BY <1>1, HereType DEF TypeInv, FocusTypeOK
<1>3. Signature(poll.focus) \in Signatures
    BY <1>2 DEF Signature, Focus, Signatures
<1>4. /\ lastFocusMeta' = [lastFocusMeta EXCEPT ![Here] = poll.focus]
      /\ lastFocusSignature' = [lastFocusSignature EXCEPT ![Here] = Signature(poll.focus)]
    BY DEF PollSeesChange, Remember
<1> QED
    BY <1>1, <1>2, <1>3, <1>4 DEF TypeInv, FocusTypeOK, Signatures

LEMMA FocusBeginsType ==
    ASSUME TypeInv, PollSeesChange, NEW step \in {"started", "done"}, FocusBegins(step)
    PROVE  /\ focusRun' \in Run /\ focusRun' # None
           /\ poll' \in Reading /\ poll'.pc = "resolving" /\ poll'.rest # {}
<1>1. poll.pc = "read" /\ Here \in Folders /\ poll.focus \in Focus
    BY ChangeType
<1>2. focusRun' \in Run
    BY <1>1 DEF FocusBegins, Run, Steps
<1>3. poll \in Reading /\ poll.rest # {}
    BY <1>1 DEF TypeInv, FocusTypeOK, Reading
<1>4. poll' \in Reading /\ poll'.pc = "resolving" /\ poll'.rest = poll.rest
    BY <1>3 DEF FocusBegins, Reading
<1>5. None \notin Run
    BY FocusAssumption DEF Run
<1> QED
    BY <1>2, <1>3, <1>4, <1>5

LEMMA UserType ==
    ASSUME TypeInv, User
    PROVE  FocusTypeOK' /\ EditorOK'
<1>1. ASSUME NEW f \in Folders, NEW c \in Chats, FocusTab(f, c)
      PROVE  FocusTypeOK' /\ EditorOK'
    <2>1. composer[f] \in [order : Seq(Chats), selected : Chats \cup {None}]
        BY DEF TypeInv, FocusTypeOK
    <2>2. composer[f].order \in Seq(Chats)
        BY <2>1
    <2>3. ToFront(composer[f].order, c) \in Seq(Chats)
        BY <2>2, ToFrontType
    <2>4. composer' = [composer EXCEPT ![f] =
                          [composer[f] EXCEPT !.order = ToFront(composer[f].order, c)]]
        BY <1>1 DEF FocusTab
    <2>5. [composer[f] EXCEPT !.order = ToFront(composer[f].order, c)]
            \in [order : Seq(Chats), selected : Chats \cup {None}]
        BY <2>1, <2>3
    <2>6. composer' \in [Folders -> [order : Seq(Chats), selected : Chats \cup {None}]]
        BY <2>4, <2>5 DEF TypeInv, FocusTypeOK
    <2> QED
        BY <1>1, <2>6 DEF FocusTab, TypeInv, FocusTypeOK, EditorOK, pollVars, editorVars
<1>2. ASSUME NEW c \in Chats, NEW n \in ChatNames, RenameChat(c, n)
      PROVE  FocusTypeOK' /\ EditorOK'
    BY <1>2 DEF RenameChat, TypeInv, FocusTypeOK, EditorOK, pollVars, editorVars
<1>3. CASE FocusCommand
    <2>1. editorTimer' \in Resolvable
        BY <1>3 DEF FocusCommand, EditorFolder, Resolvable, TypeInv, WorkspaceInv, WorkspaceTypeOK
    <2> QED
        BY <1>3, <2>1 DEF FocusCommand, TypeInv, FocusTypeOK, EditorOK, pollVars, dbVars, Resolvable
<1>4. CASE WatcherDisposed
    BY <1>4 DEF WatcherDisposed, TypeInv, FocusTypeOK, EditorOK, editorVars, dbVars
<1> QED
    BY <1>1, <1>2, <1>3, <1>4 DEF User

LEMMA PollType ==
    ASSUME TypeInv, PollLoop \/ ReadFails \/ FocusFailsOnFocus
    PROVE  FocusTypeOK' /\ EditorOK'
<1>1. CASE PollStarts
    BY <1>1 DEF PollStarts, TypeInv, FocusTypeOK, EditorOK, editorVars, dbVars, WorkspaceInv, WorkspaceTypeOK
<1>2. CASE ReadFocus
    <2>1. poll.pc = "reading" /\ ReadComposer(Here) \in Focus \cup {None}
        BY <1>2, HereType, ReadComposerType DEF ReadFocus
    <2>2. poll' \in Reading /\ poll'.pc = "read" /\ poll'.rest = poll.rest
        BY <1>2, <2>1 DEF ReadFocus, Reading, TypeInv, FocusTypeOK
    <2> QED
        BY <1>2, <2>1, <2>2 DEF ReadFocus, Reading, TypeInv, FocusTypeOK, EditorOK, editorVars, dbVars
<1>3. CASE PollSeesNoChange
    <2>1. /\ poll' \in Reading /\ poll'.pc # "resolving"
          /\ poll'.pc = "idle" <=> poll'.rest = {}
          /\ poll.pc = "read"
        BY <1>3, NextFolderType DEF PollSeesNoChange
    <2>2. lastFocusMeta' \in [Folders -> Focus \cup {None}]
        BY <1>3, HereType DEF PollSeesNoChange, Remember, TypeInv, FocusTypeOK
    <2> QED
        BY <1>3, <2>1, <2>2 DEF PollSeesNoChange, Reading, TypeInv, FocusTypeOK, EditorOK, editorVars, dbVars
<1>4. ASSUME NEW step \in {"started", "done"}, PollSeesChange, FocusBegins(step)
      PROVE  FocusTypeOK' /\ EditorOK'
    <2>1. /\ lastFocusMeta' \in [Folders -> Focus \cup {None}]
          /\ lastFocusSignature' \in [Folders -> Signatures]
        BY <1>4, ChangeType
    <2>2. /\ focusRun' \in Run /\ focusRun' # None
          /\ poll' \in Reading /\ poll'.pc = "resolving" /\ poll'.rest # {}
        BY <1>4, FocusBeginsType
    <2> QED
        BY <1>4, <2>1, <2>2
        DEF FocusBegins, Run, Signatures, Reading, TypeInv, FocusTypeOK, EditorOK, editorVars, dbVars
<1>5. CASE FocusReturnsOnFocus
    <2>1. /\ poll' \in Reading /\ poll'.pc # "resolving"
          /\ poll'.pc = "idle" <=> poll'.rest = {}
        BY <1>5, NextFolderType DEF FocusReturnsOnFocus, TypeInv, FocusTypeOK
    <2>2. lastConversationKey' \in (Folders \X Chats \X (ChatNames \cup {None}))
        BY <1>5, RunType DEF FocusReturnsOnFocus, Key, Focus
    <2> QED
        BY <1>5, <2>1, <2>2 DEF FocusReturnsOnFocus, Reading, TypeInv, FocusTypeOK, EditorOK, editorVars, dbVars
<1>6. CASE ReadFails
    <2>1. poll' \in Reading /\ poll'.pc = "read" /\ poll'.rest = poll.rest /\ poll.pc = "reading"
        BY <1>6 DEF ReadFails, Reading, TypeInv, FocusTypeOK
    <2>2. cachedNode' \in {"unknown", "found", "missing"}
        BY <1>6 DEF ReadFails, TypeInv, FocusTypeOK
    <2> QED
        BY <1>6, <2>1, <2>2 DEF ReadFails, Reading, TypeInv, FocusTypeOK, EditorOK, editorVars, dbVars
<1>7. CASE FocusFailsOnFocus
    <2>1. /\ poll' \in Reading /\ poll'.pc # "resolving"
          /\ poll'.pc = "idle" <=> poll'.rest = {}
        BY <1>7, NextFolderType DEF FocusFailsOnFocus, TypeInv, FocusTypeOK
    <2> QED
        BY <1>7, <2>1 DEF FocusFailsOnFocus, Reading, TypeInv, FocusTypeOK, EditorOK, editorVars, dbVars
<1> QED
    BY <1>1, <1>2, <1>3, <1>4, <1>5, <1>6, <1>7 DEF PollLoop, PollRunsScript, PollFindsResolved

LEMMA ScriptType ==
    ASSUME TypeInv, FocusScript
    PROVE  FocusTypeOK' /\ EditorOK'
<1>1. \E step \in {"pointed", "done"} : focusRun' = [focusRun EXCEPT !.step = step]
    BY DEF FocusScript, FocusScriptPoints, FocusScriptWrites
<1>2. focusRun # None /\ focusRun \in Run
    BY RunType DEF FocusScript, FocusScriptPoints, FocusScriptWrites, AtStep, Run
<1>3. focusRun' \in Run
    BY <1>1, <1>2 DEF Run, Steps
<1>4. focusRun' # None
    BY <1>3, FocusAssumption DEF Run
<1>5. UNCHANGED <<dbVars, cachedNode, pollTimer, poll, lastFocusSignature, lastFocusMeta,
                  lastConversationKey, editorVars, faulted>>
    BY DEF FocusScript, FocusScriptPoints, FocusScriptWrites
<1> QED
    BY <1>2, <1>3, <1>4, <1>5
    DEF Run, TypeInv, FocusTypeOK, EditorOK, dbVars, editorVars

\* The runs of context-resolve, when one of them has got further.
LEMMA AdvanceType ==
    ASSUME TypeInv, NEW r \in editorRuns, NEW c \in SessionIds, NEW step \in Steps,
           \/ Advance(r, [r EXCEPT !.chat = c, !.step = step])
           \/ r.chat = c /\ Advance(r, [r EXCEPT !.step = step])
    PROVE  /\ editorRuns' \subseteq [n : 1..MaxRuns, file : Files,
                                     chat : SessionIds \cup {None}, step : Steps]
           /\ \A q \in editorRuns' : /\ q.file \in Resolvable
                                     /\ q.step # "started" => q.chat # None
<1> DEFINE Runs == [n : 1..MaxRuns, file : Files, chat : SessionIds \cup {None}, step : Steps]
<1>1. r \in Runs /\ r.file \in Resolvable /\ editorRuns \subseteq Runs
    BY DEF TypeInv, FocusTypeOK, EditorOK
<1>2. c # None
    BY WorkspaceAssumption DEF SessionIds
<1>3. PICK q \in Runs : /\ q.file = r.file /\ q.chat = c
                        /\ editorRuns' = (editorRuns \ {r}) \cup {q}
    <2>1. CASE Advance(r, [r EXCEPT !.chat = c, !.step = step])
        <3> DEFINE q == [r EXCEPT !.chat = c, !.step = step]
        <3>1. q \in Runs /\ q.file = r.file /\ q.chat = c
            BY <1>1
        <3> HIDE DEF q
        <3> QED
            BY <2>1, <3>1 DEF Advance, q
    <2>2. CASE r.chat = c /\ Advance(r, [r EXCEPT !.step = step])
        <3> DEFINE q == [r EXCEPT !.step = step]
        <3>1. q \in Runs /\ q.file = r.file /\ q.chat = c
            BY <1>1, <2>2
        <3> HIDE DEF q
        <3> QED
            BY <2>2, <3>1 DEF Advance, q
    <2> QED
        BY <2>1, <2>2
<1> QED
    BY <1>1, <1>2, <1>3 DEF TypeInv, EditorOK

LEMMA EditorType ==
    ASSUME TypeInv, EditorContext \/ \E r \in editorRuns : EditorFailsOnDone(r)
    PROVE  FocusTypeOK' /\ EditorOK'
<1> DEFINE Runs == [n : 1..MaxRuns, file : Files, chat : SessionIds \cup {None}, step : Steps]
           RunsOK == /\ editorRuns \subseteq Runs
                     /\ \A q \in editorRuns : /\ q.file \in Resolvable
                                              /\ q.step # "started" => q.chat # None
<1>1. RunsOK'
    <2>1. CASE EditorAlreadyResolvedOnDone
        BY <2>1 DEF EditorAlreadyResolvedOnDone, TypeInv, FocusTypeOK, EditorOK
    <2>2. CASE EditorRunStarts
        <3>1. editorTimer \in Resolvable
            BY <2>2 DEF EditorRunStarts, TypeInv, EditorOK
        <3>2. manifest[FolderOf[editorTimer]] \in SessionIds \cup {None}
            BY <3>1 DEF Resolvable, TypeInv, WorkspaceInv, WorkspaceTypeOK
        <3>3. PICK n \in 1..MaxRuns :
                editorRuns' = editorRuns \cup
                  {[n |-> n, file |-> editorTimer, chat |-> manifest[FolderOf[editorTimer]],
                    step |-> "started"]}
            BY <2>2 DEF EditorRunStarts
        <3> QED
            BY <3>1, <3>2, <3>3 DEF TypeInv, FocusTypeOK, EditorOK, Resolvable, Steps
    <2>3. ASSUME NEW r \in editorRuns, EditorScriptPoints(r)
          PROVE  RunsOK'
        <3>1. PICK c \in SessionIds : Advance(r, [r EXCEPT !.chat = c, !.step = "pointed"])
            <4>1. FolderOf[r.file] \in Folders /\ r.chat \in SessionIds \cup {None}
                BY DEF TypeInv, FocusTypeOK, EditorOK, Resolvable
            <4>2. EditorChat \in SessionIds
                BY DEF SessionIds
            <4>3. manifest[FolderOf[r.file]] \in SessionIds \cup {None}
                BY <4>1 DEF TypeInv, WorkspaceInv, WorkspaceTypeOK
            <4> QED
                BY <2>3, <4>1, <4>2, <4>3 DEF EditorScriptPoints
        <3> QED
            BY <3>1, AdvanceType DEF Steps
    <2>4. ASSUME NEW r \in editorRuns, EditorScriptApplies(r)
          PROVE  RunsOK'
        <3>1. r.chat \in SessionIds /\ Advance(r, [r EXCEPT !.step = "done"])
            BY <2>4 DEF TypeInv, FocusTypeOK, EditorOK, EditorScriptApplies
        <3> QED
            BY <3>1, AdvanceType DEF Steps
    <2>5. ASSUME NEW r \in editorRuns, EditorReturnsOnDone(r) \/ EditorFailsOnDone(r)
          PROVE  RunsOK'
        BY <2>5 DEF EditorReturnsOnDone, EditorFailsOnDone, TypeInv, FocusTypeOK, EditorOK
    <2> QED
        BY <2>1, <2>2, <2>3, <2>4, <2>5 DEF EditorContext
<1>2. /\ editorTimer' \in {editorTimer, None} /\ lastResolvedKey' \in Files \cup {None}
      /\ faulted' \in BOOLEAN /\ UNCHANGED <<dbVars, pollVars>>
    BY DEF EditorContext, EditorAlreadyResolvedOnDone, EditorRunStarts, EditorScriptPoints,
       EditorScriptApplies, EditorReturnsOnDone, EditorFailsOnDone, TypeInv, FocusTypeOK
<1> HIDE DEF RunsOK
<1>3. EditorOK'
    BY <1>1, <1>2 DEF RunsOK, TypeInv, EditorOK
<1> QED
    BY <1>1, <1>2, <1>3 DEF RunsOK, TypeInv, FocusTypeOK, EditorOK, dbVars, pollVars, Resolvable

\* TypeInv is inductive.
LEMMA TypeNext ==
    ASSUME TypeInv, [FocusNext]_focusVars
    PROVE  TypeInv'
<1>1. WorkspaceInv'
    BY FilesStep
<1>2. FocusTypeOK' /\ EditorOK'
    <2>1. CASE UNCHANGED focusVars \/ Surroundings
        BY <2>1 DEF focusVars, Surroundings, dbVars, pollVars, editorVars, TypeInv, FocusTypeOK, EditorOK
    <2> QED
        BY <2>1, UserType, PollType, ScriptType, EditorType DEF FocusNext, Failure
<1> QED
    BY <1>1, <1>2 DEF TypeInv

\* Types of every variable of the watcher: a poll in flight has a folder to see,
\* its script runs while it resolves, and nothing outside the window is touched
\* (composerFocusWatcher.ts, contextResolver.ts).
THEOREM FocusTypeCorrect == FocusSpec => []FocusTypeOK
<1>1. TypeInv => FocusTypeOK
    BY DEF TypeInv
<1> QED
    BY <1>1, TypeStart, TypeNext, PTL DEF FocusSpec

-----------------------------------------------------------------------------
(* The chats the panel is told of have their sessions.                     *)

\* The signature acted on is one of the focus last read.
SignatureOfFocus ==
    \A f \in Folders :
        lastFocusSignature[f] # None =>
            /\ lastFocusMeta[f] # None
            /\ lastFocusSignature[f][1] = lastFocusMeta[f].cid

\* The chat that conversation-focus would skip has a session.
ResolvedHasSession ==
    \A f \in Folders, c \in Chats, n \in ChatNames \cup {None} :
        lastConversationKey = <<f, c, n>> => HasFile(f, c)

\* So has the one it runs for, once the script has pointed at it.
RunHasSession ==
    (focusRun # None /\ focusRun.step # "started") =>
        HasFile(focusRun.folder, focusRun.focus.cid)

\* The script that will see to the chat has not done so yet.
Underway(f, c) ==
    /\ focusRun # None /\ focusRun.step = "started"
    /\ focusRun.folder = f /\ focusRun.focus.cid = c

FocusHasSession ==
    ~faulted =>
        \A f \in Folders :
            lastFocusMeta[f] # None =>
                \/ HasFile(f, lastFocusMeta[f].cid)
                \/ Underway(f, lastFocusMeta[f].cid)

SessionInv == SignatureOfFocus /\ ResolvedHasSession /\ RunHasSession /\ FocusHasSession

LEMMA SessionStart == FocusInit => SessionInv
<1> SUFFICES ASSUME FocusInit PROVE SessionInv
    OBVIOUS
<1>1. SignatureOfFocus /\ FocusHasSession
    BY DEF FocusInit, SignatureOfFocus, FocusHasSession
<1>2. ResolvedHasSession
    BY FocusAssumption DEF FocusInit, ResolvedHasSession
<1>3. RunHasSession
    BY DEF FocusInit, RunHasSession
<1> QED
    BY <1>1, <1>2, <1>3 DEF SessionInv

\* What a chat is known by is in the right set.
LEMMA FocusFacts ==
    ASSUME NEW focus \in Focus
    PROVE  /\ focus # None /\ focus.cid \in Chats /\ focus.cid \in SessionIds
           /\ focus.name \in ChatNames \cup {None}
           /\ Signature(focus) # None /\ Signature(focus)[1] = focus.cid
<1>1. focus.cid \in Chats /\ focus.order \in Seq(Chats) /\ focus.name \in ChatNames \cup {None}
    BY DEF Focus
<1>2. Signature(focus) \in Chats \X Seq(Chats)
    BY <1>1 DEF Signature
<1> QED
    BY <1>1, <1>2, FocusAssumption DEF Signature, SessionIds

\* Steps that leave the watcher's memory alone keep everything, as no session
\* goes away.
LEMMA MemoryAlone ==
    ASSUME TypeInv, SessionInv, Kept, faulted => faulted',
           UNCHANGED <<lastFocusSignature, lastFocusMeta, lastConversationKey, focusRun>>
    PROVE  SessionInv'
<1>1. \A f \in Folders : lastFocusMeta[f] # None => lastFocusMeta[f].cid \in SessionIds
    BY FocusFacts DEF TypeInv, FocusTypeOK
<1>2. \A c \in Chats : c \in SessionIds
    BY DEF SessionIds
<1>3. SignatureOfFocus'
    BY DEF SessionInv, SignatureOfFocus
<1>4. ResolvedHasSession'
    BY <1>2 DEF SessionInv, ResolvedHasSession, Kept
<1>5. RunHasSession'
    BY RunType DEF SessionInv, RunHasSession, Kept
<1>6. FocusHasSession'
    BY <1>1 DEF SessionInv, FocusHasSession, Kept, Underway
<1> QED
    BY <1>3, <1>4, <1>5, <1>6 DEF SessionInv

LEMMA SessionNext ==
    ASSUME TypeInv, SessionInv, [FocusNext]_focusVars
    PROVE  SessionInv'
<1>1. Kept
    BY FilesStep
<1>2. \A f \in Folders : lastFocusMeta[f] # None => lastFocusMeta[f] \in Focus
    BY DEF TypeInv, FocusTypeOK
<1>3. \A f \in Folders, c \in Chats : HasFile(f, c) => HasFile(f, c)'
    BY <1>1 DEF Kept, SessionIds
<1>4. CASE UNCHANGED focusVars \/ Surroundings \/ EditorContext
           \/ (\E r \in editorRuns : EditorFailsOnDone(r))
    <2>1. UNCHANGED <<lastFocusSignature, lastFocusMeta, lastConversationKey, focusRun>>
        BY <1>4
        DEF focusVars, pollVars, Surroundings, EditorContext, EditorAlreadyResolvedOnDone,
            EditorRunStarts, EditorScriptPoints, EditorScriptApplies, EditorReturnsOnDone,
            EditorFailsOnDone
    <2>2. faulted => faulted'
        BY <1>4
        DEF focusVars, Surroundings, EditorContext, EditorAlreadyResolvedOnDone,
            EditorRunStarts, EditorScriptPoints, EditorScriptApplies, EditorReturnsOnDone,
            EditorFailsOnDone
    <2> QED
        BY <1>1, <2>1, <2>2, MemoryAlone
<1>5. CASE PollStarts \/ ReadFocus \/ ReadFails
    BY <1>1, <1>5, MemoryAlone DEF PollStarts, ReadFocus, ReadFails
<1>6. CASE User
    <2>1. CASE WatcherDisposed
        <3>1. \A f \in Folders : lastFocusMeta'[f] = None /\ lastFocusSignature'[f] = None
            BY <2>1 DEF WatcherDisposed
        <3>2. UNCHANGED <<lastConversationKey, focusRun>>
            BY <2>1 DEF WatcherDisposed
        <3>3. RunHasSession'
            BY <1>1, <3>2, RunType DEF SessionInv, RunHasSession, Kept
        <3> QED
            BY <1>3, <3>1, <3>2, <3>3
            DEF SessionInv, SignatureOfFocus, ResolvedHasSession, FocusHasSession
    <2> QED
        BY <1>1, <1>6, <2>1, MemoryAlone
        DEF User, FocusTab, RenameChat, FocusCommand, pollVars
<1>7. CASE PollSeesNoChange
    <2>1. CASE poll.focus = None
        BY <1>1, <1>7, <2>1, MemoryAlone DEF PollSeesNoChange
    <2>2. CASE poll.focus # None
        <3>1. Here \in Folders /\ poll.focus \in Focus /\ poll.pc = "read"
            BY <1>7, <2>2, HereType DEF PollSeesNoChange, TypeInv, FocusTypeOK
        <3>2. lastFocusSignature[Here] = Signature(poll.focus)
            BY <1>7, <2>2, <3>1 DEF PollSeesNoChange, Changed
        <3>3. lastFocusMeta[Here] # None /\ lastFocusMeta[Here].cid = poll.focus.cid
            BY <3>1, <3>2, FocusFacts DEF SessionInv, SignatureOfFocus
        <3>4. \A f \in Folders :
                lastFocusMeta'[f] = IF f = Here THEN poll.focus ELSE lastFocusMeta[f]
            BY <1>7, <2>2, <3>1 DEF PollSeesNoChange, Remember, TypeInv, FocusTypeOK
        <3>5. UNCHANGED <<lastFocusSignature, lastConversationKey, focusRun, faulted>>
            BY <1>7 DEF PollSeesNoChange
        <3>6. \A f \in Folders :
                lastFocusMeta'[f] # None =>
                    lastFocusMeta[f] # None /\ lastFocusMeta'[f].cid = lastFocusMeta[f].cid
            BY <3>3, <3>4
        <3>7. SignatureOfFocus'
            BY <3>1, <3>3, <3>4, <3>5, FocusFacts DEF SessionInv, SignatureOfFocus
        <3>8. FocusHasSession'
            BY <1>2, <1>3, <3>5, <3>6, FocusFacts DEF SessionInv, FocusHasSession, Underway
        <3>9. RunHasSession'
            BY <1>1, <3>5, RunType DEF SessionInv, RunHasSession, Kept
        <3> QED
            BY <1>3, <3>5, <3>7, <3>8, <3>9 DEF SessionInv, ResolvedHasSession
    <2> QED
        BY <2>1, <2>2
<1>8. CASE PollFindsResolved \/ PollRunsScript
    <2>1. PollSeesChange /\ focusRun = None
        BY <1>8 DEF PollFindsResolved, PollRunsScript, PollSeesChange, Changed, TypeInv, FocusTypeOK
    <2>2. /\ Here \in Folders /\ poll.focus \in Focus
          /\ lastFocusMeta' = [lastFocusMeta EXCEPT ![Here] = poll.focus]
          /\ lastFocusSignature' = [lastFocusSignature EXCEPT ![Here] = Signature(poll.focus)]
        BY <2>1, ChangeType
    <2>3. \A f \in Folders :
            /\ lastFocusMeta'[f] = IF f = Here THEN poll.focus ELSE lastFocusMeta[f]
            /\ lastFocusSignature'[f] =
                 IF f = Here THEN Signature(poll.focus) ELSE lastFocusSignature[f]
        BY <2>2 DEF TypeInv, FocusTypeOK
    <2>4. UNCHANGED <<lastConversationKey, faulted>>
        BY <1>8 DEF PollFindsResolved, PollRunsScript, FocusBegins
    <2>5. PICK step \in {"started", "done"} :
            /\ focusRun' = [folder |-> Here, focus |-> poll.focus, step |-> step]
            /\ step = "done" => Key(Here, poll.focus) = lastConversationKey
        BY <1>8 DEF PollFindsResolved, PollRunsScript, FocusBegins
    <2>6. focusRun' # None
        BY <2>1, <2>2, <2>5, FocusAssumption DEF Steps
    <2> PICK f \in Folders, c \in Chats : f = Here /\ c = poll.focus.cid
        BY <2>2, FocusFacts
    <2>7. step = "done" => HasFile(f, c)'
        BY <1>3, <2>2, <2>5, FocusFacts DEF Key, SessionInv, ResolvedHasSession
    <2>8. SignatureOfFocus'
        BY <2>2, <2>3, FocusFacts DEF SessionInv, SignatureOfFocus
    <2>9. RunHasSession'
        BY <2>5, <2>7 DEF RunHasSession
    <2>10. FocusHasSession'
        <3> SUFFICES ASSUME ~faulted', NEW g \in Folders, lastFocusMeta'[g] # None
                     PROVE  \/ HasFile(g, lastFocusMeta[g].cid)'
                            \/ Underway(g, lastFocusMeta[g].cid)'
            BY DEF FocusHasSession
        <3>1. CASE g = f
            BY <2>3, <2>5, <2>6, <2>7, <3>1 DEF Underway
        <3>2. CASE g # f
            BY <1>2, <1>3, <2>1, <2>3, <2>4, <3>2, FocusFacts
            DEF SessionInv, FocusHasSession, Underway
        <3> QED
            BY <3>1, <3>2
    <2> QED
        BY <1>3, <2>4, <2>8, <2>9, <2>10 DEF SessionInv, ResolvedHasSession
<1>9. CASE FocusReturnsOnFocus
    <2>1. /\ focusRun # None /\ focusRun.step = "done" /\ focusRun' = None
          /\ lastConversationKey' = Key(focusRun.folder, focusRun.focus)
          /\ UNCHANGED <<lastFocusSignature, lastFocusMeta, faulted>>
        BY <1>9 DEF FocusReturnsOnFocus
    <2>2. focusRun.folder \in Folders /\ focusRun.focus \in Focus
        BY <2>1, RunType
    <2> PICK f \in Folders, c \in Chats : f = focusRun.folder /\ c = focusRun.focus.cid
        BY <2>2, FocusFacts
    <2>3. HasFile(f, c)'
        BY <1>3, <2>1, <2>2, FocusFacts DEF SessionInv, RunHasSession
    <2>4. ResolvedHasSession'
        BY <2>1, <2>3 DEF ResolvedHasSession, Key
    <2>5. FocusHasSession'
        BY <1>2, <1>3, <2>1, FocusFacts DEF SessionInv, FocusHasSession, Underway
    <2> QED
        BY <2>1, <2>4, <2>5 DEF SessionInv, SignatureOfFocus, RunHasSession
<1>10. CASE FocusFailsOnFocus
    BY <1>3, <1>10
    DEF FocusFailsOnFocus, SessionInv, SignatureOfFocus, ResolvedHasSession, RunHasSession,
        FocusHasSession
<1>11. CASE FocusScript
    <2>1. focusRun # None
        BY <1>11 DEF FocusScript, FocusScriptPoints, FocusScriptWrites, AtStep
    <2>2. /\ focusRun \in [folder : Folders, focus : Focus, step : Steps]
          /\ focusRun.folder \in Folders /\ focusRun.focus.cid \in SessionIds
        BY <2>1, RunType
    <2>3. UNCHANGED <<lastFocusSignature, lastFocusMeta, lastConversationKey, faulted>>
        BY <1>11 DEF FocusScript, FocusScriptPoints, FocusScriptWrites
    <2>4. focusRun'.folder = focusRun.folder /\ focusRun'.focus = focusRun.focus
        BY <1>11, <2>2 DEF FocusScript, FocusScriptPoints, FocusScriptWrites
    <2> PICK f \in Folders, c \in Chats : f = focusRun.folder /\ c = focusRun.focus.cid
        BY <2>2, FocusFacts
    <2>5. HasFile(f, c)'
        <3>1. CASE FocusScriptPoints
            BY <2>2, <3>1, EnsureSessionStep DEF FocusScriptPoints, TypeInv
        <3>2. CASE FocusScriptWrites
            BY <1>1, <2>1, <2>2, <3>2 DEF FocusScriptWrites, AtStep, Kept, SessionInv, RunHasSession
        <3> QED
            BY <1>11, <3>1, <3>2 DEF FocusScript
    <2>6. RunHasSession'
        BY <2>4, <2>5 DEF RunHasSession
    <2>7. FocusHasSession'
        BY <1>2, <1>3, <2>3, <2>5, FocusFacts DEF SessionInv, FocusHasSession, Underway
    <2> QED
        BY <1>3, <2>3, <2>6, <2>7 DEF SessionInv, SignatureOfFocus, ResolvedHasSession
<1> QED
    BY <1>4, <1>5, <1>6, <1>7, <1>8, <1>9, <1>10, <1>11 DEF FocusNext, PollLoop, Failure

\* While the poll is idle or reading a folder, and unless a run has failed, every chat
\* the panel has been told of has a session file of its own
\* (composerFocusWatcher.ts:97, contextResolver.ts:62-117).
THEOREM AnnouncedChatHasSession == FocusSpec => []AnnouncedHasSession
<1>1. TypeInv /\ SessionInv => AnnouncedHasSession
    BY DEF TypeInv, FocusTypeOK, SessionInv, FocusHasSession, Underway, AnnouncedHasSession
<1> QED
    BY <1>1, TypeStart, TypeNext, SessionStart, SessionNext, PTL DEF FocusSpec

-----------------------------------------------------------------------------
(* The watcher implements FocusFeed, step by step.                         *)

LEMMA FeedFolders == Feed!Folders = Folders
BY DEF Feed!Folders, Folders, Feed!ToSet, ToSet

LEMMA FeedStart == FocusInit => Feed!FeedInit
BY FeedFolders DEF FocusInit, Feed!FeedInit, FeedMeta, FeedOwed

LEMMA FeedFocus ==
    ASSUME NEW focus \in Focus
    PROVE  [cid |-> focus.cid, name |-> focus.name] \in Feed!Focus
BY DEF Focus, Feed!Focus

\* A focus that is remembered is shown.
LEMMA FeedRemembers ==
    ASSUME TypeInv, NEW f \in Folders, NEW focus \in Focus,
           lastFocusMeta' = [lastFocusMeta EXCEPT ![f] = focus]
    PROVE  FeedMeta' = [FeedMeta EXCEPT ![f] = [cid |-> focus.cid, name |-> focus.name]]
<1>1. focus # None
    BY FocusAssumption
<1>2. lastFocusMeta \in [Folders -> Focus \cup {None}]
    BY DEF TypeInv, FocusTypeOK
<1>3. \A g \in Folders : lastFocusMeta'[g] = IF g = f THEN focus ELSE lastFocusMeta[g]
    BY <1>2
<1> QED
    BY <1>1, <1>3 DEF FeedMeta

\* Every step of the watcher is one of its contract, or none: that a new name is
\* told apart from a new focus rests on the signature being the focus's own.
LEMMA FeedStep ==
    ASSUME TypeInv, SessionInv, [FocusNext]_focusVars
    PROVE  [Feed!FeedNext]_(Feed!feedVars)
<1>1. ASSUME UNCHANGED <<lastFocusMeta, focusRun>>
      PROVE  UNCHANGED Feed!feedVars
    BY <1>1 DEF Feed!feedVars, FeedMeta, FeedOwed
<1>2. CASE UNCHANGED focusVars \/ Surroundings \/ EditorContext
           \/ (\E r \in editorRuns : EditorFailsOnDone(r))
    BY <1>1, <1>2
    DEF focusVars, pollVars, Surroundings, EditorContext, EditorAlreadyResolvedOnDone,
        EditorRunStarts, EditorScriptPoints, EditorScriptApplies, EditorReturnsOnDone,
        EditorFailsOnDone
<1>3. CASE PollStarts \/ ReadFocus \/ ReadFails
    BY <1>1, <1>3 DEF PollStarts, ReadFocus, ReadFails
<1>4. CASE User
    <2>1. CASE WatcherDisposed
        <3>1. FeedMeta' = [f \in Folders |-> None] /\ UNCHANGED FeedOwed
            BY <2>1 DEF WatcherDisposed, FeedMeta, FeedOwed
        <3> QED
            BY <3>1, FeedFolders DEF Feed!FeedNext, Feed!FeedCleared
    <2> QED
        BY <1>1, <1>4, <2>1 DEF User, FocusTab, RenameChat, FocusCommand, pollVars
<1>5. CASE PollSeesNoChange
    <2>1. CASE poll.focus = None
        BY <1>1, <1>5, <2>1 DEF PollSeesNoChange
    <2>2. CASE poll.focus # None
        <3>1. Here \in Folders /\ poll.focus \in Focus /\ poll.pc = "read"
            BY <1>5, <2>2, HereType DEF PollSeesNoChange, TypeInv, FocusTypeOK
        <3> DEFINE shown == [cid |-> poll.focus.cid, name |-> poll.focus.name]
        <3>2. lastFocusSignature[Here] = Signature(poll.focus)
            BY <1>5, <2>2, <3>1 DEF PollSeesNoChange, Changed
        <3>3. lastFocusMeta[Here] # None /\ lastFocusMeta[Here].cid = poll.focus.cid
            BY <3>1, <3>2, FocusFacts DEF SessionInv, SignatureOfFocus
        <3>4. FeedMeta' = [FeedMeta EXCEPT ![Here] = shown]
            BY <1>5, <2>2, <3>1, FeedRemembers DEF PollSeesNoChange, Remember
        <3>5. UNCHANGED FeedOwed
            BY <1>5 DEF PollSeesNoChange, FeedOwed
        <3>6. shown \in Feed!Focus /\ shown.cid = poll.focus.cid
            BY <3>1, FeedFocus
        <3>7. lastFocusMeta[Here] \in Focus
            BY <3>1, <3>3 DEF TypeInv, FocusTypeOK
        <3>8. FeedMeta[Here].cid = shown.cid /\ FeedMeta[Here] # None
            BY <3>1, <3>3, <3>6, <3>7, FocusAssumption DEF FeedMeta, Focus
        <3> HIDE DEF shown
        <3> QED
            BY <3>1, <3>4, <3>5, <3>6, <3>8, FeedFolders DEF Feed!FeedNext, Feed!FocusRenamed
    <2> QED
        BY <2>1, <2>2
<1>6. CASE PollFindsResolved \/ PollRunsScript
    <2>1. PollSeesChange /\ focusRun = None
        BY <1>6 DEF PollFindsResolved, PollRunsScript, PollSeesChange, Changed, TypeInv, FocusTypeOK
    <2>2. /\ Here \in Folders /\ poll.focus \in Focus
          /\ lastFocusMeta' = [lastFocusMeta EXCEPT ![Here] = poll.focus]
        BY <2>1, ChangeType
    <2>3. \E step \in {"started", "done"} : FocusBegins(step)
        BY <1>6 DEF PollFindsResolved, PollRunsScript
    <2>4. focusRun' # None /\ focusRun'.folder = Here
        BY <2>1, <2>3, FocusBeginsType DEF FocusBegins
    <2>5. FeedOwed' = FeedOwed \cup {Here}
        BY <2>1, <2>4 DEF FeedOwed
    <2> QED
        BY <2>2, <2>5, FeedRemembers, FeedFocus, FeedFolders DEF Feed!FeedNext, Feed!FocusMoves
<1>7. CASE FocusReturnsOnFocus \/ FocusFailsOnFocus
    <2>1. focusRun # None /\ focusRun' = None /\ UNCHANGED lastFocusMeta
        BY <1>7 DEF FocusReturnsOnFocus, FocusFailsOnFocus
    <2>2. focusRun.folder \in Folders
        BY <2>1, RunType
    <2>3. /\ focusRun.folder \in FeedOwed /\ FeedOwed' = FeedOwed \ {focusRun.folder}
          /\ UNCHANGED FeedMeta
        BY <2>1 DEF FeedOwed, FeedMeta
    <2> QED
        BY <2>2, <2>3, FeedFolders DEF Feed!FeedNext, Feed!AnnouncedOnFocus
<1>8. CASE FocusScript
    <2>1. focusRun # None
        BY <1>8 DEF FocusScript, FocusScriptPoints, FocusScriptWrites, AtStep
    <2>2. /\ focusRun \in [folder : Folders, focus : Focus, step : Steps]
          /\ UNCHANGED lastFocusMeta
        BY <1>8, <2>1, RunType DEF FocusScript, FocusScriptPoints, FocusScriptWrites
    <2>3. focusRun' \in [folder : Folders, focus : Focus, step : Steps]
          /\ focusRun'.folder = focusRun.folder
        BY <1>8, <2>2 DEF FocusScript, FocusScriptPoints, FocusScriptWrites, Steps
    <2>4. focusRun' # None
        BY <2>3, FocusAssumption
    <2> QED
        BY <2>1, <2>2, <2>3, <2>4 DEF Feed!feedVars, FeedMeta, FeedOwed
<1> QED
    BY <1>2, <1>3, <1>4, <1>5, <1>6, <1>7, <1>8 DEF FocusNext, PollLoop, Failure

\* The safety part of FeedImplemented: the watcher starts as its contract does
\* and takes no step the contract forbids, so that what it calls the focus turns
\* to another chat only with a call of onFocus to come
\* (composerFocusWatcher.ts:90-118).
THEOREM FeedStepsImplemented ==
    FocusSpec => Feed!FeedInit /\ [][Feed!FeedNext]_(Feed!feedVars)
<1>1. TypeInv /\ SessionInv /\ [FocusNext]_focusVars => [Feed!FeedNext]_(Feed!feedVars)
    BY FeedStep
<1> QED
    BY <1>1, FeedStart, TypeStart, TypeNext, SessionStart, SessionNext, PTL DEF FocusSpec
=============================================================================
