--------------------------- MODULE ComposerFocus ---------------------------
(***************************************************************************)
(* How the extension follows the chat the user is looking at.              *)
(*                                                                         *)
(* composerFocusWatcher.ts polls, every 1.5 s and after writes to Cursor's *)
(* databases, which conversation is focused in every ARAH folder           *)
(* (composerReader.ts, which runs scripts/read-composer-focus.mjs); when   *)
(* the signature of the focus has changed it runs session-telemetry.ps1    *)
(* conversation-focus (contextResolver.ts), which points active.json at    *)
(* the chat.  Opening the panel runs context-resolve for the file in the   *)
(* editor, concurrently.                                                   *)
(*                                                                         *)
(* One poll runs at a time: between its steps, which are separated by      *)
(* awaits, everything else may happen.  The actions that end with a call   *)
(* of onFocus or onDone are named so: the composition adds the refresh.    *)
(***************************************************************************)
EXTENDS LiveWorkspace

CONSTANTS
    Home,       \* chat -> its folder
    MaxRuns     \* bound: context-resolve runs at a time

VARIABLES
    composer,       \* folder -> [order, selected]: Cursor's composer.composerData
    header,         \* chat -> its name in composer.composerHeaders
    cachedNode,     \* the node executable: "unknown", "found" or "missing"
    pollTimer,      \* the watcher is running
    poll,           \* the poll in flight: [pc, rest, focus], rest being the folders
                    \* it has still to see
    lastFocusSignature, \* folder -> signature acted on, or None
    lastFocusMeta,  \* folder -> focus last read, or None
    lastConversationKey,    \* the last run of conversation-focus that succeeded
    focusRun,       \* the conversation-focus in progress: [folder, focus, step]
    editorTimer,    \* the file whose context-resolve is scheduled, or None
    editorRuns,     \* context-resolve runs: [n, file, chat, step]
    lastResolvedKey,    \* the file whose context-resolve succeeded last
    faulted         \* a run of one of the scripts has failed or been cut short

dbVars == <<composer, header>>
pollVars == <<cachedNode, pollTimer, poll, lastFocusSignature, lastFocusMeta,
              lastConversationKey, focusRun>>
editorVars == <<editorTimer, editorRuns, lastResolvedKey>>
focusVars == <<fileVars, dbVars, pollVars, editorVars, faulted>>

Steps == {"started", "pointed", "done"}
Focus == [cid : Chats, name : ChatNames \cup {None}, order : Seq(Chats)]
Idling == [pc |-> "idle", rest |-> {}, focus |-> None]

ASSUME FocusAssumption ==
    /\ Home \in [Chats -> Folders]
    /\ None \notin Focus /\ None \notin Chats \X Seq(Chats)
    /\ None \notin [cid : Chats, name : ChatNames \cup {None}]
    /\ None \notin [folder : Folders, focus : Focus, step : Steps]
    /\ None \notin Folders \X Chats \X (ChatNames \cup {None})

FocusTypeOK ==
    /\ composer \in [Folders -> [order : Seq(Chats), selected : Chats \cup {None}]]
    /\ header \in [Chats -> ChatNames \cup {None}]
    /\ cachedNode \in {"unknown", "found", "missing"}
    /\ pollTimer \in BOOLEAN
    /\ poll \in [pc : {"idle", "reading", "read", "resolving"},
                 rest : SUBSET Folders, focus : Focus \cup {None}]
    /\ poll.pc = "idle" <=> poll.rest = {}
    /\ lastFocusSignature \in [Folders -> (Chats \X Seq(Chats)) \cup {None}]
    /\ lastFocusMeta \in [Folders -> Focus \cup {None}]
    /\ lastConversationKey \in (Folders \X Chats \X (ChatNames \cup {None})) \cup {None}
    /\ focusRun \in [folder : Folders, focus : Focus, step : Steps] \cup {None}
    /\ focusRun # None <=> poll.pc = "resolving"
    /\ editorTimer \in Files \cup {None}
    /\ editorRuns \subseteq [n : 1..MaxRuns, file : Files,
                             chat : SessionIds \cup {None}, step : Steps]
    /\ lastResolvedKey \in Files \cup {None} /\ faulted \in BOOLEAN

\* activate: the watcher polls at once, and the file in the editor, if there
\* is one in an ARAH folder, is resolved after 400 ms.
FocusInit ==
    /\ WorkspaceInit
    /\ \E c \in [Folders -> Chats \cup {None}] :
         /\ \A f \in Folders : c[f] # None => Home[c[f]] = f
         /\ composer = [f \in Folders |-> [order |-> <<>>, selected |-> c[f]]]
    /\ header \in [Chats -> {None} \cup ChatNames]
    /\ cachedNode = "unknown" /\ pollTimer = TRUE /\ poll = Idling
    /\ lastFocusSignature = [f \in Folders |-> None]
    /\ lastFocusMeta = [f \in Folders |-> None]
    /\ lastConversationKey = None /\ focusRun = None
    /\ editorTimer = IF EditorFolder # None THEN editor ELSE None
    /\ editorRuns = {} /\ lastResolvedKey = None /\ faulted = FALSE

-----------------------------------------------------------------------------
(* Cursor.                                                                 *)

\* The focused composer: the head of lastFocusedComposerIds, else of
\* selectedComposerIds.
Focused(f) ==
    IF composer[f].order # <<>> THEN Head(composer[f].order) ELSE composer[f].selected

ReadComposer(f) ==
    IF Focused(f) = None THEN None
    ELSE [cid |-> Focused(f), name |-> header[Focused(f)], order |-> composer[f].order]

Signature(focus) == <<focus.cid, focus.order>>

\* Mutant of Key: the chat is known by its name.
KeyOfName(f, focus) == <<f, focus.name>>

Key(f, focus) == <<f, focus.cid, focus.name>>

\* The chats in the order they were looked at last, each once.
ToFront(order, c) ==
    IF c \notin ToSet(order) THEN <<c>> \o order
    ELSE <<c>> \o RemoveAt(order, CHOOSE i \in DOMAIN order : order[i] = c)

\* The user turns to another chat tab.
FocusTab(f, c) ==
    /\ Event /\ Home[c] = f /\ Focused(f) # c
    /\ composer' = [composer EXCEPT ![f].order = ToFront(@, c)]
    /\ UNCHANGED <<arah, editor, manifest, session, legacy, graph, hook,
                   header, pollVars, editorVars, faulted>>

\* Cursor names or renames a chat.
RenameChat(c, n) ==
    /\ Event /\ header[c] # n
    /\ header' = [header EXCEPT ![c] = n]
    /\ UNCHANGED <<arah, editor, manifest, session, legacy, graph, hook,
                   composer, pollVars, editorVars, faulted>>

-----------------------------------------------------------------------------
(* The poll.                                                               *)

\* The folder the poll has got to: they are seen in the window's order.
Here == FirstFolder(poll.rest)

\* The interval or the database watcher fires; a poll in flight makes it return.
PollStarts ==
    /\ pollTimer /\ poll.pc = "idle" /\ arah # {}
    /\ poll' = [pc |-> "reading", rest |-> arah, focus |-> None]
    /\ UNCHANGED <<fileVars, dbVars, cachedNode, pollTimer, lastFocusSignature,
                   lastFocusMeta, lastConversationKey, focusRun, editorVars, faulted>>

\* readComposerFocus: with a node executable the script reads the databases.
ReadFocus ==
    /\ poll.pc = "reading"
    /\ cachedNode' = IF cachedNode = "unknown" THEN "found" ELSE cachedNode
    /\ poll' = [poll EXCEPT !.pc = "read",
                   !.focus = IF cachedNode = "missing" THEN None
                             ELSE ReadComposer(Here)]
    /\ UNCHANGED <<fileVars, dbVars, pollTimer, lastFocusSignature, lastFocusMeta,
                   lastConversationKey, focusRun, editorVars, faulted>>

\* The script fails or takes more than 5 s; or no candidate answers --version
\* in time, and the answer "no node" is kept for good.
ReadFails ==
    /\ Event /\ poll.pc = "reading"
    /\ cachedNode' \in IF cachedNode = "unknown" THEN {"found", "missing"} ELSE {cachedNode}
    /\ poll' = [poll EXCEPT !.pc = "read", !.focus = None]
    /\ UNCHANGED <<arah, editor, manifest, session, legacy, graph, hook,
                   dbVars, pollTimer, lastFocusSignature, lastFocusMeta,
                   lastConversationKey, focusRun, editorVars, faulted>>

\* Mutant of NextFolder: the poll in flight is not reset after the last folder.
NextFolderOnly ==
    poll' = [pc |-> "reading", rest |-> poll.rest \ {Here}, focus |-> None]

\* The loop goes on to the next folder, or the poll ends.
NextFolder ==
    poll' = IF poll.rest = {Here} THEN Idling
            ELSE [pc |-> "reading", rest |-> poll.rest \ {Here}, focus |-> None]

\* Mutant of Changed: only the first focus of a folder is acted on.
ChangedFirst == poll.pc = "read" /\ poll.focus # None
                /\ lastFocusSignature[Here] = None

Changed == poll.pc = "read" /\ poll.focus # None
           /\ lastFocusSignature[Here] # Signature(poll.focus)

Remember(f, focus) == lastFocusMeta' = [lastFocusMeta EXCEPT ![f] = focus]

\* Nothing was read, or the signature is the one already acted on: a new name
\* alone is remembered and no more.
PollSeesNoChange ==
    /\ poll.pc = "read" /\ ~Changed
    /\ IF poll.focus = None THEN UNCHANGED lastFocusMeta
       ELSE Remember(Here, poll.focus)
    /\ NextFolder
    /\ UNCHANGED <<fileVars, dbVars, cachedNode, pollTimer, lastFocusSignature,
                   lastConversationKey, focusRun, editorVars, faulted>>

FocusBegins(step) ==
    /\ poll' = [poll EXCEPT !.pc = "resolving"]
    /\ focusRun' = [folder |-> Here, focus |-> poll.focus, step |-> step]
    /\ UNCHANGED <<fileVars, dbVars, cachedNode, pollTimer, lastConversationKey,
                   editorVars, faulted>>

\* The signature is recorded before conversation-focus runs, whatever becomes
\* of it.
PollSeesChange ==
    LET f == Here
    IN /\ Changed
       /\ Remember(f, poll.focus)
       /\ lastFocusSignature' =
             [lastFocusSignature EXCEPT ![f] = Signature(poll.focus)]

\* resolveConversationFocus has nothing to run when this chat, under this name, is
\* the one it resolved last.
PollFindsResolved ==
    /\ PollSeesChange
    /\ Key(Here, poll.focus) = lastConversationKey
    /\ FocusBegins("done")

PollRunsScript ==
    /\ PollSeesChange
    /\ Key(Here, poll.focus) # lastConversationKey
    /\ FocusBegins("started")

FocusReturnsOnFocus ==
    /\ focusRun # None /\ focusRun.step = "done"
    /\ lastConversationKey' = Key(focusRun.folder, focusRun.focus)
    /\ focusRun' = None /\ NextFolder
    /\ UNCHANGED <<fileVars, dbVars, cachedNode, pollTimer, lastFocusSignature,
                   lastFocusMeta, editorVars, faulted>>

\* The script fails, is missing, or is killed after 10 s wherever it is; the
\* error is logged and the poll goes on as if it had run.
FocusFailsOnFocus ==
    /\ Event /\ focusRun # None
    /\ Key(focusRun.folder, focusRun.focus) # lastConversationKey
    /\ focusRun' = None /\ NextFolder /\ faulted' = TRUE
    /\ UNCHANGED <<arah, editor, manifest, session, legacy, graph, hook,
                   dbVars, cachedNode, pollTimer, lastFocusSignature, lastFocusMeta,
                   lastConversationKey, editorVars>>

-----------------------------------------------------------------------------
(* session-telemetry.ps1 conversation-focus: point, then record the name;  *)
(* a session without agents may get those of the files its subtitle names. *)

AtStep(step) == focusRun # None /\ focusRun.step = step

FocusScriptPoints ==
    /\ AtStep("started")
    /\ EnsureSession(focusRun.folder, focusRun.focus.cid)
    /\ focusRun' = [focusRun EXCEPT !.step = "pointed"]
    /\ UNCHANGED <<arah, editor, graph, hook, events, dbVars, cachedNode, pollTimer, poll,
                   lastFocusSignature, lastFocusMeta, lastConversationKey, editorVars,
                   faulted>>

Choreograph(body) ==
    IF HasChoreography(SessionData[body]) THEN {body} ELSE Bodies

FocusScriptWrites ==
    LET f == focusRun.folder
        old == ReadSession(f, focusRun.focus.cid)
        name == focusRun.focus.name
    IN /\ AtStep("pointed")
       /\ \E b \in Choreograph(old.body) :
            WriteSession(f, [old EXCEPT !.body = b,
                                        !.chat = IF name # None THEN name ELSE @])
       /\ focusRun' = [focusRun EXCEPT !.step = "done"]
       /\ UNCHANGED <<arah, editor, manifest, graph, hook, events, dbVars, cachedNode,
                      pollTimer, poll, lastFocusSignature, lastFocusMeta,
                      lastConversationKey, editorVars, faulted>>

-----------------------------------------------------------------------------
(* resolveEditorContext and session-telemetry.ps1 context-resolve.         *)

\* The debounce of scheduleEditorContextResolve fires; a file resolved last
\* time is not resolved again.  The chat is the one active.json names now.
EditorAlreadyResolvedOnDone ==
    /\ editorTimer # None /\ editorTimer = lastResolvedKey
    /\ editorTimer' = None
    /\ UNCHANGED <<fileVars, dbVars, pollVars, editorRuns, lastResolvedKey, faulted>>

EditorRunStarts ==
    /\ editorTimer # None /\ editorTimer # lastResolvedKey
    /\ \E n \in (1..MaxRuns) \ {r.n : r \in editorRuns} :
         editorRuns' = editorRuns \cup
             {[n |-> n, file |-> editorTimer, chat |-> manifest[FolderOf[editorTimer]],
               step |-> "started"]}
    /\ editorTimer' = None
    /\ UNCHANGED <<fileVars, dbVars, pollVars, lastResolvedKey, faulted>>

Advance(r, next) == editorRuns' = (editorRuns \ {r}) \cup {next}

\* Without a chat the script invents a session for the file, or stays with the
\* active one that session-start has written by now.
EditorScriptPoints(r) ==
    LET f == FolderOf[r.file]
    IN /\ r \in editorRuns /\ r.step = "started"
       /\ \/ \E c \in IF r.chat # None THEN {r.chat} ELSE {EditorChat} :
               EnsureSession(f, c) /\ Advance(r, [r EXCEPT !.chat = c, !.step = "pointed"])
          \/ /\ r.chat = None /\ manifest[f] # None
             /\ Advance(r, [r EXCEPT !.chat = manifest[f], !.step = "pointed"])
             /\ UNCHANGED <<manifest, session, legacy>>
       /\ UNCHANGED <<arah, editor, graph, hook, events, dbVars, pollVars, editorTimer,
                      lastResolvedKey, faulted>>

\* The file may match rules: the session then has their agents.
EditorScriptApplies(r) ==
    LET f == FolderOf[r.file]
    IN /\ r \in editorRuns /\ r.step = "pointed"
       /\ Advance(r, [r EXCEPT !.step = "done"])
       /\ \/ \E b \in Bodies \ {EmptyBody} :
               WriteSession(f, [ReadSession(f, r.chat) EXCEPT !.body = b])
          \/ UNCHANGED <<session, legacy>>
       /\ UNCHANGED <<arah, editor, manifest, graph, hook, events, dbVars, pollVars,
                      editorTimer, lastResolvedKey, faulted>>

EditorReturnsOnDone(r) ==
    /\ r \in editorRuns /\ r.step = "done"
    /\ editorRuns' = editorRuns \ {r} /\ lastResolvedKey' = r.file
    /\ UNCHANGED <<fileVars, dbVars, pollVars, editorTimer, faulted>>

EditorFailsOnDone(r) ==
    /\ Event /\ r \in editorRuns
    /\ editorRuns' = editorRuns \ {r} /\ faulted' = TRUE
    /\ UNCHANGED <<arah, editor, manifest, session, legacy, graph, hook,
                   dbVars, pollVars, editorTimer, lastResolvedKey>>

-----------------------------------------------------------------------------
(* The whole, with the rest of the extension and of Cursor around it.      *)

\* arah.live.focus resolves the editor's file, anew if one was scheduled.
FocusCommand ==
    /\ Event /\ EditorFolder # None /\ editorTimer' = editor
    /\ UNCHANGED <<arah, editor, manifest, session, legacy, graph, hook, dbVars,
                   pollVars, editorRuns, lastResolvedKey, faulted>>

\* Disposing of the watcher clears its timers and maps; a poll in flight goes on.
WatcherDisposed ==
    /\ Event /\ pollTimer /\ pollTimer' = FALSE
    /\ lastFocusSignature' = [f \in Folders |-> None]
    /\ lastFocusMeta' = [f \in Folders |-> None]
    /\ UNCHANGED <<arah, editor, manifest, session, legacy, graph, hook, dbVars,
                   cachedNode, poll, lastConversationKey, focusRun, editorVars, faulted>>

\* A hook runs in the folder of its chat.
Surroundings ==
    /\ \/ \E c \in Chats, b \in Bodies : HookBegins(Home[c], c, b)
       \/ HookEnds
       \/ \E f \in Folders : FolderToggled(f)
       \/ \E file \in Files : EditorMoved(file)
    /\ UNCHANGED <<dbVars, pollVars, editorVars, faulted>>

User ==
    \/ \E f \in Folders, c \in Chats : FocusTab(f, c)
    \/ \E c \in Chats, n \in ChatNames : RenameChat(c, n)
    \/ FocusCommand \/ WatcherDisposed

PollLoop ==
    \/ PollStarts \/ ReadFocus \/ PollSeesNoChange \/ PollRunsScript
    \/ PollFindsResolved \/ FocusReturnsOnFocus
FocusScript == FocusScriptPoints \/ FocusScriptWrites
EditorContext ==
    \/ EditorAlreadyResolvedOnDone \/ EditorRunStarts
    \/ \E r \in editorRuns : \/ EditorScriptPoints(r) \/ EditorScriptApplies(r)
                             \/ EditorReturnsOnDone(r)
Failure == ReadFails \/ FocusFailsOnFocus \/ \E r \in editorRuns : EditorFailsOnDone(r)

FocusNext ==
    User \/ Surroundings \/ PollLoop \/ FocusScript \/ EditorContext \/ Failure

\* The poll's awaits return and the scripts end: the interval goes on firing
\* and both scripts are killed after a time limit.  Nothing is assumed of the
\* user, of the hooks or of the context-resolve runs, and nothing has to fail.
FocusSpec ==
    /\ FocusInit /\ [][FocusNext]_focusVars
    /\ WF_focusVars(PollLoop) /\ WF_focusVars(FocusScript)

-----------------------------------------------------------------------------
(* Properties.                                                             *)

\* Every chat the panel is told of has its own session file once the poll that
\* found it is over, so that the panel never has to show another chat's; only a
\* run that failed can leave one without, since the signature is recorded
\* before the script runs and the chat is not tried again
\* (composerFocusWatcher.ts:97, contextResolver.ts:62-117).
AnnouncedHasSession ==
    (poll.pc \in {"idle", "reading"} /\ ~faulted) =>
        \A f \in Folders :
            lastFocusMeta[f] # None => HasFile(f, lastFocusMeta[f].cid)

\* What the panel is shown of the watcher's memory, and the calls still to come.
FeedMeta ==
    [f \in Folders |->
        IF lastFocusMeta[f] = None THEN None
        ELSE [cid |-> lastFocusMeta[f].cid, name |-> lastFocusMeta[f].name]]
FeedOwed == IF focusRun = None THEN {} ELSE {focusRun.folder}
Feed == INSTANCE FocusFeed WITH lastFocusMeta <- FeedMeta, owed <- FeedOwed

\* The watcher keeps the promise the panel is built on: what it calls the focus
\* of a folder turns to another chat only with a call of onFocus to come, and that
\* call is made (composerFocusWatcher.ts:90-118).
FeedImplemented == Feed!FeedSpec
=============================================================================
