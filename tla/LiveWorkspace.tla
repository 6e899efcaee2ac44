--------------------------- MODULE LiveWorkspace ---------------------------
(***************************************************************************)
(* The files the VS Code extension reads in every ARAH folder of a window  *)
(* (extension/arah-live/src/workspaceContext.ts): .cursor/arah-live with   *)
(* active.json, sessions/<chat>.json and the legacy state.json, and the    *)
(* agent graph.  They are written by session-telemetry.ps1, which Cursor's *)
(* hooks and the extension itself run; the hooks are modelled here as the  *)
(* environment.                                                            *)
(*                                                                         *)
(* A session file is [of, body, chat]: the chat it belongs to, the name of *)
(* its content, the chat name stored in it.  A file that cannot be parsed, *)
(* being half written, reads as None, like one that is absent.             *)
(***************************************************************************)
EXTENDS LiveView

CONSTANTS
    FolderOrder,    \* the window's workspace folders, in order
    Chats,          \* conversations of Cursor's composer
    EditorChat,     \* the session context-resolve invents when there is none
    ChatNames,      \* names a conversation may have
    FolderOf,       \* file of the editor -> the folder it is in
    MaxEvents       \* bound: what the user, the hooks and failures may do

ASSUME WorkspaceAssumption ==
    /\ FolderOrder \in Seq(ToSet(FolderOrder)) /\ MaxEvents \in Nat
    /\ EditorChat \notin Chats /\ None \notin Chats \cup {EditorChat}
    /\ None \notin ToSet(FolderOrder)

VARIABLES
    arah,       \* folders isArahWorkspace accepts
    editor,     \* the file in the active text editor, or None
    manifest,   \* folder -> the chat active.json points to
    session,    \* folder -> chat -> session file
    legacy,     \* folder -> the last session written, in state.json
    graph,      \* folder -> the agent graph
    hook,       \* a write of a session file in progress, or None
    events      \* events of the environment so far

fileVars == <<arah, editor, manifest, session, legacy, graph, hook, events>>

Folders == ToSet(FolderOrder)
Files == DOMAIN FolderOf
Bodies == DOMAIN SessionData
Graphs == DOMAIN GraphData
SessionIds == Chats \cup {EditorChat}
NoSession == [of |-> None, body |-> EmptyBody, chat |-> None]
SessionFile == [of : SessionIds, body : Bodies, chat : ChatNames \cup {None}]
NewSession(c) == [of |-> c, body |-> EmptyBody, chat |-> None]

WorkspaceTypeOK ==
    /\ arah \subseteq Folders /\ editor \in Files \cup {None}
    /\ manifest \in [Folders -> SessionIds \cup {None}]
    /\ session \in [Folders -> [SessionIds -> SessionFile \cup {None}]]
    /\ legacy \in [Folders -> SessionFile \cup {NoSession}]
    /\ graph \in [Folders -> Graphs \cup {None}]
    /\ hook \in [folder : Folders, file : SessionFile] \cup {None}
    /\ events \in 0..MaxEvents

\* A file is never taken for its absence, nor is a write in progress.
ASSUME NoneAssumption ==
    None \notin SessionFile /\ None \notin [folder : Folders, file : SessionFile]

\* What an earlier window left on disk: nothing, or one chat with its session.
WorkspaceInit ==
    /\ arah \in (SUBSET Folders) \ {{}} /\ editor \in Files \cup {None}
    /\ \E seen \in [Folders -> Chats \cup {None}] : \E b \in Bodies :
         LET file(f) == [of |-> seen[f], body |-> b, chat |-> None]
         IN /\ manifest = seen
            /\ session = [f \in Folders |-> [c \in SessionIds |->
                             IF c = seen[f] THEN file(f) ELSE None]]
            /\ legacy = [f \in Folders |-> IF seen[f] = None THEN NoSession ELSE file(f)]
    /\ \E g \in Graphs : graph = [f \in Folders |-> g]
    /\ hook = None /\ events = 0

Event == events < MaxEvents /\ events' = events + 1

-----------------------------------------------------------------------------
(* Reading.                                                                *)

FirstOf(x, y) == IF x # None THEN x ELSE y

\* The one of these folders that comes first in the window.
FirstFolder(S) ==
    IF S = {} THEN None
    ELSE FolderOrder[CHOOSE i \in DOMAIN FolderOrder :
                        /\ FolderOrder[i] \in S
                        /\ \A j \in 1..i - 1 : FolderOrder[j] \notin S]

\* getEditorContext: the folder of the active file, if it is an ARAH one.
EditorFolder ==
    IF editor # None /\ FolderOf[editor] \in arah THEN FolderOf[editor] ELSE None

\* The first ARAH folder with an active session, else the editor's folder,
\* else the first one.
PickPrimary ==
    LET pointed == {f \in arah : manifest[f] # None}
    IN FirstOf(FirstFolder(pointed), FirstOf(EditorFolder, FirstFolder(arah)))

\* The preferred chat's session, or without one the active session; if that
\* file is missing, whatever session was written last.
LoadSessionState(f, preferred) ==
    LET id == IF preferred # None THEN preferred ELSE manifest[f]
    IN IF id # None /\ session[f][id] # None THEN session[f][id] ELSE legacy[f]

-----------------------------------------------------------------------------
(* Writing, by session-telemetry.ps1.                                      *)

\* Write-SessionState: the chat's file, then the legacy copy.
WriteSession(f, file) ==
    /\ session' = [session EXCEPT ![f][file.of] = file]
    /\ legacy' = [legacy EXCEPT ![f] = file]

\* The file is there, though a hook may have emptied it for the moment.
HasFile(f, c) ==
    \/ session[f][c] # None
    \/ hook # None /\ hook.folder = f /\ hook.file.of = c

\* Ensure-Session: create the session if it has no file, and point at it.
EnsureSession(f, c) ==
    /\ IF ~HasFile(f, c) THEN WriteSession(f, NewSession(c))
       ELSE UNCHANGED <<session, legacy>>
    /\ manifest' = [manifest EXCEPT ![f] = c]

-----------------------------------------------------------------------------
(* The environment.                                                        *)

ReadSession(f, c) == IF session[f][c] = None THEN NewSession(c) ELSE session[f][c]

\* A hook of chat c records what its agent is doing: it points active.json at
\* the chat and starts rewriting the session file, which is empty meanwhile.
HookBegins(f, c, b) ==
    /\ Event /\ hook = None
    /\ hook' = [folder |-> f, file |-> [ReadSession(f, c) EXCEPT !.body = b]]
    /\ session' = [session EXCEPT ![f][c] = None]
    /\ manifest' = [manifest EXCEPT ![f] = c]
    /\ UNCHANGED <<arah, editor, legacy, graph>>

HookEnds ==
    /\ hook # None /\ hook' = None
    /\ WriteSession(hook.folder, hook.file)
    /\ UNCHANGED <<arah, editor, manifest, graph, events>>

\* export-agent-graph rewrites the graph, or the file goes away.
GraphWritten(f, g) ==
    /\ Event /\ graph[f] # g
    /\ graph' = [graph EXCEPT ![f] = g]
    /\ UNCHANGED <<arah, editor, manifest, session, legacy, hook>>

\* A folder is opened or closed, or gains or loses its arah.config.yaml.
FolderToggled(f) ==
    /\ Event
    /\ arah' = IF f \in arah THEN arah \ {f} ELSE arah \cup {f}
    /\ UNCHANGED <<editor, manifest, session, legacy, graph, hook>>

EditorMoved(file) ==
    /\ Event /\ editor # file /\ editor' = file
    /\ UNCHANGED <<arah, manifest, session, legacy, graph, hook>>
=============================================================================
