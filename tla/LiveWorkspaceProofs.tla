------------------------- MODULE LiveWorkspaceProofs -------------------------
(***************************************************************************)
(* Facts about the files of a window that both halves of the extension     *)
(* rest on: every session file has its chat's name on it, and no step of   *)
(* the scripts or the hooks takes a chat's session away for good.          *)
(***************************************************************************)
EXTENDS LiveWorkspace, WellFoundedInduction, TLAPS

\* Every set of natural numbers but the empty one has a least element.
LEMMA LeastIn ==
    ASSUME NEW T, T \subseteq Nat, T # {}
    PROVE  \E i \in T : \A j \in T : i <= j
<1> DEFINE Less == OpToRel(<, Nat)
<1>1. IsWellFoundedOn(Less, Nat)
    BY NatLessThanWellFounded
<1>2. PICK i \in T : \A j \in T : <<j, i>> \notin Less
    <2> HIDE DEF Less
    <2> QED
        BY <1>1, WFMin
<1>3. \A j \in T : ~(j < i)
    BY <1>2 DEF OpToRel
<1> QED
    BY <1>3

\* Folders that are not empty have a first one.
LEMMA FirstFolderIn ==
    ASSUME NEW S \in (SUBSET Folders) \ {{}}
    PROVE  FirstFolder(S) \in S
<1> DEFINE I == {i \in DOMAIN FolderOrder : FolderOrder[i] \in S}
           First(i) == /\ FolderOrder[i] \in S
                       /\ \A j \in 1..i - 1 : FolderOrder[j] \notin S
<1>1. DOMAIN FolderOrder = 1..Len(FolderOrder) /\ Len(FolderOrder) \in Nat
    BY WorkspaceAssumption
<1>2. I \subseteq Nat /\ I # {}
    BY <1>1 DEF Folders, ToSet
<1>3. PICK i \in I : \A j \in I : i <= j
    <2> HIDE DEF I
    <2> QED
        BY <1>2, LeastIn
<1>4. \E k \in DOMAIN FolderOrder : First(k)
    <2>1. \A j \in 1..i - 1 : j \in DOMAIN FolderOrder /\ j \notin I
        BY <1>1, <1>2, <1>3
    <2> QED
        BY <1>3, <2>1
<1> QED
    BY <1>4 DEF FirstFolder

-----------------------------------------------------------------------------
(* The files.                                                              *)

\* A session file is found under the chat it belongs to.
SessionsNamed ==
    \A f \in Folders, c \in SessionIds :
        session[f][c] # None => session[f][c].of = c

WorkspaceInv == WorkspaceTypeOK /\ SessionsNamed

\* No step of anybody makes a session disappear for good.
Kept ==
    \A f \in Folders, c \in SessionIds : HasFile(f, c) => HasFile(f, c)'

LEMMA WorkspaceStart == WorkspaceInit => WorkspaceInv
<1> SUFFICES ASSUME WorkspaceInit PROVE WorkspaceInv
    OBVIOUS
<1> PICK seen \in [Folders -> Chats \cup {None}], b \in Bodies :
        LET file(f) == [of |-> seen[f], body |-> b, chat |-> None]
        IN /\ manifest = seen
           /\ session = [f \in Folders |-> [c \in SessionIds |->
                            IF c = seen[f] THEN file(f) ELSE None]]
           /\ legacy = [f \in Folders |-> IF seen[f] = None THEN NoSession ELSE file(f)]
    BY DEF WorkspaceInit
<1>1. manifest \in [Folders -> SessionIds \cup {None}]
    BY DEF SessionIds
<1>2. \A f \in Folders, c \in SessionIds :
        session[f][c] = IF c = seen[f] THEN [of |-> c, body |-> b, chat |-> None] ELSE None
    OBVIOUS
<1>3. session \in [Folders -> [SessionIds -> SessionFile \cup {None}]]
    BY <1>2 DEF SessionFile
<1>4. SessionsNamed
    BY <1>2 DEF SessionsNamed
<1>5. legacy \in [Folders -> SessionFile \cup {NoSession}]
    BY DEF SessionFile, SessionIds
<1>6. graph \in [Folders -> Graphs \cup {None}] /\ hook = None /\ events \in 0..MaxEvents
    BY WorkspaceAssumption DEF WorkspaceInit
<1> QED
    BY <1>1, <1>3, <1>4, <1>5, <1>6 DEF WorkspaceInv, WorkspaceTypeOK, WorkspaceInit

\* What is read of a session file is one, with the chat's name on it.
LEMMA ReadSessionType ==
    ASSUME WorkspaceInv, NEW f \in Folders, NEW c \in SessionIds
    PROVE  ReadSession(f, c) \in SessionFile /\ ReadSession(f, c).of = c
<1>1. NewSession(c) \in SessionFile /\ NewSession(c).of = c
    BY EmptyBodyAssumption DEF NewSession, SessionFile, Bodies
<1> QED
    BY <1>1 DEF ReadSession, WorkspaceInv, WorkspaceTypeOK, SessionsNamed

\* The file written last is there, and no other is gone.
LEMMA WriteSessionStep ==
    ASSUME WorkspaceInv, NEW f \in Folders, NEW file \in SessionFile, WriteSession(f, file)
    PROVE  /\ session' \in [Folders -> [SessionIds -> SessionFile \cup {None}]]
           /\ legacy' \in [Folders -> SessionFile \cup {NoSession}]
           /\ SessionsNamed'
           /\ session'[f][file.of] # None
           /\ \A g \in Folders, c \in SessionIds :
                session[g][c] # None => session'[g][c] # None
<1>1. file.of \in SessionIds /\ file # None
    BY NoneAssumption DEF SessionFile
<1>2. /\ session \in [Folders -> [SessionIds -> SessionFile \cup {None}]]
      /\ legacy \in [Folders -> SessionFile \cup {NoSession}]
    BY DEF WorkspaceInv, WorkspaceTypeOK
<1>3. /\ session' = [session EXCEPT ![f][file.of] = file]
      /\ legacy' = [legacy EXCEPT ![f] = file]
    BY DEF WriteSession
<1>4. \A g \in Folders, c \in SessionIds :
        session'[g][c] = IF g = f /\ c = file.of THEN file ELSE session[g][c]
    BY <1>1, <1>2, <1>3
<1>5. session' \in [Folders -> [SessionIds -> SessionFile \cup {None}]]
    BY <1>1, <1>2, <1>3
<1>6. legacy' \in [Folders -> SessionFile \cup {NoSession}]
    BY <1>2, <1>3
<1>7. SessionsNamed'
    BY <1>4 DEF SessionsNamed, WorkspaceInv
<1> QED
    BY <1>1, <1>4, <1>5, <1>6, <1>7

\* Ensure-Session leaves the chat with a file, and active.json pointing at it.
LEMMA EnsureSessionStep ==
    ASSUME WorkspaceInv, NEW f \in Folders, NEW c \in SessionIds, EnsureSession(f, c),
           UNCHANGED <<arah, editor, graph, hook, events>>
    PROVE  WorkspaceInv' /\ Kept /\ HasFile(f, c)'
<1>1. NewSession(c) \in SessionFile /\ NewSession(c).of = c
    BY EmptyBodyAssumption DEF NewSession, SessionFile, Bodies
<1>2. manifest' \in [Folders -> SessionIds \cup {None}]
    BY DEF EnsureSession, WorkspaceInv, WorkspaceTypeOK
<1>3. CASE ~HasFile(f, c)
    <2>1. WriteSession(f, NewSession(c))
        BY <1>3 DEF EnsureSession
    <2> HIDE DEF NewSession
    <2>2. /\ session' \in [Folders -> [SessionIds -> SessionFile \cup {None}]]
          /\ legacy' \in [Folders -> SessionFile \cup {NoSession}]
          /\ SessionsNamed'
          /\ session'[f][c] # None
          /\ \A g \in Folders, d \in SessionIds :
                session[g][d] # None => session'[g][d] # None
        BY <1>1, <2>1, WriteSessionStep
    <2> QED
        BY <1>2, <2>2 DEF WorkspaceInv, WorkspaceTypeOK, Kept, HasFile
<1>4. CASE HasFile(f, c)
    BY <1>2, <1>4 DEF EnsureSession, WorkspaceInv, WorkspaceTypeOK, SessionsNamed, Kept, HasFile
<1> QED
    BY <1>3, <1>4

LEMMA HookBeginsStep ==
    ASSUME WorkspaceInv, NEW f \in Folders, NEW c \in Chats, NEW b \in Bodies,
           HookBegins(f, c, b)
    PROVE  WorkspaceInv' /\ Kept
<1> DEFINE file == [ReadSession(f, c) EXCEPT !.body = b]
<1>1. c \in SessionIds
    BY DEF SessionIds
<1>2. file \in SessionFile /\ file.of = c
    BY <1>1, ReadSessionType DEF SessionFile
<1>3. hook' = [folder |-> f, file |-> file] /\ hook = None
    BY DEF HookBegins
<1> HIDE DEF file
<1>4. /\ session \in [Folders -> [SessionIds -> SessionFile \cup {None}]]
      /\ session' = [session EXCEPT ![f][c] = None]
    BY DEF WorkspaceInv, WorkspaceTypeOK, HookBegins
<1>5. \A g \in Folders, d \in SessionIds :
        session'[g][d] = IF g = f /\ d = c THEN None ELSE session[g][d]
    BY <1>1, <1>4
<1>6. session' \in [Folders -> [SessionIds -> SessionFile \cup {None}]]
    BY <1>1, <1>4
<1>7. SessionsNamed'
    BY <1>5 DEF SessionsNamed, WorkspaceInv
<1>8. manifest' \in [Folders -> SessionIds \cup {None}]
    BY <1>1 DEF HookBegins, WorkspaceInv, WorkspaceTypeOK
<1>9. events' \in 0..MaxEvents
    BY WorkspaceAssumption DEF HookBegins, Event, WorkspaceInv, WorkspaceTypeOK
<1>10. hook' \in [folder : Folders, file : SessionFile] /\ hook'.folder = f /\ hook'.file.of = c
    BY <1>2, <1>3
<1>11. hook' # None
    BY <1>10, NoneAssumption
<1>12. Kept
    BY <1>3, <1>5, <1>10, <1>11 DEF Kept, HasFile
<1> QED
    BY <1>6, <1>7, <1>8, <1>9, <1>10, <1>12 DEF HookBegins, WorkspaceInv, WorkspaceTypeOK

LEMMA HookEndsStep ==
    ASSUME WorkspaceInv, HookEnds
    PROVE  WorkspaceInv' /\ Kept
<1>1. hook.folder \in Folders /\ hook.file \in SessionFile /\ WriteSession(hook.folder, hook.file)
    BY DEF HookEnds, WorkspaceInv, WorkspaceTypeOK
<1>2. /\ session' \in [Folders -> [SessionIds -> SessionFile \cup {None}]]
      /\ legacy' \in [Folders -> SessionFile \cup {NoSession}]
      /\ SessionsNamed'
      /\ session'[hook.folder][hook.file.of] # None
      /\ \A g \in Folders, d \in SessionIds :
            session[g][d] # None => session'[g][d] # None
    BY <1>1, WriteSessionStep
<1>3. Kept
    BY <1>2 DEF Kept, HasFile
<1> QED
    BY <1>2, <1>3 DEF HookEnds, WorkspaceInv, WorkspaceTypeOK

\* The folders and the editor are not where the sessions are.
LEMMA WindowStep ==
    ASSUME WorkspaceInv,
           (\E f \in Folders : FolderToggled(f)) \/ (\E file \in Files : EditorMoved(file))
    PROVE  WorkspaceInv' /\ Kept
<1>1. events' \in 0..MaxEvents
    BY WorkspaceAssumption DEF FolderToggled, EditorMoved, Event, WorkspaceInv, WorkspaceTypeOK
<1>2. arah' \subseteq Folders /\ editor' \in Files \cup {None}
    BY DEF FolderToggled, EditorMoved, WorkspaceInv, WorkspaceTypeOK
<1>3. UNCHANGED <<manifest, session, legacy, graph, hook>>
    BY DEF FolderToggled, EditorMoved
<1> QED
    BY <1>1, <1>2, <1>3 DEF WorkspaceInv, WorkspaceTypeOK, SessionsNamed, Kept, HasFile
=============================================================================
