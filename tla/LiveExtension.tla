--------------------------- MODULE LiveExtension ---------------------------
(***************************************************************************)
(* The VS Code extension as extension.ts wires it: the panel over the      *)
(* folders' files, told of the focused chat by the composer's watcher,     *)
(* which is taken by its contract (FocusFeed; ComposerFocus implements it).*)
(* The scripts the watcher runs, Cursor's hooks and the user are the       *)
(* environment that writes the files.                                      *)
(***************************************************************************)
EXTENDS LivePanel

CONSTANT Home           \* chat -> its folder

ASSUME HomeAssumption == Home \in [Chats -> Folders]

vars == <<fileVars, feedVars, panelVars>>

Init == WorkspaceInit /\ FeedInit /\ PanelInit

\* What watchers of a folder's active.json, sessions and graph report.
FilesOf(f) == <<manifest[f], session[f], graph[f]>>
FilesChange ==
    /\ fsPending' = fsPending \cup {f \in Folders : FilesOf(f)' # FilesOf(f)}
    /\ UNCHANGED <<feedVars, active, pageVars, timerVars, lastFingerprint, throttled,
                   watched, missed>>

\* A change of what buildPayload reads that nothing will ask a refresh for.
Unannounced ==
    /\ missed' = TRUE
    /\ UNCHANGED <<active, pageVars, timerVars, lastFingerprint, fsPending, throttled,
                   watched>>

-----------------------------------------------------------------------------
(* The files.                                                              *)

\* conversation-focus: the chat gets a session and becomes the active one.
FocusScriptPoints ==
    /\ \E f \in owed :
          /\ lastFocusMeta[f] # None
          /\ EnsureSession(f, lastFocusMeta[f].cid)
    /\ UNCHANGED <<arah, editor, graph, hook, events>>

\* A hook runs in the folder of its chat; context-resolve writes like a hook.
Writers ==
    /\ \/ FocusScriptPoints
       \/ \E c \in Chats, b \in Bodies : HookBegins(Home[c], c, b)
       \/ HookEnds
       \/ \E f \in Folders, g \in Graphs \cup {None} : GraphWritten(f, g)
    /\ FilesChange

\* Folders come and go unheard.
FolderChange == (\E f \in Folders : FolderToggled(f)) /\ Unannounced /\ UNCHANGED feedVars

-----------------------------------------------------------------------------
(* The composer's watcher.                                                 *)

FocusesOf(f) == {focus \in Focus : Home[focus.cid] = f}

\* A chat gets the focus, or a new name: the latter is not announced.
Feed ==
    /\ Event /\ UNCHANGED <<arah, editor, manifest, session, legacy, graph, hook>>
    /\ active
    /\ \E f \in Folders : \E focus \in FocusesOf(f) :
          lastFocusMeta[f] # focus /\ (FocusMoves(f, focus) \/ FocusRenamed(f, focus))
    /\ Unannounced

Announced ==
    /\ \E f \in Folders : AnnouncedOnFocus(f)
    /\ RefreshCalled(TRUE, TRUE) /\ UNCHANGED fileVars

-----------------------------------------------------------------------------
(* The user.                                                               *)

\* The editor's switch refreshes the panel and resolves nothing.
EditorSwitched ==
    /\ \E file \in Files : EditorMoved(file)
    /\ RefreshCalled(FALSE, FALSE) /\ UNCHANGED feedVars

\* arah.live.refresh; a context-resolve that is over asks for a tab switch.
RefreshCommand ==
    /\ Event /\ \E tabSwitch \in BOOLEAN : RefreshCalled(TRUE, tabSwitch)
    /\ UNCHANGED <<arah, editor, manifest, session, legacy, graph, hook, feedVars>>

Watch == \E f \in Folders : WatcherEvent(f)
Webview == PageLoads \/ PageGetsUpdate \/ HostGetsReady

Next ==
    \/ Writers \/ FolderChange \/ Feed \/ Announced
    \/ EditorSwitched \/ RefreshCommand \/ PageHidden \/ ViewClosed \/ ProviderDisposed
    \/ Watch \/ ThrottleEnds \/ FlushRefresh
    \/ ResolveWebviewView \/ PageShown \/ Webview

Spec == Init /\ [][Next]_vars

-----------------------------------------------------------------------------
(* Properties.                                                             *)

\* Types of every variable of the panel and of what it reads.
LiveTypeOK == WorkspaceTypeOK /\ FeedTypeOK /\ PanelTypeOK

\* Nothing is on its way to the page.
Quiet ==
    /\ active /\ view = "ready"
    /\ ~refreshTimer /\ toPage = <<>> /\ ~readySent /\ fsPending = {}

\* The panel agrees with the files once everything has been delivered, unless
\* a change was one the extension never hears of.  Both ends skip payloads with
\* the fingerprint they had last, so a lost message must not leave them with
\* different ideas of what is shown (liveViewProvider.ts:281-327, live.js:51-60).
PanelCurrent == (Quiet /\ ~missed) => page.fp = Fingerprint(BuildPayload)

\* The comment on refreshFromWatcher, "no maximo 1x/s se o estado nao mudou"
\* (at most once a second if the state has not changed): a changed state does
\* get to the panel, if the folders and the chats' names stay as they are.
ChangedStateShown ==
    (/\ Quiet /\ hook = None /\ owed = {}
     /\ page.payload.ws = PickPrimary /\ PickPrimary \in watched)
        => page.fp.lists = Fingerprint(BuildPayload).lists

\* A page that was hidden, cleared or drawn many times shows its payload like
\* one opened on it: every list is that of the payload, and the track has its
\* chains, up to what the key ignores, or a text in their place.
PageShowsPayload ==
    (view = "ready") =>
        LET p == page.payload
            fresh == Render(EmptyTrack, NoKey, p, FALSE)
        IN /\ page.lists = fresh.lists
           /\ page.track.chains # <<>> =>
                FlowKey(page.track.chains) = FlowKey(fresh.track.chains)
=============================================================================
