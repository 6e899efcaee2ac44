----------------------------- MODULE LivePanel -----------------------------
(***************************************************************************)
(* The side panel: liveViewProvider.ts in the extension host and the page  *)
(* media/live.js in its webview, which exchange messages.                  *)
(*                                                                         *)
(* Requests to refresh are gathered for 500 ms; the payload is built from  *)
(* the files when that timer fires, and posted unless it has the           *)
(* fingerprint of the last one.  The page draws it unless it has the       *)
(* fingerprint of the last one it drew.  A message for a page that is      *)
(* closed or not loaded yet is lost.  File events closer than 1 s to the   *)
(* last one acted on are dropped.                                          *)
(*                                                                         *)
(* The panel knows the composer's watcher by its contract, FocusFeed.      *)
(***************************************************************************)
EXTENDS FocusFeed

CONSTANT MaxMessages    \* bound: messages on their way to the page

ASSUME PanelAssumption == MaxMessages \in Nat

VARIABLES
    active,         \* the extension has not been disposed of
    view,           \* the webview: "none", "loading", "ready" or "closed"
    visible,        \* the webview is shown
    refreshTimer, pendingForce, pendingTabSwitch,
    lastFingerprint,    \* of the payload posted last
    fsPending,      \* folders with a change the file watchers have not reported
    throttled,      \* less than 1 s since the last file event acted on
    watched,        \* folders whose files setupWatchers watches
    toPage,         \* messages posted to the page: [payload, tabSwitch]
    readySent,      \* the page's "ready" is on its way to the host
    page,           \* what the page last drew, and from what
    missed          \* history: a change since the last payload was built that
                    \* no request to refresh will follow

timerVars == <<refreshTimer, pendingForce, pendingTabSwitch>>
pageVars == <<view, visible, toPage, readySent, page>>
panelVars == <<active, pageVars, timerVars, lastFingerprint, fsPending, throttled,
               watched, missed>>
outside == <<fileVars, feedVars>>

EmptyPayload == [ws |-> None, cid |-> None, chat |-> None,
                 session |-> NoSession, graph |-> None]
Payload == [ws : Folders \cup {None}, cid : SessionIds \cup {None},
            chat : ChatNames \cup {None}, session : SessionFile \cup {NoSession},
            graph : Graphs \cup {None}]
NoFingerprint == None
BlankPage(payload) == [payload |-> payload, fp |-> NoFingerprint, lists |-> NoLists,
                       track |-> EmptyTrack, key |-> NoKey]
NoPage == BlankPage(EmptyPayload)

PanelTypeOK ==
    /\ view \in {"none", "loading", "ready", "closed"}
    /\ active \in BOOLEAN /\ visible \in BOOLEAN /\ throttled \in BOOLEAN
    /\ refreshTimer \in BOOLEAN /\ pendingForce \in BOOLEAN
    /\ pendingTabSwitch \in BOOLEAN /\ readySent \in BOOLEAN /\ missed \in BOOLEAN
    /\ watched \subseteq Folders /\ fsPending \subseteq Folders
    /\ toPage \in Seq([payload : Payload, tabSwitch : BOOLEAN])
    /\ Len(toPage) <= MaxMessages
    /\ page.payload \in Payload
    /\ (pendingForce \/ pendingTabSwitch) => (refreshTimer \/ ~active)

\* activate asks for the first refresh before there is a view.
PanelInit ==
    /\ active = TRUE
    /\ view = "none" /\ visible = FALSE /\ page = NoPage
    /\ refreshTimer = TRUE /\ pendingForce = TRUE /\ pendingTabSwitch = FALSE
    /\ lastFingerprint = NoFingerprint /\ throttled = FALSE
    /\ watched = {} /\ fsPending = {}
    /\ toPage = <<>> /\ readySent = FALSE /\ missed = FALSE

-----------------------------------------------------------------------------

\* buildPayload: the focused chat of the primary folder, with its session or,
\* if that has no file yet, the one written last.
BuildPayload ==
    LET f == PickPrimary
        focus == lastFocusMeta[f]
        cid == IF focus = None THEN None ELSE focus.cid
        name == IF focus = None THEN None ELSE focus.name
        file == LoadSessionState(f, cid)
    IN IF f = None THEN EmptyPayload
       ELSE [ws |-> f, cid |-> FirstOf(cid, FirstOf(file.of, manifest[f])),
             chat |-> FirstOf(file.chat, name), session |-> file, graph |-> graph[f]]

\* refresh: the calls made before the timer fires are one.
Refresh(force, tabSwitch) ==
    /\ refreshTimer' = TRUE
    /\ pendingForce' = (pendingForce \/ force)
    /\ pendingTabSwitch' = (pendingTabSwitch \/ tabSwitch)

\* The calls of refresh from outside the provider: onFocus and onDone ask for a
\* tab switch, the refresh command forces, the editor's switch just asks.
RefreshCalled(force, tabSwitch) ==
    /\ Refresh(force, tabSwitch)
    /\ UNCHANGED <<active, pageVars, lastFingerprint, fsPending, throttled, watched,
                   missed>>

\* setupWatchers' events of a folder that have come together: refreshFromWatcher.
WatcherEvent(f) ==
    /\ f \in fsPending /\ fsPending' = fsPending \ {f}
    /\ IF throttled \/ f \notin watched
       THEN /\ missed' = (missed \/ ~refreshTimer)
            /\ UNCHANGED <<timerVars, throttled>>
       ELSE Refresh(FALSE, FALSE) /\ throttled' = TRUE /\ UNCHANGED missed
    /\ UNCHANGED <<outside, active, pageVars, lastFingerprint, watched>>

ThrottleEnds ==
    /\ throttled /\ throttled' = FALSE
    /\ UNCHANGED <<outside, active, pageVars, timerVars, lastFingerprint, fsPending,
                   watched, missed>>

\* A post reaches a page whose script has run, hidden or not; while the page
\* loads it may.
Post(message) ==
    \/ view \in {"ready", "loading"} /\ toPage' = Append(toPage, message)
    \/ view # "ready" /\ UNCHANGED toPage

\* Mutant of TakePending: the flags outlive the refresh they were set for.
TakeTimer == refreshTimer' = FALSE /\ UNCHANGED <<pendingForce, pendingTabSwitch>>

TakePending == refreshTimer' = FALSE /\ pendingForce' = FALSE /\ pendingTabSwitch' = FALSE

\* The refresh timer fires: flushRefresh.
FlushRefresh ==
    LET payload == BuildPayload
        fp == Fingerprint(payload)
        same == ~pendingForce /\ ~pendingTabSwitch /\ fp = lastFingerprint
    IN /\ refreshTimer /\ Len(toPage) < MaxMessages
       /\ TakePending
       /\ IF view = "none" \/ same
          THEN UNCHANGED <<lastFingerprint, toPage>>
          ELSE /\ lastFingerprint' = fp
               /\ Post([payload |-> payload, tabSwitch |-> pendingTabSwitch])
       /\ missed' = FALSE
       /\ UNCHANGED <<outside, active, view, visible, readySent, page, fsPending,
                      throttled, watched>>

-----------------------------------------------------------------------------
(* The webview.                                                            *)

PageOf(payload, drawn) ==
    [payload |-> payload, fp |-> Fingerprint(payload), lists |-> drawn.lists,
     track |-> drawn.track, key |-> drawn.key]
Draw(old, payload, tabSwitch) ==
    PageOf(payload, Render(old.track, old.key, payload, tabSwitch))

\* resolveWebviewView: the folders' files are watched and a refresh is forced; the
\* page opens with the payload of the moment in it (getHtml).
ResolveWebviewView ==
    /\ view \in {"none", "closed"} /\ active
    /\ view' = "loading" /\ visible' = TRUE /\ page' = BlankPage(BuildPayload)
    /\ watched' = arah /\ missed' = FALSE
    /\ Refresh(TRUE, FALSE)
    /\ UNCHANGED <<outside, active, lastFingerprint, fsPending, throttled, toPage,
                   readySent>>

\* The page's script runs: it draws the bootstrap and says it is ready.
PageLoads ==
    /\ view = "loading" /\ view' = "ready"
    /\ page' = Draw(page, page.payload, FALSE)
    /\ readySent' = TRUE
    /\ UNCHANGED <<outside, active, visible, toPage, timerVars, lastFingerprint,
                   fsPending, throttled, watched, missed>>

\* Mutant of HostGetsReady: an ordinary refresh.
HostGetsReadyUnforced ==
    /\ readySent /\ readySent' = FALSE /\ Refresh(FALSE, FALSE)
    /\ UNCHANGED <<outside, active, view, visible, toPage, page, lastFingerprint,
                   fsPending, throttled, watched, missed>>

HostGetsReady ==
    /\ readySent /\ readySent' = FALSE
    /\ lastFingerprint' = NoFingerprint /\ Refresh(TRUE, FALSE)
    /\ UNCHANGED <<outside, active, view, visible, toPage, page, fsPending, throttled,
                   watched, missed>>

PageGetsUpdate ==
    LET m == Head(toPage)
    IN /\ view = "ready" /\ toPage # <<>> /\ toPage' = Tail(toPage)
       /\ page' = IF ~m.tabSwitch /\ Fingerprint(m.payload) = page.fp THEN page
                  ELSE Draw(page, m.payload, m.tabSwitch)
       /\ UNCHANGED <<outside, active, view, visible, readySent, timerVars,
                      lastFingerprint, fsPending, throttled, watched, missed>>

\* A hidden page keeps what it drew (retainContextWhenHidden).
PageHidden ==
    /\ Event /\ visible /\ visible' = FALSE
    /\ UNCHANGED <<arah, editor, manifest, session, legacy, graph, hook, feedVars,
                   active, view, toPage, readySent, page, timerVars, lastFingerprint,
                   fsPending, throttled, watched, missed>>

\* onDidChangeVisibility, to visible.
PageShown ==
    /\ ~visible /\ view \in {"loading", "ready"} /\ visible' = TRUE
    /\ lastFingerprint' = NoFingerprint /\ Refresh(TRUE, FALSE)
    /\ UNCHANGED <<outside, active, view, toPage, readySent, page, fsPending, throttled,
                   watched, missed>>

\* The user closes the view; the provider keeps its reference to it.
ViewClosed ==
    /\ Event /\ view = "ready" /\ view' = "closed" /\ visible' = FALSE
    /\ page' = NoPage /\ toPage' = <<>> /\ readySent' = FALSE
    /\ UNCHANGED <<arah, editor, manifest, session, legacy, graph, hook, feedVars,
                   active, timerVars, lastFingerprint, fsPending, throttled, watched,
                   missed>>

\* dispose: the timer and the watchers go; a late onFocus still calls refresh.
ProviderDisposed ==
    /\ Event /\ active /\ active' = FALSE
    /\ refreshTimer' = FALSE /\ watched' = {}
    /\ FeedCleared
    /\ UNCHANGED <<arah, editor, manifest, session, legacy, graph, hook, pageVars,
                   pendingForce, pendingTabSwitch, lastFingerprint, fsPending, throttled,
                   missed>>
=============================================================================
