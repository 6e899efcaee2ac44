------------------------ MODULE LiveExtensionProofs ------------------------
(***************************************************************************)
(* The panel, for any chats, folders, session contents and graphs: its     *)
(* types; that a page drawn many times shows its payload like a fresh one; *)
(* and that the panel agrees with the files when everything is delivered.  *)
(* The last is about two ends that each remember a fingerprint: the host's *)
(* is that of the files (HostCurrent), the page will get to the host's     *)
(* (PageFollows), each but for what its guard names.                       *)
(***************************************************************************)
EXTENDS LiveExtension, LiveWorkspaceProofs, SequenceTheorems

-----------------------------------------------------------------------------
(* Types.                                                                  *)

TypeInv == WorkspaceInv /\ FeedTypeOK /\ PanelTypeOK

LEMMA TypeStart == Init => TypeInv
<1> SUFFICES ASSUME Init PROVE TypeInv
    OBVIOUS
<1>1. WorkspaceInv
    BY WorkspaceStart DEF Init
<1>2. FeedTypeOK
    BY DEF Init, FeedInit, FeedTypeOK
<1>3. EmptyPayload \in Payload
    BY DEF EmptyPayload, Payload
<1>4. PanelTypeOK
    <2>1. page.payload = EmptyPayload
        BY DEF Init, PanelInit, NoPage, BlankPage
    <2>2. toPage \in Seq([payload : Payload, tabSwitch : BOOLEAN]) /\ Len(toPage) <= MaxMessages
        BY PanelAssumption DEF Init, PanelInit
    <2> QED
        BY <1>3, <2>1, <2>2 DEF Init, PanelInit, PanelTypeOK
<1> QED
    BY <1>1, <1>2, <1>4 DEF TypeInv

\* A step that leaves the files alone, but for the count of events.
LEMMA FilesAlone ==
    ASSUME WorkspaceInv, Event \/ UNCHANGED events,
           UNCHANGED <<arah, editor, manifest, session, legacy, graph, hook>>
    PROVE  WorkspaceInv'
<1>1. events' \in 0..MaxEvents
    BY WorkspaceAssumption DEF Event, WorkspaceInv, WorkspaceTypeOK
<1> QED
    BY <1>1 DEF WorkspaceInv, WorkspaceTypeOK, SessionsNamed

LEMMA WritersFiles ==
    ASSUME TypeInv, Writers
    PROVE  WorkspaceInv'
<1>1. CASE FocusScriptPoints
    <2>1. PICK f \in owed : lastFocusMeta[f] # None /\ EnsureSession(f, lastFocusMeta[f].cid)
        BY <1>1 DEF FocusScriptPoints
    <2>2. f \in Folders /\ lastFocusMeta[f].cid \in SessionIds
        BY <2>1 DEF TypeInv, FeedTypeOK, Focus, SessionIds
    <2> QED
        BY <1>1, <2>1, <2>2, EnsureSessionStep DEF FocusScriptPoints, TypeInv
<1>2. ASSUME NEW c \in Chats, NEW b \in Bodies, HookBegins(Home[c], c, b)
      PROVE  WorkspaceInv'
    <2>1. Home[c] \in Folders
        BY HomeAssumption
    <2> QED
        BY <1>2, <2>1, HookBeginsStep DEF TypeInv
<1>3. CASE HookEnds
    BY <1>3, HookEndsStep DEF TypeInv
<1>4. ASSUME NEW f \in Folders, NEW g \in Graphs \cup {None}, GraphWritten(f, g)
      PROVE  WorkspaceInv'
    <2>1. events' \in 0..MaxEvents
        BY <1>4, WorkspaceAssumption DEF GraphWritten, Event, TypeInv, WorkspaceInv, WorkspaceTypeOK
    <2>2. graph' \in [Folders -> Graphs \cup {None}]
        BY <1>4 DEF GraphWritten, TypeInv, WorkspaceInv, WorkspaceTypeOK
    <2> QED
        BY <1>4, <2>1, <2>2 DEF GraphWritten, TypeInv, WorkspaceInv, WorkspaceTypeOK, SessionsNamed
<1> QED
    BY <1>1, <1>2, <1>3, <1>4 DEF Writers

LEMMA FilesStep ==
    ASSUME TypeInv, [Next]_vars
    PROVE  WorkspaceInv'
<1>0. WorkspaceInv
    BY DEF TypeInv
<1>1. CASE FolderChange \/ EditorSwitched
    BY <1>0, <1>1, WindowStep DEF FolderChange, EditorSwitched
<1>2. CASE Feed \/ RefreshCommand \/ PageHidden \/ ViewClosed \/ ProviderDisposed
    BY <1>0, <1>2, FilesAlone DEF Feed, RefreshCommand, PageHidden, ViewClosed, ProviderDisposed
<1>3. CASE \/ UNCHANGED vars \/ Announced \/ Watch \/ ThrottleEnds \/ FlushRefresh
           \/ ResolveWebviewView \/ PageShown \/ Webview
    <2>1. UNCHANGED fileVars
        BY <1>3 DEF vars, outside, Announced, Watch, WatcherEvent, ThrottleEnds, FlushRefresh,
           ResolveWebviewView, PageShown, Webview, PageLoads, PageGetsUpdate, HostGetsReady
    <2> QED
        BY <1>0, <2>1, FilesAlone DEF fileVars
<1> QED
    BY <1>1, <1>2, <1>3, WritersFiles DEF Next

\* A folder that PickPrimary names is one of the window's.
LEMMA PickPrimaryType ==
    ASSUME WorkspaceInv
    PROVE  PickPrimary \in Folders \cup {None}
<1> DEFINE pointed == {f \in arah : manifest[f] # None}
<1>1. arah \subseteq Folders /\ pointed \subseteq Folders
    BY DEF WorkspaceInv, WorkspaceTypeOK
<1>2. \A S \in SUBSET Folders : FirstFolder(S) \in Folders \cup {None}
    <2> SUFFICES ASSUME NEW S \in SUBSET Folders
                 PROVE  FirstFolder(S) \in Folders \cup {None}
        OBVIOUS
    <2>1. CASE S = {}
        BY <2>1 DEF FirstFolder
    <2>2. CASE S # {}
        BY <2>2, FirstFolderIn
    <2> QED
        BY <2>1, <2>2
<1>3. EditorFolder \in Folders \cup {None}
    BY <1>1 DEF EditorFolder
<1>4. PickPrimary = FirstOf(FirstFolder(pointed), FirstOf(EditorFolder, FirstFolder(arah)))
    BY DEF PickPrimary
<1> HIDE DEF pointed
<1> QED
    BY <1>1, <1>2, <1>3, <1>4 DEF FirstOf

LEMMA BuildPayloadType ==
    ASSUME WorkspaceInv, FeedTypeOK
    PROVE  BuildPayload \in Payload
<1> DEFINE f == PickPrimary
           focus == lastFocusMeta[f]
           cid == IF focus = None THEN None ELSE focus.cid
           name == IF focus = None THEN None ELSE focus.name
           file == LoadSessionState(f, cid)
<1>1. CASE f = None
    BY <1>1 DEF BuildPayload, EmptyPayload, Payload
<1>2. CASE f # None
    <2>1. f \in Folders
        BY <1>2, PickPrimaryType
    <2>2. focus \in Focus \cup {None}
        BY <2>1 DEF FeedTypeOK
    <2>3. cid \in SessionIds \cup {None} /\ name \in ChatNames \cup {None}
        BY <2>2 DEF Focus, SessionIds
    <2>4. /\ manifest[f] \in SessionIds \cup {None} /\ legacy[f] \in SessionFile \cup {NoSession}
          /\ session[f] \in [SessionIds -> SessionFile \cup {None}]
          /\ graph[f] \in Graphs \cup {None}
        BY <2>1 DEF WorkspaceInv, WorkspaceTypeOK
    <2>5. BuildPayload = [ws |-> f, cid |-> FirstOf(cid, FirstOf(file.of, manifest[f])),
                          chat |-> FirstOf(file.chat, name), session |-> file,
                          graph |-> graph[f]]
        BY <1>2 DEF BuildPayload
    <2> HIDE DEF f, cid, name, focus
    <2>6. file \in SessionFile \cup {NoSession}
        BY <2>3, <2>4 DEF LoadSessionState
    <2> HIDE DEF file
    <2>7. file.of \in SessionIds \cup {None} /\ file.chat \in ChatNames \cup {None}
        BY <2>6 DEF SessionFile, NoSession
    <2> QED
        BY <2>1, <2>3, <2>4, <2>5, <2>6, <2>7 DEF FirstOf, Payload
<1> QED
    BY <1>1, <1>2

LEMMA FeedStep ==
    ASSUME TypeInv, [Next]_vars
    PROVE  FeedTypeOK'
<1>1. CASE Feed
    <2>1. PICK f \in Folders, focus \in Focus : FocusMoves(f, focus) \/ FocusRenamed(f, focus)
        BY <1>1 DEF Feed, FocusesOf
    <2> QED
        BY <2>1 DEF FocusMoves, FocusRenamed, TypeInv, FeedTypeOK
<1>2. CASE Announced \/ ProviderDisposed
    BY <1>2 DEF Announced, AnnouncedOnFocus, ProviderDisposed, FeedCleared, TypeInv, FeedTypeOK
<1>3. ASSUME UNCHANGED feedVars
      PROVE  FeedTypeOK'
    BY <1>3 DEF feedVars, TypeInv, FeedTypeOK
<1>4. CASE UNCHANGED vars \/ Writers \/ FolderChange \/ EditorSwitched \/ RefreshCommand
           \/ PageHidden \/ ViewClosed
    BY <1>3, <1>4 DEF vars, Writers, FilesChange, FolderChange, EditorSwitched, RefreshCommand,
       PageHidden, ViewClosed
<1>5. CASE Watch \/ ThrottleEnds \/ FlushRefresh \/ ResolveWebviewView \/ PageShown \/ Webview
    BY <1>3, <1>5 DEF outside, Watch, WatcherEvent, ThrottleEnds, FlushRefresh,
       ResolveWebviewView, PageShown, Webview, PageLoads, PageGetsUpdate, HostGetsReady
<1> QED
    BY <1>1, <1>2, <1>4, <1>5 DEF Next

\* The flags of a refresh that is asked for.
LEMMA RefreshType ==
    ASSUME TypeInv, NEW force \in BOOLEAN, NEW tabSwitch \in BOOLEAN, Refresh(force, tabSwitch)
    PROVE  /\ refreshTimer' \in BOOLEAN /\ pendingForce' \in BOOLEAN
           /\ pendingTabSwitch' \in BOOLEAN /\ refreshTimer'
BY DEF Refresh, TypeInv, PanelTypeOK

LEMMA CalledType ==
    ASSUME TypeInv, NEW force \in BOOLEAN, NEW tabSwitch \in BOOLEAN,
           RefreshCalled(force, tabSwitch)
    PROVE  PanelTypeOK'
<1>1. /\ refreshTimer' \in BOOLEAN /\ pendingForce' \in BOOLEAN
      /\ pendingTabSwitch' \in BOOLEAN /\ refreshTimer'
    BY RefreshType DEF RefreshCalled
<1> QED
    BY <1>1 DEF RefreshCalled, TypeInv, PanelTypeOK, pageVars

LEMMA FlushType ==
    ASSUME TypeInv, FlushRefresh
    PROVE  PanelTypeOK'
<1> DEFINE payload == BuildPayload
           message == [payload |-> payload, tabSwitch |-> pendingTabSwitch]
           Messages == [payload : Payload, tabSwitch : BOOLEAN]
<1>1. payload \in Payload
    BY BuildPayloadType DEF TypeInv
<1>2. message \in Messages
    <2>1. pendingTabSwitch \in BOOLEAN
        BY DEF TypeInv, PanelTypeOK
    <2> HIDE DEF payload
    <2> QED
        BY <1>1, <2>1
<1>3. toPage' = toPage \/ toPage' = Append(toPage, message)
    BY DEF FlushRefresh, Post
<1>4. toPage \in Seq(Messages) /\ Len(toPage) < MaxMessages
    BY DEF TypeInv, PanelTypeOK, FlushRefresh
<1> HIDE DEF message, Messages
<1>5. toPage' \in Seq(Messages) /\ Len(toPage') <= MaxMessages
    BY <1>2, <1>3, <1>4, PanelAssumption
<1>6. ~refreshTimer' /\ ~pendingForce' /\ ~pendingTabSwitch' /\ ~missed'
    BY DEF FlushRefresh, TakePending
<1>7. refreshTimer' \in BOOLEAN /\ pendingForce' \in BOOLEAN /\ pendingTabSwitch' \in BOOLEAN
      /\ missed' \in BOOLEAN
    BY DEF FlushRefresh, TakePending
<1> QED
    BY <1>5, <1>6, <1>7 DEF FlushRefresh, TypeInv, PanelTypeOK, Messages

LEMMA WatchType ==
    ASSUME TypeInv, Watch
    PROVE  PanelTypeOK'
<1> PICK f \in Folders : WatcherEvent(f)
    BY DEF Watch
<1>1. CASE throttled \/ f \notin watched
    <2>1. missed' \in BOOLEAN
        BY <1>1 DEF WatcherEvent, TypeInv, PanelTypeOK
    <2> QED
        BY <1>1, <2>1 DEF WatcherEvent, TypeInv, PanelTypeOK, pageVars, timerVars
<1>2. CASE ~(throttled \/ f \notin watched)
    <2>1. /\ refreshTimer' \in BOOLEAN /\ pendingForce' \in BOOLEAN
          /\ pendingTabSwitch' \in BOOLEAN /\ refreshTimer'
        BY <1>2, RefreshType DEF WatcherEvent
    <2> QED
        BY <1>2, <2>1 DEF WatcherEvent, TypeInv, PanelTypeOK, pageVars
<1> QED
    BY <1>1, <1>2

LEMMA PageType ==
    ASSUME TypeInv, PageHidden \/ ViewClosed \/ ResolveWebviewView \/ PageShown \/ Webview
    PROVE  PanelTypeOK'
<1>1. CASE PageHidden
    BY <1>1 DEF PageHidden, TypeInv, PanelTypeOK, timerVars
<1>2. CASE ViewClosed
    <2>1. page'.payload \in Payload
        BY <1>2 DEF ViewClosed, NoPage, BlankPage, EmptyPayload, Payload
    <2>2. /\ toPage' \in Seq([payload : Payload, tabSwitch : BOOLEAN])
          /\ Len(toPage') <= MaxMessages
        BY <1>2, PanelAssumption DEF ViewClosed
    <2> QED
        BY <1>2, <2>1, <2>2 DEF ViewClosed, TypeInv, PanelTypeOK, timerVars
<1>3. CASE ResolveWebviewView
    <2>1. page'.payload \in Payload
        BY <1>3, BuildPayloadType DEF ResolveWebviewView, BlankPage, TypeInv
    <2>2. /\ refreshTimer' \in BOOLEAN /\ pendingForce' \in BOOLEAN
          /\ pendingTabSwitch' \in BOOLEAN /\ refreshTimer'
        BY <1>3, RefreshType DEF ResolveWebviewView
    <2>3. watched' \subseteq Folders
        BY <1>3 DEF ResolveWebviewView, TypeInv, WorkspaceInv, WorkspaceTypeOK
    <2> QED
        BY <1>3, <2>1, <2>2, <2>3 DEF ResolveWebviewView, TypeInv, PanelTypeOK
<1>4. CASE PageShown \/ HostGetsReady
    <2>1. /\ refreshTimer' \in BOOLEAN /\ pendingForce' \in BOOLEAN
          /\ pendingTabSwitch' \in BOOLEAN /\ refreshTimer'
        BY <1>4, RefreshType DEF PageShown, HostGetsReady
    <2> QED
        BY <1>4, <2>1 DEF PageShown, HostGetsReady, TypeInv, PanelTypeOK
<1>5. CASE PageLoads
    <2>1. page'.payload \in Payload
        BY <1>5 DEF PageLoads, Draw, PageOf, TypeInv, PanelTypeOK
    <2> QED
        BY <1>5, <2>1 DEF PageLoads, TypeInv, PanelTypeOK, timerVars
<1>6. CASE PageGetsUpdate
    <2>1. toPage \in Seq([payload : Payload, tabSwitch : BOOLEAN]) /\ toPage # <<>>
        BY <1>6 DEF PageGetsUpdate, TypeInv, PanelTypeOK
    <2>2. Head(toPage).payload \in Payload
        <3> DEFINE Messages == [payload : Payload, tabSwitch : BOOLEAN]
        <3>1. Head(toPage) \in Messages
            <4>1. toPage \in Seq(Messages) /\ toPage # <<>>
                BY <2>1
            <4> HIDE DEF Messages
            <4> QED
                BY <4>1
        <3> QED
            BY <3>1
    <2>3. /\ toPage' \in Seq([payload : Payload, tabSwitch : BOOLEAN])
          /\ Len(toPage') <= MaxMessages
        BY <1>6, <2>1, PanelAssumption DEF PageGetsUpdate, TypeInv, PanelTypeOK
    <2>4. page'.payload \in Payload
        BY <1>6, <2>2 DEF PageGetsUpdate, Draw, PageOf, TypeInv, PanelTypeOK
    <2> QED
        BY <1>6, <2>3, <2>4 DEF PageGetsUpdate, TypeInv, PanelTypeOK, timerVars
<1> QED
    BY <1>1, <1>2, <1>3, <1>4, <1>5, <1>6 DEF Webview

LEMMA PanelStep ==
    ASSUME TypeInv, [Next]_vars
    PROVE  PanelTypeOK'
<1>1. CASE UNCHANGED vars
    BY <1>1 DEF vars, panelVars, pageVars, timerVars, TypeInv, PanelTypeOK
<1>2. CASE Writers
    <2>1. fsPending' \subseteq Folders
        BY <1>2 DEF Writers, FilesChange, TypeInv, PanelTypeOK
    <2> QED
        BY <1>2, <2>1 DEF Writers, FilesChange, pageVars, timerVars, TypeInv, PanelTypeOK
<1>3. CASE FolderChange \/ Feed
    <2>1. missed' \in BOOLEAN
        BY <1>3 DEF FolderChange, Feed, Unannounced
    <2> QED
        BY <1>3, <2>1 DEF FolderChange, Feed, Unannounced, pageVars, timerVars, TypeInv, PanelTypeOK
<1>4. CASE Announced \/ EditorSwitched \/ RefreshCommand
    BY <1>4, CalledType DEF Announced, EditorSwitched, RefreshCommand
<1>5. CASE ProviderDisposed
    BY <1>5 DEF ProviderDisposed, pageVars, TypeInv, PanelTypeOK
<1>6. CASE ThrottleEnds
    BY <1>6 DEF ThrottleEnds, pageVars, timerVars, TypeInv, PanelTypeOK
<1> QED
    BY <1>1, <1>2, <1>3, <1>4, <1>5, <1>6, WatchType, FlushType, PageType DEF Next

LEMMA TypeNext ==
    ASSUME TypeInv, [Next]_vars
    PROVE  TypeInv'
BY FilesStep, FeedStep, PanelStep DEF TypeInv

\* Types of the panel and of what it reads: a payload that is on its way or shown
\* is one buildPayload can make (liveViewProvider.ts:407-474).
THEOREM PanelTypeCorrect == Spec => []LiveTypeOK
<1>1. TypeInv => LiveTypeOK
    BY DEF TypeInv, WorkspaceInv, LiveTypeOK
<1> QED
    BY <1>1, TypeStart, TypeNext, PTL DEF Spec

-----------------------------------------------------------------------------
(* What the page shows.                                                    *)

\* A page opened on a payload.
Fresh(p) == Render(EmptyTrack, NoKey, p, FALSE)

\* The key a page keeps is that of its chains, if there are any.
KeyOfChains(p) == p.track.chains # <<>> => p.key = FlowKey(p.track.chains)

\* A page that draws like a fresh one.
DrawnAfresh(p) ==
    /\ p.lists = Fresh(p.payload).lists
    /\ p.track.chains # <<>> => FlowKey(p.track.chains) = FlowKey(Fresh(p.payload).track.chains)

\* No track has the key a page starts with.
LEMMA NoKeyIsNew ==
    ASSUME NEW flows
    PROVE  FlowKey(flows) # NoKey
<1> SUFFICES ASSUME FlowKey(flows) = NoKey PROVE FALSE
    OBVIOUS
<1> DEFINE row(i) == <<flows[i].rule, [j \in DOMAIN flows[i].steps |-> flows[i].steps[j].agent],
                       flows[i].active>>
<1>1. FlowKey(flows) = [i \in DOMAIN flows |-> row(i)]
    BY DEF FlowKey
<1>2. 1 \in DOMAIN NoKey /\ NoKey[1] = <<None>>
    BY DEF NoKey
<1>3. DOMAIN FlowKey(flows) = DOMAIN flows
    BY <1>1
<1>4. row(1) = <<None>>
    BY <1>1, <1>2, <1>3
<1>5. Len(row(1)) = 3 /\ Len(<<None>>) = 1
    OBVIOUS
<1> QED
    BY <1>4, <1>5

\* The track for one session and graph, whatever was drawn before.
LEMMA FluxAfresh ==
    ASSUME NEW track, NEW key, NEW k \in {NoKey, key}, NEW s, NEW g,
           track.chains # <<>> => key = FlowKey(track.chains),
           NEW flux, flux = RenderAgentFlux(track, k, s, g),
           NEW fresh, fresh = RenderAgentFlux(EmptyTrack, NoKey, s, g)
    PROVE  flux.track.chains # <<>> =>
                /\ flux.key = FlowKey(flux.track.chains)
                /\ FlowKey(flux.track.chains) = FlowKey(fresh.track.chains)
<1> DEFINE flows == BuildAgentFlows(s, g)
<1>1. CASE g = None
    BY <1>1 DEF RenderAgentFlux, DrawFlows, Idle
<1>2. CASE g # None
    <2>1. FlowKey(flows) # NoKey
        BY NoKeyIsNew
    <2>2. fresh.track.chains = flows
        BY <1>2, <2>1 DEF RenderAgentFlux, DrawFlows, Idle, Chains
    <2>3. CASE FlowKey(flows) = k /\ track # EmptyTrack
        <3>1. flux.track = track /\ flux.key = k
            BY <1>2, <2>3 DEF RenderAgentFlux, DrawFlows
        <3>2. k = key
            BY <2>1, <2>3
        <3> HIDE DEF flows
        <3> QED
            BY <2>2, <2>3, <3>1, <3>2
    <2>4. CASE ~(FlowKey(flows) = k /\ track # EmptyTrack)
        <3>1. flux.track.chains = flows /\ flux.key = FlowKey(flows)
            BY <1>2, <2>4 DEF RenderAgentFlux, DrawFlows, Idle, Chains
        <3> HIDE DEF flows
        <3> QED
            BY <2>2, <3>1
    <2> QED
        BY <2>3, <2>4
<1> QED
    BY <1>1, <1>2

LEMMA DrawAfresh ==
    ASSUME NEW old, NEW p, NEW tabSwitch \in BOOLEAN, KeyOfChains(old),
           NEW new, new = Draw(old, p, tabSwitch)
    PROVE  KeyOfChains(new) /\ DrawnAfresh(new)
<1> DEFINE s == SessionData[p.session.body]
           k == IF tabSwitch THEN NoKey ELSE old.key
           flux == RenderAgentFlux(old.track, k, s, p.graph)
           fresh == RenderAgentFlux(EmptyTrack, NoKey, s, p.graph)
<1>1. new.payload = p
    BY DEF Draw, PageOf
<1>2. CASE p.ws = None
    <2>1. new.lists = NoLists /\ new.track.chains = <<>> /\ Fresh(p).lists = NoLists
        BY <1>2 DEF Draw, PageOf, Render, Fresh, Idle
    <2> QED
        BY <1>1, <2>1 DEF KeyOfChains, DrawnAfresh
<1>3. CASE p.ws # None
    <2>1. new.lists = Lists(s, p.graph) /\ new.track = flux.track /\ new.key = flux.key
        BY <1>3 DEF Draw, PageOf, Render
    <2>2. Fresh(p).lists = Lists(s, p.graph) /\ Fresh(p).track = fresh.track
        BY <1>3 DEF Fresh, Render
    <2>3. flux.track.chains # <<>> =>
                /\ flux.key = FlowKey(flux.track.chains)
                /\ FlowKey(flux.track.chains) = FlowKey(fresh.track.chains)
        <3>1. flux = RenderAgentFlux(old.track, k, s, p.graph) /\ k \in {NoKey, old.key}
            OBVIOUS
        <3>2. fresh = RenderAgentFlux(EmptyTrack, NoKey, s, p.graph)
            OBVIOUS
        <3>3. old.track.chains # <<>> => old.key = FlowKey(old.track.chains)
            BY DEF KeyOfChains
        <3> HIDE DEF flux, fresh, s, k
        <3> QED
            BY <3>1, <3>2, <3>3, FluxAfresh
    <2> HIDE DEF flux, fresh, s
    <2> QED
        BY <1>1, <2>1, <2>2, <2>3 DEF KeyOfChains, DrawnAfresh
<1> QED
    BY <1>2, <1>3

PageInv == KeyOfChains(page) /\ (view = "ready" => DrawnAfresh(page))

LEMMA PageStart == Init => PageInv
<1> SUFFICES ASSUME Init PROVE PageInv
    OBVIOUS
<1>1. page.track.chains = <<>> /\ view = "none"
    BY DEF Init, PanelInit, NoPage, BlankPage, EmptyTrack, Idle
<1> QED
    BY <1>1 DEF PageInv, KeyOfChains

LEMMA PageNext ==
    ASSUME TypeInv, PageInv, [Next]_vars
    PROVE  PageInv'
<1>1. CASE UNCHANGED <<view, page>>
    BY <1>1 DEF PageInv
<1>2. ASSUME NEW p, page' = BlankPage(p), view' # "ready"
      PROVE  PageInv'
    BY <1>2 DEF PageInv, KeyOfChains, BlankPage, EmptyTrack, Idle
<1>3. CASE ViewClosed \/ ResolveWebviewView
    BY <1>2, <1>3 DEF ViewClosed, ResolveWebviewView, NoPage
<1>4. CASE PageLoads
    BY <1>4, DrawAfresh DEF PageLoads, PageInv
<1>5. CASE PageGetsUpdate
    <2> DEFINE m == Head(toPage)
               Messages == [payload : Payload, tabSwitch : BOOLEAN]
    <2>1. m \in Messages
        <3>1. toPage \in Seq(Messages) /\ toPage # <<>>
            BY <1>5 DEF PageGetsUpdate, TypeInv, PanelTypeOK
        <3> HIDE DEF Messages
        <3> QED
            BY <3>1
    <2>2. m.tabSwitch \in BOOLEAN
        BY <2>1
    <2>3. /\ page' = page \/ page' = Draw(page, m.payload, m.tabSwitch)
          /\ view' = view
        BY <1>5 DEF PageGetsUpdate
    <2> HIDE DEF m
    <2> QED
        BY <1>1, <2>2, <2>3, DrawAfresh DEF PageInv
<1>6. CASE \/ UNCHANGED vars \/ Writers \/ FolderChange \/ Feed \/ Announced \/ EditorSwitched
           \/ RefreshCommand \/ PageHidden \/ ProviderDisposed \/ Watch \/ ThrottleEnds
           \/ FlushRefresh \/ PageShown \/ HostGetsReady
    <2>1. UNCHANGED <<view, page>>
        BY <1>6 DEF vars, panelVars, pageVars, Writers, FilesChange, FolderChange, Feed,
           Unannounced, Announced, EditorSwitched, RefreshCommand, RefreshCalled, PageHidden,
           ProviderDisposed, Watch, WatcherEvent, ThrottleEnds, FlushRefresh, PageShown,
           HostGetsReady
    <2> QED
        BY <1>1, <2>1
<1> QED
    BY <1>3, <1>4, <1>5, <1>6 DEF Next, Webview

\* For every content of sessions and graphs, a page that was hidden, cleared or
\* drawn many times shows its payload like one opened on it, up to what the key of
\* the track ignores (live.js:124-191).
THEOREM PageLikeFresh == Spec => []PageShowsPayload
<1>1. PageInv => PageShowsPayload
    BY DEF PageInv, DrawnAfresh, Fresh, PageShowsPayload
<1> QED
    BY <1>1, TypeStart, TypeNext, PageStart, PageNext, PTL DEF Spec

-----------------------------------------------------------------------------
(* The panel agrees with the files.                                        *)

\* While a hook rewrites a session file there is none.
HookEmpties == hook # None => session[hook.folder][hook.file.of] = None

\* The fingerprint of what the files say, and of what the page will have drawn
\* when it has got its messages.
Current == Fingerprint(BuildPayload)
Final == IF toPage = <<>> THEN page.fp ELSE Fingerprint(toPage[Len(toPage)].payload)

\* With nothing asked for and nothing to report, what the host built last is what
\* the files say.
HostCurrent ==
    (active /\ view # "none" /\ ~refreshTimer /\ ~missed /\ fsPending = {}) =>
        lastFingerprint = Current

\* A page that has loaded gets to what the host posted last, unless the host has
\* forgotten on purpose what that was: it then posts, whatever it finds.
PageFollows == (view = "ready" /\ ~readySent /\ ~pendingForce) => Final = lastFingerprint

CurrentInv == HookEmpties /\ HostCurrent /\ PageFollows

LEMMA CurrentStart == Init => CurrentInv
BY DEF Init, WorkspaceInit, PanelInit, CurrentInv, HookEmpties, HostCurrent, PageFollows

\* What buildPayload reads.
LEMMA SamePayload ==
    ASSUME UNCHANGED <<arah, editor, manifest, session, legacy, graph, lastFocusMeta>>
    PROVE  UNCHANGED Current
<1>1. PickPrimary' = PickPrimary
    BY DEF PickPrimary, EditorFolder
<1>2. BuildPayload' = BuildPayload
    BY <1>1 DEF BuildPayload, LoadSessionState
<1> QED
    BY <1>2 DEF Current

\* A write that no file watcher has to report changed nothing that is read.
LEMMA UnreportedWrite ==
    ASSUME TypeInv, HookEmpties, Writers, fsPending' = {}
    PROVE  UNCHANGED Current
<1>1. /\ manifest \in [Folders -> SessionIds \cup {None}]
      /\ session \in [Folders -> [SessionIds -> SessionFile \cup {None}]]
      /\ graph \in [Folders -> Graphs \cup {None}]
    BY DEF TypeInv, WorkspaceInv, WorkspaceTypeOK
<1>2. /\ manifest' \in [Folders -> SessionIds \cup {None}]
      /\ session' \in [Folders -> [SessionIds -> SessionFile \cup {None}]]
      /\ graph' \in [Folders -> Graphs \cup {None}]
    BY WritersFiles DEF WorkspaceInv, WorkspaceTypeOK
<1>3. \A f \in Folders :
        manifest'[f] = manifest[f] /\ session'[f] = session[f] /\ graph'[f] = graph[f]
    BY DEF Writers, FilesChange, FilesOf
<1>4. UNCHANGED <<manifest, session, graph>>
    BY <1>1, <1>2, <1>3
<1>5. UNCHANGED <<arah, editor, lastFocusMeta>>
    BY DEF Writers, FocusScriptPoints, HookBegins, HookEnds, GraphWritten, FilesChange, feedVars
<1>6. UNCHANGED legacy
    <2>1. CASE FocusScriptPoints
        <3>1. PICK f \in owed :
                lastFocusMeta[f] # None /\ EnsureSession(f, lastFocusMeta[f].cid)
            BY <2>1 DEF FocusScriptPoints
        <3> DEFINE c == lastFocusMeta[f].cid
        <3>2. f \in Folders /\ c \in SessionIds
            BY <3>1 DEF TypeInv, FeedTypeOK, Focus, SessionIds
        <3>3. NewSession(c) \in SessionFile /\ NewSession(c).of = c
            BY <3>2, EmptyBodyAssumption DEF NewSession, SessionFile, Bodies
        <3>4. ~WriteSession(f, NewSession(c)) \/ session[f][c] # None
            <4> HIDE DEF c
            <4> QED
                BY <1>4, <3>2, <3>3, WriteSessionStep DEF TypeInv
        <3> QED
            BY <3>1, <3>4 DEF EnsureSession, HasFile
    <2>2. CASE HookEnds
        <3>1. /\ hook # None /\ hook.folder \in Folders /\ hook.file \in SessionFile
              /\ WriteSession(hook.folder, hook.file)
            BY <2>2 DEF HookEnds, TypeInv, WorkspaceInv, WorkspaceTypeOK
        <3>2. session'[hook.folder][hook.file.of] # None
            BY <3>1, WriteSessionStep DEF TypeInv
        <3> QED
            BY <1>4, <3>1, <3>2 DEF HookEmpties
    <2> QED
        BY <2>1, <2>2 DEF Writers, HookBegins, GraphWritten
<1> QED
    BY <1>4, <1>5, <1>6, SamePayload

LEMMA HookEmptiesNext ==
    ASSUME TypeInv, HookEmpties, [Next]_vars
    PROVE  HookEmpties'
<1>1. ASSUME UNCHANGED <<session, hook>>
      PROVE  HookEmpties'
    BY <1>1 DEF HookEmpties
<1>2. CASE Writers
    <2>1. CASE FocusScriptPoints
        <3>1. PICK f \in owed :
                lastFocusMeta[f] # None /\ EnsureSession(f, lastFocusMeta[f].cid)
            BY <2>1 DEF FocusScriptPoints
        <3> DEFINE c == lastFocusMeta[f].cid
        <3>2. hook' = hook
            BY <2>1 DEF FocusScriptPoints
        <3>3. CASE HasFile(f, c)
            BY <1>1, <3>1, <3>2, <3>3 DEF EnsureSession
        <3>4. CASE ~HasFile(f, c)
            <4>1. session' = [session EXCEPT ![f][c] = NewSession(c)]
                BY <3>1, <3>4 DEF EnsureSession, WriteSession, NewSession
            <4>2. hook # None => hook.folder # f \/ hook.file.of # c
                BY <3>4 DEF HasFile
            <4>3. hook # None => hook.folder \in Folders /\ hook.file.of \in SessionIds
                BY DEF TypeInv, WorkspaceInv, WorkspaceTypeOK, SessionFile
            <4>4. session \in [Folders -> [SessionIds -> SessionFile \cup {None}]]
                BY DEF TypeInv, WorkspaceInv, WorkspaceTypeOK
            <4> HIDE DEF c
            <4> QED
                BY <3>2, <4>1, <4>2, <4>3, <4>4 DEF HookEmpties
        <3> QED
            BY <3>3, <3>4
    <2>2. ASSUME NEW c \in Chats, NEW b \in Bodies, HookBegins(Home[c], c, b)
          PROVE  HookEmpties'
        <3> DEFINE file == [ReadSession(Home[c], c) EXCEPT !.body = b]
        <3>1. Home[c] \in Folders /\ c \in SessionIds
            BY HomeAssumption DEF SessionIds
        <3>2. ReadSession(Home[c], c) \in SessionFile /\ ReadSession(Home[c], c).of = c
            BY <3>1, ReadSessionType DEF TypeInv
        <3>3. file.of = c
            BY <3>2 DEF SessionFile
        <3>4. hook' = [folder |-> Home[c], file |-> file]
            BY <2>2 DEF HookBegins
        <3> HIDE DEF file
        <3>5. session'[Home[c]][c] = None
            BY <2>2, <3>1 DEF HookBegins, TypeInv, WorkspaceInv, WorkspaceTypeOK
        <3> QED
            BY <3>3, <3>4, <3>5 DEF HookEmpties
    <2>3. CASE HookEnds
        BY <2>3 DEF HookEnds, HookEmpties
    <2>4. ASSUME NEW f \in Folders, NEW g \in Graphs \cup {None}, GraphWritten(f, g)
          PROVE  HookEmpties'
        BY <1>1, <2>4 DEF GraphWritten
    <2> QED
        BY <1>2, <2>1, <2>2, <2>3, <2>4 DEF Writers
<1>3. CASE ~Writers
    <2>1. UNCHANGED <<session, hook>>
        BY <1>3 DEF Next, vars, outside, fileVars, FolderChange, FolderToggled, Feed, Announced,
           EditorSwitched, EditorMoved, RefreshCommand, PageHidden, ViewClosed, ProviderDisposed,
           Watch, WatcherEvent, ThrottleEnds, FlushRefresh, ResolveWebviewView, PageShown, Webview,
           PageLoads, PageGetsUpdate, HostGetsReady
    <2> QED
        BY <1>1, <2>1
<1> QED
    BY <1>2, <1>3

LEMMA HostCurrentNext ==
    ASSUME TypeInv, CurrentInv, [Next]_vars
    PROVE  HostCurrent'
<1> USE DEF CurrentInv
<1>1. ASSUME UNCHANGED Current,
             \/ UNCHANGED <<active, view, refreshTimer, missed, fsPending, lastFingerprint>>
             \/ UNCHANGED <<active, refreshTimer, missed, fsPending, lastFingerprint>>
                /\ view # "none"
      PROVE  HostCurrent'
    BY <1>1 DEF HostCurrent
<1>2. ASSUME refreshTimer' \/ missed' \/ ~active'
      PROVE  HostCurrent'
    BY <1>2 DEF HostCurrent
<1>3. CASE UNCHANGED vars
    BY <1>1, <1>3, SamePayload
    DEF vars, panelVars, pageVars, timerVars, fileVars, feedVars
<1>4. CASE Writers
    <2>1. UNCHANGED <<active, view, refreshTimer, missed, lastFingerprint>>
        BY <1>4 DEF Writers, FilesChange, pageVars, timerVars
    <2>2. fsPending' = {} => fsPending = {} /\ UNCHANGED Current
        BY <1>4, UnreportedWrite DEF Writers, FilesChange
    <2> QED
        BY <2>1, <2>2 DEF HostCurrent
<1>5. CASE FolderChange \/ Feed
    <2>1. missed'
        BY <1>5 DEF FolderChange, Feed, Unannounced
    <2> QED
        BY <1>2, <2>1
<1>6. CASE Announced \/ EditorSwitched \/ RefreshCommand \/ ResolveWebviewView \/ PageShown
           \/ HostGetsReady
    <2>1. refreshTimer'
        BY <1>6 DEF Announced, EditorSwitched, RefreshCommand, RefreshCalled, Refresh,
           ResolveWebviewView, PageShown, HostGetsReady
    <2> QED
        BY <1>2, <2>1
<1>7. CASE ProviderDisposed
    <2>1. ~active'
        BY <1>7 DEF ProviderDisposed
    <2> QED
        BY <1>2, <2>1
<1>8. CASE Watch
    <2> PICK f \in Folders : WatcherEvent(f)
        BY <1>8 DEF Watch
    <2>1. CASE throttled \/ f \notin watched
        <3>1. missed' = (missed \/ ~refreshTimer) /\ refreshTimer' = refreshTimer
            BY <2>1 DEF WatcherEvent, timerVars
        <3>2. refreshTimer \/ ~refreshTimer
            OBVIOUS
        <3> QED
            BY <1>2, <3>1, <3>2, ZenonT(20)
    <2>2. CASE ~(throttled \/ f \notin watched)
        <3>1. refreshTimer'
            BY <2>2 DEF WatcherEvent, Refresh
        <3> QED
            BY <1>2, <3>1
    <2> QED
        BY <2>1, <2>2
<1>9. CASE FlushRefresh
    <2>1. UNCHANGED Current
        BY <1>9, SamePayload DEF FlushRefresh, outside, fileVars, feedVars
    <2>2. view' # "none" => lastFingerprint' = Current
        BY <1>9 DEF FlushRefresh, Current
    <2> QED
        BY <2>1, <2>2 DEF HostCurrent
<1>10. CASE PageHidden \/ ViewClosed \/ ThrottleEnds \/ PageLoads \/ PageGetsUpdate
    <2>1. UNCHANGED <<arah, editor, manifest, session, legacy, graph, lastFocusMeta>>
        BY <1>10 DEF PageHidden, ViewClosed, ThrottleEnds, PageLoads, PageGetsUpdate, outside,
           fileVars, feedVars
    <2>2. /\ UNCHANGED <<active, refreshTimer, missed, fsPending, lastFingerprint>>
          /\ UNCHANGED view \/ view # "none"
        BY <1>10 DEF PageHidden, ViewClosed, ThrottleEnds, PageLoads, PageGetsUpdate, pageVars,
           timerVars
    <2> QED
        BY <1>1, <2>1, <2>2, SamePayload
<1> QED
    BY <1>3, <1>4, <1>5, <1>6, <1>7, <1>8, <1>9, <1>10 DEF Next, Webview

LEMMA LastOfTail ==
    ASSUME NEW S, NEW s \in Seq(S), s # <<>>, Len(s) # 1
    PROVE  Tail(s) # <<>> /\ Tail(s)[Len(Tail(s))] = s[Len(s)]
<1>1. Len(s) \in Nat /\ Len(s) > 1
    BY EmptySeq
<1>2. Len(Tail(s)) = Len(s) - 1 /\ \A i \in 1..Len(Tail(s)) : Tail(s)[i] = s[i + 1]
    BY HeadTailProperties
<1>3. Len(Tail(s)) \in 1..Len(Tail(s)) /\ Len(Tail(s)) + 1 = Len(s)
    BY <1>1, <1>2
<1>4. Tail(s) # <<>>
    <2> SUFFICES ASSUME Tail(s) = <<>> PROVE FALSE
        OBVIOUS
    <2>1. Len(Tail(s)) = Len(<<>>)
        BY Zenon
    <2>2. Len(<<>>) = 0
        BY EmptySeq
    <2> QED
        BY <1>3, <2>1, <2>2
<1> QED
    BY <1>2, <1>3, <1>4

LEMMA PageFollowsNext ==
    ASSUME TypeInv, CurrentInv, [Next]_vars
    PROVE  PageFollows'
<1> USE DEF CurrentInv
<1> DEFINE Messages == [payload : Payload, tabSwitch : BOOLEAN]
<1>0. toPage \in Seq(Messages)
    BY DEF TypeInv, PanelTypeOK
<1> HIDE DEF Messages
<1>1. ASSUME UNCHANGED <<view, readySent, toPage, page, lastFingerprint>>,
             pendingForce => pendingForce'
      PROVE  PageFollows'
    BY <1>1 DEF PageFollows, Final
<1>2. ASSUME view' # "ready" \/ readySent' \/ pendingForce'
      PROVE  PageFollows'
    BY <1>2 DEF PageFollows
<1>3. CASE UNCHANGED vars \/ Writers \/ FolderChange \/ Feed \/ ThrottleEnds
           \/ ProviderDisposed \/ PageHidden
    <2>1. UNCHANGED <<view, readySent, toPage, page, lastFingerprint, pendingForce>>
        BY <1>3 DEF vars, panelVars, pageVars, timerVars, Writers, FilesChange, FolderChange,
           Feed, Unannounced, ThrottleEnds, ProviderDisposed, PageHidden
    <2> QED
        BY <1>1, <2>1
<1>4. CASE Announced \/ EditorSwitched \/ RefreshCommand \/ Watch
    <2>1. UNCHANGED <<view, readySent, toPage, page, lastFingerprint>>
        BY <1>4 DEF Announced, EditorSwitched, RefreshCommand, RefreshCalled, Watch, WatcherEvent,
           pageVars
    <2>2. pendingForce => pendingForce'
        BY <1>4 DEF Announced, EditorSwitched, RefreshCommand, RefreshCalled, Refresh, Watch,
           WatcherEvent, timerVars
    <2> QED
        BY <1>1, <2>1, <2>2
<1>5. CASE ResolveWebviewView \/ ViewClosed
    <2>1. view' # "ready"
        BY <1>5 DEF ResolveWebviewView, ViewClosed
    <2> QED
        BY <1>2, <2>1
<1>6. CASE PageShown \/ HostGetsReady
    <2>1. pendingForce'
        BY <1>6 DEF PageShown, HostGetsReady, Refresh
    <2> QED
        BY <1>2, <2>1
<1>7. CASE PageLoads
    <2>1. readySent'
        BY <1>7 DEF PageLoads
    <2> QED
        BY <1>2, <2>1
<1>8. CASE PageGetsUpdate
    <2> DEFINE m == Head(toPage)
    <2>1. /\ toPage # <<>> /\ toPage' = Tail(toPage)
          /\ UNCHANGED <<view, readySent, lastFingerprint, pendingForce>>
        BY <1>8 DEF PageGetsUpdate, timerVars
    <2>2. page'.fp = Fingerprint(m.payload)
        BY <1>8 DEF PageGetsUpdate, Draw, PageOf
    <2> HIDE DEF m
    <2>3. CASE Len(toPage) = 1
        <3>1. toPage' = <<>>
            BY <1>0, <2>1, <2>3
        <3>2. toPage[Len(toPage)] = m
            BY <1>0, <2>1, <2>3 DEF m
        <3> QED
            BY <2>1, <2>2, <3>1, <3>2 DEF PageFollows, Final
    <2>4. CASE Len(toPage) # 1
        <3>1. toPage' # <<>> /\ toPage'[Len(toPage')] = toPage[Len(toPage)]
            BY <1>0, <2>1, <2>4, LastOfTail
        <3> QED
            BY <2>1, <3>1 DEF PageFollows, Final
    <2> QED
        BY <2>3, <2>4
<1>9. CASE FlushRefresh
    <2> DEFINE payload == BuildPayload
               fp == Fingerprint(payload)
               message == [payload |-> payload, tabSwitch |-> pendingTabSwitch]
    <2>1. UNCHANGED <<view, readySent, page>>
        BY <1>9 DEF FlushRefresh
    <2>2. CASE view # "ready"
        BY <1>2, <2>1, <2>2
    <2>3. CASE view = "ready" /\ ~pendingForce /\ UNCHANGED <<lastFingerprint, toPage>>
        BY <2>1, <2>3 DEF PageFollows, Final
    <2>4. CASE view = "ready" /\ lastFingerprint' = fp /\ toPage' = Append(toPage, message)
        <3>1. toPage' # <<>> /\ toPage'[Len(toPage')] = message
            <4>1. toPage' = Append(toPage, message)
                BY <2>4
            <4> HIDE DEF message
            <4> QED
                BY <1>0, <4>1
        <3>2. message.payload = payload
            OBVIOUS
        <3> HIDE DEF message, payload
        <3> QED
            BY <2>4, <3>1, <3>2 DEF PageFollows, Final
    <2> QED
        BY <1>9, <2>2, <2>3, <2>4 DEF FlushRefresh, Post
<1> QED
    BY <1>3, <1>4, <1>5, <1>6, <1>7, <1>8, <1>9 DEF Next, Webview

LEMMA CurrentNext ==
    ASSUME TypeInv, CurrentInv, [Next]_vars
    PROVE  CurrentInv'
BY HookEmptiesNext, HostCurrentNext, PageFollowsNext DEF CurrentInv

\* The panel agrees with the files once everything has been delivered, unless a
\* change was one the extension never hears of: both ends skip payloads with the
\* fingerprint they had last, and still agree on what that was
\* (liveViewProvider.ts:281-327, live.js:51-60).
THEOREM PanelIsCurrent == Spec => []PanelCurrent
<1>1. TypeInv /\ CurrentInv => PanelCurrent
    BY DEF TypeInv, PanelTypeOK, CurrentInv, HostCurrent, PageFollows, Final, Current, Quiet,
       PanelCurrent
<1> QED
    BY <1>1, TypeStart, TypeNext, CurrentStart, CurrentNext, PTL DEF Spec
=============================================================================
