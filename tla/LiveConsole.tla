---------------------------- MODULE LiveConsole ----------------------------
(***************************************************************************)
(* The site's live console (components/console/LiveConsoleApp.tsx and      *)
(* LiveConsole.tsx, lib/live-api.ts) and, as its environment, the          *)
(* arah-live service on the visitor's machine.                             *)
(*                                                                         *)
(* Mounting the page starts a connection: the summary is tried for 900 ms, *)
(* then everything is fetched, then a WebSocket announces that watched     *)
(* files have changed, and each message fetches everything again.  Other   *)
(* changes of the answers are not announced.  Leaving the page cancels the *)
(* connection, whose awaits still return afterwards.  A bundle is six      *)
(* requests, made at once and answered separately; it is modelled by two,  *)
(* [summary, rest], each with the service's version when it was answered.  *)
(***************************************************************************)
EXTENDS ConsoleView

CONSTANTS
    MockRepos,      \* the repositories of console/mock.json
    MockFilters,    \* and the keys of its filters
    Summaries,      \* version of the service's answers -> answer of /api/summary
    Rests,          \* version -> what the other requests answer
    MaxVersion,     \* bound: changes of what the service answers
    MaxMounts,      \* bound: connections alive at a time
    MaxFetches      \* bound: fetches under way of one connection

ASSUME ConsoleAssumption ==
    /\ None \notin Nat /\ {MaxVersion, MaxMounts, MaxFetches} \subseteq Nat
    /\ MockRepos \in Seq(ToSet(MockRepos))

VARIABLES
    service,        \* arah-live: [up, version, watched, owed], with the version of its
                    \* answers, the last one its watcher had a part in, and whether
                    \* a broadcast for that is still to come
    connects,       \* connection -> [pc, cancelled, bundle]
    socket,         \* connection -> "none", "opening", "open" or "closed"
    timer,          \* connections with an interval, for want of a WebSocket
    pushed,         \* connection -> messages on their way to it
    fetches,        \* fetches under way after an event: [of, n, bundle]
    mounted,        \* the connection of the page that is shown, or None
    shown,          \* what the page shows: [mode, local, repoSlug, filter]
    behind          \* history: the page may show an old version until the next
                    \* event, because fetches overlapped or one failed

consoleVars == <<service, connects, socket, timer, pushed, fetches, mounted, shown,
                 behind>>

Conns == 1..MaxMounts
Versions == 0..MaxVersion
Bundle == [summary : Versions \cup {None}, rest : Versions \cup {None}]
NoBundle == [summary |-> None, rest |-> None]
ConnectAt(pc) == [pc |-> pc, cancelled |-> FALSE, bundle |-> NoBundle]
NoConnect == ConnectAt("none")
Filters == ToSet(MockFilters)
\* LiveConsoleApp shows the console once its mode is known; LiveConsole then
\* chooses the first repository, and no filter.
NotShown == [mode |-> "loading", local |-> None, repoSlug |-> None, filter |-> ""]

ConsoleTypeOK ==
    /\ service \in [up : BOOLEAN, version : Versions, watched : Versions, owed : BOOLEAN]
    /\ connects \in [Conns -> [pc : {"none", "summary", "bundle", "done"},
                               cancelled : BOOLEAN, bundle : Bundle]]
    /\ socket \in [Conns -> {"none", "opening", "open", "closed"}]
    /\ timer \subseteq Conns
    /\ pushed \in [Conns -> 0..MaxVersion + 1]
    /\ fetches \subseteq [of : Conns, n : 1..MaxFetches, bundle : Bundle]
    /\ mounted \in Conns \cup {None}
    /\ shown \in [mode : {"loading", "live", "mock"}, local : Bundle \cup {None},
                  repoSlug : {r.slug : r \in ToSet(MockRepos)} \cup {"local", None},
                  filter : Filters \cup {""}]
    /\ shown.mode = "live" => shown.local \in Bundle
    /\ behind \in BOOLEAN

ConsoleInit ==
    /\ service \in [up : BOOLEAN, version : {0}, watched : {0}, owed : {FALSE}]
    /\ connects = [c \in Conns |-> NoConnect] /\ socket = [c \in Conns |-> "none"]
    /\ timer = {} /\ pushed = [c \in Conns |-> 0] /\ fetches = {}
    /\ mounted = None /\ shown = NotShown /\ behind = FALSE

-----------------------------------------------------------------------------
(* The page.                                                               *)

Unused(c) ==
    connects[c].pc = "none" /\ socket[c] = "none" /\ \A f \in fetches : f.of # c

\* The effect's first run: connect() starts with the summary.
Mount ==
    /\ mounted = None
    /\ \E c \in Conns :
         /\ Unused(c) /\ \A d \in Conns : d < c => ~Unused(d)
         /\ connects' = [connects EXCEPT ![c] = ConnectAt("summary")]
         /\ mounted' = c
    /\ shown' = NotShown /\ behind' = FALSE
    /\ UNCHANGED <<service, socket, timer, pushed, fetches>>

\* The effect's cleanup.
Unmount ==
    LET c == mounted
    IN /\ mounted # None /\ mounted' = None
       /\ connects' = [connects EXCEPT ![c] =
                          IF @.pc = "done" THEN NoConnect ELSE [@ EXCEPT !.cancelled = TRUE]]
       /\ timer' = timer \ {c} /\ socket' = [socket EXCEPT ![c] = "none"]
       /\ pushed' = [pushed EXCEPT ![c] = 0]
       /\ shown' = NotShown /\ UNCHANGED <<service, fetches, behind>>

\* Versions are kept in place of the repository mapLiveToRepo made of them.
LocalRepo == MapLiveToRepo(Summaries[shown.local.summary], Rests[shown.local.rest])
Repos == IF shown.mode # "live" THEN MockRepos
         ELSE <<LocalRepo>> \o SelectSeq(MockRepos, LAMBDA r : r.slug # "local")
Repo == ChosenRepo(Repos, shown.repoSlug)

\* The repositories the picker offers.
Offered ==
    IF shown.mode # "live" THEN ToSet(MockRepos)
    ELSE {LocalRepo} \cup {r \in ToSet(MockRepos) : r.slug # "local"}

\* What is on the screen: nothing without a repository.
View ==
    IF shown.mode = "loading" \/ Repo = None THEN None
    ELSE [banner |-> shown.mode, header |-> Header(Repos, Repo),
          panels |-> ConsolePanels(Repo, MockFilters, shown.filter)]

SelectRepo(r) ==
    /\ mounted # None /\ shown.mode # "loading" /\ r \in Offered
    /\ shown' = [shown EXCEPT !.repoSlug = r.slug]
    /\ UNCHANGED <<service, connects, socket, timer, pushed, fetches, mounted, behind>>

SelectFilter(key) ==
    /\ mounted # None /\ shown.mode # "loading"
    /\ shown' = [shown EXCEPT !.filter = key]
    /\ UNCHANGED <<service, connects, socket, timer, pushed, fetches, mounted, behind>>

-----------------------------------------------------------------------------
(* The connection.  A cancelled one returns after its await.               *)

End(c) ==
    connects' = [connects EXCEPT ![c] =
        IF @.cancelled THEN NoConnect ELSE ConnectAt("done")]

ShowMock ==
    shown' = [shown EXCEPT !.mode = "mock",
                           !.repoSlug = IF MockRepos = <<>> THEN None ELSE Head(MockRepos).slug]

\* tryLiveSummary answers, or gives null: refused, not ok, or aborted.
SummaryReturns(c) ==
    /\ connects[c].pc = "summary"
    /\ \/ connects[c].cancelled /\ End(c) /\ UNCHANGED shown
       \/ /\ ~connects[c].cancelled /\ service.up
          /\ connects' = [connects EXCEPT ![c].pc = "bundle"] /\ UNCHANGED shown
       \/ ~connects[c].cancelled /\ End(c) /\ ShowMock
    /\ UNCHANGED <<service, socket, timer, pushed, fetches, mounted, behind>>

\* One of the requests of fetchLiveBundle is answered.
Answered(bundle, part) == [bundle EXCEPT ![part] = service.version]
Parts == {"summary", "rest"}
Complete(bundle) == \A part \in Parts : bundle[part] # None

BundleAnswered(c) ==
    /\ connects[c].pc = "bundle" /\ service.up
    /\ \E part \in Parts :
         /\ connects[c].bundle[part] = None
         /\ connects' = [connects EXCEPT ![c].bundle = Answered(@, part)]
    /\ UNCHANGED <<service, socket, timer, pushed, fetches, mounted, shown, behind>>

\* Mutant of BundleReturns: the connection of a page that was left is opened.
BundleReturnsLate(c) ==
    /\ connects[c].pc = "bundle" /\ Complete(connects[c].bundle) /\ End(c)
    /\ socket' = [socket EXCEPT ![c] = "opening"]
    /\ shown' = IF connects[c].cancelled THEN shown
                ELSE [shown EXCEPT !.mode = "live", !.local = connects[c].bundle,
                                   !.repoSlug = "local"]
    /\ UNCHANGED <<service, timer, pushed, fetches, mounted, behind>>

\* The bundle is shown and the WebSocket opened, or the interval started where
\* the constructor throws.
BundleReturns(c) ==
    /\ connects[c].pc = "bundle" /\ Complete(connects[c].bundle) /\ End(c)
    /\ IF connects[c].cancelled THEN UNCHANGED <<shown, socket, timer>>
       ELSE /\ shown' = [shown EXCEPT !.mode = "live", !.local = connects[c].bundle,
                                      !.repoSlug = "local"]
            /\ \/ socket' = [socket EXCEPT ![c] = "opening"] /\ UNCHANGED timer
               \/ timer' = timer \cup {c} /\ UNCHANGED socket
    /\ UNCHANGED <<service, pushed, fetches, mounted, behind>>

\* A request fails, or its answer is not JSON.
BundleFails(c) ==
    /\ connects[c].pc = "bundle" /\ End(c)
    /\ IF connects[c].cancelled THEN UNCHANGED shown ELSE ShowMock
    /\ UNCHANGED <<service, socket, timer, pushed, fetches, mounted, behind>>

Idle(c) == Cardinality({f \in fetches : f.of = c}) < MaxFetches
Fetch(c) ==
    LET used == {f.n : f \in {g \in fetches : g.of = c}}
        n == CHOOSE m \in (1..MaxFetches) \ used : TRUE
    IN fetches' = fetches \cup {[of |-> c, n |-> n, bundle |-> NoBundle]}

\* Mutant of SocketMessage: a message during a fetch is taken as answered by it.
SocketMessageOnce(c) ==
    /\ socket[c] = "open" /\ pushed[c] > 0 /\ Idle(c)
    /\ pushed' = [pushed EXCEPT ![c] = @ - 1]
    /\ IF \E f \in fetches : f.of = c THEN UNCHANGED fetches ELSE Fetch(c)
    /\ UNCHANGED behind
    /\ UNCHANGED <<service, connects, socket, timer, mounted, shown>>

\* ws.onmessage: everything is fetched again, whatever is under way.
SocketMessage(c) ==
    /\ socket[c] = "open" /\ pushed[c] > 0 /\ Idle(c)
    /\ pushed' = [pushed EXCEPT ![c] = @ - 1]
    /\ Fetch(c) /\ behind' = \E f \in fetches : f.of = c
    /\ UNCHANGED <<service, connects, socket, timer, mounted, shown>>

\* The interval, every 5 s.
TimerTick(c) ==
    /\ c \in timer /\ Idle(c) /\ Fetch(c) /\ behind' = \E f \in fetches : f.of = c
    /\ UNCHANGED <<service, connects, socket, timer, pushed, mounted, shown>>

FetchAnswered(f) ==
    /\ f \in fetches /\ service.up
    /\ \E part \in Parts :
         /\ f.bundle[part] = None
         /\ fetches' = (fetches \ {f}) \cup {[f EXCEPT !.bundle = Answered(@, part)]}
    /\ UNCHANGED <<service, connects, socket, timer, pushed, mounted, shown, behind>>

\* The last fetch to return is shown, whichever it is; the state of a page that
\* is gone is not.
FetchReturns(f) ==
    /\ f \in fetches /\ Complete(f.bundle) /\ fetches' = fetches \ {f}
    /\ shown' = IF mounted = f.of THEN [shown EXCEPT !.local = f.bundle] ELSE shown
    /\ UNCHANGED <<service, connects, socket, timer, pushed, mounted, behind>>

FetchFails(f) ==
    /\ f \in fetches /\ fetches' = fetches \ {f}
    /\ behind' = (behind \/ mounted = f.of)
    /\ UNCHANGED <<service, connects, socket, timer, pushed, mounted, shown>>

-----------------------------------------------------------------------------
(* arah-live: it greets a connection when it has registered it, and        *)
(* broadcasts when its watcher has seen files change.                      *)

SocketOpens(c) ==
    /\ socket[c] = "opening" /\ service.up
    /\ socket' = [socket EXCEPT ![c] = "open"] /\ pushed' = [pushed EXCEPT ![c] = 1]
    /\ UNCHANGED <<service, connects, timer, fetches, mounted, shown, behind>>

\* What the service answers changes: because a file was written, created or renamed in
\* a directory it watches (a file it reads itself at once, an event when it is
\* ingested), or for another reason, of which nobody is told: GitHub's pull requests,
\* arah.config.yaml, the 24 hours of the counts, a removed file, a new directory.
ServiceChanges ==
    /\ service.up /\ service.version < MaxVersion
    /\ service' \in
         {[service EXCEPT !.version = @ + 1],
          [service EXCEPT !.version = @ + 1, !.watched = service.version + 1, !.owed = TRUE]}
    /\ UNCHANGED <<connects, socket, timer, pushed, fetches, mounted, shown, behind>>

\* The watcher's flush, 250 ms after the last file event, whatever came until then.
WatcherFlushes ==
    /\ service.owed /\ service' = [service EXCEPT !.owed = FALSE]
    /\ pushed' = [c \in Conns |-> IF socket[c] = "open" THEN pushed[c] + 1 ELSE pushed[c]]
    /\ UNCHANGED <<connects, socket, timer, fetches, mounted, shown, behind>>

\* The service stops: its sockets close and the page does nothing about it.
ServiceStops ==
    /\ service.up /\ service' = [service EXCEPT !.up = FALSE, !.owed = FALSE]
    /\ socket' = [c \in Conns |-> IF socket[c] = "none" THEN "none" ELSE "closed"]
    /\ pushed' = [c \in Conns |-> 0]
    /\ UNCHANGED <<connects, timer, fetches, mounted, shown, behind>>

ServiceStarts ==
    /\ ~service.up /\ service' = [service EXCEPT !.up = TRUE]
    /\ UNCHANGED <<connects, socket, timer, pushed, fetches, mounted, shown, behind>>

ConsoleNext ==
    \/ \E c \in Conns : \/ SummaryReturns(c) \/ BundleAnswered(c) \/ BundleReturns(c)
                        \/ BundleFails(c) \/ SocketMessage(c) \/ TimerTick(c)
                        \/ SocketOpens(c)
    \/ \E f \in fetches : FetchAnswered(f) \/ FetchReturns(f) \/ FetchFails(f)
    \/ \E r \in Offered : SelectRepo(r)
    \/ \E key \in Filters : SelectFilter(key)
    \/ ServiceChanges \/ WatcherFlushes \/ ServiceStops \/ ServiceStarts

-----------------------------------------------------------------------------
(* Properties.                                                             *)

\* Nothing of a page that was left goes on: whatever its connection was doing
\* when the visitor left, no socket and no interval of it stays or is opened later
\* (LiveConsoleApp.tsx:155-222).
NoOrphanSocket ==
    \A c \in Conns : mounted # c => socket[c] = "none" /\ c \notin timer

\* With nothing under way, the local repository a console with an open socket shows is
\* made of answers no older than the last change the service's watcher has seen, the
\* changes between its first bundle and the greeting included, unless fetches
\* overlapped or one failed: the greeting and every broadcast are answered by a fetch
\* that begins later (LiveConsoleApp.tsx:174-189).  Changes the watcher does not see
\* may stay unseen until the next message.
ConsoleCurrent ==
    (/\ mounted # None /\ socket[mounted] = "open" /\ ~behind /\ ~service.owed
     /\ pushed[mounted] = 0 /\ \A f \in fetches : f.of # mounted)
        => \A part \in Parts : shown.local[part] \in service.watched..service.version
=============================================================================
