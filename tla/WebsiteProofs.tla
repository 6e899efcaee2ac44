--------------------------- MODULE WebsiteProofs ---------------------------
(***************************************************************************)
(* The website.  The live console leaves nothing behind: a page that was   *)
(* left has no socket and no interval, and will not get one.  The          *)
(* invariant adds why: a connection that is not the page's own has been    *)
(* cancelled or is over, so that none of its awaits can open anything when *)
(* it returns.  And it is current: with nothing under way it shows answers *)
(* no older than the last change the service's watcher has seen, because   *)
(* since its last message it has fetched, or is fetching, only once and    *)
(* only what the service has answered since that change.                   *)
(*                                                                         *)
(* A visitor is shown what was selected: the last request made of the      *)
(* router, or the query when none is left, has the last selection, and the *)
(* items of an explorer are told apart by their slugs, because those of    *)
(* every content file are, from the prototypes to the deployed site.       *)
(***************************************************************************)
EXTENDS Website, FiniteSetTheorems, SequenceTheorems, WellFoundedInduction, TLAPS

Connect == [pc : {"none", "summary", "bundle", "done"}, cancelled : BOOLEAN, bundle : Bundle]

Service == [up : BOOLEAN, version : Versions, watched : Versions, owed : BOOLEAN]

ConnTypeOK ==
    /\ service \in Service
    /\ connects \in [Conns -> Connect]
    /\ socket \in [Conns -> {"none", "opening", "open", "closed"}]
    /\ mounted \in Conns \cup {None}

LeftIsCancelled ==
    \A c \in Conns : mounted # c => connects[c].pc = "none" \/ connects[c].cancelled

ConsoleInv == ConnTypeOK /\ LeftIsCancelled /\ NoOrphanSocket

\* The records connections are made of.
LEMMA ConnectAtType ==
    ASSUME NEW pc \in {"none", "summary", "bundle", "done"}
    PROVE  ConnectAt(pc) \in Connect
BY DEF ConnectAt, Connect, NoBundle, Bundle

\* Nothing is connected at first.
LEMMA InitInv == ConsoleInit => ConsoleInv
<1> SUFFICES ASSUME ConsoleInit PROVE ConsoleInv
    OBVIOUS
<1>1. ConnTypeOK
  <2>1. 0 \in Versions
    BY ConsoleAssumption DEF Versions
  <2>2. service \in Service
    BY <2>1 DEF ConsoleInit, Service
  <2> QED
    BY <2>2, ConnectAtType DEF ConsoleInit, ConnTypeOK, NoConnect
<1>2. LeftIsCancelled
    BY DEF ConsoleInit, LeftIsCancelled, NoConnect, ConnectAt
<1>3. NoOrphanSocket
    BY DEF ConsoleInit, NoOrphanSocket
<1>4. QED
    BY <1>1, <1>2, <1>3 DEF ConsoleInv

\* Nothing these conjuncts name has changed.
LEMMA SameInv ==
    ASSUME ConsoleInv, UNCHANGED <<service, connects, socket, timer, mounted>>
    PROVE  ConsoleInv'
BY DEF ConsoleInv, ConnTypeOK, LeftIsCancelled, NoOrphanSocket

\* A step that changes one connection, and never one that was cancelled back.
LEMMA ConnectInv ==
    ASSUME ConsoleInv, NEW c \in Conns, NEW r \in Connect,
           connects' = [connects EXCEPT ![c] = r], UNCHANGED mounted,
           connects[c].pc # "none", connects[c].cancelled => r.cancelled \/ r.pc = "none"
    PROVE  /\ connects' \in [Conns -> Connect] /\ LeftIsCancelled'
BY DEF ConsoleInv, ConnTypeOK, LeftIsCancelled

\* A connection that ends is one of those.
LEMMA EndInv ==
    ASSUME ConsoleInv, NEW c \in Conns, End(c), UNCHANGED mounted, connects[c].pc # "none"
    PROVE  /\ connects' \in [Conns -> Connect] /\ LeftIsCancelled'
<1> DEFINE r == IF connects[c].cancelled THEN NoConnect ELSE ConnectAt("done")
<1>1. r \in Connect
    BY ConnectAtType DEF NoConnect
<1>2. connects' = [connects EXCEPT ![c] = r]
    BY DEF End
<1>3. connects[c].cancelled => r.pc = "none"
    BY DEF NoConnect, ConnectAt
<1> HIDE DEF r
<1>4. QED
    BY <1>1, <1>2, <1>3, ConnectInv

-----------------------------------------------------------------------------
(* The steps.                                                              *)

\* The page mounts on connections that are unused, so nothing is left of them.
LEMMA MountInv ==
    ASSUME ConsoleInv, Mount
    PROVE  ConsoleInv'
<1>1. PICK c \in Conns : /\ Unused(c) /\ mounted = None /\ mounted' = c
                         /\ connects' = [connects EXCEPT ![c] = ConnectAt("summary")]
                         /\ UNCHANGED <<service, socket, timer>>
    BY DEF Mount
<1>2. ConnTypeOK'
    BY <1>1, ConnectAtType DEF ConsoleInv, ConnTypeOK
<1>3. None \notin Conns
    BY ConsoleAssumption DEF Conns
<1>4. LeftIsCancelled'
    BY <1>1, <1>3 DEF ConsoleInv, ConnTypeOK, LeftIsCancelled
<1>5. NoOrphanSocket'
    BY <1>1, <1>3 DEF ConsoleInv, NoOrphanSocket
<1>6. QED
    BY <1>2, <1>4, <1>5 DEF ConsoleInv

\* The cleanup cancels what is under way and closes what is open.
LEMMA UnmountInv ==
    ASSUME ConsoleInv, Unmount
    PROVE  ConsoleInv'
<1> DEFINE c == mounted
           r == IF connects[c].pc = "done" THEN NoConnect
                ELSE [connects[c] EXCEPT !.cancelled = TRUE]
<1>1. c \in Conns /\ mounted' = None
    BY DEF Unmount, ConsoleInv, ConnTypeOK
<1>2. connects[c] \in Connect
    BY <1>1 DEF ConsoleInv, ConnTypeOK
<1>3. r \in Connect /\ (r.pc = "none" \/ r.cancelled)
    BY <1>2, ConnectAtType DEF NoConnect, Connect, ConnectAt
<1>4. connects' = [connects EXCEPT ![c] = r] /\ timer' = timer \ {c}
      /\ socket' = [socket EXCEPT ![c] = "none"] /\ UNCHANGED service
    BY DEF Unmount
<1> HIDE DEF r
<1>5. ConnTypeOK'
    BY <1>1, <1>3, <1>4 DEF ConsoleInv, ConnTypeOK
<1>6. LeftIsCancelled'
    BY <1>1, <1>3, <1>4 DEF ConsoleInv, ConnTypeOK, LeftIsCancelled
<1>7. NoOrphanSocket'
    BY <1>1, <1>4 DEF ConsoleInv, ConnTypeOK, NoOrphanSocket
<1>8. QED
    BY <1>5, <1>6, <1>7 DEF ConsoleInv

\* An answer to a connection: only the page's own opens anything.
LEMMA AnswerInv ==
    ASSUME ConsoleInv, NEW c \in Conns,
           SummaryReturns(c) \/ BundleAnswered(c) \/ BundleReturns(c) \/ BundleFails(c)
    PROVE  ConsoleInv'
<1>1. UNCHANGED <<service, mounted>> /\ connects[c] \in Connect /\ connects[c].pc # "none"
    BY DEF SummaryReturns, BundleAnswered, BundleReturns, BundleFails, ConsoleInv, ConnTypeOK
<1>2. /\ connects' \in [Conns -> Connect] /\ LeftIsCancelled'
  <2>1. CASE End(c)
    BY <1>1, <2>1, EndInv
  <2>2. CASE SummaryReturns(c) /\ ~End(c)
    <3> DEFINE r == [connects[c] EXCEPT !.pc = "bundle"]
    <3>1. connects' = [connects EXCEPT ![c] = r] /\ ~connects[c].cancelled
        BY <2>2 DEF SummaryReturns
    <3>2. r \in Connect
        BY <1>1 DEF Connect
    <3> HIDE DEF r
    <3>3. QED
        BY <1>1, <3>1, <3>2, ConnectInv
  <2>3. CASE BundleAnswered(c)
    <3>1. PICK part \in Parts :
             connects' = [connects EXCEPT ![c].bundle = Answered(@, part)]
        BY <2>3 DEF BundleAnswered
    <3> DEFINE r == [connects[c] EXCEPT !.bundle = Answered(connects[c].bundle, part)]
    <3>2. connects' = [connects EXCEPT ![c] = r]
        BY <3>1
    <3>3. Answered(connects[c].bundle, part) \in Bundle
        BY <1>1 DEF Connect, Bundle, Parts, Answered, ConsoleInv, ConnTypeOK, Service
    <3>4. r \in Connect /\ r.cancelled = connects[c].cancelled
        BY <1>1, <3>3 DEF Connect
    <3> HIDE DEF r
    <3>5. QED
        BY <1>1, <3>2, <3>4, ConnectInv
  <2>4. QED
    BY <2>1, <2>2, <2>3 DEF BundleReturns, BundleFails
<1>3. /\ socket' \in [Conns -> {"none", "opening", "open", "closed"}]
      /\ \A d \in Conns : mounted # d => socket'[d] = "none" /\ d \notin timer'
  <2>1. CASE UNCHANGED <<socket, timer>>
    BY <2>1 DEF ConsoleInv, ConnTypeOK, NoOrphanSocket
  <2>2. CASE ~UNCHANGED <<socket, timer>>
    <3>1. BundleReturns(c) /\ ~connects[c].cancelled
        BY <2>2 DEF SummaryReturns, BundleAnswered, BundleReturns, BundleFails
    <3>2. mounted = c
        BY <1>1, <3>1 DEF ConsoleInv, LeftIsCancelled
    <3>3. \/ socket' = [socket EXCEPT ![c] = "opening"] /\ UNCHANGED timer
          \/ timer' = timer \cup {c} /\ UNCHANGED socket
        BY <3>1 DEF BundleReturns
    <3>4. QED
        BY <3>2, <3>3 DEF ConsoleInv, ConnTypeOK, NoOrphanSocket
  <2>3. QED
    BY <2>1, <2>2
<1>4. QED
    BY <1>1, <1>2, <1>3 DEF ConsoleInv, ConnTypeOK, NoOrphanSocket

\* A change makes the next version, which is the one seen last if the watcher saw it.
LEMMA ChangeType ==
    ASSUME service \in Service, ServiceChanges
    PROVE  /\ service' \in Service /\ service'.version = service.version + 1
           /\ \/ service'.watched = service.watched /\ service'.owed = service.owed
              \/ service'.watched = service'.version /\ service'.owed = TRUE
<1>1. service.version \in Versions /\ service.version + 1 \in Versions
  BY ConsoleAssumption DEF ServiceChanges, Service, Versions
<1>2. CASE service' = [service EXCEPT !.version = @ + 1]
  BY <1>1, <1>2 DEF Service
<1>3. CASE service' = [service EXCEPT !.version = @ + 1, !.watched = service.version + 1,
                                      !.owed = TRUE]
  BY <1>1, <1>3 DEF Service
<1> QED  BY <1>2, <1>3 DEF ServiceChanges

\* The service opens only what is opening, and closes what is not closed.
LEMMA ServiceInv ==
    ASSUME ConsoleInv,
           \/ \E c \in Conns : SocketOpens(c)
           \/ ServiceChanges \/ WatcherFlushes \/ ServiceStops \/ ServiceStarts
    PROVE  ConsoleInv'
<1>1. CASE \E c \in Conns : SocketOpens(c)
    BY <1>1 DEF SocketOpens, ConsoleInv, ConnTypeOK, LeftIsCancelled, NoOrphanSocket
<1>2. CASE ServiceChanges
  <2>1. service' \in Service
    BY <1>2, ChangeType DEF ConsoleInv, ConnTypeOK
  <2> QED
    BY <1>2, <2>1 DEF ServiceChanges, ConsoleInv, ConnTypeOK, LeftIsCancelled, NoOrphanSocket
<1>3. CASE WatcherFlushes \/ ServiceStarts
    BY <1>3 DEF WatcherFlushes, ServiceStarts, ConsoleInv, ConnTypeOK, Service,
                LeftIsCancelled, NoOrphanSocket
<1>4. CASE ServiceStops
    BY <1>4 DEF ServiceStops, ConsoleInv, ConnTypeOK, Service, LeftIsCancelled, NoOrphanSocket
<1>5. QED
    BY <1>1, <1>2, <1>3, <1>4

\* Every step of the site.
LEMMA StepInv ==
    ASSUME ConsoleInv, [Next]_vars
    PROVE  ConsoleInv'
<1>1. CASE ConsoleNext
  <2>1. CASE \E c \in Conns : \/ SummaryReturns(c) \/ BundleAnswered(c)
                              \/ BundleReturns(c) \/ BundleFails(c)
    BY <2>1, AnswerInv
  <2>2. CASE \/ \E c \in Conns : SocketOpens(c)
             \/ ServiceChanges \/ WatcherFlushes \/ ServiceStops \/ ServiceStarts
    BY <2>2, ServiceInv
  <2>3. CASE \/ \E c \in Conns : SocketMessage(c) \/ TimerTick(c)
             \/ \E f \in fetches : FetchAnswered(f) \/ FetchReturns(f) \/ FetchFails(f)
             \/ \E q \in Offered : SelectRepo(q)
             \/ \E key \in Filters : SelectFilter(key)
    BY <2>3, SameInv DEF SocketMessage, TimerTick, FetchAnswered, FetchReturns,
       FetchFails, SelectRepo, SelectFilter
  <2>4. QED
    BY <1>1, <2>1, <2>2, <2>3 DEF ConsoleNext
<1>2. CASE UNCHANGED consoleVars
    BY <1>2, SameInv DEF consoleVars
<1>3. QED
    BY <1>1, <1>2, MountInv, UnmountInv
    DEF Next, Build, Deploy, Navigate, Explore, Console, vars

\* Whatever the visitor does, and whenever the awaits of a connection return, a
\* page that was left has no socket and no interval (LiveConsoleApp.tsx:155-222).
THEOREM NothingLeftOpen == Spec => []NoOrphanSocket
<1>1. Init => ConsoleInv
    BY InitInv DEF Init
<1>2. ConsoleInv /\ [Next]_vars => ConsoleInv'
    BY StepInv
<1>3. ConsoleInv => NoOrphanSocket
    BY DEF ConsoleInv
<1>4. QED
    BY <1>1, <1>2, <1>3, PTL DEF Spec

-----------------------------------------------------------------------------
(* What the page shows the service has had since the last change its watcher *)
(* saw: no message is lost between                                           *)
(* the first bundle and the greeting, nor between two fetches.               *)

Fetching == [of : Conns, n : 1..MaxFetches, bundle : Bundle]
Shows ==
    [mode : {"loading", "live", "mock"}, local : Bundle \cup {None},
     repoSlug : {r.slug : r \in ToSet(MockRepos)} \cup {"local", None}, filter : Filters \cup {""}]

\* A broadcast follows a change, and one is still to come while it is owed; a socket
\* has a greeting as well.
Sent == IF service.owed THEN service.version ELSE service.version + 1

PageTypeOK ==
    /\ timer \subseteq Conns /\ behind \in BOOLEAN
    /\ service.watched <= service.version /\ (service.owed => service.version > 0)
    /\ pushed \in [Conns -> Nat] /\ \A c \in Conns : pushed[c] <= Sent
    /\ fetches \subseteq Fetching /\ IsFiniteSet(fetches)
    /\ shown \in Shows /\ (shown.mode = "live" => shown.local \in Bundle)

\* A connection has a socket or an interval only once it is done, and one of them.
OneChannel ==
    \A c \in Conns :
        /\ connects[c].pc \in {"summary", "bundle"} => socket[c] = "none" /\ c \notin timer
        /\ c \in timer => socket[c] = "none"

\* The versions the service has had since its watcher saw a change.
Recent == service.watched..service.version
Presently(bundle) == bundle.summary \in Recent /\ bundle.rest \in Recent

\* Since its last message a page with a socket has fetched once, or is fetching once, what
\* the service has had since then.
Fetched(c) == (\A f \in fetches : f.of # c) /\ Presently(shown.local)
FetchingNow(c) ==
    \E f \in fetches :
        /\ f.of = c /\ \A g \in fetches : g.of = c => g = f
        /\ \A part \in Parts : f.bundle[part] \in {None} \cup Recent

UpToDate ==
    \A c \in Conns :
        mounted = c /\ socket[c] = "open" /\ ~behind /\ ~service.owed /\ pushed[c] = 0 =>
            Fetched(c) \/ FetchingNow(c)

-----------------------------------------------------------------------------
LEMMA LocalSlug == LocalRepo.slug = "local"
  BY DEF LocalRepo, MapLiveToRepo

LEMMA NoBundleType == NoBundle \in Bundle /\ NoBundle.summary = None /\ NoBundle.rest = None
  BY DEF NoBundle, Bundle

LEMMA AnsweredType ==
    ASSUME service.version \in Versions, NEW b \in Bundle, NEW part \in Parts
    PROVE  /\ Answered(b, part) \in Bundle
           /\ Answered(b, part)[part] = service.version
           /\ \A q \in Parts \ {part} : Answered(b, part)[q] = b[q]
  BY DEF Bundle, Parts, Answered

LEMMA MockSlug ==
    (IF MockRepos = <<>> THEN None ELSE Head(MockRepos).slug)
        \in {r.slug : r \in ToSet(MockRepos)} \cup {"local", None}
<1>1. ASSUME MockRepos # <<>> PROVE Head(MockRepos) \in ToSet(MockRepos)
  BY <1>1, ConsoleAssumption DEF ToSet
<1> QED  BY <1>1

\* A fetch that is begun has a number that is free.
LEMMA FetchType ==
    ASSUME fetches \subseteq Fetching, IsFiniteSet(fetches), NEW c \in Conns, Idle(c), Fetch(c)
    PROVE  /\ fetches' \subseteq Fetching /\ IsFiniteSet(fetches')
           /\ \E n : fetches' = fetches \cup {[of |-> c, n |-> n, bundle |-> NoBundle]}
<1> DEFINE mine == {f \in fetches : f.of = c}
           used == {f.n : f \in mine}
           n == CHOOSE m \in (1..MaxFetches) \ used : TRUE
<1>1. IsFiniteSet(mine) /\ Cardinality(mine) < MaxFetches /\ Cardinality(mine) \in Nat
  BY FS_Subset, FS_CardinalityType DEF Idle
<1>2. IsFiniteSet(used) /\ Cardinality(used) <= Cardinality(mine) /\ Cardinality(used) \in Nat
  <2>1. [f \in mine |-> f.n] \in Surjection(mine, used)  BY DEF Surjection
  <2> QED  BY <1>1, <2>1, FS_Surjection, FS_CardinalityType
<1>3. MaxFetches \in Nat  BY ConsoleAssumption
<1>4. Cardinality(1..MaxFetches) = MaxFetches /\ IsFiniteSet(1..MaxFetches)
  BY <1>3, FS_Interval
<1>5. ~(1..MaxFetches \subseteq used)
  <2>1. ASSUME 1..MaxFetches \subseteq used PROVE FALSE
    <3>1. Cardinality(1..MaxFetches) <= Cardinality(used)  BY <1>2, <2>1, FS_Subset
    <3> QED  BY <1>1, <1>2, <1>3, <1>4, <3>1
  <2> QED  BY <2>1
<1>6. n \in 1..MaxFetches  BY <1>5
<1>7. fetches' = fetches \cup {[of |-> c, n |-> n, bundle |-> NoBundle]}  BY DEF Fetch
<1> HIDE DEF n
<1>8. [of |-> c, n |-> n, bundle |-> NoBundle] \in Fetching  BY <1>6, NoBundleType DEF Fetching
<1>9. IsFiniteSet(fetches')  BY <1>7, FS_AddElement
<1> QED  BY <1>7, <1>8, <1>9

LEMMA FetchesType ==
    ASSUME PageTypeOK, ConsoleInv, ConsoleNext \/ Mount \/ Unmount
    PROVE  fetches' \subseteq Fetching /\ IsFiniteSet(fetches')
<1>0. fetches \subseteq Fetching /\ IsFiniteSet(fetches) /\ service.version \in Versions
  BY DEF PageTypeOK, ConsoleInv, ConnTypeOK, Service
<1>1. ASSUME NEW c \in Conns, SocketMessage(c) \/ TimerTick(c)
      PROVE  fetches' \subseteq Fetching /\ IsFiniteSet(fetches')
  BY <1>0, <1>1, FetchType DEF SocketMessage, TimerTick
<1>2. ASSUME NEW f \in fetches, FetchAnswered(f)
      PROVE  fetches' \subseteq Fetching /\ IsFiniteSet(fetches')
  <2>1. PICK part \in Parts :
           fetches' = (fetches \ {f}) \cup {[f EXCEPT !.bundle = Answered(f.bundle, part)]}
    BY <1>2 DEF FetchAnswered
  <2>2. f \in Fetching /\ f.bundle \in Bundle  BY <1>0 DEF Fetching
  <2>3. [f EXCEPT !.bundle = Answered(f.bundle, part)] \in Fetching
    BY <1>0, <2>2, AnsweredType DEF Fetching
  <2>4. IsFiniteSet(fetches \ {f})  BY <1>0, FS_Subset
  <2>5. IsFiniteSet(fetches')  BY <2>1, <2>4, FS_AddElement
  <2> QED  BY <1>0, <2>1, <2>3, <2>5
<1>3. ASSUME NEW f \in fetches, FetchReturns(f) \/ FetchFails(f)
      PROVE  fetches' \subseteq Fetching /\ IsFiniteSet(fetches')
  <2>1. fetches' = fetches \ {f}  BY <1>3 DEF FetchReturns, FetchFails
  <2> QED  BY <1>0, <2>1, FS_Subset
<1>4. CASE UNCHANGED fetches
  BY <1>0, <1>4
<1> QED
  BY <1>1, <1>2, <1>3, <1>4 DEF ConsoleNext, Mount, Unmount, SummaryReturns, BundleAnswered,
     BundleReturns, BundleFails, SocketOpens, SelectRepo, SelectFilter, ServiceChanges, WatcherFlushes,
     ServiceStops, ServiceStarts

LEMMA ShownType ==
    ASSUME PageTypeOK, ConsoleInv, ConsoleNext \/ Mount \/ Unmount
    PROVE  shown' \in Shows /\ (shown'.mode = "live" => shown'.local \in Bundle)
<1>0. shown \in Shows /\ (shown.mode = "live" => shown.local \in Bundle)
  BY DEF PageTypeOK
<1>1. CASE UNCHANGED shown
  BY <1>0, <1>1
<1>2. CASE ShowMock
  <2> DEFINE slug == IF MockRepos = <<>> THEN None ELSE Head(MockRepos).slug
  <2>1. slug \in {r.slug : r \in ToSet(MockRepos)} \cup {"local", None}  BY MockSlug
  <2>2. shown' = [shown EXCEPT !.mode = "mock", !.repoSlug = slug]  BY <1>2 DEF ShowMock
  <2> HIDE DEF slug
  <2> QED  BY <1>0, <2>1, <2>2 DEF Shows
<1>3. ASSUME NEW c \in Conns, BundleReturns(c), ~UNCHANGED shown
      PROVE  shown' \in Shows /\ (shown'.mode = "live" => shown'.local \in Bundle)
  <2>1. connects[c].bundle \in Bundle  BY DEF ConsoleInv, ConnTypeOK, Connect
  <2>2. shown' = [shown EXCEPT !.mode = "live", !.local = connects[c].bundle, !.repoSlug = "local"]
    BY <1>3 DEF BundleReturns
  <2> QED  BY <1>0, <2>1, <2>2 DEF Shows
<1>4. ASSUME NEW f \in fetches, FetchReturns(f), ~UNCHANGED shown
      PROVE  shown' \in Shows /\ (shown'.mode = "live" => shown'.local \in Bundle)
  <2>1. f.bundle \in Bundle  BY DEF PageTypeOK, Fetching
  <2>2. shown' = [shown EXCEPT !.local = f.bundle]  BY <1>4 DEF FetchReturns
  <2> QED  BY <1>0, <2>1, <2>2 DEF Shows
<1>5. CASE shown' = NotShown
  BY <1>5 DEF NotShown, Shows
<1>6. ASSUME NEW r \in Offered, SelectRepo(r)
      PROVE  shown' \in Shows /\ (shown'.mode = "live" => shown'.local \in Bundle)
  <2>1. r.slug \in {q.slug : q \in ToSet(MockRepos)} \cup {"local", None}
    BY LocalSlug DEF Offered
  <2>2. shown' = [shown EXCEPT !.repoSlug = r.slug]  BY <1>6 DEF SelectRepo
  <2> QED  BY <1>0, <2>1, <2>2 DEF Shows
<1>7. ASSUME NEW key \in Filters, SelectFilter(key)
      PROVE  shown' \in Shows /\ (shown'.mode = "live" => shown'.local \in Bundle)
  <2>1. shown' = [shown EXCEPT !.filter = key]  BY <1>7 DEF SelectFilter
  <2> QED  BY <1>0, <2>1 DEF Shows
<1>8. ASSUME NEW c \in Conns, SummaryReturns(c) \/ BundleFails(c)
      PROVE  UNCHANGED shown \/ ShowMock
  BY <1>8 DEF SummaryReturns, BundleFails
<1> QED
  BY <1>1, <1>2, <1>3, <1>4, <1>5, <1>6, <1>7, <1>8 DEF ConsoleNext, Mount, Unmount,
     BundleAnswered, SocketOpens, SocketMessage, TimerTick, FetchAnswered, FetchFails,
     ServiceChanges, WatcherFlushes, ServiceStops, ServiceStarts

LEMMA PageType ==
    ASSUME PageTypeOK, ConsoleInv, ConsoleInv', ConsoleNext \/ Mount \/ Unmount PROVE PageTypeOK'
<1>0. service \in Service /\ service' \in Service /\ Versions \subseteq Nat
  BY ConsoleAssumption DEF ConsoleInv, ConnTypeOK, Versions
<1>1. timer' \subseteq Conns
  <2>1. timer' \subseteq timer \/ \E c \in Conns : timer' = timer \cup {c}
    BY DEF ConsoleNext, Mount, Unmount, SummaryReturns, BundleAnswered, BundleReturns, BundleFails,
       SocketMessage, TimerTick, FetchAnswered, FetchReturns, FetchFails, SocketOpens, SelectRepo,
       SelectFilter, ServiceChanges, WatcherFlushes, ServiceStops, ServiceStarts
  <2> QED  BY <2>1 DEF PageTypeOK
<1>2. behind' \in BOOLEAN
  <2>1. ASSUME NEW c \in Conns, SocketMessage(c) PROVE behind' \in BOOLEAN
    BY Zenon, <2>1 DEF SocketMessage
  <2>2. ASSUME NEW c \in Conns, TimerTick(c) PROVE behind' \in BOOLEAN
    BY Zenon, <2>2 DEF TimerTick
  <2>3. ASSUME NEW f \in fetches, FetchFails(f) PROVE behind' \in BOOLEAN
    <3>1. behind' = (behind \/ mounted = f.of)  BY <2>3 DEF FetchFails
    <3>2. CASE behind \/ mounted = f.of
      BY <3>1, <3>2
    <3>3. CASE ~(behind \/ mounted = f.of)
      BY <3>1, <3>3
    <3> QED  BY <3>2, <3>3
  <2>4. CASE UNCHANGED behind \/ behind' = FALSE
    BY <2>4 DEF PageTypeOK
  <2>5. ASSUME NEW c \in Conns, \/ SummaryReturns(c) \/ BundleAnswered(c) \/ BundleReturns(c)
                                \/ BundleFails(c) \/ SocketOpens(c)
        PROVE  UNCHANGED behind
    BY <2>5 DEF SummaryReturns, BundleAnswered, BundleReturns, BundleFails, SocketOpens
  <2>6. ASSUME NEW f \in fetches, FetchAnswered(f) \/ FetchReturns(f) PROVE UNCHANGED behind
    BY <2>6 DEF FetchAnswered, FetchReturns
  <2>7. ASSUME NEW r \in Offered, SelectRepo(r) PROVE UNCHANGED behind
    BY <2>7 DEF SelectRepo
  <2>9. ASSUME NEW key \in Filters, SelectFilter(key) PROVE UNCHANGED behind
    BY <2>9 DEF SelectFilter
  <2>10. ASSUME ServiceChanges \/ WatcherFlushes \/ ServiceStops \/ ServiceStarts
         PROVE  UNCHANGED behind
    BY <2>10 DEF ServiceChanges, WatcherFlushes, ServiceStops, ServiceStarts
  <2>11. ASSUME Unmount PROVE UNCHANGED behind
    BY <2>11 DEF Unmount
  <2>8. ASSUME Mount PROVE behind' = FALSE
    BY <2>8 DEF Mount
  <2> QED  BY <2>1, <2>2, <2>3, <2>4, <2>5, <2>6, <2>7, <2>8, <2>9, <2>10, <2>11
    DEF ConsoleNext
<1>3. /\ service'.watched <= service'.version /\ (service'.owed => service'.version > 0)
      /\ pushed' \in [Conns -> Nat] /\ \A c \in Conns : pushed'[c] <= Sent'
  <2>0. /\ pushed \in [Conns -> Nat] /\ \A c \in Conns : pushed[c] <= Sent
        /\ service.watched <= service.version /\ (service.owed => service.version > 0)
        /\ service.version \in Nat /\ service.watched \in Nat /\ service.owed \in BOOLEAN
    BY <1>0 DEF PageTypeOK, Service
  <2>1. CASE UNCHANGED <<pushed, service>>
    BY <2>0, <2>1 DEF Sent
  <2>2. ASSUME NEW c \in Conns, SocketOpens(c) \/ SocketMessage(c)
        PROVE  /\ UNCHANGED service
               /\ pushed' \in [Conns -> Nat] /\ \A d \in Conns : pushed'[d] <= Sent
    <3>1. service' = service /\ pushed[c] \in Nat
      BY <2>0, <2>2 DEF SocketOpens, SocketMessage
    <3>3. Sent \in Nat /\ Sent > 0
      <4>1. CASE service.owed
        BY <2>0, <4>1 DEF Sent
      <4>2. CASE ~service.owed
        BY <2>0, <4>2 DEF Sent
      <4> QED  BY <4>1, <4>2
    <3>2. PICK n \in Nat : pushed' = [pushed EXCEPT ![c] = n] /\ (n = 1 \/ n < pushed[c])
      <4>1. CASE SocketOpens(c)
        BY <4>1 DEF SocketOpens
      <4>2. CASE SocketMessage(c)
        <5>1. pushed[c] > 0 /\ pushed' = [pushed EXCEPT ![c] = pushed[c] - 1]  BY <4>2 DEF SocketMessage
        <5>2. pushed[c] - 1 \in Nat /\ pushed[c] - 1 < pushed[c]  BY <3>1, <5>1
        <5> QED  BY <5>1, <5>2
      <4> QED  BY <2>2, <4>1, <4>2
    <3> QED  BY <2>0, <3>1, <3>2, <3>3
  <2>3. CASE Unmount
    BY <2>0, <2>3 DEF Unmount, ConsoleInv, ConnTypeOK, Sent
  <2>4. CASE ServiceChanges
    <3>1. /\ service'.version = service.version + 1 /\ pushed' = pushed
          /\ \/ service'.watched = service.watched /\ service'.owed = service.owed
             \/ service'.watched = service'.version /\ service'.owed = TRUE
      BY <1>0, <2>4, ChangeType DEF ServiceChanges
    <3> QED  BY <2>0, <3>1 DEF Sent
  <2>5. CASE WatcherFlushes
    <3>1. /\ service.owed /\ service'.owed = FALSE /\ service'.version = service.version
          /\ service'.watched = service.watched
      BY <1>0, <2>5 DEF WatcherFlushes, Service
    <3>2. pushed' \in [Conns -> Nat] /\ \A c \in Conns : pushed'[c] <= pushed[c] + 1
      BY <2>0, <2>5 DEF WatcherFlushes
    <3> QED  BY <2>0, <3>1, <3>2 DEF Sent
  <2>6. CASE ServiceStops \/ ServiceStarts
    <3>1. /\ service'.version = service.version /\ service'.watched = service.watched
          /\ \/ service'.owed = FALSE /\ pushed' = [c \in Conns |-> 0]
             \/ service'.owed = service.owed /\ pushed' = pushed
      BY <1>0, <2>6 DEF ServiceStops, ServiceStarts, Service
    <3> QED  BY <2>0, <3>1 DEF Sent
  <2> QED
    BY <2>0, <2>1, <2>2, <2>3, <2>4, <2>5, <2>6
    DEF ConsoleNext, Mount, SummaryReturns, BundleAnswered, BundleReturns, BundleFails,
        TimerTick, FetchAnswered, FetchReturns, FetchFails, SelectRepo, SelectFilter, Sent
<1> QED  BY <1>1, <1>2, <1>3, FetchesType, ShownType DEF PageTypeOK

\* The console's part of the type invariant follows.
LEMMA TypesFollow == ASSUME ConsoleInv, PageTypeOK PROVE ConsoleTypeOK
<1>1. service \in Service  BY DEF ConsoleInv, ConnTypeOK
<1>2. \A c \in Conns : pushed[c] \in 0..MaxVersion + 1
  BY <1>1, ConsoleAssumption DEF PageTypeOK, Sent, Service, Versions
<1>3. pushed \in [Conns -> 0..MaxVersion + 1]  BY <1>2 DEF PageTypeOK
<1> QED  BY <1>1, <1>3 DEF ConsoleTypeOK, Service, ConsoleInv, ConnTypeOK, Connect, PageTypeOK, Fetching, Shows

-----------------------------------------------------------------------------
(* A page's channel and what it has fetched.                               *)

LEMMA ChannelStep ==
    ASSUME PageTypeOK, ConsoleInv, OneChannel, ConsoleNext \/ Mount \/ Unmount PROVE OneChannel'
<1>0. /\ connects \in [Conns -> Connect] /\ mounted \in Conns \cup {None}
      /\ socket \in [Conns -> {"none", "opening", "open", "closed"}]
      /\ timer \subseteq Conns
      /\ \A c \in Conns : mounted # c => socket[c] = "none" /\ c \notin timer
  BY DEF ConsoleInv, ConnTypeOK, PageTypeOK, NoOrphanSocket
<1>1. CASE UNCHANGED <<connects, socket, timer>>
  BY <1>1 DEF OneChannel
<1>2. CASE Mount
  BY <1>0, <1>2, ConsoleAssumption DEF Mount, OneChannel, Unused, ConnectAt, Conns
<1>3. CASE Unmount
  BY <1>0, <1>3 DEF Unmount, OneChannel, NoConnect, ConnectAt, Connect
<1>4. ASSUME NEW c \in Conns, SummaryReturns(c) \/ BundleAnswered(c) \/ BundleReturns(c) \/ BundleFails(c)
      PROVE  OneChannel'
  <2>1. connects[c].pc \in {"summary", "bundle"} /\ \A d \in Conns \ {c} : connects'[d] = connects[d]
    BY <1>0, <1>4 DEF SummaryReturns, BundleAnswered, BundleReturns, BundleFails, End
  <2>2. socket[c] = "none" /\ c \notin timer  BY <2>1 DEF OneChannel
  <2>3. CASE UNCHANGED <<socket, timer>>
    BY <2>1, <2>2, <2>3 DEF OneChannel
  <2>4. CASE ~UNCHANGED <<socket, timer>>
    <3>1. BundleReturns(c) /\ ~connects[c].cancelled
      BY <1>4, <2>4 DEF SummaryReturns, BundleAnswered, BundleReturns, BundleFails
    <3>2. connects'[c].pc = "done"
      BY <1>0, <3>1 DEF BundleReturns, End, ConnectAt
    <3>3. \/ socket' = [socket EXCEPT ![c] = "opening"] /\ UNCHANGED timer
          \/ timer' = timer \cup {c} /\ UNCHANGED socket
      BY <3>1 DEF BundleReturns
    <3> QED  BY <1>0, <2>1, <2>2, <3>2, <3>3 DEF OneChannel
  <2> QED  BY <2>3, <2>4
<1>5. ASSUME NEW c \in Conns, SocketOpens(c) PROVE OneChannel'
  <2>1. socket[c] = "opening" /\ socket' = [socket EXCEPT ![c] = "open"] /\ UNCHANGED <<connects, timer>>
    BY <1>5 DEF SocketOpens
  <2>2. connects[c].pc \notin {"summary", "bundle"} /\ c \notin timer  BY <2>1 DEF OneChannel
  <2> QED  BY <1>0, <2>1, <2>2 DEF OneChannel
<1>6. CASE ServiceStops
  BY <1>0, <1>6 DEF ServiceStops, OneChannel
<1> QED
  BY <1>1, <1>2, <1>3, <1>4, <1>5, <1>6
  DEF ConsoleNext, SocketMessage, TimerTick, FetchAnswered, FetchReturns, FetchFails, SelectRepo,
      SelectFilter, ServiceChanges, WatcherFlushes, ServiceStarts

\* What the page has fetched, and is fetching, is not touched, and stays recent when the
\* answers change with no word of it.
LEMMA StillFetched ==
    ASSUME NEW c \in Conns, Fetched(c) \/ FetchingNow(c), UNCHANGED fetches,
           service \in Service, service' \in Service, service'.watched = service.watched,
           service.version <= service'.version, shown'.local = shown.local
    PROVE  Fetched(c)' \/ FetchingNow(c)'
<1>1. Recent \subseteq Recent'
  BY ConsoleAssumption DEF Recent, Service, Versions
<1> QED  BY <1>1 DEF Fetched, FetchingNow, Presently

\* A request of the page's fetch is answered, or one of a page that is gone.
LEMMA AnswerFetched ==
    ASSUME PageTypeOK, ConsoleInv, NEW c \in Conns, Fetched(c) \/ FetchingNow(c),
           NEW f \in fetches, FetchAnswered(f)
    PROVE  Fetched(c)' \/ FetchingNow(c)'
<1>1. PICK part \in Parts :
         fetches' = (fetches \ {f}) \cup {[f EXCEPT !.bundle = Answered(f.bundle, part)]}
  BY DEF FetchAnswered
<1>2. f \in Fetching /\ f.bundle \in Bundle /\ service.version \in Versions /\ service.version \in Recent
  BY ConsoleAssumption DEF PageTypeOK, Fetching, ConsoleInv, ConnTypeOK, Service, Versions, Recent
<1>3. service' = service /\ shown' = shown /\ Recent' = Recent  BY DEF FetchAnswered, Recent
<1> DEFINE h == [f EXCEPT !.bundle = Answered(f.bundle, part)]
<1>4. h.of = f.of /\ h.bundle = Answered(f.bundle, part)  BY <1>2 DEF Fetching
<1>5. fetches' = (fetches \ {f}) \cup {h}  BY <1>1
<1> HIDE DEF h
<1>6. CASE f.of # c
  <2>1. ASSUME Fetched(c) PROVE Fetched(c)'
    BY <1>3, <1>4, <1>5, <1>6, <2>1 DEF Fetched, Presently
  <2>2. ASSUME FetchingNow(c) PROVE FetchingNow(c)'
    BY <1>3, <1>4, <1>5, <1>6, <2>2 DEF FetchingNow
  <2> QED  BY <2>1, <2>2
<1>7. CASE f.of = c
  <2>1. \A g \in fetches : g.of = c => g = f
    BY <1>7 DEF Fetched, FetchingNow
  <2>2. \A q \in Parts : f.bundle[q] \in {None} \cup Recent
    BY <1>7, <2>1 DEF Fetched, FetchingNow
  <2>3. \A q \in Parts : h.bundle[q] \in {None} \cup Recent
    BY <1>2, <1>4, <2>2, AnsweredType
  <2>4. \A g \in fetches' : g.of = c => g = h  BY <1>5, <2>1
  <2>5. h \in fetches' /\ h.of = c  BY <1>4, <1>5, <1>7
  <2>6. FetchingNow(c)'  BY <1>3, <2>3, <2>4, <2>5 DEF FetchingNow
  <2> QED  BY <2>6
<1> QED  BY <1>6, <1>7

\* A fetch of the page that returns has recent answers only.
LEMMA ReturnFetched ==
    ASSUME PageTypeOK, ConsoleInv, mounted \in Conns, Fetched(mounted) \/ FetchingNow(mounted),
           NEW f \in fetches, FetchReturns(f)
    PROVE  Fetched(mounted)' \/ FetchingNow(mounted)'
<1>1. fetches' = fetches \ {f} /\ service' = service /\ mounted' = mounted /\ Recent' = Recent
  BY DEF FetchReturns, Recent
<1>2. CASE f.of # mounted
  <2>1. shown' = shown  BY <1>2 DEF FetchReturns
  <2>2. ASSUME Fetched(mounted) PROVE Fetched(mounted)'
    BY <1>1, <2>1, <2>2 DEF Fetched, Presently
  <2>3. ASSUME FetchingNow(mounted) PROVE FetchingNow(mounted)'
    BY <1>1, <1>2, <2>3 DEF FetchingNow
  <2> QED  BY <2>2, <2>3
<1>3. CASE f.of = mounted
  <2>1. /\ \A g \in fetches : g.of = mounted => g = f
        /\ \A part \in Parts : f.bundle[part] \in {None} \cup Recent
    BY <1>3 DEF Fetched, FetchingNow
  <2>2. f.bundle["summary"] \in Recent /\ f.bundle["rest"] \in Recent
    BY <2>1 DEF FetchReturns, Complete, Parts
  <2>3. f.bundle \in Bundle /\ shown \in Shows  BY DEF PageTypeOK, Fetching
  <2>4. shown'.local = f.bundle  BY <1>3, <2>3 DEF FetchReturns, Shows
  <2>5. Presently(shown.local)'  BY <1>1, <2>2, <2>4 DEF Presently
  <2>6. \A g \in fetches' : g.of # mounted  BY <1>1, <2>1
  <2> QED  BY <1>1, <2>5, <2>6 DEF Fetched
<1> QED  BY <1>2, <1>3

LEMMA CurrentStep ==
    ASSUME PageTypeOK, ConsoleInv, OneChannel, UpToDate, ConsoleNext \/ Mount \/ Unmount
    PROVE  UpToDate'
<1> SUFFICES ASSUME NEW c \in Conns, mounted' = c, socket'[c] = "open", ~behind',
                    ~service'.owed, pushed'[c] = 0
             PROVE  Fetched(c)' \/ FetchingNow(c)'
  BY DEF UpToDate
<1>0. /\ connects \in [Conns -> Connect] /\ mounted \in Conns \cup {None} /\ None \notin Conns
      /\ socket \in [Conns -> {"none", "opening", "open", "closed"}]
      /\ \A d \in Conns : mounted # d => socket[d] = "none" /\ d \notin timer
      /\ pushed \in [Conns -> Nat] /\ shown \in Shows /\ service \in Service
      /\ LeftIsCancelled
  BY ConsoleAssumption DEF ConsoleInv, ConnTypeOK, PageTypeOK, NoOrphanSocket, Conns
<1>1. ASSUME mounted = c, socket[c] = "open", ~behind, ~service.owed, pushed[c] = 0
      PROVE  Fetched(c) \/ FetchingNow(c)
  BY <1>1 DEF UpToDate
<1>s. ASSUME Fetched(c) \/ FetchingNow(c), UNCHANGED <<service, fetches>>,
             shown'.local = shown.local
      PROVE  Fetched(c)' \/ FetchingNow(c)'
  BY <1>0, <1>s, ConsoleAssumption, StillFetched DEF Service, Versions
<1>2. CASE Mount
  BY <1>0, <1>2 DEF Mount, Unused
<1>3. CASE Unmount
  BY <1>0, <1>3 DEF Unmount
<1>4. ASSUME NEW d \in Conns, SummaryReturns(d) \/ BundleAnswered(d) \/ BundleFails(d)
      PROVE  Fetched(c)' \/ FetchingNow(c)'
  <2>1. UNCHANGED <<service, socket, pushed, mounted, behind, fetches>>
    BY <1>4 DEF SummaryReturns, BundleAnswered, BundleFails
  <2>2. UNCHANGED shown \/ ShowMock
    BY <1>4 DEF SummaryReturns, BundleAnswered, BundleFails
  <2>3. shown'.local = shown.local  BY <1>0, <2>2 DEF ShowMock, Shows
  <2> QED  BY <1>1, <2>1, <2>3, <1>s
<1>5. ASSUME NEW d \in Conns, BundleReturns(d) PROVE Fetched(c)' \/ FetchingNow(c)'
  <2>1. connects[d].pc = "bundle" /\ UNCHANGED <<service, pushed, mounted, behind, fetches>>
    BY <1>5 DEF BundleReturns
  <2>2. CASE connects[d].cancelled
    BY <1>1, <1>5, <2>1, <2>2, <1>s DEF BundleReturns
  <2>3. CASE ~connects[d].cancelled
    <3>1. mounted = d  BY <2>1, <2>3, <1>0 DEF LeftIsCancelled
    <3>2. socket[d] = "none"  BY <2>1 DEF OneChannel
    <3>3. socket' = [socket EXCEPT ![d] = "opening"] \/ socket' = socket
      BY <1>5, <2>3 DEF BundleReturns
    <3> QED  BY <1>0, <2>1, <3>1, <3>2, <3>3
  <2> QED  BY <2>2, <2>3
<1>6. ASSUME NEW d \in Conns, SocketOpens(d) PROVE Fetched(c)' \/ FetchingNow(c)'
  <2>1. /\ socket' = [socket EXCEPT ![d] = "open"] /\ pushed' = [pushed EXCEPT ![d] = 1]
        /\ UNCHANGED <<service, fetches, mounted, shown, behind>>
    BY <1>6 DEF SocketOpens
  <2>2. c # d  BY <1>0, <2>1
  <2>3. socket[c] = "open" /\ pushed[c] = 0  BY <1>0, <2>1, <2>2
  <2> QED  BY <1>1, <2>1, <2>3, <1>s
<1>7. ASSUME NEW d \in Conns, SocketMessage(d) PROVE Fetched(c)' \/ FetchingNow(c)'
  <2>1. socket[d] = "open" /\ Idle(d) /\ Fetch(d) /\ UNCHANGED <<mounted, service>>
    BY <1>7 DEF SocketMessage
  <2>2. d = c  BY <1>0, <2>1
  <2>3. \A f \in fetches : f.of # c
    BY <1>7, <2>2 DEF SocketMessage
  <2>4. PICK n : fetches' = fetches \cup {[of |-> c, n |-> n, bundle |-> NoBundle]}
    BY <2>1, <2>2, FetchType DEF PageTypeOK
  <2> DEFINE f == [of |-> c, n |-> n, bundle |-> NoBundle]
  <2>5. f.of = c /\ f.bundle = NoBundle /\ fetches' = fetches \cup {f}  BY <2>4
  <2> HIDE DEF f
  <2>6. \A part \in Parts : f.bundle[part] = None  BY <2>5 DEF NoBundle, Parts
  <2>7. FetchingNow(c)'  BY <2>3, <2>5, <2>6 DEF FetchingNow
  <2> QED  BY <2>7
<1>8. ASSUME NEW d \in Conns, TimerTick(d) PROVE FALSE
  <2>1. d \in timer /\ UNCHANGED <<mounted, socket>>  BY <1>8 DEF TimerTick
  <2> QED  BY <1>0, <2>1 DEF OneChannel
<1>9. ASSUME NEW f \in fetches, FetchAnswered(f) PROVE Fetched(c)' \/ FetchingNow(c)'
  <2>1. UNCHANGED <<service, socket, pushed, mounted, behind>>  BY <1>9 DEF FetchAnswered
  <2> QED  BY <1>1, <1>9, <2>1, AnswerFetched
<1>10. ASSUME NEW f \in fetches, FetchReturns(f) PROVE Fetched(c)' \/ FetchingNow(c)'
  <2>1. UNCHANGED <<service, socket, pushed, mounted, behind>>  BY <1>10 DEF FetchReturns
  <2>2. mounted = c /\ (Fetched(mounted) \/ FetchingNow(mounted))  BY <1>1, <2>1
  <2>3. Fetched(mounted)' \/ FetchingNow(mounted)'  BY <1>10, <2>2, ReturnFetched
  <2> QED  BY <2>3
<1>11. ASSUME NEW f \in fetches, FetchFails(f) PROVE Fetched(c)' \/ FetchingNow(c)'
  <2>1. /\ fetches' = fetches \ {f} /\ UNCHANGED <<socket, pushed, mounted, service, shown>>
        /\ ~behind /\ mounted # f.of
    BY <1>11 DEF FetchFails
  <2>2. Fetched(c) \/ FetchingNow(c)  BY <1>1, <2>1
  <2>3. ASSUME Fetched(c) PROVE Fetched(c)'
    BY <2>1, <2>3 DEF Fetched, Presently, Recent
  <2>4. ASSUME FetchingNow(c) PROVE FetchingNow(c)'
    BY <2>1, <2>4 DEF FetchingNow, Recent
  <2> QED  BY <2>2, <2>3, <2>4
<1>12. ASSUME NEW r \in Offered, SelectRepo(r) PROVE Fetched(c)' \/ FetchingNow(c)'
  <2>1. shown' = [shown EXCEPT !.repoSlug = r.slug]
        /\ UNCHANGED <<service, socket, pushed, fetches, mounted, behind>>
    BY <1>12 DEF SelectRepo
  <2>2. shown'.local = shown.local  BY <1>0, <2>1 DEF Shows
  <2> QED  BY <1>1, <2>1, <2>2, <1>s
<1>13. ASSUME NEW key \in Filters, SelectFilter(key) PROVE Fetched(c)' \/ FetchingNow(c)'
  <2>1. shown' = [shown EXCEPT !.filter = key]
        /\ UNCHANGED <<service, socket, pushed, fetches, mounted, behind>>
    BY <1>13 DEF SelectFilter
  <2>2. shown'.local = shown.local  BY <1>0, <2>1 DEF Shows
  <2> QED  BY <1>1, <2>1, <2>2, <1>s
<1>14. CASE ServiceChanges
  <2>1. UNCHANGED <<socket, pushed, fetches, mounted, shown, behind>>
    BY <1>14 DEF ServiceChanges
  <2>2. /\ service'.version = service.version + 1 /\ service'.watched = service.watched
        /\ service'.owed = service.owed /\ service' \in Service
    BY <1>0, <1>14, ChangeType
  <2>3. service.version <= service'.version
    BY <1>0, <2>2, ConsoleAssumption DEF Service, Versions
  <2> QED  BY <1>0, <1>1, <2>1, <2>2, <2>3, StillFetched
<1>15. CASE ServiceStops
  BY <1>15 DEF ServiceStops
<1>16. CASE ServiceStarts
  <2>1. service' = [service EXCEPT !.up = TRUE]
        /\ UNCHANGED <<socket, pushed, fetches, mounted, shown, behind>>
    BY <1>16 DEF ServiceStarts
  <2>2. /\ service'.version = service.version /\ service'.watched = service.watched
        /\ service'.owed = service.owed /\ service' \in Service
    BY <1>0, <2>1 DEF Service
  <2>3. service.version <= service'.version
    BY <1>0, <2>2, ConsoleAssumption DEF Service, Versions
  <2> QED  BY <1>0, <1>1, <2>1, <2>2, <2>3, StillFetched
<1>17. CASE WatcherFlushes
  BY <1>0, <1>17 DEF WatcherFlushes
<1> QED
  BY <1>2, <1>3, <1>4, <1>5, <1>6, <1>7, <1>8, <1>9, <1>10, <1>11, <1>12, <1>13, <1>14, <1>15,
     <1>16, <1>17 DEF ConsoleNext

-----------------------------------------------------------------------------
CurrentInv == ConsoleInv /\ PageTypeOK /\ OneChannel /\ UpToDate

LEMMA CurrentInit == Init => CurrentInv
<1> SUFFICES ASSUME Init PROVE CurrentInv
  OBVIOUS
<1>0. ConsoleInit  BY DEF Init
<1>1. ConsoleInv  BY <1>0, InitInv
<1>2. PageTypeOK
  <2>1. fetches \subseteq Fetching /\ IsFiniteSet(fetches)  BY <1>0, FS_EmptySet DEF ConsoleInit
  <2>2. shown \in Shows /\ shown.mode = "loading"  BY <1>0 DEF ConsoleInit, NotShown, Shows
  <2>3. /\ service.version = 0 /\ service.watched = 0 /\ service.owed = FALSE
        /\ pushed = [c \in Conns |-> 0]
    BY <1>0 DEF ConsoleInit
  <2>4. /\ pushed \in [Conns -> Nat] /\ \A c \in Conns : pushed[c] <= Sent
        /\ service.watched <= service.version /\ (service.owed => service.version > 0)
    BY <2>3 DEF Sent
  <2>5. timer \subseteq Conns /\ behind \in BOOLEAN  BY <1>0 DEF ConsoleInit
  <2> QED  BY <2>1, <2>2, <2>4, <2>5 DEF PageTypeOK
<1>3. OneChannel  BY <1>0 DEF ConsoleInit, OneChannel, NoConnect, ConnectAt
<1>4. UpToDate  BY <1>0 DEF ConsoleInit, UpToDate
<1> QED  BY <1>1, <1>2, <1>3, <1>4 DEF CurrentInv

LEMMA CurrentNext == ASSUME CurrentInv, [Next]_vars PROVE CurrentInv'
<1>1. ConsoleInv'  BY StepInv DEF CurrentInv
<1>2. CASE ConsoleNext \/ Mount \/ Unmount
  BY <1>1, <1>2, PageType, ChannelStep, CurrentStep DEF CurrentInv
<1>3. CASE UNCHANGED consoleVars
  <2>1. PageTypeOK' /\ OneChannel'  BY <1>3 DEF CurrentInv, PageTypeOK, Sent, OneChannel, consoleVars
  <2>2. UpToDate'
    BY <1>3 DEF CurrentInv, UpToDate, Fetched, FetchingNow, Presently, Recent, consoleVars
  <2> QED  BY <1>1, <2>1, <2>2 DEF CurrentInv
<1> QED  BY <1>2, <1>3 DEF Next, Build, Deploy, Navigate, Explore, Console, vars

LEMMA CurrentInvariant == Spec => []CurrentInv
  BY CurrentInit, CurrentNext, PTL DEF Spec

\* The console's variables keep their types: what is fetched and shown is of versions up
\* to MaxVersion, and no connection has more than MaxVersion + 1 messages under way, its
\* greeting included (LiveConsoleApp.tsx:156-220, live/internal/api/server.go:236-255).
THEOREM ConsoleTypeCorrect == Spec => []ConsoleTypeOK
<1>1. CurrentInv => ConsoleTypeOK  BY TypesFollow DEF CurrentInv
<1> QED  BY <1>1, CurrentInvariant, PTL

\* A console whose socket is open and that has nothing under way shows answers no older
\* than the last change the service's watcher has seen, unless fetches overlapped or one
\* failed (LiveConsoleApp.tsx:174-189, watcher.go:65-86).
THEOREM ConsoleIsCurrent == Spec => []ConsoleCurrent
<1>1. ASSUME CurrentInv PROVE ConsoleCurrent
  <2> SUFFICES ASSUME mounted # None, socket[mounted] = "open", ~behind, ~service.owed,
                      pushed[mounted] = 0, \A f \in fetches : f.of # mounted
               PROVE  \A part \in Parts : shown.local[part] \in Recent
    BY DEF ConsoleCurrent, Recent
  <2>1. mounted \in Conns  BY <1>1 DEF CurrentInv, ConsoleInv, ConnTypeOK
  <2>2. Fetched(mounted)  BY <1>1, <2>1 DEF CurrentInv, UpToDate, FetchingNow
  <2>3. shown.local["summary"] \in Recent /\ shown.local["rest"] \in Recent
    BY <2>2 DEF Fetched, Presently
  <2> QED  BY <2>3 DEF Parts
<1> QED  BY <1>1, CurrentInvariant, PTL

-----------------------------------------------------------------------------
(* Sequences: a list made of another one item by item, the first item that *)
(* passes a test, and the concatenation of a sequence of sequences.        *)

LEMMA SeqFacts ==
    ASSUME NEW s, IsSeq(s)
    PROVE  Len(s) \in Nat /\ DOMAIN s = 1..Len(s) /\ s \in [1..Len(s) -> ToSet(s)]
  BY LenProperties DEF IsSeq

LEMMA FunctionIsSeq ==
    ASSUME NEW n \in Nat, NEW S, NEW s \in [1..n -> S]
    PROVE  IsSeq(s) /\ Len(s) = n
<1>1. s \in [1..n -> ToSet(s)]  BY DEF ToSet
<1>2. s \in Seq(ToSet(s))  BY <1>1
<1> QED  BY <1>1, <1>2, LenProperties DEF IsSeq

LEMMA MappedSeq ==
    ASSUME NEW s, IsSeq(s), NEW t, t = [i \in DOMAIN s |-> t[i]]
    PROVE  IsSeq(t) /\ Len(t) = Len(s) /\ DOMAIN t = DOMAIN s
<1> DEFINE S == {t[i] : i \in DOMAIN s}
<1>1. Len(s) \in Nat /\ DOMAIN s = 1..Len(s)  BY SeqFacts
<1>2. t \in [1..Len(s) -> S]  BY <1>1
<1> HIDE DEF S
<1> QED  BY <1>1, <1>2, FunctionIsSeq

LEMMA LeastIn ==
    ASSUME NEW T, T \subseteq Nat, T # {}
    PROVE  Min(T) \in T /\ \A j \in T : Min(T) <= j
<1> DEFINE Less == OpToRel(<, Nat)
<1>1. IsWellFoundedOn(Less, Nat)  BY NatLessThanWellFounded
<1>2. PICK i \in T : \A j \in T : <<j, i>> \notin Less
  <2> HIDE DEF Less
  <2> QED  BY <1>1, WFMin
<1>3. \A j \in T : ~(j < i)  BY <1>2 DEF OpToRel
<1>4. \A j \in T : i <= j  BY <1>3
<1> QED  BY <1>4 DEF Min

\* A page that is there is found, and what is found has the section and the slug.
LEMMA FoundDoc ==
    ASSUME NEW index, NEW s, NEW u, IsSeq(index.pages), Absent \notin ToSet(index.pages)
    PROVE  LET d == FindDoc(index, s, u)
           IN /\ d # Absent => d \in ToSet(index.pages) /\ d.sectionSlug = s /\ d.slug = u
              /\ (\E p \in ToSet(index.pages) : p.sectionSlug = s /\ p.slug = u) => d # Absent
<1> DEFINE pages == index.pages
           I == {i \in 1..Len(pages) : pages[i].sectionSlug = s /\ pages[i].slug = u}
<1>1. DOMAIN pages = 1..Len(pages) /\ Len(pages) \in Nat  BY SeqFacts
<1>2. FindDoc(index, s, u) = IF I # {} THEN ItemAt(pages, Min(I)) ELSE ItemAt(pages, 0)
  BY DEF FindDoc, SelectInSeq
<1>3. CASE I = {}
  <2>1. FindDoc(index, s, u) = Absent  BY <1>2, <1>3 DEF ItemAt
  <2>2. ~\E p \in ToSet(pages) : p.sectionSlug = s /\ p.slug = u  BY <1>1, <1>3 DEF ToSet
  <2> QED  BY <2>1, <2>2
<1>4. CASE I # {}
  <2>1. Min(I) \in I
    <3>1. I \subseteq Nat  OBVIOUS
    <3> HIDE DEF I
    <3> QED  BY <1>4, <3>1, LeastIn
  <2>2. FindDoc(index, s, u) = pages[Min(I)]  BY <1>1, <1>2, <1>4, <2>1 DEF ItemAt
  <2>3. pages[Min(I)] \in ToSet(pages)  BY <1>1, <2>1 DEF ToSet
  <2> QED  BY <2>1, <2>2, <2>3
<1> QED  BY <1>3, <1>4

\* In a list whose items differ each is found where it is.
LEMMA FoundSlug ==
    ASSUME NEW slugs, IsSeq(slugs), NEW i \in DOMAIN slugs,
           \A j, k \in DOMAIN slugs : slugs[j] = slugs[k] => j = k
    PROVE  /\ SelectInSeq(slugs, LAMBDA s : s = slugs[i]) = i /\ i > 0
           /\ ResolveIndex(slugs, slugs[i]) = i
<1> DEFINE I == {j \in 1..Len(slugs) : slugs[j] = slugs[i]}
<1>1. DOMAIN slugs = 1..Len(slugs) /\ Len(slugs) \in Nat  BY SeqFacts
<1>2. I = {i}  BY <1>1
<1>3. Min({i}) = i
  <2>1. {i} \subseteq Nat /\ {i} # {}  BY <1>1
  <2> QED  BY <2>1, LeastIn
<1> DEFINE found == SelectInSeq(slugs, LAMBDA s : s = slugs[i])
<1>4. found = IF I # {} THEN Min(I) ELSE 0
  BY DEF SelectInSeq
<1>5. found = i /\ i > 0
  <2> HIDE DEF found, I
  <2> QED  BY <1>1, <1>2, <1>3, <1>4
<1>6. ResolveIndex(slugs, slugs[i]) = i
  <2> DEFINE digit == SelectInSeq(Digits, LAMBDA d : d = slugs[i])
  <2>1. ResolveIndex(slugs, slugs[i]) =
          CASE found > 0 -> found
            [] found = 0 /\ digit \in 1..Len(slugs) -> digit
            [] found = 0 /\ digit = Len(slugs) + 1 -> digit - 1
            [] OTHER -> 1
    BY DEF ResolveIndex
  <2> HIDE DEF found, digit
  <2> QED  BY <1>5, <2>1
<1> QED  BY <1>5, <1>6

\* Whatever the parameter, an explorer with items shows one of them.
LEMMA ResolvedIn ==
    ASSUME NEW slugs, IsSeq(slugs), slugs # <<>>, NEW param
    PROVE  ResolveIndex(slugs, param) \in DOMAIN slugs
<1> DEFINE I == {i \in 1..Len(slugs) : slugs[i] = param}
           digit == SelectInSeq(Digits, LAMBDA d : d = param)
<1>1. DOMAIN slugs = 1..Len(slugs) /\ Len(slugs) \in Nat  BY SeqFacts
<1>2. Len(slugs) > 0
  <2>1. slugs \in Seq(ToSet(slugs))  BY DEF IsSeq
  <2> QED  BY <2>1, EmptySeq
<1>3. SelectInSeq(slugs, LAMBDA s : s = param) \in 0..Len(slugs)
  <2>1. SelectInSeq(slugs, LAMBDA s : s = param) = IF I # {} THEN Min(I) ELSE 0
    BY DEF SelectInSeq
  <2>2. I \subseteq Nat /\ I \subseteq 1..Len(slugs)  BY <1>1
  <2> HIDE DEF I
  <2>3. I # {} => Min(I) \in I  BY <2>2, LeastIn
  <2> QED  BY <1>1, <2>1, <2>2, <2>3
<1> DEFINE bySlug == SelectInSeq(slugs, LAMBDA s : s = param)
<1>4. ResolveIndex(slugs, param) =
        CASE bySlug > 0 -> bySlug
          [] bySlug = 0 /\ digit \in 1..Len(slugs) -> digit
          [] bySlug = 0 /\ digit = Len(slugs) + 1 -> digit - 1
          [] OTHER -> 1
  BY DEF ResolveIndex
<1>5. bySlug \in 0..Len(slugs)  BY <1>3
<1> HIDE DEF bySlug, digit
<1> QED  BY <1>1, <1>2, <1>4, <1>5

\* Two sequences one after the other.
LEMMA JoinedSeqs ==
    ASSUME NEW s, NEW t, IsSeq(s), IsSeq(t)
    PROVE  IsSeq(s \o t) /\ ToSet(s \o t) = ToSet(s) \cup ToSet(t)
<1> DEFINE S == ToSet(s) \cup ToSet(t)
           r == s \o t
<1>1. s \in Seq(S) /\ t \in Seq(S)
  <2>1. s \in Seq(ToSet(s)) /\ t \in Seq(ToSet(t))  BY DEF IsSeq
  <2> QED  BY <2>1, SeqMonotonic
<1> HIDE DEF S
<1>2. /\ r \in Seq(S) /\ Len(r) = Len(s) + Len(t)
      /\ \A i \in 1..Len(s) + Len(t) : r[i] = IF i <= Len(s) THEN s[i] ELSE t[i - Len(s)]
  BY <1>1, ConcatProperties
<1> HIDE DEF r
<1>3. /\ Len(s) \in Nat /\ DOMAIN s = 1..Len(s) /\ Len(t) \in Nat /\ DOMAIN t = 1..Len(t)
      /\ DOMAIN r = 1..Len(r) /\ r \in [1..Len(r) -> S]
  BY <1>1, <1>2, LenProperties
<1>4. IsSeq(r)
  BY <1>2, <1>3, FunctionIsSeq
<1>5. ASSUME NEW x \in ToSet(r) PROVE x \in ToSet(s) \cup ToSet(t)
  <2>1. PICK i \in 1..Len(s) + Len(t) : x = r[i]  BY <1>2, <1>3, <1>5 DEF ToSet
  <2>2. CASE i <= Len(s)  BY <1>2, <1>3, <2>1, <2>2 DEF ToSet
  <2>3. CASE i > Len(s)
    <3>1. i - Len(s) \in DOMAIN t /\ x = t[i - Len(s)]  BY <1>2, <1>3, <2>1, <2>3
    <3> QED  BY <3>1 DEF ToSet
  <2> QED  BY <1>3, <2>2, <2>3
<1>6. ASSUME NEW x \in ToSet(s) PROVE x \in ToSet(r)
  <2>1. PICK i \in 1..Len(s) : x = s[i]  BY <1>3, <1>6 DEF ToSet
  <2>2. i \in DOMAIN r /\ r[i] = x  BY <1>2, <1>3, <2>1
  <2> QED  BY <2>2 DEF ToSet
<1>7. ASSUME NEW x \in ToSet(t) PROVE x \in ToSet(r)
  <2>1. PICK i \in 1..Len(t) : x = t[i]  BY <1>3, <1>7 DEF ToSet
  <2>2. i + Len(s) \in DOMAIN r /\ r[i + Len(s)] = x  BY <1>2, <1>3, <2>1
  <2> QED  BY <2>2 DEF ToSet
<1> QED  BY <1>4, <1>5, <1>6, <1>7 DEF r

\* A sequence of sequences flattened has what is in any of them.
LEMMA FlattenedSeq ==
    ASSUME NEW seqs, IsSeq(seqs), \A i \in DOMAIN seqs : IsSeq(seqs[i])
    PROVE  /\ IsSeq(FlattenSeq(seqs))
           /\ ToSet(FlattenSeq(seqs)) = UNION {ToSet(seqs[i]) : i \in DOMAIN seqs}
<1>1. DOMAIN seqs = 1..Len(seqs) /\ Len(seqs) \in Nat  BY SeqFacts
<1>2. CASE Len(seqs) = 0
  <2>1. FlattenSeq(seqs) = seqs  BY <1>2 DEF FlattenSeq
  <2>2. DOMAIN seqs = {}  BY <1>1, <1>2
  <2> QED  BY <2>1, <2>2 DEF ToSet
<1>3. CASE Len(seqs) # 0
  <2> DEFINE Flat(f, m) == f = [i \in 1..m |-> IF i = 1 THEN seqs[i] ELSE f[i - 1] \o seqs[i]]
             n == Len(seqs)
  <2>1. \A m \in 1..n : \E f : Flat(f, m)
    <3> DEFINE Bad == {m \in 1..n : ~\E f : Flat(f, m)}
    <3> SUFFICES ASSUME Bad # {} PROVE FALSE
      OBVIOUS
    <3>1. PICK k \in Bad : \A j \in Bad : k <= j
      <4> HIDE DEF Flat
      <4>1. Bad \subseteq Nat  BY <1>1
      <4> HIDE DEF Bad
      <4> QED  BY <4>1, LeastIn
    <3>2. CASE k = 1
      <4> DEFINE f == [i \in 1..1 |-> seqs[i]]
      <4>1. Flat(f, 1)  OBVIOUS
      <4> QED  BY <3>1, <3>2, <4>1
    <3>3. CASE k # 1
      <4>1. k - 1 \in 1..n /\ k - 1 \notin Bad
        <5> HIDE DEF Flat
        <5> QED  BY <1>1, <3>1, <3>3
      <4>2. PICK g : Flat(g, k - 1)
        <5> HIDE DEF Flat
        <5> QED  BY <4>1
      <4> DEFINE f == [i \in 1..k |-> IF i < k THEN g[i] ELSE g[k - 1] \o seqs[k]]
      <4>3. Flat(f, k)
        <5>1. ASSUME NEW i \in 1..k
              PROVE  f[i] = IF i = 1 THEN seqs[i] ELSE f[i - 1] \o seqs[i]
          <6>1. CASE i = k
            <7>1. k \in 1..k /\ k - 1 \in 1..k /\ k - 1 < k /\ ~(k < k)  BY <1>1, <3>1, <3>3
            <7>2. f[k] = g[k - 1] \o seqs[k] /\ f[k - 1] = g[k - 1]  BY <7>1
            <7> HIDE DEF f
            <7> QED  BY <3>3, <6>1, <7>2
          <6>2. CASE i < k /\ i = 1  BY <1>1, <3>1, <3>3, <4>2, <6>2
          <6>3. CASE i < k /\ i # 1
            <7>1. i \in 1..k - 1 /\ i - 1 \in 1..k /\ i - 1 < k  BY <1>1, <3>1, <6>3
            <7>2. g[i] = g[i - 1] \o seqs[i]  BY <4>2, <6>3, <7>1
            <7> QED  BY <6>3, <7>1, <7>2
          <6> QED  BY <1>1, <3>1, <6>1, <6>2, <6>3
        <5>2. f = [i \in 1..k |-> f[i]]  OBVIOUS
        <5> HIDE DEF f
        <5> QED  BY <5>1, <5>2
      <4> QED  BY <3>1, <4>3
    <3> QED  BY <3>2, <3>3
  <2> DEFINE flatten == CHOOSE f : Flat(f, n)
  <2>2. FlattenSeq(seqs) = flatten[n]  BY <1>3 DEF FlattenSeq
  <2>3. Flat(flatten, n)
    <3>1. n \in 1..n  BY <1>1, <1>3
    <3> QED  BY <2>1, <3>1
  <2> HIDE DEF flatten
  <2> DEFINE Right(i) == IsSeq(flatten[i]) /\ ToSet(flatten[i]) = UNION {ToSet(seqs[j]) : j \in 1..i}
  <2>4. \A i \in 1..n : Right(i)
    <3> DEFINE Bad == {i \in 1..n : ~Right(i)}
    <3> SUFFICES ASSUME Bad # {} PROVE FALSE
      OBVIOUS
    <3>1. PICK k \in Bad : \A j \in Bad : k <= j
      <4>1. Bad \subseteq Nat  BY <1>1
      <4> HIDE DEF Bad
      <4> QED  BY <4>1, LeastIn
    <3>2. CASE k = 1
      <4>1. flatten[1] = seqs[1]  BY <2>3, <3>1, <3>2
      <4>2. UNION {ToSet(seqs[j]) : j \in 1..1} = ToSet(seqs[1])  OBVIOUS
      <4> QED  BY <1>1, <3>1, <3>2, <4>1, <4>2
    <3>3. CASE k # 1
      <4>1. k - 1 \in 1..n /\ k - 1 \notin Bad  BY <1>1, <3>1, <3>3
      <4>2. Right(k - 1)  BY <4>1
      <4>3. flatten[k] = flatten[k - 1] \o seqs[k]  BY <2>3, <3>1, <3>3
      <4>4. IsSeq(seqs[k])  BY <1>1, <3>1
      <4>5. /\ IsSeq(flatten[k])
            /\ ToSet(flatten[k]) = ToSet(flatten[k - 1]) \cup ToSet(seqs[k])
        BY <4>2, <4>3, <4>4, JoinedSeqs
      <4>6. 1..k = 1..k - 1 \cup {k}  BY <1>1, <3>1, <3>3
      <4>7. UNION {ToSet(seqs[j]) : j \in 1..k}
              = (UNION {ToSet(seqs[j]) : j \in 1..k - 1}) \cup ToSet(seqs[k])
        BY <4>6
      <4>8. Right(k)  BY <4>2, <4>5, <4>7
      <4> QED  BY <3>1, <4>8
    <3> QED  BY <3>2, <3>3
  <2>5. Right(n)  BY <1>1, <1>3, <2>4
  <2> QED  BY <1>1, <2>2, <2>5
<1> QED  BY <1>2, <1>3

-----------------------------------------------------------------------------
(* The content: what the script writes is as good as what it reads.        *)

\* Calibrated text does not name the prototypes' versions.
LEMMA Calibrated ==
    ASSUME NEW t
    PROVE  ToSet(CalibrateText(t)) \cap PrototypeVersions = {}
<1>1. ASSUME NEW w PROVE CalibrateWord(w) \notin PrototypeVersions
  BY ContentAssumption DEF CalibrateWord, PrototypeVersions
<1> QED  BY <1>1 DEF CalibrateText, ToSet

LEMMA NormalizedOK ==
    ASSUME NEW items, ItemsOK(items)
    PROVE  ListOK(Normalized(items)) /\ (items # <<>> => Normalized(items) # <<>>)
<1> DEFINE list == Normalized(items)
<1>1. list = [i \in DOMAIN items |-> list[i]]  BY DEF Normalized
<1>2. ASSUME NEW i \in DOMAIN items
      PROVE  list[i].slug = Slug[items[i].name] /\ list[i].text = CalibrateText(items[i].text)
  BY DEF Normalized
<1>3. IsSeq(items) /\ \A i \in DOMAIN items : items[i].name \in DOMAIN Slug
  BY DEF ItemsOK
<1>4. \A i, j \in DOMAIN items : Slug[items[i].name] = Slug[items[j].name] => i = j
  BY DEF ItemsOK
<1> HIDE DEF list
<1>5. IsSeq(list) /\ Len(list) = Len(items) /\ DOMAIN list = DOMAIN items
  BY <1>1, <1>3, MappedSeq
<1>6. ListOK(list)
  BY <1>2, <1>3, <1>4, <1>5, Calibrated DEF ListOK, Range
<1>7. items # <<>> => list # <<>>
  <2>1. items \in Seq(ToSet(items)) /\ list \in Seq(ToSet(list))  BY <1>3, <1>5 DEF IsSeq
  <2> QED  BY <1>5, <2>1, EmptySeq
<1> QED  BY <1>6, <1>7 DEF list

LEMMA EmptyOK == ItemsOK(<<>>) /\ SectionsOK(<<>>)
<1>1. IsSeq(<<>>)  BY EmptySeq DEF IsSeq
<1>2. DOMAIN <<>> = {}  BY <1>1, SeqFacts, EmptySeq
<1> QED  BY <1>1, <1>2 DEF ItemsOK, SectionsOK

\* The sidebar of the docs and their pages, made from one list of sections.
LEMMA DocsWritten ==
    ASSUME NEW d, SectionsOK(Field(d, "docs"))
    PROVE  DocsOK(Nav(d), Pages(d))
<1> DEFINE docs == Field(d, "docs")
           PageOf(i, j) == [slug |-> Slug[docs[i].pages[j]], title |-> docs[i].pages[j],
                            sectionSlug |-> Slug[docs[i].name],
                            cli |-> docs[i].pages[j] = Designs[d].cliPage]
           section == [i \in DOMAIN docs |-> [j \in DOMAIN docs[i].pages |-> PageOf(i, j)]]
           nav == Nav(d)
           pages == Pages(d)
<1>1. /\ IsSeq(docs)
      /\ \A i \in DOMAIN docs : docs[i].name \in DOMAIN Slug /\ docs[i].pages \in Seq(DOMAIN Slug)
      /\ \A i, j \in DOMAIN docs :
            \A m \in DOMAIN docs[i].pages, n \in DOMAIN docs[j].pages :
                /\ Slug[docs[i].name] = Slug[docs[j].name]
                /\ Slug[docs[i].pages[m]] = Slug[docs[j].pages[n]]
                => docs[i].pages[m] = docs[j].pages[n]
  BY DEF SectionsOK
<1>2. ASSUME NEW i \in DOMAIN docs
      PROVE  /\ IsSeq(docs[i].pages)
             /\ \A j \in DOMAIN docs[i].pages : docs[i].pages[j] \in DOMAIN Slug
  <2>1. docs[i].pages \in Seq(DOMAIN Slug)  BY <1>1
  <2>2. /\ docs[i].pages \in [1..Len(docs[i].pages) -> DOMAIN Slug] /\ Len(docs[i].pages) \in Nat
    BY <2>1, LenProperties
  <2> QED  BY <2>2, FunctionIsSeq
<1>3. /\ nav = [i \in DOMAIN docs |-> nav[i]]
      /\ \A i \in DOMAIN docs :
            /\ nav[i].slug = Slug[docs[i].name]
            /\ nav[i].pages = [j \in DOMAIN docs[i].pages |->
                                 [slug |-> Slug[docs[i].pages[j]], title |-> docs[i].pages[j]]]
  BY DEF Nav
<1>4. pages = FlattenSeq(section)  BY DEF Pages
<1>5. section = [i \in DOMAIN docs |-> section[i]]
      /\ \A i \in DOMAIN docs : section[i] = [j \in DOMAIN docs[i].pages |-> PageOf(i, j)]
  OBVIOUS
<1> HIDE DEF docs, section, nav, pages
<1>6. IsSeq(nav) /\ DOMAIN nav = DOMAIN docs  BY <1>1, <1>3, MappedSeq
<1>7. ASSUME NEW i \in DOMAIN docs PROVE IsSeq(nav[i].pages) /\ IsSeq(section[i])
  <2> DEFINE t == section[i]
             u == nav[i].pages
  <2>1. t = [j \in DOMAIN docs[i].pages |-> t[j]] /\ u = [j \in DOMAIN docs[i].pages |-> u[j]]
    BY <1>3, <1>5
  <2> HIDE DEF t, u
  <2>2. IsSeq(t) /\ IsSeq(u)  BY <1>2, <2>1, MappedSeq
  <2> QED  BY <2>2 DEF t, u
<1>8. IsSeq(section) /\ DOMAIN section = DOMAIN docs  BY <1>1, <1>5, MappedSeq
<1>9. IsSeq(pages) /\ ToSet(pages) = UNION {ToSet(section[i]) : i \in DOMAIN section}
  BY <1>4, <1>7, <1>8, FlattenedSeq
<1>10. ASSUME NEW p \in ToSet(pages)
       PROVE  \E i \in DOMAIN docs : \E j \in DOMAIN docs[i].pages : p = PageOf(i, j)
  <2>1. PICK i \in DOMAIN docs : p \in ToSet(section[i])  BY <1>8, <1>9, <1>10
  <2>2. section[i] = [j \in DOMAIN docs[i].pages |-> PageOf(i, j)]  BY <1>5
  <2> HIDE DEF PageOf
  <2> QED  BY <2>1, <2>2 DEF ToSet
<1>11. ASSUME NEW i \in DOMAIN docs, NEW j \in DOMAIN docs[i].pages
       PROVE  PageOf(i, j) \in ToSet(pages)
  <2>1. section[i] = [k \in DOMAIN docs[i].pages |-> PageOf(i, k)]  BY <1>5
  <2> HIDE DEF PageOf
  <2>2. PageOf(i, j) \in ToSet(section[i])  BY <2>1 DEF ToSet
  <2> QED  BY <1>8, <1>9, <2>2
<1>12. ASSUME NEW i \in DOMAIN docs, NEW j \in DOMAIN docs[i].pages
       PROVE  PageOf(i, j) \in [slug : Range(Slug), title : DOMAIN Slug,
                                sectionSlug : Range(Slug), cli : BOOLEAN]
  <2>1. docs[i].pages[j] \in DOMAIN Slug /\ docs[i].name \in DOMAIN Slug  BY <1>1, <1>2
  <2>2. Slug[docs[i].pages[j]] \in Range(Slug) /\ Slug[docs[i].name] \in Range(Slug)
    BY <2>1 DEF Range
  <2>3. (docs[i].pages[j] = Designs[d].cliPage) \in BOOLEAN  OBVIOUS
  <2> QED  BY <2>1, <2>2, <2>3
<1>13. Absent \notin ToSet(pages) /\ \A p \in ToSet(pages) : p.slug \in Range(Slug)
  <2> HIDE DEF PageOf
  <2> QED  BY <1>10, <1>12, ContentAssumption
<1>14. ASSUME NEW p \in ToSet(pages), NEW q \in ToSet(pages),
              p.sectionSlug = q.sectionSlug, p.slug = q.slug
       PROVE  p.title = q.title
  <2>1. PICK i \in DOMAIN docs, m \in UNION {DOMAIN docs[k].pages : k \in DOMAIN docs} :
             m \in DOMAIN docs[i].pages /\ p = PageOf(i, m)
    <3> HIDE DEF PageOf
    <3> QED  BY <1>10
  <2>2. PICK j \in DOMAIN docs, n \in UNION {DOMAIN docs[k].pages : k \in DOMAIN docs} :
             n \in DOMAIN docs[j].pages /\ q = PageOf(j, n)
    <3> HIDE DEF PageOf
    <3> QED  BY <1>10
  <2>3. Slug[docs[i].name] = Slug[docs[j].name] /\ Slug[docs[i].pages[m]] = Slug[docs[j].pages[n]]
    BY <1>14, <2>1, <2>2
  <2>4. docs[i].pages[m] = docs[j].pages[n]  BY <1>1, <2>1, <2>2, <2>3
  <2> QED  BY <2>1, <2>2, <2>4
<1>15. ASSUME NEW i \in DOMAIN nav, NEW page \in ToSet(nav[i].pages)
       PROVE  \E p \in ToSet(pages) : /\ p.sectionSlug = nav[i].slug
                                      /\ page = [slug |-> p.slug, title |-> p.title]
  <2>1. i \in DOMAIN docs  BY <1>6
  <2>2. PICK j \in DOMAIN docs[i].pages :
             page = [slug |-> Slug[docs[i].pages[j]], title |-> docs[i].pages[j]]
    <3> DEFINE u == nav[i].pages
               link(j) == [slug |-> Slug[docs[i].pages[j]], title |-> docs[i].pages[j]]
    <3>1. u = [j \in DOMAIN docs[i].pages |-> link(j)]  BY <1>3, <2>1
    <3>2. page \in ToSet(u)  OBVIOUS
    <3> HIDE DEF u, link
    <3>3. \E j \in DOMAIN docs[i].pages : page = link(j)  BY <3>1, <3>2 DEF ToSet
    <3> QED  BY <3>3 DEF link
  <2>3. /\ PageOf(i, j).sectionSlug = nav[i].slug
        /\ page = [slug |-> PageOf(i, j).slug, title |-> PageOf(i, j).title]
    BY <1>3, <2>1, <2>2
  <2> HIDE DEF PageOf
  <2> QED  BY <1>11, <2>1, <2>3
<1>16. DocsOK(nav, pages)
  <2> HIDE DEF PageOf
  <2> QED  BY <1>6, <1>7, <1>9, <1>13, <1>14, <1>15 DEF DocsOK
<1> QED  BY <1>16 DEF nav, pages

\* The steps of main: a page of the site is read in the step that writes it.
LEMMA MainSteps ==
    /\ DOMAIN Main = 1..15 /\ Len(Main) = 15
    /\ \A i \in DOMAIN Main :
          Main[i].writes # Absent =>
              /\ Main[i].writes \in ContentFiles
              /\ Main[i].writes \in HomeFiles => Main[i].reads = Main[i].as
<1>1. DOMAIN Main = 1..15 /\ Len(Main) = 15  BY DEF Main
<1>2. ASSUME NEW i \in 1..15, Main[i].writes # Absent
      PROVE  Main[i].writes \in HomeFiles => Main[i].reads = Main[i].as
  <2>1. CASE i = 1  BY <2>1 DEF Main, ReadWrite
  <2>2. CASE i = 2  BY <2>2 DEF Main, ReadWrite
  <2>3. CASE i = 3  BY <2>3 DEF Main, ReadWrite
  <2>4. CASE i = 4  BY <2>4 DEF Main, ReadWrite
  <2>5. CASE i = 5  BY <1>2, <2>5 DEF Main, Read
  <2>6. CASE i = 6  BY <1>2, <2>6 DEF Main, Read
  <2>7. CASE i = 7  BY <2>7 DEF Main, Write, HomeFiles
  <2>8. CASE i = 8  BY <2>8 DEF Main, Write, HomeFiles
  <2>9. CASE i = 9  BY <2>9 DEF Main, Write, HomeFiles
  <2>10. CASE i = 10  BY <2>10 DEF Main, Write, HomeFiles
  <2>11. CASE i = 11  BY <2>11 DEF Main, ReadWrite
  <2>12. CASE i = 12  BY <2>12 DEF Main, ReadWrite
  <2>13. CASE i = 13  BY <2>13 DEF Main, ReadWrite
  <2>14. CASE i = 14  BY <2>14 DEF Main, ReadWrite
  <2>15. CASE i = 15  BY <2>15 DEF Main, ReadWrite
  <2> QED
    BY <2>1, <2>2, <2>3, <2>4, <2>5, <2>6, <2>7, <2>8, <2>9, <2>10, <2>11, <2>12, <2>13, <2>14,
       <2>15
<1> QED  BY <1>1, <1>2 DEF ContentFiles

\* A field of a design, or nothing at all.
LEMMA FieldIs ==
    ASSUME NEW d, NEW name
    PROVE  Field(d, name) \in {Designs[d].fields[name], <<>>}
BY DEF Field

\* What a step of main writes has what the site needs.
LEMMA Written ==
    ASSUME NEW i \in DOMAIN Main, Main[i].writes # Absent,
           ~(Main[i].reads # Absent /\ Throws(Main[i].reads))
    PROVE  FileOK(Main[i].writes, WriteJson(Extract(Main[i])))
<1> DEFINE s == Main[i]
           f == s.writes
           d == Designs[s.as]
<1>1. /\ f \in ContentFiles /\ DesignOK(f, d)
      /\ f \in HomeFiles => s.reads = s.as
  BY MainSteps, ContentAssumption
<1>2. s.as # Absent /\ \A name \in FieldsOf("home") : Absent # [design |-> s.as, field |-> name]
  <2>1. "parts" \in FieldsOf("home")  BY DEF FieldsOf
  <2> QED  BY <2>1, ContentAssumption
<1>3. ~(s.reads # Absent /\ Throws(s.reads))  OBVIOUS
<1> HIDE DEF s
<1>4. CASE f \in DocsFiles
  <2>1. d.kind = "docs" /\ SectionsOK(d.fields["docs"])  
    BY <1>1, <1>4 DEF DesignOK, DocsFiles, CliFiles
  <2>2. SectionsOK(Field(s.as, "docs"))  BY <2>1, FieldIs, EmptyOK
  <2>3. DocsOK(Nav(s.as), Pages(s.as))  BY <2>2, DocsWritten
  <2>4. Extract(s) = ExtractDocs(s.as)
    BY <1>4, <2>1 DEF Extract, DocsFiles, CliFiles
  <2>5. WriteJson(Extract(s)) = ExtractDocs(s.as)
    BY <2>4 DEF WriteJson, ExtractDocs
  <2> DEFINE c == ExtractDocs(s.as)
  <2>6. c.nav = Nav(s.as) /\ c.pages = Pages(s.as)  BY DEF ExtractDocs
  <2> HIDE DEF c
  <2>7. FileOK(f, c)  BY <1>4, <2>3, <2>6 DEF FileOK, DocsFiles, CliFiles
  <2> QED  BY <2>5, <2>7 DEF c, s
<1>5. CASE f \in CliFiles
  <2>1. d.kind = "docs" /\ ItemsOK(d.fields["cli"])
    BY <1>1, <1>5 DEF DesignOK, DocsFiles, CliFiles
  <2>2. ItemsOK(Field(s.as, "cli"))  BY <2>1, FieldIs, EmptyOK
  <2>3. ListOK(Normalized(Field(s.as, "cli")))  BY <2>2, NormalizedOK
  <2>4. Extract(s) = ExtractCli(s.as)
    BY <1>5, <2>1 DEF Extract
  <2>5. WriteJson(Extract(s)) = ExtractCli(s.as)
    BY <2>4 DEF WriteJson, ExtractCli
  <2> DEFINE c == ExtractCli(s.as)
  <2>6. c.commands = Normalized(Field(s.as, "cli"))  BY DEF ExtractCli
  <2> HIDE DEF c
  <2>7. FileOK(f, c)  BY <1>5, <2>3, <2>6 DEF FileOK, DocsFiles, CliFiles
  <2> QED  BY <2>5, <2>7 DEF c, s
<1>6. CASE f \notin DocsFiles \cup CliFiles
  <2>1. /\ d.kind # "docs" /\ FieldsOf(d.kind) = ListsOf(f)
        /\ \A l \in ListsOf(f) : /\ ItemsOK(d.fields[l])
                                 /\ f \in HomeFiles => d.fields[l] # <<>>
    BY <1>1, <1>6 DEF DesignOK
  <2>2. Extract(s) = Page(s.as, ListsOf(f))
    <3>1. d.kind \notin {"home", "how", "docs", "console"} => FieldsOf(d.kind) = {}
      BY DEF FieldsOf
    <3> HIDE DEF d
    <3> QED  BY <2>1, <3>1 DEF Extract, ExtractHome, ExtractHowItWorks, ExtractConsole, ExtractStatic, d
  <2> DEFINE c == WriteJson(Extract(s))
  <2>3. /\ c.text = CalibrateText(CalibrateText(d.text))
        /\ c.lists = [l \in ListsOf(f) |-> Normalized(Field(s.as, l))]
    BY <2>2 DEF WriteJson, Page
  <2>4. ASSUME NEW l \in ListsOf(f)
        PROVE  ListOK(c.lists[l]) /\ (f \in HomeFiles => c.lists[l] # <<>>)
    <3>1. ItemsOK(Field(s.as, l))  BY <2>1, FieldIs, EmptyOK
    <3>2. c.lists[l] = Normalized(Field(s.as, l))  BY <2>3
    <3>3. ASSUME f \in HomeFiles PROVE Field(s.as, l) # <<>>
      <4>1. s.reads = s.as  BY <1>1, <3>3
      <4>2. ~Throws(s.as)  BY <1>2, <1>3, <4>1
      <4>3. FieldsOf(d.kind) = ListsOf(f) /\ l \in ListsOf(f)  BY <2>1
      <4>4. ListsOf(f) = FieldsOf("home")  BY <3>3 DEF ListsOf, HomeFiles, HowFiles
      <4>5. l # "filtersDef" /\ FieldsOf(d.kind) # {}  BY <4>3, <4>4 DEF FieldsOf
      <4>6. broken # [design |-> s.as, field |-> l]
        <5> SUFFICES ASSUME broken = [design |-> s.as, field |-> l] PROVE FALSE
          OBVIOUS
        <5>1. broken # Absent  BY <1>2, <4>3, <4>4
        <5> QED  BY <4>2, <4>3, <4>5, <5>1 DEF Throws
      <4> QED  BY <2>1, <3>3, <4>6 DEF Field
    <3> QED  BY <3>1, <3>2, <3>3, NormalizedOK
  <2>5. ToSet(c.text) \cap PrototypeVersions = {}  BY <2>3, Calibrated
  <2> HIDE DEF c
  <2>6. FileOK(f, c)  BY <1>6, <2>4, <2>5 DEF FileOK
  <2> QED  BY <2>6 DEF c, s
<1> QED  BY <1>4, <1>5, <1>6

FilesInv ==
    /\ DOMAIN files = ContentFiles
    /\ \A f \in ContentFiles : files[f] # Absent => FileOK(f, files[f])

LEMMA ExtractInv ==
    ASSUME FilesInv, ExtractStep \/ ExtractKilled
    PROVE  FilesInv' /\ (step \in DOMAIN Main \cup {0} => step' \in DOMAIN Main \cup {0})
<1>1. step \in DOMAIN Main /\ step \in 1..15  BY MainSteps DEF ExtractStep, ExtractKilled
<1> DEFINE s == Main[step]
<1>2. s.writes # Absent => s.writes \in ContentFiles  BY <1>1, MainSteps
<1>3. ASSUME files' = files PROVE FilesInv'
  BY <1>3 DEF FilesInv
<1>4. ASSUME s.writes # Absent, files' = [files EXCEPT ![s.writes] = Absent] PROVE FilesInv'
  BY <1>2, <1>4 DEF FilesInv
<1>5. ASSUME s.writes # Absent, ~(s.reads # Absent /\ Throws(s.reads)),
             files' = [files EXCEPT ![s.writes] = WriteJson(Extract(s))]
      PROVE  FilesInv'
  <2> DEFINE c == WriteJson(Extract(s))
  <2>1. FileOK(s.writes, c)  BY <1>1, <1>5, Written
  <2> HIDE DEF c
  <2>2. files' = [files EXCEPT ![s.writes] = c]  BY <1>5 DEF c
  <2> QED  BY <1>2, <1>5, <2>1, <2>2 DEF FilesInv
<1>6. FilesInv'
  <2>1. CASE ExtractStep
    BY <1>3, <1>5, <2>1 DEF ExtractStep
  <2>2. CASE ExtractKilled
    BY <1>3, <1>4, <2>2 DEF ExtractKilled
  <2> QED  BY <2>1, <2>2
<1>7. step' \in DOMAIN Main \cup {0}
  <2>1. step' \in {0, step, step + 1} /\ (step = 15 => step' = 0)
    BY <1>1, MainSteps DEF ExtractStep, ExtractKilled
  <2> QED  BY <1>1, <2>1, MainSteps DEF ExtractStep, ExtractKilled
<1> QED  BY <1>6, <1>7

-----------------------------------------------------------------------------
(* The site: what its pages look up can be told apart.                     *)

ToldApart(slugs) ==
    IsSeq(slugs) /\ \A j, k \in DOMAIN slugs : slugs[j] = slugs[k] => j = k

IndexOK(index) ==
    /\ DocsOK(index.nav, index.pages)
    /\ ToldApart(index.parts) /\ ToldApart(index.layers) /\ ToldApart(index.steps)
    /\ ToldApart(index.demo) /\ ToldApart(index.commands)
    /\ index.parts # <<>> /\ index.layers # <<>>

SiteInv == site # Absent => DOMAIN site = Locales /\ \A l \in Locales : IndexOK(site[l])

LEMMA SlugsToldApart ==
    ASSUME NEW items, ListOK(items)
    PROVE  ToldApart(Slugs(items)) /\ (items # <<>> => Slugs(items) # <<>>)
<1> DEFINE t == Slugs(items)
<1>1. t = [i \in DOMAIN items |-> t[i]] /\ \A i \in DOMAIN items : t[i] = items[i].slug
  BY DEF Slugs
<1>2. IsSeq(items) /\ \A i, j \in DOMAIN items : items[i].slug = items[j].slug => i = j
  BY DEF ListOK
<1> HIDE DEF t
<1>3. IsSeq(t) /\ Len(t) = Len(items) /\ DOMAIN t = DOMAIN items  BY <1>1, <1>2, MappedSeq
<1>4. items # <<>> => t # <<>>
  <2>1. items \in Seq(ToSet(items)) /\ t \in Seq(ToSet(t))  BY <1>2, <1>3 DEF IsSeq
  <2> QED  BY <1>3, <2>1, EmptySeq
<1>5. ToldApart(t)  BY <1>1, <1>2, <1>3 DEF ToldApart
<1> QED  BY <1>4, <1>5 DEF t

LEMMA DeployedOK ==
    ASSUME FilesInv, Buildable, NEW l \in Locales
    PROVE  IndexOK(Site(l))
<1>1. \A f \in ContentFiles : FileOK(f, files[f])  BY DEF FilesInv, Buildable
<1>2. {DocsFile(l), CliFile(l), HomeFile(l), HowFile(l)} \subseteq ContentFiles
  <2>1. /\ Main[1].writes = "home/en" /\ Main[2].writes = "home/pt"
        /\ Main[3].writes = "how-it-works/en" /\ Main[4].writes = "how-it-works/pt"
        /\ Main[7].writes = "docs/en" /\ Main[8].writes = "docs/pt"
        /\ Main[9].writes = "cli/en" /\ Main[10].writes = "cli/pt"
    BY DEF Main, ReadWrite, Write
  <2>2. {DocsFile(l), CliFile(l), HomeFile(l), HowFile(l)} \subseteq
           UNION {DocsFiles, CliFiles, HomeFiles, HowFiles}
    BY DEF DocsFile, CliFile, HomeFile, HowFile, DocsFiles, CliFiles, HomeFiles, HowFiles
  <2>3. Absent \notin {DocsFile(l), CliFile(l), HomeFile(l), HowFile(l)}
    BY <2>2, ContentAssumption
  <2>4. \A i \in 1..15 : Main[i].writes # Absent => Main[i].writes \in ContentFiles
    BY MainSteps
  <2> QED  BY <2>1, <2>3, <2>4 DEF DocsFile, CliFile, HomeFile, HowFile
<1>3. DocsOK(files[DocsFile(l)].nav, files[DocsFile(l)].pages)
  <2>1. DocsFile(l) \in DocsFiles /\ DocsFile(l) \notin CliFiles
    BY DEF DocsFile, DocsFiles, CliFiles
  <2> QED  BY <1>1, <1>2, <2>1 DEF FileOK
<1>4. ListOK(files[CliFile(l)].commands)
  <2>1. CliFile(l) \in CliFiles /\ CliFile(l) \notin DocsFiles
    BY DEF CliFile, DocsFiles, CliFiles
  <2> QED  BY <1>1, <1>2, <2>1 DEF FileOK
<1>5. /\ ListOK(files[HomeFile(l)].lists["parts"]) /\ files[HomeFile(l)].lists["parts"] # <<>>
      /\ ListOK(files[HomeFile(l)].lists["layersData"])
      /\ files[HomeFile(l)].lists["layersData"] # <<>>
  <2>1. HomeFile(l) \in HomeFiles /\ HomeFile(l) \notin DocsFiles \cup CliFiles
    BY DEF HomeFile, HomeFiles, DocsFiles, CliFiles
  <2>2. {"parts", "layersData"} \subseteq ListsOf(HomeFile(l))
    <3>1. ListsOf(HomeFile(l)) = FieldsOf("home")  BY <2>1 DEF ListsOf, HomeFiles, HowFiles
    <3> QED  BY <3>1 DEF FieldsOf
  <2> QED  BY <1>1, <1>2, <2>1, <2>2 DEF FileOK
<1>6. ListOK(files[HowFile(l)].lists["stepsData"]) /\ ListOK(files[HowFile(l)].lists["demoData"])
  <2>1. HowFile(l) \in HowFiles  BY DEF HowFile, HowFiles
  <2>2. HowFile(l) \notin DocsFiles \cup CliFiles \cup HomeFiles
    BY <2>1 DEF HomeFiles, HowFiles, DocsFiles, CliFiles
  <2>3. {"stepsData", "demoData"} \subseteq ListsOf(HowFile(l))
    <3>1. ListsOf(HowFile(l)) = FieldsOf("how")  BY <2>1 DEF ListsOf, HomeFiles, HowFiles
    <3> QED  BY <3>1 DEF FieldsOf
  <2> QED  BY <1>1, <1>2, <2>2, <2>3 DEF FileOK
<1> DEFINE index == Site(l)
<1>7. /\ index.nav = files[DocsFile(l)].nav /\ index.pages = files[DocsFile(l)].pages
      /\ index.parts = Slugs(files[HomeFile(l)].lists["parts"])
      /\ index.layers = Slugs(files[HomeFile(l)].lists["layersData"])
      /\ index.steps = Slugs(files[HowFile(l)].lists["stepsData"])
      /\ index.demo = Slugs(files[HowFile(l)].lists["demoData"])
      /\ index.commands = Slugs(files[CliFile(l)].commands)
  BY DEF Site
<1> HIDE DEF index
<1>8. IndexOK(index)  BY <1>3, <1>4, <1>5, <1>6, <1>7, SlugsToldApart DEF IndexOK
<1> QED  BY <1>8 DEF index

-----------------------------------------------------------------------------
(* The visitor: where the page is, what is selected there, and what the    *)
(* router has been asked for.  The last request made, or the query when    *)
(* none is left, has what the visitor selected last.                       *)

IsQuery(q) == q = [k \in Keys |-> q[k]]

VisitorType ==
    /\ at # Absent => site # Absent /\ IsPath(at) /\ at = Resolve(at)
    /\ at # Absent /\ at.route = "home" =>
           selected.part \in DOMAIN Index.parts /\ selected.layer \in DOMAIN Index.layers
    /\ selected = [part |-> selected.part, layer |-> selected.layer]
    /\ IsQuery(query) /\ IsSeq(pending) /\ Len(pending) <= MaxPending
    /\ \A i \in DOMAIN pending : IsQuery(pending[i])

Requested == IF pending = <<>> THEN query ELSE pending[Len(pending)]

Chosen ==
    choice # Absent =>
        /\ at # Absent
        /\ \/ choice.key = "layer" /\ at.route = "home" /\ selected.layer = choice.index
           \/ LET slugs == SlugsOf(Index, choice.key) IN
              /\ choice.key \in ExplorersAt(at) /\ choice.index \in DOMAIN slugs
              /\ Requested[choice.key] = slugs[choice.index]
              /\ choice.key = "part" /\ query["part"] = slugs[choice.index] =>
                     selected.part = choice.index

Followed ==
    at # Absent /\ promised # Absent =>
        /\ at.route = "page"
        /\ [section |-> Doc.sectionSlug, title |-> Doc.title] = promised

\* The keys a page's explorers use.
LEMMA ExplorerKeys ==
    ASSUME NEW path, NEW key \in ExplorersAt(path)
    PROVE  key \in Keys /\ (key = "part" => path.route = "home")
BY DEF ExplorersAt, Keys

LEMMA SlugsOfOK ==
    ASSUME NEW index, IndexOK(index), NEW key \in Keys
    PROVE  ToldApart(SlugsOf(index, key))
BY DEF IndexOK, SlugsOf, Keys

\* What a path leads to is somewhere, and leads to itself.
LEMMA Resolved ==
    ASSUME NEW path, IsPath(path)
    PROVE  LET p == Resolve(path)
           IN IsPath(p) /\ p.locale = path.locale /\ Resolve(p) = p /\ p.route \in {path.route, "not-found"}
<1> DEFINE p == Resolve(path)
<1>1. p \in {path, NotFound(path)}  BY DEF Resolve
<1>2. /\ IsPath(NotFound(path)) /\ NotFound(path).route = "not-found"
      /\ NotFound(path).locale = path.locale
  BY DEF IsPath, NotFound
<1>3. Resolve(NotFound(path)) = NotFound(path)  BY <1>2 DEF Resolve
<1>4. p = path => Resolve(p) = p  OBVIOUS
<1> HIDE DEF p
<1>5. Resolve(p) = p  BY <1>1, <1>3, <1>4
<1>6. IsPath(p) /\ p.locale = path.locale /\ p.route \in {path.route, "not-found"}
  BY <1>1, <1>2
<1> QED  BY <1>5, <1>6 DEF p

\* Landing on a page.
LEMMA LandOK ==
    ASSUME SiteInv, site # Absent, NEW path, IsPath(path), NEW q, IsQuery(q), NEW h, Land(path, q, h)
    PROVE  VisitorType' /\ Chosen' /\ site' = site /\ at' = Resolve(path)
<1>0. /\ at' = Resolve(path) /\ query' = q /\ site' = site /\ pending' = <<>> /\ choice' = Absent
      /\ selected' = IF path.route # "home" THEN [part |-> 1, layer |-> 1]
                     ELSE [part |-> ResolveIndex(site[path.locale].parts, q["part"]),
                           layer |-> ReadHashIndex(Len(site[path.locale].layers), h)]
  BY DEF Land
<1>1. /\ IsPath(at') /\ at'.locale = path.locale /\ Resolve(at') = at'
      /\ at'.route \in {path.route, "not-found"}
  BY <1>0, Resolved
<1>2. Resolve(at)' = Resolve(at')  BY <1>0 DEF Resolve
<1>3. IndexOK(site[path.locale])  BY DEF SiteInv, IsPath
<1>4. ASSUME at'.route = "home"
      PROVE  selected'.part \in DOMAIN Index'.parts /\ selected'.layer \in DOMAIN Index'.layers
  <2>1. path.route = "home"  BY <1>1, <1>4
  <2> DEFINE index == site[path.locale]
  <2>2. Index' = index  BY <1>0, <1>1 DEF Index
  <2>3. selected'.part = ResolveIndex(index.parts, q["part"])
        /\ selected'.layer = ReadHashIndex(Len(index.layers), h)
    BY <1>0, <2>1
  <2>4. IsSeq(index.parts) /\ index.parts # <<>> /\ IsSeq(index.layers) /\ index.layers # <<>>
    BY <1>3 DEF IndexOK, ToldApart
  <2> HIDE DEF index
  <2>5. ReadHashIndex(Len(index.layers), h) \in DOMAIN index.layers
    <3>1. Len(index.layers) \in Nat \ {0} /\ DOMAIN index.layers = 1..Len(index.layers)
      BY <2>4, SeqFacts, EmptySeq DEF IsSeq
    <3> QED  BY <3>1 DEF ReadHashIndex
  <2>6. ResolveIndex(index.parts, q["part"]) \in DOMAIN index.parts  BY <2>4, ResolvedIn
  <2> QED  BY <2>2, <2>3, <2>5, <2>6
<1>5. IsSeq(<<>>) /\ Len(<<>>) = 0 /\ DOMAIN <<>> = {}
  <2>1. IsSeq(<<>>)  BY EmptySeq DEF IsSeq
  <2> QED  BY <2>1, SeqFacts, EmptySeq
<1>6. selected' = [part |-> selected'.part, layer |-> selected'.layer]  BY <1>0
<1>7. VisitorType'
  <2>1. at' # Absent => site' # Absent /\ IsPath(at') /\ at' = Resolve(at)'  BY <1>0, <1>1, <1>2
  <2>2. IsQuery(query') /\ IsSeq(pending') /\ Len(pending') <= MaxPending /\ DOMAIN pending' = {}
    BY <1>0, <1>5, PendingAssumption
  <2> QED  BY <1>4, <1>6, <2>1, <2>2 DEF VisitorType
<1>8. Chosen'  BY <1>0 DEF Chosen
<1> QED  BY <1>0, <1>7, <1>8

\* A link of the docs names a page there is.
Named(index, link) ==
    \E p \in ToSet(index.pages) :
        /\ p.sectionSlug = link.section /\ p.slug = link.slug /\ p.title = link.title

LEMMA LinkNames ==
    ASSUME NEW index, IndexOK(index), NEW doc, NEW link \in NavLinks(index) \cup Neighbours(index, doc)
    PROVE  Named(index, link)
<1>1. DocsOK(index.nav, index.pages)  BY DEF IndexOK
<1>2. CASE link \in NavLinks(index)
  <2>1. PICK s \in ToSet(index.nav), p \in UNION {ToSet(t.pages) : t \in ToSet(index.nav)} :
             /\ p \in ToSet(s.pages)
             /\ link = [section |-> s.slug, sectionName |-> s.name, slug |-> p.slug, title |-> p.title]
    BY <1>2 DEF NavLinks
  <2>2. PICK i \in DOMAIN index.nav : s = index.nav[i]  BY DEF ToSet
  <2>3. PICK q \in ToSet(index.pages) : /\ q.sectionSlug = s.slug
                                        /\ p = [slug |-> q.slug, title |-> q.title]
    BY <1>1, <2>1, <2>2 DEF DocsOK
  <2> QED  BY <2>1, <2>3 DEF Named
<1>3. CASE link \in Neighbours(index, doc)
  <2>1. PICK j \in DOMAIN index.pages :
             link = [section |-> index.pages[j].sectionSlug, slug |-> index.pages[j].slug,
                     title |-> index.pages[j].title]
    BY <1>3 DEF Neighbours
  <2>2. index.pages[j] \in ToSet(index.pages)  BY DEF ToSet
  <2> QED  BY <2>1, <2>2 DEF Named
<1> QED  BY <1>2, <1>3

\* Following such a link shows the page with its section and title.
LEMMA LinkLeads ==
    ASSUME SiteInv, site # Absent, at # Absent, IsPath(at), NEW link, Named(Index, link),
           FollowDocLink(link)
    PROVE  Followed'
<1> DEFINE index == Index
           path == DocPath(at.locale, link.section, link.slug)
           d == FindDoc(index, link.section, link.slug)
<1>1. at.locale \in Locales  BY DEF IsPath
<1>2. IndexOK(index)  BY <1>1 DEF SiteInv, Index
<1>3. at' = Resolve(path) /\ site' = site
      /\ promised' = [section |-> link.section, title |-> link.title]
  BY DEF FollowDocLink, Land
<1>4. PICK p \in ToSet(index.pages) :
           p.sectionSlug = link.section /\ p.slug = link.slug /\ p.title = link.title
  BY DEF Named
<1>5. DocsOK(index.nav, index.pages)  BY <1>2 DEF IndexOK
<1>6. d # Absent /\ d \in ToSet(index.pages) /\ d.sectionSlug = link.section /\ d.slug = link.slug
  <2>1. IsSeq(index.pages) /\ Absent \notin ToSet(index.pages)  BY <1>5 DEF DocsOK
  <2> HIDE DEF index, d
  <2>2. /\ FindDoc(index, link.section, link.slug) # Absent =>
              /\ FindDoc(index, link.section, link.slug) \in ToSet(index.pages)
              /\ FindDoc(index, link.section, link.slug).sectionSlug = link.section
              /\ FindDoc(index, link.section, link.slug).slug = link.slug
        /\ FindDoc(index, link.section, link.slug) # Absent
    BY <1>4, <2>1, FoundDoc
  <2> QED  BY <2>2 DEF d
<1>7. d.title = link.title  BY <1>4, <1>5, <1>6 DEF DocsOK
<1>8. path.route = "page" /\ path.locale = at.locale /\ path.section = link.section
      /\ path.slug = link.slug
  BY DEF DocPath
<1>9. FindDoc(site[path.locale], path.section, path.slug) = d  BY <1>8 DEF Index
<1> HIDE DEF path, d, index
<1>10. Resolve(path) = path  BY <1>6, <1>8, <1>9 DEF Resolve
<1>11. Doc' = d  BY <1>3, <1>9, <1>10 DEF Doc, Index
<1> QED  BY <1>3, <1>6, <1>7, <1>8, <1>10, <1>11 DEF Followed

\* Every way of going to a page but a link of the docs promises nothing.
LEMMA VisitOK ==
    ASSUME SiteInv, VisitorType, Visit
    PROVE  /\ VisitorType' /\ Chosen' /\ Followed' /\ site' = site
           /\ site # Absent
<1>1. ASSUME NEW a \in Arrivals, Arrive(a.path, a.key, a.value, a.hash)
      PROVE  VisitorType' /\ Chosen' /\ Followed' /\ site' = site /\ site # Absent
  <2> DEFINE q == [NoQuery EXCEPT ![a.key] = a.value]
  <2>1. IsPath(a.path) /\ IsQuery(q)
    BY ArrivalsAssumption DEF IsQuery, NoQuery
  <2>2. site # Absent /\ Land(a.path, q, a.hash) /\ promised' = Absent  BY <1>1 DEF Arrive
  <2> HIDE DEF q
  <2> QED  BY <2>1, <2>2, LandOK DEF Followed
<1>2. IsQuery(NoQuery)  BY DEF IsQuery, NoQuery
<1>3. ASSUME at # Absent, NEW path, IsPath(path), Go(path)
      PROVE  VisitorType' /\ Chosen' /\ Followed' /\ site' = site /\ site # Absent
  <2>1. site # Absent /\ Land(path, NoQuery, 0) /\ promised' = Absent
    BY <1>3 DEF Go, VisitorType
  <2> QED  BY <1>2, <1>3, <2>1, LandOK DEF Followed
<1>4. ASSUME NEW l \in Locales, NEW r, NEW s, NEW u
      PROVE  IsPath(Path(l, r)) /\ IsPath(DocPath(l, s, u))
  BY DEF IsPath, Path, DocPath
<1>5. ASSUME at # Absent PROVE site # Absent /\ IsPath(at) /\ at.locale \in Locales
  BY <1>5 DEF VisitorType, IsPath
<1>6. ASSUME at # Absent, Stay
      PROVE  VisitorType' /\ Chosen' /\ Followed' /\ site' = site /\ site # Absent
  <2>1. /\ UNCHANGED <<site, at>> /\ query' = NoQuery /\ pending' = <<>> /\ choice' = Absent
        /\ promised' = Absent /\ selected' \in {selected, [selected EXCEPT !.part = 1]}
    BY <1>6 DEF Stay
  <2>2. IsSeq(<<>>) /\ Len(<<>>) = 0 /\ DOMAIN <<>> = {}
    <3>1. IsSeq(<<>>)  BY EmptySeq DEF IsSeq
    <3> QED  BY <3>1, SeqFacts, EmptySeq
  <2>3. Resolve(at)' = Resolve(at) /\ Index' = Index  BY <2>1 DEF Resolve, Index
  <2>4. selected' = [part |-> selected'.part, layer |-> selected'.layer]
        /\ selected'.layer = selected.layer /\ selected'.part \in {selected.part, 1}
    BY <2>1 DEF VisitorType
  <2>5. ASSUME at.route = "home" PROVE 1 \in DOMAIN Index.parts
    <3>1. IndexOK(Index)  BY <1>5, <1>6 DEF SiteInv, Index
    <3>2. IsSeq(Index.parts) /\ selected.part \in DOMAIN Index.parts
      BY <1>6, <2>5, <3>1 DEF IndexOK, ToldApart, VisitorType
    <3> QED  BY <3>2, SeqFacts
  <2>6. VisitorType'
    <3>1. IsQuery(query') /\ IsSeq(pending') /\ Len(pending') <= MaxPending /\ DOMAIN pending' = {}
      BY <1>2, <2>1, <2>2, PendingAssumption
    <3> QED  BY <2>1, <2>3, <2>4, <2>5, <3>1 DEF VisitorType
  <2> QED  BY <1>5, <1>6, <2>1, <2>6 DEF Chosen, Followed
<1>7. CASE FollowNav  BY <1>3, <1>4, <1>5, <1>6, <1>7 DEF FollowNav
<1>8. CASE SwapLocale
  <2>1. PICK l \in Locales :
          Go(IF at.route = "not-found" /\ at.slug # "" THEN DocPath(l, at.section, at.slug)
             ELSE [at EXCEPT !.locale = l])
    BY <1>8 DEF SwapLocale
  <2>2. at # Absent  BY <1>8 DEF SwapLocale
  <2>3. IsPath([at EXCEPT !.locale = l])  BY <1>5, <2>2 DEF IsPath
  <2> QED  BY <1>3, <1>4, <2>1, <2>2, <2>3
<1>9. CASE FollowNotFound
  <2>1. {"en", "pt"} \subseteq Locales  BY DEF Locales
  <2> QED  BY <1>3, <1>4, <1>9, <2>1 DEF FollowNotFound
<1>10. CASE RedirectDocs  BY <1>3, <1>4, <1>5, <1>10 DEF RedirectDocs
<1>11. CASE ReadDocs
  <2>1. at # Absent  BY <1>11 DEF ReadDocs
  <2>2. PICK link \in NavLinks(Index) \cup Neighbours(Index, Doc) : FollowDocLink(link)
    BY <1>11 DEF ReadDocs, Results
  <2>3. IndexOK(Index)  BY <1>5, <2>1 DEF SiteInv, Index
  <2>4. Named(Index, link)  BY <2>3, LinkNames
  <2>5. Followed'  BY <1>5, <2>1, <2>2, <2>4, LinkLeads
  <2> DEFINE path == DocPath(at.locale, link.section, link.slug)
  <2>6. IsPath(path) /\ Land(path, NoQuery, 0)  BY <1>4, <1>5, <2>1, <2>2 DEF FollowDocLink
  <2> HIDE DEF path
  <2>7. VisitorType' /\ Chosen' /\ site' = site  BY <1>2, <1>5, <2>1, <2>6, LandOK
  <2> QED  BY <1>5, <2>1, <2>5, <2>7
<1> QED  BY <1>1, <1>7, <1>8, <1>9, <1>10, <1>11 DEF Visit

\* A request more at the end of those pending is the one asked for last.
LEMMA Asked ==
    ASSUME NEW p, IsSeq(p), NEW q
    PROVE  /\ IsSeq(Append(p, q)) /\ Len(Append(p, q)) = Len(p) + 1 /\ Append(p, q) # <<>>
           /\ Append(p, q)[Len(p) + 1] = q
           /\ \A i \in DOMAIN Append(p, q) : \/ i \in DOMAIN p /\ Append(p, q)[i] = p[i]
                                             \/ Append(p, q)[i] = q
<1> DEFINE S == ToSet(p) \cup {q}
           r == Append(p, q)
<1>1. p \in Seq(S)
  <2>1. p \in Seq(ToSet(p))  BY DEF IsSeq
  <2> QED  BY <2>1, SeqMonotonic
<1> HIDE DEF S
<1>2. q \in S  BY DEF S
<1>3. /\ r \in Seq(S) /\ Len(r) = Len(p) + 1 /\ r[Len(p) + 1] = q /\ r # <<>>
      /\ \A i \in 1..Len(p) : r[i] = p[i]
  BY <1>1, <1>2, AppendProperties
<1>4. Len(p) \in Nat /\ DOMAIN p = 1..Len(p)  BY SeqFacts
<1> HIDE DEF r
<1>5. r \in [1..Len(r) -> S] /\ DOMAIN r = 1..Len(r)  BY <1>3, LenProperties
<1>6. IsSeq(r)
  <2>1. Len(r) \in Nat  BY <1>3, <1>4
  <2> QED  BY <1>5, <2>1, FunctionIsSeq
<1>7. \A i \in DOMAIN r : (i \in DOMAIN p /\ r[i] = p[i]) \/ r[i] = q  BY <1>3, <1>4, <1>5
<1> QED  BY <1>3, <1>6, <1>7 DEF r

\* What is left when the router commits one of them.
LEMMA Left ==
    ASSUME NEW p, IsSeq(p), NEW i \in DOMAIN p
    PROVE  LET rest == SubSeq(p, i + 1, Len(p))
           IN /\ IsSeq(rest) /\ Len(rest) <= Len(p)
              /\ \A j \in DOMAIN rest : \E k \in DOMAIN p : rest[j] = p[k]
              /\ rest = <<>> => i = Len(p)
              /\ rest # <<>> => rest[Len(rest)] = p[Len(p)]
<1> DEFINE rest == SubSeq(p, i + 1, Len(p))
           n == Len(p) - i
<1>1. /\ Len(p) \in Nat /\ DOMAIN p = 1..Len(p) /\ p \in Seq(ToSet(p))
  BY SeqFacts DEF IsSeq
<1>2. n \in Nat /\ i \in 1..Len(p) /\ n < Len(p)  BY <1>1
<1>3. rest = [j \in 1..n |-> p[i + j]]
  <2> DEFINE S == ToSet(p)
  <2> HIDE DEF S
  <2>1. /\ rest \in Seq(S) /\ Len(rest) = n
        /\ \A j \in 1..n : rest[j] = p[i + j]
    <3>1. p \in Seq(S)  BY <1>1 DEF S
    <3>2. i + 1 \in 1..Len(p) + 1 /\ Len(p) \in i..Len(p)  BY <1>1, <1>2
    <3> QED  BY <1>1, <1>2, <3>1, <3>2, SubSeqProperties
  <2>2. rest = [j \in 1..n |-> rest[j]]  BY <2>1, LenProperties
  <2> QED  BY <2>1, <2>2
<1> HIDE DEF rest, n
<1>4. rest \in [1..n -> ToSet(p)]
  <2>1. ASSUME NEW j \in 1..n PROVE p[i + j] \in ToSet(p)
    <3>1. i + j \in DOMAIN p  BY <1>1, <1>2 DEF n
    <3> QED  BY <3>1 DEF ToSet
  <2> QED  BY <1>3, <2>1
<1>5. IsSeq(rest) /\ Len(rest) = n  BY <1>2, <1>4, FunctionIsSeq
<1>6. \A j \in DOMAIN rest : \E k \in DOMAIN p : rest[j] = p[k]
  <2>1. ASSUME NEW j \in 1..n PROVE i + j \in DOMAIN p /\ rest[j] = p[i + j]
    BY <1>1, <1>2, <1>3 DEF n
  <2> QED  BY <1>4, <2>1
<1>7. rest = <<>> => n = 0  BY <1>5, EmptySeq
<1>8. ASSUME rest # <<>> PROVE rest[n] = p[Len(p)]
  <2>1. rest \in Seq(ToSet(rest))  BY <1>5 DEF IsSeq
  <2>2. n # 0  BY <1>5, <1>8, <2>1, EmptySeq
  <2>3. n \in 1..n  BY <1>2, <2>2
  <2> QED  BY <1>1, <1>2, <1>3, <2>3 DEF n
<1>9. (rest = <<>> => i = Len(p)) /\ Len(rest) <= Len(p)
  BY <1>1, <1>2, <1>5, <1>7 DEF n
<1>10. rest # <<>> => rest[Len(rest)] = p[Len(p)]  BY <1>5, <1>8
<1> HIDE DEF n
<1> QED  BY <1>5, <1>6, <1>9, <1>10 DEF rest

\* An explorer asks for what was selected, whatever was asked for before.
LEMMA SelectOK ==
    ASSUME SiteInv, VisitorType, at # Absent, NEW key, NEW i, Select(key, i)
    PROVE  VisitorType' /\ Chosen'
<1> DEFINE slugs == SlugsOf(Index, key)
           q == [query EXCEPT ![key] = slugs[i]]
<1>1. /\ key \in ExplorersAt(at) /\ i \in DOMAIN slugs /\ Len(pending) < MaxPending
      /\ pending' = Append(pending, q) /\ choice' = [key |-> key, index |-> i]
      /\ selected' = IF key = "part" THEN [selected EXCEPT !.part = i] ELSE selected
      /\ UNCHANGED <<site, at, query, hash, promised>>
  BY DEF Select
<1>2. key \in Keys /\ (key = "part" => at.route = "home")  BY <1>1, ExplorerKeys
<1>3. IsQuery(q) /\ q[key] = slugs[i]  BY <1>2 DEF VisitorType, IsQuery
<1>4. /\ IsSeq(pending') /\ Len(pending') = Len(pending) + 1 /\ pending' # <<>>
      /\ pending'[Len(pending')] = q
      /\ \A j \in DOMAIN pending' : (j \in DOMAIN pending /\ pending'[j] = pending[j]) \/ pending'[j] = q
  BY <1>1, Asked DEF VisitorType
<1>5. Index' = Index /\ Resolve(at)' = Resolve(at) /\ ExplorersAt(at)' = ExplorersAt(at)
  BY <1>1 DEF Index, Resolve, ExplorersAt, Doc
<1>6. key = "part" => slugs = Index.parts  BY DEF SlugsOf
<1>7. /\ selected' = [part |-> selected'.part, layer |-> selected'.layer]
      /\ selected'.layer = selected.layer
      /\ IF key = "part" THEN selected'.part = i ELSE selected'.part = selected.part
  BY <1>1 DEF VisitorType
<1> HIDE DEF q, slugs
<1>8. Len(pending') <= MaxPending
  <2>1. Len(pending) \in Nat  BY SeqFacts DEF VisitorType
  <2> QED  BY <1>1, <1>4, <2>1, PendingAssumption
<1>9. VisitorType'
  BY <1>1, <1>2, <1>3, <1>4, <1>5, <1>6, <1>7, <1>8 DEF VisitorType
<1>10. Chosen'
  <2>1. choice'.key = key /\ choice'.index = i  BY <1>1
  <2>2. Requested' = q  BY <1>4 DEF Requested
  <2>3. SlugsOf(Index, choice.key)' = slugs  BY <1>5, <2>1 DEF SlugsOf, slugs
  <2> QED  BY <1>1, <1>3, <1>5, <1>7, <2>1, <2>2, <2>3 DEF Chosen
<1> QED  BY <1>9, <1>10

\* The router commits a request, and what was asked for last is not lost by it.
LEMMA CommitOK ==
    ASSUME SiteInv, VisitorType, Chosen, Commit
    PROVE  VisitorType' /\ Chosen'
<1>1. PICK i \in DOMAIN pending :
         /\ query' = pending[i] /\ pending' = SubSeq(pending, i + 1, Len(pending))
         /\ selected' =
              IF at.route = "home" /\ pending[i]["part"] # query["part"]
              THEN [selected EXCEPT !.part = ResolveIndex(Index.parts, pending[i]["part"])]
              ELSE selected
         /\ UNCHANGED <<site, at, promised, choice>>
  BY DEF Commit
<1>2. IsSeq(pending) /\ (\A j \in DOMAIN pending : IsQuery(pending[j]))  BY DEF VisitorType
<1>3. /\ IsSeq(pending') /\ Len(pending') <= Len(pending)
      /\ \A j \in DOMAIN pending' : \E k \in DOMAIN pending : pending'[j] = pending[k]
      /\ pending' = <<>> => i = Len(pending)
      /\ pending' # <<>> => pending'[Len(pending')] = pending[Len(pending)]
  BY <1>1, <1>2, Left
<1>4. pending # <<>>
  <2>1. IsSeq(<<>>)  BY EmptySeq DEF IsSeq
  <2> QED  BY <2>1, SeqFacts, EmptySeq
<1>5. Requested' = Requested  BY <1>1, <1>3, <1>4 DEF Requested
<1>6. Index' = Index /\ Resolve(at)' = Resolve(at) /\ ExplorersAt(at)' = ExplorersAt(at)
  BY <1>1 DEF Index, Resolve, ExplorersAt, Doc
<1> DEFINE changes == at.route = "home" /\ pending[i]["part"] # query["part"]
           r == ResolveIndex(Index.parts, pending[i]["part"])
<1>7. /\ selected' = [part |-> selected'.part, layer |-> selected'.layer]
      /\ selected'.layer = selected.layer
      /\ changes => selected'.part = r
      /\ ~changes => selected'.part = selected.part
  BY <1>1 DEF VisitorType
<1>8. ASSUME at # Absent PROVE IndexOK(Index)
  BY <1>8 DEF VisitorType, SiteInv, Index, IsPath
<1>9. ASSUME at # Absent, at.route = "home" PROVE r \in DOMAIN Index.parts
  <2>1. IsSeq(Index.parts) /\ Index.parts # <<>>  BY <1>8, <1>9 DEF IndexOK, ToldApart
  <2> QED  BY <2>1, ResolvedIn
<1>10. VisitorType'
  <2>1. Len(pending') <= MaxPending
    <3>1. Len(pending) \in Nat /\ Len(pending') \in Nat /\ Len(pending) <= MaxPending
      BY <1>2, <1>3, SeqFacts DEF VisitorType
    <3> QED  BY <1>3, <3>1, PendingAssumption
  <2>2. IsQuery(query') /\ \A j \in DOMAIN pending' : IsQuery(pending'[j])
    BY <1>1, <1>2, <1>3
  <2>3. ASSUME at # Absent, at.route = "home"
        PROVE  selected'.part \in DOMAIN Index.parts /\ selected'.layer \in DOMAIN Index.layers
    <3> HIDE DEF r, changes
    <3> QED  BY <1>7, <1>9, <2>3 DEF VisitorType
  <2> HIDE DEF r, changes
  <2> QED  BY <1>1, <1>3, <1>6, <1>7, <2>1, <2>2, <2>3 DEF VisitorType
<1>11. ASSUME choice # Absent PROVE Chosen'
  <2> DEFINE key == choice.key
             slugs == SlugsOf(Index, key)
  <2>1. at # Absent  BY <1>11 DEF Chosen
  <2>2. SlugsOf(Index, choice.key)' = slugs  BY <1>1, <1>6 DEF SlugsOf
  <2>3. CASE key = "layer" /\ at.route = "home" /\ selected.layer = choice.index
    BY <1>1, <1>7, <2>1, <2>3 DEF Chosen
  <2>4. CASE /\ key \in ExplorersAt(at) /\ choice.index \in DOMAIN slugs
             /\ Requested[key] = slugs[choice.index]
             /\ key = "part" /\ query["part"] = slugs[choice.index] =>
                    selected.part = choice.index
    <3>1. ASSUME key = "part", query'["part"] = slugs[choice.index]
          PROVE  selected'.part = choice.index
      <4>1. at.route = "home"  BY <2>4, <3>1, ExplorerKeys
      <4>2. CASE changes
        <5>1. slugs = Index.parts  BY <3>1 DEF SlugsOf
        <5>2. ToldApart(slugs)  BY <1>8, <2>1, <5>1 DEF IndexOK
        <5>3. ResolveIndex(slugs, slugs[choice.index]) = choice.index
          <6> HIDE DEF slugs
          <6> QED  BY <2>4, <5>2, FoundSlug DEF ToldApart
        <5>4. r = ResolveIndex(slugs, slugs[choice.index])  BY <1>1, <3>1, <5>1
        <5> HIDE DEF r, changes
        <5> QED  BY <1>7, <4>2, <5>3, <5>4
      <4>3. CASE ~changes
        <5>1. query["part"] = slugs[choice.index]  BY <1>1, <3>1, <4>1, <4>3
        <5> HIDE DEF r, changes
        <5> QED  BY <1>7, <2>4, <3>1, <4>3, <5>1
      <4> QED  BY <4>2, <4>3
    <3> HIDE DEF slugs, r, changes
    <3> QED  BY <1>1, <1>5, <1>6, <2>1, <2>2, <2>4, <3>1 DEF Chosen
  <2> QED  BY <1>11, <2>3, <2>4 DEF Chosen
<1>12. choice = Absent => Chosen'  BY <1>1 DEF Chosen
<1> QED  BY <1>10, <1>11, <1>12

\* The explorers leave the page where it is, and keep to what was selected last.
LEMMA ExploreOK ==
    ASSUME SiteInv, VisitorType, Chosen, Followed, Explore
    PROVE  VisitorType' /\ Chosen' /\ Followed' /\ site' = site /\ at' = at
<1>1. UNCHANGED <<site, at, promised>>
  BY DEF Explore, Click, PressArrow, Select, Commit, SelectLayer, HashChange
<1>2. Index' = Index /\ Doc' = Doc /\ Resolve(at)' = Resolve(at)
  BY <1>1 DEF Index, Doc, Resolve
<1>3. Followed'  BY <1>1, <1>2 DEF Followed
<1>4. CASE Click \/ PressArrow
  <2>1. at # Absent /\ \E key, i : Select(key, i)
    BY <1>4 DEF Click, PressArrow
  <2> QED  BY <1>1, <1>3, <2>1, SelectOK
<1>5. CASE Commit  BY <1>1, <1>3, <1>5, CommitOK
<1>6. CASE SelectLayer
  <2>1. PICK i \in DOMAIN Index.layers :
           selected' = [selected EXCEPT !.layer = i] /\ choice' = [key |-> "layer", index |-> i]
    BY <1>6 DEF SelectLayer
  <2>2. at # Absent /\ at.route = "home" /\ UNCHANGED <<query, pending>>  BY <1>6 DEF SelectLayer
  <2>3. selected' = [part |-> selected'.part, layer |-> selected'.layer]
        /\ selected'.layer = i /\ selected'.part = selected.part
    BY <2>1 DEF VisitorType
  <2>4. VisitorType'  BY <1>1, <1>2, <2>2, <2>3 DEF VisitorType
  <2>5. choice'.key = "layer" /\ choice'.index = i  BY <2>1
  <2>6. Chosen'  BY <1>1, <2>2, <2>3, <2>5 DEF Chosen
  <2> QED  BY <1>1, <1>3, <2>4, <2>6
<1>7. CASE HashChange
  <2>1. PICK h : selected' = [selected EXCEPT !.layer = ReadHashIndex(Len(Index.layers), h)]
    BY <1>7 DEF HashChange
  <2>2. at # Absent /\ at.route = "home" /\ UNCHANGED <<query, pending>> /\ choice' = Absent
    BY <1>7 DEF HashChange
  <2>3. selected' = [part |-> selected'.part, layer |-> selected'.layer]
        /\ selected'.layer = ReadHashIndex(Len(Index.layers), h) /\ selected'.part = selected.part
    BY <2>1 DEF VisitorType
  <2>4. IsSeq(Index.layers) /\ Index.layers # <<>>
    BY <2>2 DEF VisitorType, SiteInv, Index, IsPath, IndexOK, ToldApart
  <2>5. Len(Index.layers) \in Nat \ {0} /\ DOMAIN Index.layers = 1..Len(Index.layers)
    BY <2>4, SeqFacts, EmptySeq DEF IsSeq
  <2>6. ReadHashIndex(Len(Index.layers), h) \in DOMAIN Index.layers
    BY <2>5 DEF ReadHashIndex
  <2>7. VisitorType'  BY <1>1, <1>2, <2>2, <2>3, <2>6 DEF VisitorType
  <2>8. Chosen'  BY <2>2 DEF Chosen
  <2> QED  BY <1>1, <1>3, <2>7, <2>8
<1> QED  BY <1>4, <1>5, <1>6, <1>7 DEF Explore

\* The console is mounted on its own page only.
AtConsole == mounted # None => at # Absent /\ at.route = "console"

VisitorInv ==
    /\ FilesInv /\ step \in DOMAIN Main \cup {0} /\ SiteInv
    /\ VisitorType /\ Chosen /\ Followed /\ AtConsole

LEMMA VisitorInit == Init => VisitorInv
<1> SUFFICES ASSUME Init PROVE VisitorInv
  OBVIOUS
<1>1. FilesInv /\ step \in DOMAIN Main \cup {0}
  BY ContentAssumption, MainSteps DEF Init, ContentInit, FilesInv
<1>2. IsSeq(<<>>) /\ Len(<<>>) = 0 /\ DOMAIN <<>> = {}
  <2>1. IsSeq(<<>>)  BY EmptySeq DEF IsSeq
  <2> QED  BY <2>1, SeqFacts, EmptySeq
<1>3. IsQuery(NoQuery)  BY DEF IsQuery, NoQuery
<1>4. SiteInv /\ Chosen /\ Followed  BY DEF Init, PagesInit, SiteInv, Chosen, Followed
<1>5. VisitorType
  <2>1. at = Absent /\ query = NoQuery /\ pending = <<>> /\ selected = [part |-> 1, layer |-> 1]
    BY DEF Init, PagesInit
  <2>2. IsSeq(pending) /\ DOMAIN pending = {} /\ Len(pending) <= MaxPending
    BY <1>2, <2>1, PendingAssumption
  <2> QED  BY <1>3, <2>1, <2>2 DEF VisitorType
<1>6. AtConsole  BY DEF Init, ConsoleInit, AtConsole
<1> QED  BY <1>1, <1>4, <1>5, <1>6 DEF VisitorInv

\* Nothing these conjuncts name has changed.
LEMMA SameVisitor ==
    ASSUME VisitorType, Chosen, Followed, UNCHANGED pageVars
    PROVE  VisitorType' /\ Chosen' /\ Followed'
<1>1. Index' = Index /\ Doc' = Doc /\ Resolve(at)' = Resolve(at)
      /\ ExplorersAt(at)' = ExplorersAt(at) /\ Requested' = Requested
  BY DEF Index, Doc, Resolve, ExplorersAt, Requested, pageVars
<1>2. UNCHANGED <<site, at, query, selected, pending, promised, choice>>  BY DEF pageVars
<1>3. SlugsOf(Index, choice.key)' = SlugsOf(Index, choice.key)  BY <1>1, <1>2 DEF SlugsOf
<1> QED  BY <1>1, <1>2, <1>3 DEF VisitorType, Chosen, Followed

LEMMA VisitorNext == ASSUME VisitorInv, [Next]_vars PROVE VisitorInv'
<1> USE DEF VisitorInv
<1>1. CASE Build
  <2>1. UNCHANGED pageVars /\ mounted' = mounted  BY <1>1 DEF Build, consoleVars
  <2>2. site' = site /\ at' = at  BY <2>1 DEF pageVars
  <2>3. FilesInv' /\ step' \in DOMAIN Main \cup {0}  BY <1>1, ExtractInv DEF Build
  <2> QED  BY <2>1, <2>2, <2>3, SameVisitor DEF SiteInv, AtConsole
<1>2. CASE Deploy
  <2>1. /\ site = Absent /\ Buildable /\ site' = [l \in Locales |-> Site(l)] /\ step' = 0
        /\ files' = [f \in ContentFiles |-> Absent]
        /\ UNCHANGED <<at, query, selected, pending, promised, choice, mounted>>
    BY <1>2 DEF Deploy, consoleVars
  <2>2. FilesInv' /\ step' \in DOMAIN Main \cup {0}  BY <2>1 DEF FilesInv
  <2>3. SiteInv'  BY <2>1, DeployedOK DEF SiteInv
  <2>4. at = Absent  BY <2>1 DEF VisitorType
  <2>5. choice = Absent  BY <2>4 DEF Chosen
  <2>6. VisitorType'  BY <2>1, <2>4 DEF VisitorType
  <2>7. Chosen' /\ Followed' /\ AtConsole'
    BY <2>1, <2>4, <2>5 DEF Chosen, Followed, AtConsole
  <2> QED  BY <2>2, <2>3, <2>6, <2>7
<1>3. CASE Navigate
  <2>1. Visit /\ UNCHANGED <<files, step>>  BY <1>3 DEF Navigate, contentVars
  <2>2. VisitorType' /\ Chosen' /\ Followed' /\ site' = site  BY <2>1, VisitOK
  <2>3. AtConsole'
    BY <1>3 DEF Navigate, Unmount, consoleVars, AtConsole
  <2> QED  BY <2>1, <2>2, <2>3 DEF FilesInv, SiteInv
<1>4. CASE Explore
  <2>1. UNCHANGED <<files, step, mounted>>  BY <1>4 DEF Explore, contentVars, consoleVars
  <2>2. VisitorType' /\ Chosen' /\ Followed' /\ site' = site /\ at' = at  BY <1>4, ExploreOK
  <2> QED  BY <2>1, <2>2 DEF FilesInv, SiteInv, AtConsole
<1>5. CASE Console
  <2>1. UNCHANGED <<files, step, pageVars, site, at>>
    BY <1>5 DEF Console, contentVars, pageVars
  <2>2. mounted' = mounted \/ (at # Absent /\ at.route = "console")
    BY <1>5 DEF Console, ConsoleNext, SummaryReturns, BundleAnswered, BundleReturns, BundleFails,
        SocketOpens, SocketMessage, TimerTick, FetchAnswered, FetchReturns, FetchFails, SelectRepo,
        SelectFilter, ServiceChanges, WatcherFlushes, ServiceStops, ServiceStarts
  <2> QED  BY <2>1, <2>2, SameVisitor DEF FilesInv, SiteInv, AtConsole
<1>6. CASE UNCHANGED vars
  <2>1. UNCHANGED <<files, step, mounted, pageVars, site, at>>
    BY <1>6 DEF vars, contentVars, pageVars, consoleVars
  <2> QED  BY <2>1, SameVisitor DEF FilesInv, SiteInv, AtConsole
<1> QED  BY <1>1, <1>2, <1>3, <1>4, <1>5, <1>6 DEF Next

LEMMA VisitorInvariant == Spec => []VisitorInv
  BY VisitorInit, VisitorNext, PTL DEF Spec

\* Wherever the script stops: the words of a page's copy and of its lists are none of
\* PrototypeVersions (what a docs page says is not modelled), the slugs of a list are
\* kept apart if ContentAssumption has it so of the titles they are made of, and the
\* docs sidebar names pages there are.  Every page shown is one there is, and what is
\* selected on it is one of its items (extract-design-content.mjs:48-111, content.ts).
THEOREM WebTypeCorrect == Spec => []WebTypeOK
<1>1. VisitorInv /\ ConsoleTypeOK => WebTypeOK
  <2> SUFFICES ASSUME VisitorInv, ConsoleTypeOK PROVE WebTypeOK
    OBVIOUS
  <2>1. DOMAIN query = Keys /\ \A i \in DOMAIN pending : DOMAIN pending[i] = Keys
    BY DEF VisitorInv, VisitorType, IsQuery
  <2> QED  BY <2>1 DEF VisitorInv, FilesInv, SiteInv, VisitorType, AtConsole, WebTypeOK
<1> QED  BY <1>1, VisitorInvariant, ConsoleTypeCorrect, PTL

\* A link of the docs leads to the page of that section with that title, and once the
\* router has settled an explorer shows what the visitor selected last, whatever the
\* size of the site and however many requests overtook each other (content.ts:90-98,
\* HarnessExplorer.tsx:53-97).
THEOREM ChoiceIsSeen == Spec => []VisitorSeesChoice
<1>1. ASSUME VisitorInv PROVE VisitorSeesChoice
  <2>1. ASSUME choice # Absent, pending = <<>> PROVE Shown(choice.key) = choice.index
    <3> DEFINE key == choice.key
               slugs == SlugsOf(Index, key)
    <3>1. at # Absent /\ Requested = query  BY <1>1, <2>1 DEF VisitorInv, Chosen, Requested
    <3>2. CASE key = "layer" /\ selected.layer = choice.index
      BY <3>2 DEF Shown
    <3>3. CASE /\ key \in ExplorersAt(at) /\ choice.index \in DOMAIN slugs
               /\ query[key] = slugs[choice.index]
               /\ key = "part" => selected.part = choice.index
      <4>1. key \in Keys  BY <3>3, ExplorerKeys
      <4>2. CASE key = "part"  BY <3>3, <4>2 DEF Shown
      <4>3. CASE key # "part"
        <5>1. IndexOK(Index)
          BY <1>1, <3>1 DEF VisitorInv, VisitorType, SiteInv, Index, IsPath
        <5>2. ToldApart(slugs)  BY <4>1, <5>1, SlugsOfOK
        <5> DEFINE found == SelectInSeq(slugs, LAMBDA s : s = query[key])
        <5>3. Shown(key) = OrFirst(found)
          BY <4>1, <4>3 DEF Shown, Keys
        <5> HIDE DEF slugs
        <5>4. SelectInSeq(slugs, LAMBDA s : s = slugs[choice.index]) = choice.index /\ choice.index > 0
          BY <3>3, <5>2, FoundSlug DEF ToldApart
        <5> QED  BY <3>3, <5>3, <5>4 DEF OrFirst
      <4> QED  BY <4>2, <4>3
    <3> QED  BY <1>1, <2>1, <3>1, <3>2, <3>3 DEF VisitorInv, Chosen
  <2> QED  BY <1>1, <2>1 DEF VisitorInv, Followed, VisitorSeesChoice
<1> QED  BY <1>1, VisitorInvariant, PTL
=============================================================================
