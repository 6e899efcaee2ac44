----------------------------- MODULE SitePages -----------------------------
(***************************************************************************)
(* A visitor of the site: its links (components/Nav.tsx, DocsShell.tsx,    *)
(* the docs pages, not-found.tsx, lib/i18n.ts) and the explorers that keep *)
(* what is selected in the query or the hash of the URL (HarnessExplorer,  *)
(* LayerPicker, LifecycleTimeline, Walkthrough, CliExplorer).              *)
(*                                                                         *)
(* An explorer asks the router for a new query, which is built from the    *)
(* query of the last render, and is shown what the router has committed;   *)
(* a request can overtake the ones before it.                              *)
(***************************************************************************)
EXTENDS SiteContent, Naturals

CONSTANTS
    Words,          \* a name -> the searches that find it
    MaxPending      \* bound: requests of the router not committed yet

VARIABLES
    site,           \* locale -> what is deployed, or Absent
    at,             \* the page: [locale, route, section, slug], or Absent
    query,          \* key -> its value in the URL, or Absent
    hash,           \* n of "#layer-n" in the URL, or 0
    selected,       \* state of HarnessExplorer and LayerPicker: an index each
    pending,        \* queries asked of the router and not committed
    promised,       \* history: section and title of the docs link followed
    choice          \* history: [key, index] the visitor selected last here

ASSUME PendingAssumption == MaxPending \in Nat

pageVars == <<site, at, query, hash, selected, pending, promised, choice>>

Keys == {"part", "step", "demo", "cmd"}
NoQuery == [k \in Keys |-> Absent]
Routes == {"home", "architecture", "how", "organism", "use-cases", "docs", "console"}
Path(locale, route) == [locale |-> locale, route |-> route, section |-> "", slug |-> ""]
DocPath(locale, section, slug) ==
    [locale |-> locale, route |-> "page", section |-> section, slug |-> slug]
IsPath(path) ==
    /\ path.locale \in Locales
    /\ path = [locale |-> path.locale, route |-> path.route,
               section |-> path.section, slug |-> path.slug]
NotFound(path) == [path EXCEPT !.route = "not-found"]

-----------------------------------------------------------------------------
(* Lookups.                                                                *)

\* Sequences begin at 1, and 0 stands for findIndex's -1.
OrFirst(i) == IF i = 0 THEN 1 ELSE i
ItemAt(s, i) == IF i = 0 THEN Absent ELSE s[i]

\* Mutant of FindDoc: the section is ignored.
FindSlug(index, sectionSlug, slug) ==
    ItemAt(index.pages, SelectInSeq(index.pages, LAMBDA p : p.slug = slug))

FindDoc(index, sectionSlug, slug) ==
    ItemAt(index.pages, SelectInSeq(index.pages,
        LAMBDA p : p.sectionSlug = sectionSlug /\ p.slug = slug))

Index == site[at.locale]
Doc == FindDoc(Index, at.section, at.slug)

\* The first page of the first section, where the root of the docs leads.
FirstDoc(index) ==
    IF index.nav = <<>> \/ Head(index.nav).pages = <<>> THEN Absent
    ELSE [section |-> Head(index.nav).slug, slug |-> Head(Head(index.nav).pages).slug]

\* What a path leads to: a page there is, or the 404.
Resolve(path) ==
    CASE path.route = "page" /\ FindDoc(site[path.locale], path.section, path.slug) = Absent
           -> NotFound(path)
      [] path.route = "docs" /\ FirstDoc(site[path.locale]) = Absent -> NotFound(path)
      [] OTHER -> path

-----------------------------------------------------------------------------
(* The explorers of a page.                                                *)

ExplorersAt(path) ==
    CASE path.route = "home" -> {"part"}
      [] path.route = "how" -> {"step", "demo"}
      [] path.route = "page" -> IF Doc.cli THEN {"cmd"} ELSE {}
      [] OTHER -> {}

SlugsOf(index, key) ==
    CASE key = "part" -> index.parts [] key = "step" -> index.steps
      [] key = "demo" -> index.demo [] key = "cmd" -> index.commands

Digits == <<"0", "1", "2", "3">>

\* A slug, or an index from 0, or one from 1 that the former leaves over.
ResolveIndex(slugs, param) ==
    LET bySlug == SelectInSeq(slugs, LAMBDA s : s = param)
        digit == SelectInSeq(Digits, LAMBDA d : d = param)
    IN CASE bySlug > 0 -> bySlug
         [] bySlug = 0 /\ digit \in 1..Len(slugs) -> digit
         [] bySlug = 0 /\ digit = Len(slugs) + 1 -> digit - 1
         [] OTHER -> 1

ReadHashIndex(count, n) == IF n \in 1..count THEN n ELSE 1

\* What each explorer shows.
Shown(key) ==
    CASE key \in {"part", "layer"} -> selected[key]
      [] OTHER -> OrFirst(SelectInSeq(SlugsOf(Index, key), LAMBDA s : s = query[key]))

-----------------------------------------------------------------------------
(* Going to a page.                                                        *)

PagesInit ==
    /\ site = Absent /\ at = Absent /\ query = NoQuery /\ hash = 0
    /\ selected = [part |-> 1, layer |-> 1] /\ pending = <<>>
    /\ promised = Absent /\ choice = Absent

\* The page is mounted with this query and hash.
Land(path, q, h) ==
    LET index == site[path.locale] IN
    /\ at' = Resolve(path) /\ query' = q /\ hash' = h
    /\ selected' = IF path.route # "home" THEN [part |-> 1, layer |-> 1]
                   ELSE [part |-> ResolveIndex(index.parts, q["part"]),
                         layer |-> ReadHashIndex(Len(index.layers), h)]
    /\ pending' = <<>> /\ choice' = Absent /\ UNCHANGED site

Go(path) == Land(path, NoQuery, 0) /\ promised' = Absent

\* The first page: a URL from elsewhere, with a parameter somebody wrote.
Arrive(path, key, value, h) ==
    /\ site # Absent /\ at = Absent
    /\ Land(path, [NoQuery EXCEPT ![key] = value], h) /\ promised' = Absent

\* A link to the page that is shown mounts nothing anew: of the explorers' state
\* only HarnessExplorer's follows the URL.
Stay ==
    /\ query' = NoQuery /\ hash' = 0 /\ pending' = <<>>
    /\ selected' = IF query["part"] = Absent THEN selected ELSE [selected EXCEPT !.part = 1]
    /\ promised' = Absent /\ choice' = Absent /\ UNCHANGED <<site, at>>

\* Nav, on every page.  Its "Get Started" link has one path for both locales.
FollowNav ==
    /\ at # Absent
    /\ \/ \E r \in Routes :
             IF at = Path(at.locale, r) THEN Stay ELSE Go(Path(at.locale, r))
       \/ Go(DocPath(at.locale, "getting-started", "install"))

\* swapLocalePath: only the first part of the path is exchanged, found or not.
SwapLocale ==
    /\ at # Absent
    /\ \E l \in Locales \ {at.locale} :
          Go(IF at.route = "not-found" /\ at.slug # "" THEN DocPath(l, at.section, at.slug)
             ELSE [at EXCEPT !.locale = l])

FollowNotFound ==
    /\ at # Absent /\ at.route = "not-found"
    /\ \E path \in {Path("en", "home"), Path("pt", "home"), Path("en", "docs"),
                    Path("en", "architecture")} : Go(path)

\* ClientRedirect, on the root of the docs.
RedirectDocs ==
    /\ at # Absent /\ at.route = "docs"
    /\ LET first == FirstDoc(Index) IN Go(DocPath(at.locale, first.section, first.slug))

\* DocsShell: the sidebar, or what the search finds in it.
NavLinks(index) ==
    UNION {{[section |-> s.slug, sectionName |-> s.name, slug |-> p.slug,
             title |-> p.title] : p \in ToSet(s.pages)} : s \in ToSet(index.nav)}
Results(index, q) ==
    {link \in NavLinks(index) : q \in Words[link.title] \cup Words[link.sectionName]}

\* The previous and the next page.
Neighbours(index, doc) ==
    LET i == SelectInSeq(index.pages,
                         LAMBDA p : p.sectionSlug = doc.sectionSlug /\ p.slug = doc.slug)
    IN {[section |-> p.sectionSlug, slug |-> p.slug, title |-> p.title] :
           p \in {index.pages[j] : j \in DOMAIN index.pages \cap {i - 1, i + 1}}}

FollowDocLink(link) ==
    /\ Land(DocPath(at.locale, link.section, link.slug), NoQuery, 0)
    /\ promised' = [section |-> link.section, title |-> link.title]

ReadDocs ==
    /\ at # Absent /\ at.route = "page"
    /\ \/ \E link \in NavLinks(Index) \cup Neighbours(Index, Doc) : FollowDocLink(link)
       \/ \E q \in UNION {Words[n] : n \in DOMAIN Words} :
            \E link \in Results(Index, q) : FollowDocLink(link)

-----------------------------------------------------------------------------
(* Selecting.                                                              *)

\* The query asked for is the one of the last render with this key set.
Select(key, i) ==
    /\ key \in ExplorersAt(at) /\ i \in DOMAIN SlugsOf(Index, key)
    /\ Len(pending) < MaxPending
    /\ pending' = Append(pending, [query EXCEPT ![key] = SlugsOf(Index, key)[i]])
    /\ selected' = IF key = "part" THEN [selected EXCEPT !.part = i] ELSE selected
    /\ choice' = [key |-> key, index |-> i]
    /\ UNCHANGED <<site, at, query, hash, promised>>

Wrap(i, n) == ((i + n - 1) % n) + 1

\* Arrows go round in HarnessExplorer and in Walkthrough, which listens to the
\* whole window.
PressArrow ==
    /\ at # Absent
    /\ \E key \in ExplorersAt(at) \cap {"part", "demo"} :
         LET n == Len(SlugsOf(Index, key)) IN
         \/ n > 0 /\ Select(key, Wrap(Shown(key) + 1, n))
         \/ n > 0 /\ Select(key, Wrap(Shown(key) - 1, n))
         \/ key = "part" /\ (Select(key, 1) \/ Select(key, n))

Click == at # Absent /\ \E key \in Keys, i \in 1..Len(Digits) : Select(key, i)

\* The router commits a request; those before it are lost.  A relative URL has
\* no hash.  HarnessExplorer follows its parameter when that changes.
Commit ==
    /\ \E i \in DOMAIN pending :
         /\ query' = pending[i] /\ pending' = SubSeq(pending, i + 1, Len(pending))
         /\ selected' =
              IF at.route = "home" /\ pending[i]["part"] # query["part"]
              THEN [selected EXCEPT !.part = ResolveIndex(Index.parts, pending[i]["part"])]
              ELSE selected
    /\ hash' = 0 /\ UNCHANGED <<site, at, promised, choice>>

\* LayerPicker writes the hash itself.
SelectLayer ==
    /\ at # Absent /\ at.route = "home"
    /\ \E i \in DOMAIN Index.layers :
         /\ selected' = [selected EXCEPT !.layer = i] /\ hash' = i
         /\ choice' = [key |-> "layer", index |-> i]
    /\ UNCHANGED <<site, at, query, pending, promised>>

\* The visitor edits the hash.
HashChange ==
    /\ at # Absent /\ at.route = "home"
    /\ \E h \in 0..Len(Digits) :
         /\ h # hash /\ hash' = h
         /\ selected' = [selected EXCEPT !.layer = ReadHashIndex(Len(Index.layers), h)]
    /\ choice' = Absent /\ UNCHANGED <<site, at, query, pending, promised>>

-----------------------------------------------------------------------------
(* Properties.                                                             *)

\* A link of the docs, from the sidebar, the search or the foot of a page, leads
\* to the page of that section with that title; and once the router has settled
\* an explorer shows what the visitor selected last on the page, however the
\* requests overtook each other and whatever parameter the page was opened with
\* (content.ts:90-98, HarnessExplorer.tsx:53-97).
VisitorSeesChoice ==
    /\ at # Absent /\ promised # Absent =>
           /\ at.route = "page"
           /\ [section |-> Doc.sectionSlug, title |-> Doc.title] = promised
    /\ choice # Absent /\ pending = <<>> => Shown(choice.key) = choice.index
=============================================================================
