---------------------------- MODULE ConsoleView ----------------------------
(***************************************************************************)
(* What the live console makes of a bundle of answers of arah-live         *)
(* (mapLiveToRepo in components/console/LiveConsoleApp.tsx) and what       *)
(* LiveConsole.tsx shows of a repository.  Wording, colours and layout are *)
(* left out; None stands for a field that is absent or empty.              *)
(***************************************************************************)
EXTENDS Naturals, Sequences, SequencesExt, FiniteSets

CONSTANTS None

Or(a, b) == IF a = None THEN b ELSE a

\* Percentages are rounded half up.
Percent(n, total) == (200 * n + total) \div (2 * total)

AutonomyMix(territories) ==
    LET share(a) == Cardinality({i \in DOMAIN territories : territories[i].autonomy = a})
    IN IF territories = <<>> THEN {[slug |-> "propose-only", percent |-> 100]}
       ELSE {[slug |-> a, percent |-> Percent(share(a), Len(territories))] :
                a \in {territories[i].autonomy : i \in DOMAIN territories}}

\* The answer of /api/summary and the one of each other request.
MapLiveToRepo(summary, rest) ==
    LET feedItem(e) == [type |-> e.type, message |-> e.message,
                        route |-> Or(Or(e.route, e.agent), "")]
        gate(g) == [g EXCEPT !.status = IF @ = "ok" THEN "ok" ELSE "fail"]
        territory(d) == [slug |-> Or(d.id, d.name), autonomy |-> d.autonomy,
                         signals |-> Or(Or(d.signals_24h, d.signals), 0)]
        item(p) == [id |-> p.number, title |-> p.title,
                    gates |-> IF p.draft THEN "draft" ELSE "open"]
        proposal(p) == [title |-> Or(Or(p.change, p.kind), "proposal")]
        territories == [i \in DOMAIN rest.domains |-> territory(rest.domains[i])]
    IN [slug |-> "local", kernel |-> summary.kernel, driftOk |-> summary.drift_ok,
        kpis |-> summary.kpis,
        gates |-> [i \in DOMAIN rest.gates |-> gate(rest.gates[i])],
        gateSummary |-> Or(rest.gateSummary, summary.kpis.gateRate),
        territories |-> territories, autonomyMix |-> AutonomyMix(territories),
        queue |-> [i \in DOMAIN rest.queue |-> item(rest.queue[i])],
        proposals |-> [i \in DOMAIN rest.proposals |-> proposal(rest.proposals[i])],
        feed |-> [i \in DOMAIN rest.feed |-> feedItem(rest.feed[i])]]

-----------------------------------------------------------------------------
(* LiveConsole: the repository with this slug, or the first, if there is   *)
(* one.  A filter is a kind of event, "" all of them; a type is            *)
(* [kind, what], of which the kind is the prefix the filter compares.      *)

FirstOf(s) == IF s = <<>> THEN None ELSE Head(s)

ChosenRepo(repos, repoSlug) ==
    LET found == SelectSeq(repos, LAMBDA r : r.slug = repoSlug)
    IN FirstOf(found \o repos)

FilteredFeed(repo, filterKey) ==
    IF filterKey = "" THEN repo.feed
    ELSE SelectSeq(repo.feed, LAMBDA f : f.type.kind = filterKey)

RepoPicker(repos, active) ==
    [i \in DOMAIN repos |->
        [slug |-> repos[i].slug, active |-> repos[i].slug = active,
         drift |-> repos[i].driftOk]]
FeedFilters(filters, activeKey) ==
    [i \in DOMAIN filters |-> [key |-> filters[i], active |-> filters[i] = activeKey]]

Header(repos, repo) ==
    [picker |-> RepoPicker(repos, repo.slug), kernel |-> repo.kernel,
     tone |-> IF repo.driftOk THEN "ok" ELSE "warn", kpis |-> repo.kpis]

ConsolePanels(repo, filters, filterKey) ==
    [filters |-> FeedFilters(filters, filterKey), feed |-> FilteredFeed(repo, filterKey),
     gates |-> repo.gates, gateSummary |-> repo.gateSummary,
     territories |-> repo.territories,
     queue |-> IF repo.queue = <<>> THEN "queueEmpty" ELSE repo.queue,
     proposals |-> repo.proposals, autonomyMix |-> repo.autonomyMix]
=============================================================================
