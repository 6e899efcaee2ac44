----------------------------- MODULE MCWebsite -----------------------------
(* Small prototypes: two sections of docs that both have an overview, two    *)
(* parts, layers, steps and commands.  An earlier run of the script wrote    *)
(* the same, but for a page that was not there yet.                          *)
EXTENDS Website

Item(name, stage, text) == [name |-> name, stage |-> stage, text |-> text]
Two == <<Item("Alpha", "AVAILABLE", <<"since", "v1.5.0">>),
         Item("Beta", "PLANEJADO", <<"1.4.2">>)>>
MCSlug ==
    [Alpha |-> "alpha", Beta |-> "beta", Start |-> "start", Reference |-> "reference",
     Overview |-> "overview", CLI |-> "cli"]

Design(kind) ==
    [kind |-> kind, text |-> <<"0.3.0", "to", "1.5.0">>,
     fields |-> [f \in FieldsOf(kind) |-> Two]]
DocsDesign(docs) ==
    [kind |-> "docs", text |-> <<>>, cliPage |-> "CLI",
     fields |-> [docs |-> docs, cli |-> Two]]
Section(name, pages) == [name |-> name, pages |-> pages]

Docs == DocsDesign(<<Section("Start", <<"Overview">>),
                     Section("Reference", <<"Overview", "CLI">>)>>)

MCDesigns ==
    [d \in {"Docs", "Docs PT"} |-> Docs]
    @@ [d \in {"Home", "Home PT"} |-> Design("home")]
    @@ [d \in {"How It Works", "How It Works PT"} |-> Design("how")]
    @@ [d \in {"TechOrganism", "TechOrganism PT", "Use Cases", "Use Cases PT"} |->
           Design("static")]
    @@ "ARAH Live Console" :> Design("console")

\* A script that cannot be read in a design before, among and after the docs.
MCBroken ==
    {Absent, [design |-> "How It Works", field |-> "stepsData"],
     [design |-> "Docs PT", field |-> "script"],
     [design |-> "ARAH Live Console", field |-> "filtersDef"]}

WrittenItems ==
    <<[slug |-> "alpha", name |-> "Alpha", stage |-> "available",
       text |-> <<"since", "0.5.1">>, order |-> 1],
      [slug |-> "beta", name |-> "Beta", stage |-> "planned",
       text |-> <<"0.3.1">>, order |-> 2]>>
WrittenPage(fields) ==
    [version |-> "0.5.1", text |-> <<"0.3.1", "to", "0.5.1">>,
     lists |-> [f \in fields |-> WrittenItems]]
WrittenDocs(sections) ==
    [version |-> "0.5.1", nav |-> sections,
     pages |-> FlattenSeq([i \in DOMAIN sections |->
        [j \in DOMAIN sections[i].pages |->
           [slug |-> sections[i].pages[j].slug, title |-> sections[i].pages[j].title,
            sectionSlug |-> sections[i].slug, cli |-> sections[i].pages[j].slug = "cli"]]])]
Overview == [slug |-> "overview", title |-> "Overview"]
WrittenStart == [slug |-> "start", name |-> "Start", pages |-> <<Overview>>]
WrittenReference ==
    [slug |-> "reference", name |-> "Reference",
     pages |-> <<Overview, [slug |-> "cli", title |-> "CLI"]>>]
MCCommitted ==
    "docs/en" :> WrittenDocs(<<WrittenStart>>)
    @@ "docs/pt" :> WrittenDocs(<<WrittenStart, WrittenReference>>)
    @@ [f \in CliFiles |-> [version |-> "0.5.1", commands |-> WrittenItems]]
    @@ [f \in {"home/en", "home/pt"} |-> WrittenPage(FieldsOf("home"))]
    @@ [f \in {"how-it-works/en", "how-it-works/pt"} |-> WrittenPage(FieldsOf("how"))]
    @@ [f \in {"techorganism/en", "techorganism/pt", "use-cases/en", "use-cases/pt"} |->
           WrittenPage({})]
    @@ "console/mock" :> WrittenPage(FieldsOf("console"))

MCWords == [n \in DOMAIN MCSlug |-> IF n = "CLI" THEN {"cli"} ELSE {}]

MCArrivals ==
    {[path |-> Path("en", "home"), key |-> "part", value |-> v, hash |-> h] :
        v \in {"beta", "1", "2", "gone"}, h \in {0, 2, 4}}
    \cup {[path |-> Path("pt", "how"), key |-> "demo", value |-> "gone", hash |-> 0],
          [path |-> DocPath("en", "reference", "cli"), key |-> "cmd",
           value |-> "beta", hash |-> 0]}

MCMockRepos ==
    LET mock(slug) == [slug |-> slug, kernel |-> "k", driftOk |-> TRUE,
                       kpis |-> [gateRate |-> "98%"], gates |-> <<>>, gateSummary |-> "ok",
                       territories |-> <<>>, autonomyMix |-> {}, queue |-> <<>>,
                       proposals |-> <<>>, feed |-> <<>>]
    IN <<mock("demo")>>
MCFilters == <<"gates">>
MCSummaries == [v \in 0..MaxVersion |->
    [kernel |-> "k", drift_ok |-> v = 0, kpis |-> [gateRate |-> v]]]
Event(kind) == [type |-> [kind |-> kind, what |-> "x"], message |-> "m",
                route |-> None, agent |-> "agent"]
MCRests == [v \in 0..MaxVersion |->
    [feed |-> IF v = 0 THEN <<>> ELSE <<Event("gates"), Event("evolution")>>,
     gates |-> <<[slug |-> "lint", status |-> IF v = 0 THEN "ok" ELSE "error"]>>,
     gateSummary |-> None,
     domains |-> <<[id |-> None, name |-> "d", autonomy |-> "propose-only",
                    signals_24h |-> None, signals |-> v]>>,
     queue |-> <<[number |-> v, title |-> "t", draft |-> TRUE]>>,
     proposals |-> <<[change |-> None, kind |-> "skill"]>>]]

MCInit == Init /\ broken \in MCBroken /\ service.up

\* The service's changes and the connections that are left are looked at on the
\* console page of the complete site, in either language; what is read and selected
\* elsewhere with a service nothing has happened to.
\* No more than two fetches are under way at a time, of whichever connection,
\* and none while a filter is chosen.
Bounded ==
    /\ Cardinality(fetches) <= 2
    /\ \/ /\ service.up /\ service.version = 0 /\ fetches = {} /\ mounted = None
          /\ \A c \in Conns : connects[c] = NoConnect
       \/ /\ at \in {Path(l, "console") : l \in Locales}
          /\ Len(site["en"].pages) = 3 /\ (shown.filter # "" => fetches = {})
MCSpec == MCInit /\ [][Next /\ Bounded']_vars
=============================================================================
