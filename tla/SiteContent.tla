---------------------------- MODULE SiteContent ----------------------------
(***************************************************************************)
(* The website's content: scripts/extract-design-content.mjs turns the     *)
(* design prototypes into the JSON files of website/content, one after the *)
(* other, and the site is built from whatever is there (lib/content.ts).   *)
(*                                                                         *)
(* A design is [kind, text, fields]: the words of its static copy and, for *)
(* each array of its script, items [name, stage, text] or, in the docs, a  *)
(* section's [name, pages].  What markup the script recognises is taken as *)
(* given; a design whose script cannot be read is named in broken.         *)
(***************************************************************************)
EXTENDS Sequences, SequencesExt, FiniteSets

CONSTANTS
    Absent,
    Designs,        \* design file -> its content
    Slug,           \* a title -> its slug
    Committed,      \* content file -> what an earlier run wrote
    VERSION,        \* of the harness
    PREV_VERSION,   \* the constant in the script
    Counts          \* the words naming numbers of agents and skills

VARIABLES
    files,          \* content file -> its content; Absent cannot be parsed
    step,           \* the step of main that is next, or 0 when it has ended
    broken          \* [design, field] the script cannot read, or Absent

contentVars == <<files, step, broken>>

IsSeq(s) == s \in Seq(ToSet(s))

-----------------------------------------------------------------------------
(* The text of the prototypes, word by word.                               *)

\* The forms calibrateText replaces.  It overlooks "v1.4.2" and "v0.3.0", which no
\* prototype has: they are words like any other here.
PrototypeVersions == {"1.5.0", "v1.5.0", "1.4.2", "0.3.0"}

\* Mutant of CalibrateWord: the "v" form is overlooked.
CalibrateBareWord(w) ==
    CASE w \in {VERSION, PREV_VERSION} -> w
      [] w = "1.5.0" -> VERSION
      [] w \in {"1.4.2", "0.3.0"} -> PREV_VERSION
      [] w \in Counts -> "counts"
      [] OTHER -> w

\* The versions of the prototypes become the current and the previous one, and
\* so do 0.3.0 and the "v" form; the guards leave a text calibrated before alone.
CalibrateWord(w) ==
    CASE w \in {VERSION, PREV_VERSION} -> w
      [] w \in {"1.5.0", "v1.5.0"} -> VERSION
      [] w \in {"1.4.2", "0.3.0"} -> PREV_VERSION
      [] w \in Counts -> "counts"
      [] OTHER -> w

CalibrateText(t) == [i \in DOMAIN t |-> CalibrateWord(t[i])]

StageSlug(stage) ==
    CASE stage \in {"AVAILABLE", "DISPONIVEL"} -> "available"
      [] stage = "EXPERIMENTAL" -> "experimental"
      [] stage \in {"PLANNED", "PLANEJADO"} -> "planned"
      [] OTHER -> stage

-----------------------------------------------------------------------------
(* From a design to content.                                               *)

\* The arrays each kind of page has in its script, which is read only then.
FieldsOf(kind) ==
    CASE kind = "home" -> {"parts", "layersData", "areasData", "matrixData"}
      [] kind = "how" -> {"stepsData", "demoData"}
      [] kind = "docs" -> {"docs", "cli"}
      [] kind = "console" -> {"reposData", "filtersDef"}
      [] OTHER -> {}

\* evalClassFields throws, or gives a null nobody checks; filtersDef is checked.
Throws(d) ==
    /\ broken # Absent /\ broken.design = d
    /\ FieldsOf(Designs[d].kind) # {}
    /\ broken.field \in (FieldsOf(Designs[d].kind) \ {"filtersDef"}) \cup {"script"}

Field(d, name) ==
    IF broken = [design |-> d, field |-> name] THEN <<>> ELSE Designs[d].fields[name]

Normalized(items) ==
    [i \in DOMAIN items |->
        [slug |-> Slug[items[i].name], name |-> items[i].name,
         stage |-> StageSlug(items[i].stage),
         text |-> CalibrateText(items[i].text), order |-> i]]

\* The copy between the tags of a page and the arrays of its script.
Page(d, fields) ==
    [version |-> VERSION, text |-> CalibrateText(Designs[d].text),
     lists |-> [f \in fields |-> Normalized(Field(d, f))]]

ExtractHome(d) == Page(d, FieldsOf("home"))
ExtractHowItWorks(d) == Page(d, FieldsOf("how"))
ExtractConsole(d) == Page(d, FieldsOf("console"))

\* extractUseCases and extractTechOrganism read no script.
ExtractStatic(d) == Page(d, {})

\* extractDocs: the sidebar and the pages come from the same sections.
Nav(d) ==
    LET docs == Field(d, "docs")
    IN [i \in DOMAIN docs |->
          [slug |-> Slug[docs[i].name], name |-> docs[i].name,
           pages |-> [j \in DOMAIN docs[i].pages |->
                        [slug |-> Slug[docs[i].pages[j]], title |-> docs[i].pages[j]]]]]
Pages(d) ==
    LET docs == Field(d, "docs")
        section(i) == [j \in DOMAIN docs[i].pages |->
                         [slug |-> Slug[docs[i].pages[j]], title |-> docs[i].pages[j],
                          sectionSlug |-> Slug[docs[i].name],
                          cli |-> docs[i].pages[j] = Designs[d].cliPage]]
    IN FlattenSeq([i \in DOMAIN docs |-> section(i)])

ExtractDocs(d) == [version |-> VERSION, nav |-> Nav(d), pages |-> Pages(d)]
ExtractCli(d) == [version |-> VERSION, commands |-> Normalized(Field(d, "cli"))]

\* writeJson calibrates everything once more.
WriteJson(content) ==
    IF "text" \in DOMAIN content THEN [content EXCEPT !.text = CalibrateText(@)]
    ELSE content

-----------------------------------------------------------------------------
(* main: what is read and what is written, in this order.                  *)

Read(d) == [reads |-> d, writes |-> Absent, as |-> "docs"]
Write(f, d) == [reads |-> Absent, writes |-> f, as |-> d]
ReadWrite(f, d) == [reads |-> d, writes |-> f, as |-> d]

Main == <<
    ReadWrite("home/en", "Home"), ReadWrite("home/pt", "Home PT"),
    ReadWrite("how-it-works/en", "How It Works"),
    ReadWrite("how-it-works/pt", "How It Works PT"),
    Read("Docs"), Read("Docs PT"),
    Write("docs/en", "Docs"), Write("docs/pt", "Docs PT"),
    Write("cli/en", "Docs"), Write("cli/pt", "Docs PT"),
    ReadWrite("techorganism/en", "TechOrganism"),
    ReadWrite("techorganism/pt", "TechOrganism PT"),
    ReadWrite("use-cases/en", "Use Cases"), ReadWrite("use-cases/pt", "Use Cases PT"),
    ReadWrite("console/mock", "ARAH Live Console") >>

ContentFiles == {Main[i].writes : i \in DOMAIN Main} \ {Absent}
CliFiles == {"cli/en", "cli/pt"}

Extract(s) ==
    LET kind == Designs[s.as].kind
    IN CASE kind = "home" -> ExtractHome(s.as)
         [] kind = "how" -> ExtractHowItWorks(s.as)
         [] kind = "docs" /\ s.writes \in CliFiles -> ExtractCli(s.as)
         [] kind = "docs" /\ s.writes \notin CliFiles -> ExtractDocs(s.as)
         [] kind = "console" -> ExtractConsole(s.as)
         [] OTHER -> ExtractStatic(s.as)

ContentInit ==
    /\ files = Committed /\ step = 1
    /\ broken \in {Absent} \cup
          UNION {[design : {d}, field : FieldsOf(Designs[d].kind) \cup {"script"}] :
                    d \in DOMAIN Designs}

\* One step of main; an exception ends the script where it is.
ExtractStep ==
    /\ step \in DOMAIN Main
    /\ LET s == Main[step]
           next == IF step = Len(Main) THEN 0 ELSE step + 1
       IN IF s.reads # Absent /\ Throws(s.reads)
          THEN step' = 0 /\ UNCHANGED files
          ELSE /\ step' = next
               /\ files' = IF s.writes = Absent THEN files
                           ELSE [files EXCEPT ![s.writes] = WriteJson(Extract(s))]
    /\ UNCHANGED broken

\* The script is killed, perhaps while a file is half written.
ExtractKilled ==
    /\ step \in DOMAIN Main /\ step' = 0
    /\ LET f == Main[step].writes
       IN files' \in {files} \cup IF f = Absent THEN {} ELSE {[files EXCEPT ![f] = Absent]}
    /\ UNCHANGED broken

-----------------------------------------------------------------------------
(* What the script starts from: prototypes and an earlier run's content    *)
(* whose titles can be told apart by their slugs.                          *)

\* A written list: its slugs are made of titles and differ, and its words no longer
\* name the prototypes' versions.
ListOK(items) ==
    /\ IsSeq(items)
    /\ \A i \in DOMAIN items : /\ items[i].slug \in Range(Slug)
                               /\ ToSet(items[i].text) \cap PrototypeVersions = {}
    /\ \A i, j \in DOMAIN items : items[i].slug = items[j].slug => i = j

\* A written sidebar: each of its pages is there in its section, and a section and
\* a slug have one title.
DocsOK(nav, pages) ==
    /\ IsSeq(nav) /\ IsSeq(pages) /\ Absent \notin ToSet(pages)
    /\ \A i \in DOMAIN nav : /\ IsSeq(nav[i].pages)
                             /\ \A page \in ToSet(nav[i].pages) :
                                   \E p \in ToSet(pages) : /\ p.sectionSlug = nav[i].slug
                                                          /\ page = [slug |-> p.slug, title |-> p.title]
    /\ \A p, q \in ToSet(pages) :
           /\ p.slug \in Range(Slug)
           /\ p.sectionSlug = q.sectionSlug /\ p.slug = q.slug => p.title = q.title

DocsFiles == {"docs/en", "docs/pt"}
HomeFiles == {"home/en", "home/pt"}
HowFiles == {"how-it-works/en", "how-it-works/pt"}

\* The lists of a page that has a prototype of its own.
ListsOf(f) ==
    CASE f \in HomeFiles -> FieldsOf("home")
      [] f \in HowFiles -> FieldsOf("how")
      [] f = "console/mock" -> FieldsOf("console")
      [] OTHER -> {}

FileOK(f, c) ==
    CASE f \in DocsFiles -> DocsOK(c.nav, c.pages)
      [] f \in CliFiles -> ListOK(c.commands)
      [] OTHER -> /\ ToSet(c.text) \cap PrototypeVersions = {}
                  /\ \A l \in ListsOf(f) : /\ ListOK(c.lists[l])
                                           /\ f \in HomeFiles => c.lists[l] # <<>>

\* The same of what it is written from.
ItemsOK(items) ==
    /\ IsSeq(items) /\ \A i \in DOMAIN items : items[i].name \in DOMAIN Slug
    /\ \A i, j \in DOMAIN items : Slug[items[i].name] = Slug[items[j].name] => i = j

SectionsOK(docs) ==
    /\ IsSeq(docs)
    /\ \A i \in DOMAIN docs : docs[i].name \in DOMAIN Slug /\ docs[i].pages \in Seq(DOMAIN Slug)
    /\ \A i, j \in DOMAIN docs :
          \A m \in DOMAIN docs[i].pages, n \in DOMAIN docs[j].pages :
              /\ Slug[docs[i].name] = Slug[docs[j].name]
              /\ Slug[docs[i].pages[m]] = Slug[docs[j].pages[n]]
              => docs[i].pages[m] = docs[j].pages[n]

DesignOK(f, d) ==
    CASE f \in DocsFiles -> d.kind = "docs" /\ SectionsOK(d.fields["docs"])
      [] f \in CliFiles -> d.kind = "docs" /\ ItemsOK(d.fields["cli"])
      [] OTHER -> /\ d.kind # "docs" /\ FieldsOf(d.kind) = ListsOf(f)
                  /\ \A l \in ListsOf(f) : /\ ItemsOK(d.fields[l])
                                           /\ f \in HomeFiles => d.fields[l] # <<>>

ASSUME ContentAssumption ==
    /\ {VERSION, PREV_VERSION} \cap PrototypeVersions = {}
    /\ \A i \in DOMAIN Main :
          Main[i].writes # Absent => DesignOK(Main[i].writes, Designs[Main[i].as])
    /\ DOMAIN Committed = ContentFiles
    /\ \A f \in ContentFiles : Committed[f] # Absent => FileOK(f, Committed[f])
    /\ Absent \notin UNION {DocsFiles, CliFiles, HomeFiles, HowFiles}
    /\ \A i \in DOMAIN Main, name \in FieldsOf("home") :
          Absent \notin {Main[i].as, [design |-> Main[i].as, field |-> name]}
    /\ Absent \notin [slug : Range(Slug), title : DOMAIN Slug,
                      sectionSlug : Range(Slug), cli : BOOLEAN]

-----------------------------------------------------------------------------
(* lib/content.ts: every page reads its files when the site is built, and  *)
(* one that cannot be parsed fails the build.                              *)

Buildable == \A f \in ContentFiles : files[f] # Absent

Locales == {"en", "pt"}
HomeFile(l) == IF l = "en" THEN "home/en" ELSE "home/pt"
HowFile(l) == IF l = "en" THEN "how-it-works/en" ELSE "how-it-works/pt"
DocsFile(l) == IF l = "en" THEN "docs/en" ELSE "docs/pt"
CliFile(l) == IF l = "en" THEN "cli/en" ELSE "cli/pt"

Slugs(items) == [i \in DOMAIN items |-> items[i].slug]

\* What visiting the site depends on, of all that is in it.
Site(l) ==
    [nav |-> files[DocsFile(l)].nav, pages |-> files[DocsFile(l)].pages,
     parts |-> Slugs(files[HomeFile(l)].lists["parts"]),
     layers |-> Slugs(files[HomeFile(l)].lists["layersData"]),
     steps |-> Slugs(files[HowFile(l)].lists["stepsData"]),
     demo |-> Slugs(files[HowFile(l)].lists["demoData"]),
     commands |-> Slugs(files[CliFile(l)].commands)]
=============================================================================
