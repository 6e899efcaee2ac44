------------------------------ MODULE LiveView ------------------------------
(***************************************************************************)
(* What the panel of the VS Code extension draws for a payload             *)
(* (extension/arah-live/media/live.js): the rule, skill and agent lists,   *)
(* taken from the session or, while nothing is choreographed, from the     *)
(* catalogue of the repository's agent graph, and the track of chains the  *)
(* "fluxo" view shows.  Everything here is a pure function of the payload, *)
(* except the track, which the page keeps when its key has not changed.    *)
(*                                                                         *)
(* Colours, texts, escaping, the detail panel and the two view modes are   *)
(* layout and left out.  Sessions and graphs are named: SessionData and    *)
(* GraphData give what each name stands for.                               *)
(***************************************************************************)
EXTENDS Naturals, Sequences, SequencesExt

CONSTANTS
    SessionData,    \* content of a session file, by name
    GraphData,      \* content of an agent graph, by name
    EmptyBody,      \* the name of the content { recent_events: [] }
    None            \* an absent file, chat, name or folder

ASSUME EmptyBodyAssumption == EmptyBody \in DOMAIN SessionData

\* The limits written into live.js.
RuleCatalogue == 10
SkillLimit == 12
LaneCatalogue == 8
SkillsPerStep == 5
ChainsActive == 12
ChainsCatalogue == 15

Take(seq, n) == SubSeq(seq, 1, IF Len(seq) < n THEN Len(seq) ELSE n)
Distinct(seq) ==
    FoldLeft(LAMBDA seen, x : IF x \in ToSet(seen) THEN seen ELSE Append(seen, x),
             <<>>, seq)
Ids(seq) == [i \in DOMAIN seq |-> seq[i].id]

-----------------------------------------------------------------------------
(* The session decides what is live; subagents light the dot only.         *)

HasChoreography(s) ==
    \E list \in {s.rules, s.agents, s.domains, s.specialists} : list # <<>>

HasActivity(s) == HasChoreography(s) \/ s.subs # <<>>

ActiveIds(s) == ToSet(s.agents) \cup ToSet(s.domains) \cup ToSet(s.specialists)

\* The fields the provider and the page compare to decide whether anything
\* changed: neither the graph nor the context files are among them.
Fingerprint(p) ==
    LET s == SessionData[p.session.body]
    IN [ws |-> p.ws,
        cid |-> IF p.cid # None THEN p.cid ELSE p.session.of,
        name |-> IF p.chat # None THEN p.chat ELSE p.session.chat,
        lists |-> <<s.rules, s.agents, s.domains, s.specialists, s.skills, s.subs>>,
        ev0 |-> s.ev]

-----------------------------------------------------------------------------
(* The lists: what is drawn, in which style, and how many were cut off.    *)

Drawn(style, ids, limit) ==
    [style |-> style, ids |-> Take(ids, limit),
     more |-> IF Len(ids) > limit THEN Len(ids) - limit ELSE 0]
Blank == [style |-> "empty", ids |-> <<>>, more |-> 0]
DrawnOrBlank(style, ids, limit) ==
    IF ids = <<>> THEN Blank ELSE Drawn(style, ids, limit)

NoNodes == [rules |-> <<>>, agents |-> <<>>, skills |-> <<>>, edges |-> <<>>]
Nodes(g) == IF g = None THEN NoNodes ELSE GraphData[g]

SkillEdge(e) == e.type \in {"may_invoke_skill", "requires_skill"}

DeriveSkills(s, g) ==
    LET used == SelectSeq(Nodes(g).edges,
                          LAMBDA e : SkillEdge(e) /\ e.from \in ActiveIds(s))
    IN Distinct([i \in DOMAIN used |-> used[i].to])

RenderRules(s, g) ==
    IF s.rules # <<>> THEN Drawn("active", s.rules, Len(s.rules))
    ELSE IF HasChoreography(s) THEN Blank
    ELSE DrawnOrBlank("catalog", Ids(Nodes(g).rules), RuleCatalogue)

\* The session's skills, else those its active agents may invoke, else the
\* catalogue.  A list taken from the session is cut without a count.
RenderSkills(s, g) ==
    LET live == IF s.skills # <<>> THEN s.skills ELSE DeriveSkills(s, g)
    IN IF live # <<>> THEN Drawn("active", Take(live, SkillLimit), SkillLimit)
       ELSE IF HasChoreography(s) THEN Blank
       ELSE DrawnOrBlank("catalog", Nodes(g).skills, SkillLimit)

LaneOf(kind) == IF kind \in {"domain", "specialist"} THEN kind ELSE "operational"
Lane(g, kind) ==
    Ids(SelectSeq(Nodes(g).agents, LAMBDA a : LaneOf(a.kind) = kind))

RenderLane(active, catalogue, choreographed) ==
    IF choreographed THEN DrawnOrBlank("active", active, Len(active))
    ELSE DrawnOrBlank("catalog", catalogue, LaneCatalogue)

RenderAgents(s, g) ==
    LET ch == HasChoreography(s)
    IN [operational |-> RenderLane(s.agents, Lane(g, "operational"), ch),
        domain |-> RenderLane(s.domains, Lane(g, "domain"), ch),
        specialists |-> RenderLane(s.specialists, Lane(g, "specialist"), ch)]

\* The breadcrumb over the track: two rules and five agents, or the size of
\* the catalogue.
RenderFluxoActive(s, g) ==
    IF HasChoreography(s)
    THEN [rules |-> Take(s.rules, 2),
          agents |-> Take(s.agents \o s.domains \o s.specialists, 5),
          size |-> <<0, 0>>]
    ELSE [rules |-> <<>>, agents |-> <<>>,
          size |-> <<Len(Nodes(g).agents), Len(Nodes(g).rules)>>]

-----------------------------------------------------------------------------
(* The chains of the track: a rule, the agents it activates, what each may *)
(* consult and which skills it may invoke.                                 *)

Agent(g, id) == SelectSeq(Nodes(g).agents, LAMBDA a : a.id = id)

GetSkillsForAgent(id, rule, g) ==
    LET own == FlattenSeq([i \in DOMAIN Agent(g, id) |-> Agent(g, id)[i].skills])
        edges == SelectSeq(Nodes(g).edges,
                   LAMBDA e : /\ SkillEdge(e) /\ e.from = id
                              /\ e.via \in {None, rule, "manifest"})
    IN Take(Distinct(own \o [i \in DOMAIN edges |-> edges[i].to]), SkillsPerStep)

AgentsOfRule(r, g) ==
    LET edges == SelectSeq(Nodes(g).edges,
                   LAMBDA e : e.type = "activates_agent" /\ e.from = r.id)
    IN Distinct(r.agents \o [i \in DOMAIN edges |-> edges[i].to])

Marked(ids, active) == [i \in DOMAIN ids |-> [id |-> ids[i], active |-> ids[i] \in active]]

AgentStep(s, g, r, id) ==
    LET consults == FlattenSeq([i \in DOMAIN Agent(g, id) |-> Agent(g, id)[i].consults])
        advisers == ToSet(s.domains) \cup ToSet(s.specialists)
    IN [agent |-> id,
        active |-> id \in ActiveIds(s),
        consults |-> Marked(consults, advisers),
        skills |-> Marked(GetSkillsForAgent(id, r.id, g), ToSet(s.skills))]

Lit(marks) == \E i \in DOMAIN marks : marks[i].active

AgentSteps(s, g, r, ids) == [i \in DOMAIN ids |-> AgentStep(s, g, r, ids[i])]

ChainOf(s, r, steps) ==
    [rule |-> r.id, steps |-> steps,
     active |-> /\ r.id \in ToSet(s.rules)
                /\ \E i \in DOMAIN steps : \/ steps[i].active
                                           \/ Lit(steps[i].consults)
                                           \/ Lit(steps[i].skills)]

RuleChain(s, g, r) == ChainOf(s, r, AgentSteps(s, g, r, AgentsOfRule(r, g)))

\* A rule that activates nobody has no chain.
RulesShown(s, g) ==
    LET ch == HasChoreography(s)
        matched == SelectSeq(Nodes(g).rules, LAMBDA r : ch => r.id \in ToSet(s.rules))
    IN SelectSeq(Take(matched, IF ch THEN ChainsActive ELSE ChainsCatalogue),
                 LAMBDA r : AgentsOfRule(r, g) # <<>>)

ChainsOf(s, g, rules) == [i \in DOMAIN rules |-> RuleChain(s, g, rules[i])]
LiveFirst(chains) ==
    SelectSeq(chains, LAMBDA c : c.active) \o SelectSeq(chains, LAMBDA c : ~c.active)

BuildAgentFlows(s, g) == LiveFirst(ChainsOf(s, g, RulesShown(s, g)))

\* What two tracks must differ in for the page to draw the second one: the
\* skills and the consultations of a step are not part of it.
FlowKey(flows) ==
    [i \in DOMAIN flows |->
        <<flows[i].rule, [j \in DOMAIN flows[i].steps |-> flows[i].steps[j].agent],
          flows[i].active>>]

Idle(why) == [why |-> why, chains |-> <<>>]
Chains(flows) == [why |-> "chains", chains |-> flows]

\* The page starts with an empty track and no key.
NoKey == << <<None>> >>
EmptyTrack == Idle("never drawn")

DrawFlows(track, key, flows) ==
    IF FlowKey(flows) = key /\ track # EmptyTrack THEN [track |-> track, key |-> key]
    ELSE [track |-> IF flows = <<>> THEN Idle("no rule") ELSE Chains(flows),
          key |-> FlowKey(flows)]

\* Mutant of RenderAgentFlux: without a graph the track is left as it is.
RenderAgentFluxKept(track, key, s, g) ==
    IF g = None THEN [track |-> track, key |-> key]
    ELSE DrawFlows(track, key, BuildAgentFlows(s, g))

\* A track whose key is the last one drawn is left as it is, whatever has been put
\* in its place since.
RenderAgentFlux(track, key, s, g) ==
    IF g = None THEN [track |-> Idle("graph not found"), key |-> key]
    ELSE DrawFlows(track, key, BuildAgentFlows(s, g))

-----------------------------------------------------------------------------
(* render: the whole page for a payload.  Without a workspace the page is  *)
(* cleared, the track included, but its key is kept.                       *)

Lists(s, g) ==
    [dot |-> HasActivity(s), rules |-> RenderRules(s, g), skills |-> RenderSkills(s, g),
     lanes |-> RenderAgents(s, g), subs |-> s.subs, crumb |-> RenderFluxoActive(s, g)]

NoLists ==
    [dot |-> FALSE, rules |-> Blank, skills |-> Blank,
     lanes |-> [operational |-> Blank, domain |-> Blank, specialists |-> Blank],
     subs |-> <<>>, crumb |-> [rules |-> <<>>, agents |-> <<>>, size |-> <<0, 0>>]]

Render(track, key, p, tabSwitch) ==
    LET s == SessionData[p.session.body]
        flux == RenderAgentFlux(track, IF tabSwitch THEN NoKey ELSE key, s, p.graph)
    IN IF p.ws = None
       THEN [lists |-> NoLists, track |-> Idle("loading"), key |-> key]
       ELSE [lists |-> Lists(s, p.graph), track |-> flux.track, key |-> flux.key]
=============================================================================
