-------------------------------- MODULE Ranking --------------------------------
(***************************************************************************)
(* rankCandidates and gateSymbolsForDepth: what is worth reading first in  *)
(* a snapshot, and which symbols a run asks a model about.                 *)
(*                                                                         *)
(* To the graph of Workflows a snapshot adds: which nodes are exported     *)
(* (for a file, how many it exports), which files are tests, the commits   *)
(* of each file, and which paths name a route.  Scores are in thousandths   *)
(* of the applicable weight; wording is left out.                          *)
(***************************************************************************)
EXTENDS Integers, Sequences, FiniteSets, FiniteSetsExt

CONSTANTS Caps, CheapShare

\* CANDIDATE_WEIGHTS, in hundredths.
Weights == [workflowParticipation |-> 20, fanCentrality |-> 15, exportedSurface |-> 15, sideEffects |-> 15,
            entrypointParticipation |-> 10, routeSchemaOwnership |-> 10, testProximity |-> 5,
            configRelevance |-> 5, churn |-> 5]
Inapplicable(type) == IF type = "workflow" THEN {"fanCentrality", "exportedSurface"} ELSE {}
SymbolTypes      == {"function", "method", "class", "interface", "type", "enum", "variable"}
DeclarationTypes == {"interface", "type", "enum", "variable"}

EdgesOf(g)        == {g.edges[i] : i \in DOMAIN g.edges}
Count(g, Test(_)) == Cardinality({i \in DOMAIN g.edges : Test(g.edges[i])})
FanIn(g, n)  == Count(g, LAMBDA e : e.type \in {"calls", "imports"} /\ e.to = n)
FanOut(g, n) == Count(g, LAMBDA e : e.type \in {"calls", "imports"} /\ e.from = n)
TestedBy(g, n) == \E e \in EdgesOf(g) : e.type = "tests" /\ e.to \in {n, g.file[n]}

\* Both the handler and its file are entry points; a page that is nothing
\* else counts for half.
KeysOf(ep)        == {ep.file, IF ep.symbol = "none" THEN ep.file ELSE ep.symbol}
EntryKeys(chosen) == UNION {KeysOf(ep) : ep \in chosen}
IsEntry(eps, n) ==
    IF n \in EntryKeys({ep \in Range(eps) : ep.kind # "ui_route"}) THEN 2
    ELSE IF n \in EntryKeys(Range(eps)) THEN 1 ELSE 0

OwnsRouteOrSchema(g, eps, n) ==
    \/ n \in EntryKeys({ep \in Range(eps) : ep.kind = "http_route"})
    \/ \E e \in EdgesOf(g) : (e.type = "touches_schema" /\ e.from = n) \/ (e.type = "handles_route" /\ e.to = n)

\* A file has the effects of what it holds; kinds count once.
EffectKinds(g, n) == UNION {g.effects[m] : m \in {k \in g.nodes : k = n \/ g.file[k] = n}}
\* Steps, not flows: a flow with two steps on a node counts twice.
WorkflowCount(g, flows, n) ==
    LET In(i) == Cardinality({j \in DOMAIN flows[i].steps : flows[i].steps[j].node = n})
                 + Cardinality({j \in DOMAIN flows[i].steps : g.file[flows[i].steps[j].node] = n})
    IN  MapThenSumSet(In, DOMAIN flows)

\* What the graph, the flows and the entry points say of a node.
FactsOf(g, eps, flows, n) ==
    [fanIn |-> FanIn(g, n), fanOut |-> FanOut(g, n), exports |-> g.exports[n], kinds |-> EffectKinds(g, n),
     steps |-> WorkflowCount(g, flows, n), entry |-> IsEntry(eps, n), owns |-> OwnsRouteOrSchema(g, eps, n),
     calls |-> \E e \in EdgesOf(g) : e.type = "calls" /\ e.from = n,
     tested |-> TestedBy(g, n), config |-> "env_read" \in g.signals[n], commits |-> g.commits[g.file[n]]]
CarriesBehaviour(f)      == f.kinds # {} \/ f.steps > 0 \/ f.entry > 0 \/ f.owns
DeclarationOnly(type, f) == type \in DeclarationTypes /\ ~CarriesBehaviour(f) /\ ~f.calls

One(b) == IF b THEN 1 ELSE 0
\* The signals of a node.  Being central without doing anything is damped,
\* and so is the export of a declaration.
Raw(type, f) ==
    [workflowParticipation   |-> f.steps,
     fanCentrality           |-> (2 * f.fanIn + f.fanOut) * (IF CarriesBehaviour(f) THEN 100 ELSE 35),
     exportedSurface         |-> f.exports * (IF DeclarationOnly(type, f) THEN 1 ELSE 4),
     sideEffects             |-> Cardinality(f.kinds),
     entrypointParticipation |-> f.entry, routeSchemaOwnership |-> One(f.owns),
     testProximity           |-> One(f.tested), configRelevance |-> One(f.config), churn |-> f.commits]

\* A flow has the signals its steps give it.
RawOfFlow(g, f) ==
    LET nodes == {f.steps[i].node : i \in DOMAIN f.steps}  kinds == {f.steps[i].kind : i \in DOMAIN f.steps}
    IN  [workflowParticipation |-> f.score, fanCentrality |-> 0, exportedSurface |-> 0,
         sideEffects |-> Cardinality(kinds \cap {"data_read", "data_write", "async_work", "side_effect"}),
         entrypointParticipation |-> 1, routeSchemaOwnership |-> One(kinds \cap {"data_read", "data_write"} # {}),
         testProximity |-> One(\E n \in nodes : TestedBy(g, n)),
         configRelevance |-> One(\E n \in nodes : "env_read" \in g.signals[n]),
         churn |-> Max({0} \cup {g.commits[g.file[n]] : n \in nodes})]

\* Each signal is relative to the best of its kind of target, and what cannot
\* be measured of that kind is out of the sum.
Targets(g, type) ==
    {n \in g.nodes : ~g.test[g.file[n]] /\ IF type = "file" THEN g.type[n] \in {"module", "file"}
                                           ELSE g.type[n] \in SymbolTypes}
Scores(raws, type) ==
    LET signals == DOMAIN Weights \ Inapplicable(type)
        best    == [s \in signals |-> Max({0} \cup {raws[y][s] : y \in DOMAIN raws})]
        whole   == MapThenSumSet(LAMBDA s : Weights[s], signals)
        Share(x, s) == IF best[s] > 0 THEN (raws[x][s] * Weights[s] * 1000) \div best[s] ELSE 0
    IN  [x \in DOMAIN raws |-> MapThenSumSet(LAMBDA s : Share(x, s), signals) \div whole]
NodeScores(g, facts, type) == Scores([n \in Targets(g, type) |-> Raw(g.type[n], facts[n])], type)
FlowScores(g, flows) == Scores([i \in DOMAIN flows |-> RawOfFlow(g, flows[i])], "workflow")

------------------------------------------------------------------------------
\* gateSymbolsForDepth.  A symbol without a score (a test) counts as nothing.
Symbols(g) == {n \in g.nodes : g.type[n] \in SymbolTypes}
Routeish(g, eps, n) == g.routePath[n] \/ \E i \in DOMAIN eps : eps[i].symbol = n
CheapSet(g, eps) ==
    {n \in Symbols(g) : "trivial" \notin g.words[n] /\ (g.exports[n] > 0 \/ Routeish(g, eps, n))}
Participants(g, flows) == Symbols(g) \cap UNION {{f.steps[i].node : i \in DOMAIN f.steps} : f \in {flows[j] : j \in DOMAIN flows}}
WellCalled(g) == {n \in Symbols(g) : "trivial" \notin g.words[n]
                                      /\ Count(g, LAMBDA e : e.type = "calls" /\ e.to = n) >= 5}
Eligible(g, eps, flows, depth) ==
    CASE depth = "full"     -> Symbols(g)
      [] depth = "standard" -> CheapSet(g, eps) \cup Participants(g, flows) \cup WellCalled(g)
      [] depth = "cheap"    -> CheapSet(g, eps)
CapOf(g, depth) ==
    LET quarter == (Cardinality(Symbols(g)) + CheapShare - 1) \div CheapShare
    IN  IF depth = "cheap" /\ quarter < Caps[depth] THEN (IF quarter > 1 THEN quarter ELSE 1) ELSE Caps[depth]

RECURSIVE Best(_, _, _)
Best(S, score, k) ==
    IF S = {} \/ k = 0 THEN {}
    ELSE LET top == CHOOSE n \in S : \A m \in S : score[m] <= score[n] IN {top} \cup Best(S \ {top}, score, k - 1)
ScoreByKey(g, facts) ==
    LET scores == NodeScores(g, facts, "symbol")
    IN  [n \in Symbols(g) |-> IF n \in DOMAIN scores THEN scores[n] ELSE 0]
Selected(g, eps, flows, score, depth) == Best(Eligible(g, eps, flows, depth), score, CapOf(g, depth))

------------------------------------------------------------------------------
\* A symbol another one beats on every fact never ranks above it: no damping
\* and no half credit puts what does less before what does more.
Beats(g, facts, n, m) ==
    LET a == facts[m]  b == facts[n]
    IN  /\ g.type[m] = g.type[n] \/ g.type[m] \in DeclarationTypes
        /\ a.kinds \subseteq b.kinds /\ (a.owns => b.owns) /\ (a.calls => b.calls)
        /\ (a.tested => b.tested) /\ (a.config => b.config)
        /\ \A k \in {"fanIn", "fanOut", "exports", "steps", "entry", "commits"} : a[k] <= b[k]
NeverWorse(g, facts) ==
    LET score == NodeScores(g, facts, "symbol")
    IN  \A m, n \in DOMAIN score : Beats(g, facts, n, m) => score[m] <= score[n]

\* A score is a share of what its kind of target can earn: none is above
\* the whole, and a flow that is best at being a flow has the weight of that
\* and of being an entry point out of the seven tenths a flow can earn.
WithinScale(g, facts, flows) ==
    LET shares == FlowScores(g, flows)
        best   == Max({0} \cup {flows[j].score : j \in DOMAIN flows})
    IN  /\ \A type \in {"file", "symbol"} :
             LET s == NodeScores(g, facts, type) IN \A n \in DOMAIN s : s[n] <= 1000
        /\ \A i \in DOMAIN shares : shares[i] <= 1000 /\ (flows[i].score = best /\ best > 0 => shares[i] >= 428)

\* What a run asks about at one depth it asks about at a deeper one, and at
\* "standard" every participant of a flow, unless the cap is taken up by
\* symbols that rank no lower.
GateHonest(g, eps, facts, flows) ==
    LET score == ScoreByKey(g, facts)
        chosen == [d \in DOMAIN Caps |-> Selected(g, eps, flows, score, d)]
        Kept(n, d) == n \in chosen[d] \/ (/\ Cardinality(chosen[d]) = Caps[d]
                                          /\ \A m \in chosen[d] : score[m] >= score[n])
    IN  /\ \A n \in chosen["cheap"] : Kept(n, "standard") /\ Kept(n, "full")
        /\ \A n \in chosen["standard"] : Kept(n, "full")
        /\ \A n \in Participants(g, flows) : Kept(n, "standard")
        /\ \A d \in DOMAIN Caps : Cardinality(chosen[d]) <= Caps[d]
==============================================================================
