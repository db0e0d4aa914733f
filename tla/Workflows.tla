------------------------------- MODULE Workflows -------------------------------
(***************************************************************************)
(* extractWorkflowsDetailed: the flows traced from the entry points of a   *)
(* snapshot, their tiers, and the list that is left without near           *)
(* duplicates.                                                             *)
(*                                                                         *)
(* A graph g has nodes with a type, a name, the file they are in, the      *)
(* class that holds a method, the effects detected in them, their          *)
(* behaviour signals, which naming rules their name meets, and the         *)
(* hand-off tokens their bytes and messages publish; and the edges in the  *)
(* order they were added.  An entry point has a file, a kind, a handler    *)
(* ("none" when the detector found none), a route ("none" when it was      *)
(* guessed) and the tokens its registration answers to.  Wording and the   *)
(* confidence mark are left out; scores are in hundredths of a hundredth.  *)
(***************************************************************************)
EXTENDS Integers, Sequences, FiniteSets, SequencesExt

CONSTANTS MaxDepth, MaxSteps

EffectReserve  == (MaxSteps + 3) \div 4
TraversalEdges == {"calls", "handles_route", "registers_callback",
                   "enqueues_job", "handles_job", "touches_schema"}
EffectSignals  == {"database_read", "database_write", "queue_enqueue", "queue_consume",
                   "http_request", "filesystem", "response_output"}

Outgoing(g, n)  == SelectSeq(g.edges, LAMBDA e : e.from = n /\ e.type \in TraversalEdges)
Contained(g, n) == SelectSeq(g.edges, LAMBDA e : e.from = n /\ e.type = "contains")

\* A method without effects of its own has those of its class.
Effects(g, n) ==
    IF g.effects[n] # {} THEN g.effects[n]
    ELSE IF g.type[n] = "method" /\ g.class[n] \in g.nodes THEN g.effects[g.class[n]] ELSE {}
HasEffect(g, n) == Effects(g, n) # {} \/ g.signals[n] \cap EffectSignals # {}

\* The nodes from which some path arrives at a node that does anything.
RECURSIVE Sweep(_, _)
Sweep(g, S) ==
    LET before == {e.from : e \in {x \in ToSet(g.edges) : x.type \in TraversalEdges /\ x.to \in S}}
    IN  IF before \subseteq S THEN S ELSE Sweep(g, S \cup before)
EffectReaching(g) == Sweep(g, {n \in g.nodes : g.type[n] = "schema" \/ HasEffect(g, n)})

------------------------------------------------------------------------------
\* The handlers of an entry point: the one that was resolved, else the one
\* method of its file with that name, else the first three that do something.
Qualified(g, ep) == {n \in g.nodes : g.type[n] = "method" /\ g.file[n] = ep.file /\ g.name[n] = ep.symbol}
Plausible(g, n)  == n \in g.nodes /\ "trivial" \notin g.words[n]
Handlers(g, from) ==
    LET Acts(e)    == Plausible(g, e.to) /\ (Outgoing(g, e.to) # <<>> \/ HasEffect(g, e.to))
        Members(e) == IF Plausible(g, e.to) /\ g.type[e.to] = "class"
                      THEN SelectSeq(Contained(g, e.to), Acts) ELSE SelectSeq(<<e>>, Acts)
        in         == Contained(g, from)
    IN  FoldLeft(LAMBDA found, e : found \o [i \in DOMAIN Members(e) |-> Members(e)[i].to], <<>>, in)
Seeds(g, ep) ==
    IF ep.symbol \in g.nodes THEN <<ep.symbol>>
    ELSE IF Cardinality(Qualified(g, ep)) = 1 THEN <<CHOOSE n \in Qualified(g, ep) : TRUE>>
    ELSE LET all == SortSeq(Handlers(g, ep.file), LAMBDA m, n : g.line[m] < g.line[n])
         IN  SubSeq(all, 1, IF Len(all) < 3 THEN Len(all) ELSE 3)

------------------------------------------------------------------------------
\* isNoisy and classifyStep: what a step is called.
Noisy(g, n) == /\ Effects(g, n) = {} /\ g.signals[n] \cap (EffectSignals \cup {"auth_check"}) = {}
               /\ g.words[n] \cap {"trivial", "noise"} # {}
Classify(g, n) ==
    LET fx == Effects(g, n)  sg == g.signals[n]
    IN  CASE "database_write" \in fx \cup sg                       -> "data_write"
          [] "message_publish" \in fx \/ "queue_enqueue" \in sg    -> "async_work"
          [] "auth_call" \in fx                                    -> "auth_guard"
          [] "database_read" \in fx                                -> "data_read"
          [] fx # {} \/ sg \cap {"http_request", "filesystem"} # {} -> "side_effect"
          [] "auth_check" \in sg \/ "auth" \in g.words[n]          -> "auth_guard"
          [] "database_read" \in sg                                -> "data_read"
          [] "response_output" \in sg                              -> "response"
          [] "valid" \in g.words[n]                                -> "validation"
          [] OTHER                                                 -> "transform"

\* The effects of the handler itself become steps of their own.
SeedStep == [database_write |-> "data_write", message_publish |-> "async_work",
             auth_call |-> "auth_guard", external_service |-> "side_effect"]

Step(n, kind, own) == [node |-> n, kind |-> kind, own |-> own]
Push(t, step)      == [t EXCEPT !.steps = Append(@, step)]

\* A node is entered: its step, and what it counts for.
Enter(g, t, n, isSeed) ==
    LET fx    == Effects(g, n)
        known == fx \ {"unknown_external"} # {} \/ g.signals[n] \cap EffectSignals # {}
        at    == [t EXCEPT !.effects = @ + IF HasEffect(g, n) THEN 1 ELSE 0,
                           !.known   = @ + IF known THEN 1 ELSE 0,
                           !.steps   = Append(@, Step(n, IF isSeed THEN "trigger" ELSE Classify(g, n), FALSE))]
        own   == SetToSeq({SeedStep[k] : k \in fx \cap DOMAIN SeedStep})
    IN  IF ~isSeed /\ Noisy(g, n) THEN t
        ELSE IF isSeed THEN [at EXCEPT !.steps = @ \o [i \in DOMAIN own |-> Step(n, own[i], TRUE)]]
        ELSE at

\* The bug of one step too late: the last step of the reserve is spent on anything.
BarrenLate(g, t, n) == MaxSteps - Len(t.steps) < EffectReserve /\ n \notin EffectReaching(g)

\* Once the rest of the budget is the reserve, only what arrives is followed.
Barren(g, t, n) == MaxSteps - Len(t.steps) <= EffectReserve /\ n \notin EffectReaching(g)

RECURSIVE Visit(_, _, _, _)
Visit(g, t, n, depth) ==
    IF depth > MaxDepth \/ Len(t.steps) >= MaxSteps \/ n \in t.visited THEN t
    ELSE LET seen == [t EXCEPT !.visited = @ \cup {n}]
             at   == Enter(g, seen, n, depth = 0)
         IN  CASE n \notin g.nodes          -> seen
               [] g.type[n] = "external"    -> Push(seen, Step(n, "side_effect", FALSE))
               [] g.type[n] = "schema"      ->
                    LET writes == \E s \in ToSet(seen.steps) : s.kind = "data_write"
                    IN  [Push(seen, Step(n, IF writes THEN "data_write" ELSE "data_read", FALSE))
                           EXCEPT !.effects = @ + 1]
               [] depth > 0 /\ "response_output" \in g.signals[n] -> at
               [] OTHER ->
                    FoldLeft(LAMBDA s, e : IF Barren(g, s, e.to) THEN s ELSE Visit(g, s, e.to, depth + 1),
                             at, Outgoing(g, n))
Walk(g, seed) == Visit(g, [steps |-> <<>>, visited |-> {}, effects |-> 0, known |-> 0], seed, 0)

\* A trace that reaches no effect is kept as an entry point only.
Surface(t) == Len(t.steps) < 2 \/ t.effects = 0
Answered(g, seed, steps) ==
    IF "response_output" \in g.signals[seed] /\ \A s \in ToSet(steps) : s.kind # "response"
    THEN Append(steps, Step(seed, "response", FALSE)) ELSE steps

------------------------------------------------------------------------------
\* rankWorkflow: the tier and the score of a flow.
UserTriggered   == {"http_route", "ui_route", "ui_action", "event_handler"}
PersistentKinds == {"data_write", "async_work", "side_effect"}
StepKinds(steps) == {s.kind : s \in ToSet(steps)}
Persists(steps)  == StepKinds(steps) \cap PersistentKinds # {}
SignsIn(steps)   == \E s \in ToSet(steps) : s.kind = "auth_guard" /\ s.own
Tier(user, surface, steps) ==
    IF surface THEN "surface" ELSE IF user /\ (Persists(steps) \/ SignsIn(steps)) THEN "core" ELSE "supporting"

Points(b, n) == IF b THEN n ELSE 0
Score(ep, user, surface, unknownOnly, steps) ==
    LET routed  == ep.route # "none"
        kinds   == Cardinality(StepKinds(steps) \cap (PersistentKinds \cup {"auth_guard", "data_read"}))
        over    == IF Len(steps) > 8 THEN Len(steps) - 8 ELSE 0
        total   == Points(user, 2500) + Points(Persists(steps), 2500)
                   + (IF SignsIn(steps) THEN 2500 ELSE Points("auth_guard" \in StepKinds(steps), 1500))
                   + 800 * (IF kinds < 4 THEN kinds ELSE 4) + Points(routed, 500)
                   + Points(ep.kind \in {"http_route", "ui_action"}, 300)
                   - (IF over < 10 THEN over * 200 ELSE 2000)
    IN  IF surface THEN Points(routed, 2000) + Points(user, 1000)
        ELSE LET score == IF unknownOnly THEN (total * 6) \div 10 ELSE total
             IN  IF score > 0 THEN score ELSE 0

Ranked(flow, reached) ==
    LET user == flow.ep.kind \in UserTriggered \/ reached
    IN  [flow EXCEPT !.tier  = Tier(user, flow.surface, flow.steps),
                     !.score = Score(flow.ep, user, flow.surface, flow.unknownOnly, flow.steps)]

\* trace: the flow of one handler of one entry point.
Flow(g, ep, seed) ==
    LET t == Walk(g, seed)
    IN  Ranked([key |-> <<ep.file, g.name[seed]>>, ep |-> ep, seed |-> seed,
                steps |-> Answered(g, seed, t.steps), surface |-> Surface(t),
                unknownOnly |-> t.known = 0, tier |-> "none", score |-> 0], FALSE)
Traced(g, eps) ==
    FoldLeft(LAMBDA flows, ep : flows \o [i \in DOMAIN Seeds(g, ep) |-> Flow(g, ep, Seeds(g, ep)[i])], <<>>, eps)

\* One flow for each key, the first.
FirstOfKey(flows) ==
    FoldLeft(LAMBDA kept, f : IF \E k \in ToSet(kept) : k.key = f.key THEN kept ELSE Append(kept, f), <<>>, flows)

Recordable(ep) == /\ ep.kind \notin {"ui_route", "ui_action", "export"}
                  /\ ep.kind = "http_route" => ep.route # "none"
DeadEnds(flows, g) ==
    {<<f.ep.kind, f.ep.route, g.name[f.seed]>> : f \in {x \in ToSet(flows) : x.surface /\ Recordable(x.ep)}}

------------------------------------------------------------------------------
\* handoffContext: which flows a user's flow leads to, through messages.
Publishes(g, f) == UNION {g.publishes[s.node] : s \in ToSet(f.steps)}
Consumers(flows, token) ==
    {f.key : f \in {x \in ToSet(flows) : x.ep.kind \in {"message_consumer", "event_handler"} /\ token \in x.ep.tokens}}
\* A token two consumers answer to says nothing.
HandsTo(g, flows, f) ==
    {k \in {x.key : x \in ToSet(flows)} \ {f.key} :
        \E token \in Publishes(g, f) : Consumers(flows, token) = {k}}

RECURSIVE Reach(_, _, _)
Reach(g, flows, S) ==
    LET next == UNION {HandsTo(g, flows, f) : f \in {x \in ToSet(flows) : x.key \in S}}
    IN  IF next \subseteq S THEN S ELSE Reach(g, flows, S \cup next)
DirectKeys(flows)         == {f.key : f \in {x \in ToSet(flows) : x.ep.kind \in UserTriggered}}
ReachedFromUser(g, flows) == Reach(g, flows, DirectKeys(flows)) \ DirectKeys(flows)

Retiered(g, flows) ==
    LET reached == ReachedFromUser(g, flows)
    IN  [i \in DOMAIN flows |-> Ranked(flows[i], flows[i].key \in reached)]

------------------------------------------------------------------------------
TierRank == [core |-> 0, supporting |-> 1, surface |-> 2]
Above(a, b) ==
    \/ TierRank[a.tier] < TierRank[b.tier]
    \/ a.tier = b.tier /\ a.score > b.score
    \/ a.tier = b.tier /\ a.score = b.score /\ a.ep.route # "none" /\ b.ep.route = "none"
\* A stable sort: what compares equal keeps its order.
Sorted(flows) ==
    LET order == SortSeq([i \in DOMAIN flows |-> i],
                         LAMBDA i, j : Above(flows[i], flows[j]) \/ (~Above(flows[j], flows[i]) /\ i < j))
    IN  [i \in DOMAIN flows |-> flows[order[i]]]

\* suppressNearDuplicates: at least four fifths of its nodes are another's.
NodesOf(f)    == {s.node : s \in ToSet(f.steps)}
Covers(k, f)  == k.tier # "surface" /\ 5 * Cardinality(NodesOf(f) \cap NodesOf(k)) >= 4 * Cardinality(NodesOf(f))
Suppressed(sorted) ==
    FoldLeft(LAMBDA kept, f : IF f.tier # "surface" /\ \E k \in ToSet(kept) : Covers(k, f)
                              THEN kept ELSE Append(kept, f), <<>>, sorted)

Extract(g, eps) == Suppressed(Sorted(Retiered(g, FirstOfKey(Traced(g, eps)))))

------------------------------------------------------------------------------
\* The reserve is for what arrives: a trace keeps every node that a walk of
\* the arriving nodes alone would enter with the reserve and the handler's step.
Arriving(g) == [g EXCEPT !.edges = SelectSeq(@, LAMBDA e : e.to \in EffectReaching(g))]
RECURSIVE Within(_, _, _, _, _)
Within(g, t, n, depth, budget) ==
    IF depth > MaxDepth \/ Len(t.steps) >= budget \/ n \in t.visited \/ n \notin g.nodes THEN t
    ELSE LET seen == [t EXCEPT !.visited = @ \cup {n}]
             at   == IF depth > 0 /\ Noisy(g, n) THEN seen ELSE Push(seen, Step(n, "any", FALSE))
         IN  IF g.type[n] \in {"external", "schema"} \/ (depth > 0 /\ "response_output" \in g.signals[n]) THEN at
             ELSE FoldLeft(LAMBDA s, e : Within(g, s, e.to, depth + 1, budget), at, Outgoing(g, n))
ReserveKept(g, seed) ==
    Within(Arriving(g), [steps |-> <<>>, visited |-> {}], seed, 0, EffectReserve + 1).visited
        \subseteq Walk(g, seed).visited

\* A core flow changes something and a user starts it, through any number of
\* messages; a flow that does both is core, wherever it is in the list.
RECURSIVE StartedBy(_, _, _, _)
StartedBy(g, flows, f, left) ==
    \/ f.ep.kind \in UserTriggered
    \/ left > 0 /\ \E p \in ToSet(flows) : f.key \in HandsTo(g, flows, p) /\ StartedBy(g, flows, p, left - 1)
TiersAreEarned(g, flows, kept) ==
    \A f \in ToSet(kept) : f.tier = "core" <=>
        /\ ~f.surface /\ (Persists(f.steps) \/ SignsIn(f.steps))
        /\ StartedBy(g, flows, f, Len(flows))

\* What the list leaves out is nearly all in a flow that ranks no lower; no
\* two flows of the list are that close; no entry point is left out for it.
NearDuplicatesOnly(flows, kept) ==
    /\ \A f \in ToSet(flows) \ ToSet(kept) :
          f.tier # "surface" /\ \E k \in ToSet(kept) : Covers(k, f) /\ ~Above(f, k)
    /\ \A i, j \in DOMAIN kept : i < j =>
          ~Above(kept[j], kept[i]) /\ (kept[j].tier # "surface" => ~Covers(kept[i], kept[j]))

\* An entry point whose handler leads to nothing is listed and on record.
DeadEndsTold(g, eps, kept) ==
    \A f \in ToSet(kept) : f.surface /\ Recordable(f.ep) =>
        <<f.ep.kind, f.ep.route, g.name[f.seed]>> \in DeadEnds(Traced(g, eps), g)

FlowsCorrect(g, eps) ==
    LET flows == Retiered(g, FirstOfKey(Traced(g, eps)))
        kept  == Extract(g, eps)
    IN  /\ \A i \in DOMAIN eps : \A s \in ToSet(Seeds(g, eps[i])) : ReserveKept(g, s)
        /\ TiersAreEarned(g, flows, kept)
        /\ NearDuplicatesOnly(flows, kept)
        /\ DeadEndsTold(g, eps, kept)
==============================================================================
