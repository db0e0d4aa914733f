-------------------------------- MODULE Journeys --------------------------------
(***************************************************************************)
(* composeJourneysDetailed: the flows of a snapshot joined into journeys   *)
(* where one provably continues into the other.                            *)
(*                                                                         *)
(* A flow has a key, the kind and the file of its entry point, the files   *)
(* its trace touched, its importance; the tokens its registration answers  *)
(* to and those it publishes, each with the file that does and how direct  *)
(* the evidence is; the literal part of its route ("none" when too short), *)
(* whether the route names an identity, and its first segment; whether it  *)
(* reads the query and whether it sends the browser elsewhere; the         *)
(* identities it issues (1 when it renews, 2 when it mints) and those its  *)
(* opening guard consults; and the targets it writes and those it touches. *)
(* A snapshot s has flows, the tokens published anywhere in a file, and    *)
(* the paths written as literals in a file.  Titles and steps are left     *)
(* out; a low keys' order stands for the order of their names.             *)
(***************************************************************************)
EXTENDS Naturals, Sequences, FiniteSets, FiniteSetsExt, SequencesExt

CONSTANTS MaxMembers, MaxWriters

Flows(s)  == ToSet(s.flows)
Order(s, f) == CHOOSE i \in DOMAIN s.flows : s.flows[i] = f
Consumer(f) == f.kind \in {"message_consumer", "event_handler"}

ConfidenceRank == [high |-> 0, medium |-> 1, low |-> 2]
KindRank == [async_token |-> 0, external_roundtrip |-> 1, capability_unlock |-> 2, resource_lifecycle |-> 3]
Rank(e)  == 1000 + ConfidenceRank[e.confidence] * 100 + KindRank[e.kind] * 10 - e.score
Link(a, b, kind, token, confidence, score) ==
    [from |-> a.key, to |-> b.key, kind |-> kind, token |-> token, confidence |-> confidence, score |-> score]

\* The best of the candidates by importance, then by name.
Preferred(s, S, first) ==
    CHOOSE f \in S : \A x \in S \ {f} :
        \/ first[f] > first[x]
        \/ first[f] = first[x] /\ (f.importance > x.importance
                                   \/ (f.importance = x.importance /\ Order(s, f) < Order(s, x)))

\* A token that one consumer alone answers to.  The file of a consumer speaks
\* for it, since its trace may stop before it publishes.
Consumers(s, token) == {f \in Flows(s) : Consumer(f) /\ token \in f.tokens}
Published(s, f) ==
    LET said == f.publishes \cup IF Consumer(f) THEN s.filePublishes[f.file] ELSE {}
    IN  {p \in said : \A q \in said : q.token = p.token => q.score <= p.score}
AsyncEdges(s) ==
    UNION {{Link(f, c, "async_token", p.token, IF p.file = c.file THEN "medium" ELSE "high", p.score) :
              p \in {x \in Published(s, f) : Consumers(s, x.token) = {c}}}
             : <<f, c>> \in {x \in Flows(s) \X Flows(s) : x[1] # x[2]}}
Ambiguous(s) == {t \in UNION {f.tokens : f \in {x \in Flows(s) : Consumer(x)}} : Cardinality(Consumers(s, t)) > 1}

\* Control leaves for elsewhere and comes back to a route whose path one of
\* the flow's files writes, other than the route's own.
Returns(s) == {f \in Flows(s) : f.kind \in {"http_route", "ui_route"} /\ f.path # "none" /\ f.readsQuery}
RoundtripEdges(s) ==
    {Link(x[1], x[2], "external_roundtrip", "none", "medium", 8) :
       x \in {y \in Flows(s) \X Returns(s) :
                /\ y[1] # y[2] /\ y[1].redirects
                /\ \E file \in y[1].files \ y[2].files : y[2].path \in s.quotes[file]}}

\* One that issues credentials unlocks the strongest flow that opens with a
\* guard over the same identity, and no other.
UnlockEdges(s) ==
    UNION {LET guarded == {g \in Flows(s) \ {f} : g.guards \cap DOMAIN f.issues # {}}
               winner  == Preferred(s, guarded, [g \in guarded |-> 0])
               shared  == CHOOSE t \in winner.guards : t \in DOMAIN f.issues
           IN  IF guarded = {} THEN {}
               ELSE {Link(f, winner, "capability_unlock", "none", "medium",
                          (IF f.issues[shared] = 2 THEN 4 ELSE 0) + (IF Cardinality(guarded) = 1 THEN 2 ELSE 1))}
             : f \in Flows(s)}

\* A flow that makes a thing, and the one that addresses it by its identity.
\* What too many flows write identifies nothing.
Writers(s, t) == {f \in Flows(s) : t \in f.writes}
LifecycleEdges(s) ==
    UNION {LET ops    == {g \in Flows(s) \ {x[1]} : g.byId /\ x[2] \in g.writes \cup g.touches}
               same   == [g \in ops |-> IF g.surface = x[1].surface /\ g.surface # "none" THEN 1 ELSE 0]
               winner == Preferred(s, ops, same)
           IN  IF ops = {} \/ Cardinality(Writers(s, x[2])) > MaxWriters THEN {}
               ELSE {Link(x[1], winner, "resource_lifecycle", "none",
                          IF Cardinality(Writers(s, x[2])) = 1 THEN "medium" ELSE "low", same[winner])}
             : x \in UNION {{<<f, t>> : t \in f.writes} : f \in {g \in Flows(s) : ~g.byId}}}

\* One edge for each ordered pair, the strongest.
Edges(s) ==
    LET all == AsyncEdges(s) \cup RoundtripEdges(s) \cup UnlockEdges(s) \cup LifecycleEdges(s)
        pairs == {<<e.from, e.to>> : e \in all}
    IN  {CHOOSE e \in all : <<e.from, e.to>> = p /\ \A x \in all : <<x.from, x.to>> = p => Rank(e) <= Rank(x)
           : p \in pairs}

------------------------------------------------------------------------------
\* The bug of a weak boundary told as any other.
AdmissibleAlways(e, chain) == TRUE

\* assembleChains.  A low edge only extends a chain that crossed a high one.
Admissible(e, chain) == e.confidence = "low" => \E i \in DOMAIN chain : chain[i].confidence = "high"
Outgoing(es, k)  == {e \in es : e.from = k}
Heads(s, es)     == {f \in Flows(s) : Outgoing(es, f.key) # {} /\ \A e \in es : e.to # f.key}
KeyOrder(s, k)   == CHOOSE i \in DOMAIN s.flows : s.flows[i].key = k
Strongest(s, S)  == CHOOSE e \in S : \A x \in S \ {e} :
                        Rank(e) < Rank(x) \/ (Rank(e) = Rank(x) /\ KeyOrder(s, e.to) <= KeyOrder(s, x.to))

Members(walk) == {walk.head} \cup {walk.chain[i].to : i \in DOMAIN walk.chain}
End(walk)     == IF walk.chain = <<>> THEN walk.head ELSE walk.chain[Len(walk.chain)].to
RECURSIVE Walk(_, _, _, _)
Walk(s, es, walk, claimed) ==
    LET next == {e \in Outgoing(es, End(walk)) : e.to \notin Members(walk) \cup claimed /\ Admissible(e, walk.chain)}
    IN  IF Len(walk.chain) + 1 >= MaxMembers \/ next = {} THEN walk
        ELSE Walk(s, es, [walk EXCEPT !.chain = Append(@, Strongest(s, next))], claimed)
From(s, es, k, claimed) == Walk(s, es, [head |-> k, chain |-> <<>>], claimed)

\* The longest chain is taken first; what it claims is not taken again.
Before(s, a, b) ==
    LET fa == s.flows[KeyOrder(s, a.head)]  fb == s.flows[KeyOrder(s, b.head)]
        ka == <<1000 - Len(a.chain), Rank(a.chain[1]), 1000 - fa.importance, KeyOrder(s, a.head)>>
        kb == <<1000 - Len(b.chain), Rank(b.chain[1]), 1000 - fb.importance, KeyOrder(s, b.head)>>
    IN  \E i \in 1 .. 4 : ka[i] < kb[i] /\ \A j \in 1 .. i - 1 : ka[j] = kb[j]
Planned(s, es) == {w \in {From(s, es, f.key, {}) : f \in Heads(s, es)} : w.chain # <<>>}

RECURSIVE Assemble(_, _, _, _)
Assemble(s, es, plans, journeys) ==
    IF plans = {} THEN journeys
    ELSE LET plan    == CHOOSE p \in plans : \A q \in plans \ {p} : Before(s, p, q)
             claimed == UNION {Members(j) : j \in journeys}
             walk    == From(s, es, plan.head, claimed)
         IN  Assemble(s, es, plans \ {plan},
                      IF plan.head \in claimed \/ walk.chain = <<>> THEN journeys ELSE journeys \cup {walk})
Journeys(s, es) == Assemble(s, es, Planned(s, es), {})

\* The other flows that cross the first boundary of a journey.
AlternateEntries(es, j) ==
    LET first == j.chain[1]
    IN  {e.from : e \in {x \in es : x.to = first.to /\ x.from # first.from /\ x.kind = first.kind /\ x.token = first.token}}

------------------------------------------------------------------------------
\* A flow is in one place, once: no journey claims what another has, none goes
\* in a circle, and none is longer than a story.
OnePlace(es, js) ==
    /\ \A j \in js : Cardinality(Members(j)) = Len(j.chain) + 1 /\ Len(j.chain) \in 1 .. MaxMembers - 1
    /\ \A i, j \in js : i # j => Members(i) \cap Members(j) = {}

\* Every boundary is one the code shows: it is between two traced flows, a
\* token has one consumer, and what is weak only follows what is strong.
BoundariesReal(s, es, js) ==
    \A j \in js : \A i \in DOMAIN j.chain :
        /\ j.chain[i] \in es /\ j.chain[i].from = (IF i = 1 THEN j.head ELSE j.chain[i - 1].to)
        /\ j.chain[i].kind = "async_token" => j.chain[i].token \notin Ambiguous(s)
        /\ j.chain[i].confidence = "low" => \E k \in 1 .. i - 1 : j.chain[k].confidence = "high"

\* The longest chain is told whole, and a head that leads somewhere is in a
\* journey unless what it leads to is in one already.
NothingSplit(s, es, js) ==
    /\ \A p \in Planned(s, es) : (\A q \in Planned(s, es) \ {p} : Before(s, p, q)) => p \in js
    /\ \A p \in Planned(s, es) :
          LET told == UNION {Members(j) : j \in js}
          IN  p.head \in told \/ \A e \in Outgoing(es, p.head) : Admissible(e, <<>>) => e.to \in told

JourneysCorrect(s) ==
    LET es == Edges(s)  js == Journeys(s, es)
    IN  OnePlace(es, js) /\ BoundariesReal(s, es, js) /\ NothingSplit(s, es, js)
==============================================================================
