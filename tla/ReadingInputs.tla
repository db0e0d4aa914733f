---------------------------- MODULE ReadingInputs ----------------------------
(* What a package tells its reader how to do, and in which order: each of   *)
(* its algorithms is given every input of a small domain.  A behaviour is   *)
(* one input of one of them.                                                *)
EXTENDS Inputs, Integers, Sequences, FiniteSets

CONSTANTS PhaseBudget, MaxVisible, MaxFolded, WindowLines, WindowMax

P == INSTANCE Procedures
K == INSTANCE Walkthroughs
T == INSTANCE TutorialSet

Kept(S, s) == SelectSeq(s, LAMBDA x : x \in S)

------------------------------------------------------------------------------
\* A datastore, an interface and a page, with more ports than a guide opens,
\* two templates and one that only some service reads.
Service(name, ports, waits) ==
    [name |-> name, ports |-> ports, datastore |-> name = "db", context |-> name,
     envFiles |-> IF name = "api" THEN {"api.env", "extra.env"} ELSE {}, dependsOn |-> waits]
Stacks == {<<>>, <<Service("db", <<"5432">>, <<>>)>>}
          \cup {<<Service("web", web, onApi), Service("api", <<"1", "2", "3">>, onDb), Service("db", <<"5432">>, back)>> :
                  web \in {<<>>, <<"3", "4">>}, onApi \in {<<>>, <<"api">>, <<"api", "db">>},
                  onDb \in {<<>>, <<"db">>}, back \in {<<>>, <<"web">>}}
StackInputs == {[services |-> s, testCompose |-> compose, manifests |-> m, templates |-> t, guards |-> g, pipeline |-> p] :
                  s \in Stacks, compose \in BOOLEAN, p \in BOOLEAN, g \in {0, 1, 4},
                  m \in {<<>>, <<{"start"}, {"start", "test"}>>},
                  t \in {<<>>, <<"api.env", "web.env", "extra.env">>}}

\* Flows of up to six steps: which are effects, which can be marked, which
\* cross to another process, and whether by a queue.
Crossed(i, c) == CASE i \notin c -> "none" [] i \in c /\ i = 4 -> "separate" [] OTHER -> "queue"
FlowOf(i) ==
    [tier |-> "core", trigger |-> i.how, route |-> IF i.how = "call" THEN "none" ELSE "param", dir |-> "api",
     covered |-> TRUE,
     steps |-> [k \in 1 .. i.n |-> [kind |-> IF k \in i.effects THEN "data_write" ELSE "call",
                                    markable |-> k \notin i.hidden, member |-> "none", boundary |-> Crossed(k, i.crossed)]]]
EnvOf(i) == [start |-> i.start, test |-> "script", templates |-> <<>>,
             ports |-> <<[port |-> "5432", service |-> "db", http |-> FALSE, context |-> "db"]>>]
WatchInputs == [n : {3, 6}, effects : SUBSET {1, 3, 5}, hidden : SUBSET {1, 5}, crossed : SUBSET (2 .. 5),
                how : {"http", "page", "call"}, start : {"compose", "script"}]

------------------------------------------------------------------------------
\* A journey of three: each with its own trace, long or short, or without;
\* two of them share a place on the spine.
Card(at, kind, member, crossing) ==
    [at |-> at, kind |-> kind, effects |-> {}, member |-> member, boundary |-> crossing,
     synthetic |-> kind = "response", markable |-> TRUE]
Traces(m) == {<<>>, <<Card("shared", "trigger", m, "none")>>,
              <<Card(m, "trigger", m, "none"), Card("x", "call", m, "none"), Card("w", "data_write", m, "none"),
                Card("x", "data_read", m, "none"), Card("y", "data_write", m, "none"), Card("z", "call", m, "none"),
                Card("u", "response", m, "none")>>}
Spine == <<Card("a", "trigger", "a", "none"), Card("w", "data_write", "a", "queue"),
           Card("b", "trigger", "b", "none"), Card("w", "data_write", "b", "none"), Card("c", "call", "c", "none")>>
Set(how, steps) == [tier |-> "core", trigger |-> how, route |-> "plain", dir |-> "api", covered |-> FALSE, steps |-> steps]
JourneyReadings ==
    {[flow |-> Set(how, <<>>), steps |-> Kept({s \in {Spine[k] : k \in DOMAIN Spine} : s.member \notin lost}, Spine),
      members |-> <<"a", "b", "c">>, crossings |-> c, own |-> [a |-> a, b |-> b, c |-> last]] :
        how \in {"http", "call"}, lost \in {{}, {"b"}, {"c"}, {"a", "b", "c"}},
        c \in UNION {[S -> {"queue", "separate"}] : S \in SUBSET {1, 2}},
        a \in Traces("a"), b \in Traces("b"), last \in Traces("c")}
FlowReadings ==
    {[flow |-> Set("http", <<>>), steps |-> s, members |-> <<>>, crossings |-> <<>>, own |-> <<>>] : s \in Traces("a")}
ReadingEnv == [start |-> "compose", test |-> "none", templates |-> <<>>, ports |-> <<>>]

\* What a card may show: effects in any order, a call, a token, or nothing.
Ranges == {<<2, 3>>, <<6, 6>>, <<9, 12>>, K!NotFound}
CardInputs == {[effects |-> e, call |-> call, token |-> token, named |-> named, total |-> 12, lineEnd |-> end] :
                 e \in {<<>>} \cup {<<x>> : x \in Ranges} \cup {<<x, y>> : x \in Ranges, y \in Ranges},
                 call \in {K!NotFound, <<6, 6>>, <<12, 12>>}, token \in {K!NotFound, <<1, 1>>, <<8, 8>>},
                 named \in BOOLEAN, end \in {4, 11, 12}}
              \cup {[effects |-> <<>>, call |-> <<2, 2>>, token |-> K!NotFound, named |-> TRUE, total |-> 3, lineEnd |-> 3]}

\* The same call seen from one, two and three ranges, in a product file, in a
\* test and in the handler's own.
Sites == <<[file |-> "t", from |-> 1, to |-> 9, test |-> TRUE], [file |-> "p", from |-> 1, to |-> 9, test |-> FALSE],
           [file |-> "p", from |-> 2, to |-> 4, test |-> FALSE], [file |-> "h", from |-> 1, to |-> 2, test |-> FALSE],
           [file |-> "p", from |-> 6, to |-> 6, test |-> FALSE], [file |-> "t", from |-> 3, to |-> 3, test |-> TRUE],
           [file |-> "q", from |-> 2, to |-> 8, test |-> FALSE]>>
SiteInputs == SUBSET DOMAIN Sites
SitesOf(S) == LET kept == Kept(S, [i \in DOMAIN Sites |-> i]) IN [k \in DOMAIN kept |-> Sites[kept[k]]]

------------------------------------------------------------------------------
\* Flows of every standing: a supporting one with every signal, a core one
\* with none, readers of one family, guides, and what cannot be built.
Row(tier, config, family, builds, signal) ==
    [tier |-> tier, config |-> config, builds |-> builds, family |-> family, capability |-> signal, crosses |-> signal,
     projection |-> IF signal THEN 100 ELSE 0, view |-> IF signal THEN 100 ELSE 0, effects |-> IF signal THEN 9 ELSE 0,
     lit |-> IF signal THEN 100 ELSE 0, importance |-> IF signal THEN 400 ELSE 0]
RowKinds == {Row("supporting", "none", "write", TRUE, TRUE), Row("core", "none", "read_route", TRUE, FALSE),
             Row("core", "none", "read_route", TRUE, TRUE), Row("core", "none", "write", TRUE, FALSE),
             Row("core", "compose_up", "write", TRUE, FALSE), Row("supporting", "tests", "write", TRUE, FALSE),
             Row("core", "none", "write", FALSE, TRUE), Row("surface", "none", "ui", TRUE, TRUE)}
RowInputs == {[rows |-> rows, max |-> max] : rows \in [1 .. 4 -> RowKinds], max \in {1, 3}}

------------------------------------------------------------------------------
Init == /\ done = FALSE
        /\ \/ task = "stack" /\ in \in StackInputs
           \/ task = "watch" /\ in \in WatchInputs
           \/ task = "reading" /\ in \in JourneyReadings \cup FlowReadings
           \/ task = "card" /\ in \in CardInputs
           \/ task = "emitters" /\ in \in SiteInputs
           \/ task = "tutorials" /\ in \in RowInputs


GuideStack == Judge("stack")
GuideWatch == Judge("watch")
Compose == Judge("reading") \/ Judge("card") \/ Judge("emitters")
Choose == Judge("tutorials")
Next == GuideStack \/ GuideWatch \/ Compose \/ Choose

------------------------------------------------------------------------------
\* A guide leaves nothing running or changed behind it, marks a line its one
\* trigger reaches, and tells of what it leaves out.
GuidesCorrect ==
    /\ task = "stack" /\ done => P!StackGuide(in) /\ P!LeavesNothing(P!RunTests(in))
    /\ task = "watch" /\ done => P!WatchGuide(FlowOf(in), EnvOf(in))

\* A reading goes from its first card to its last over every leg that was
\* traced; what a card lights up is on screen; nobody is named twice.
ReadingsCorrect ==
    /\ task = "reading" /\ done => K!ReadingKept(in, ReadingEnv)
    /\ task = "card" /\ done => K!CardKept(in)
    /\ task = "emitters" /\ done => K!EmittersKept(SitesOf(in), "h")

\* Every flow is a tutorial or has a reason why not; no signal makes up for a
\* tier, and no family that only reads crowds the others out.
ChoiceCorrect == task = "tutorials" /\ done =>
    T!ChoiceKept(in.rows, in.max)
==============================================================================
