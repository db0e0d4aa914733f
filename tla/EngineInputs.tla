---------------------------- MODULE EngineInputs ----------------------------
(* The algorithms of the engine that build the graph and trace flows: each  *)
(* is given every input of a small domain, and what it promises is checked  *)
(* of what it returns.                                                      *)
EXTENDS Inputs, Naturals, Sequences, FiniteSets, TLC

CONSTANTS MaxDepth, MaxSteps, Caps, CheapShare, MaxMembers, MaxWriters

W == INSTANCE Workflows
E == INSTANCE EvidenceGraph
R == INSTANCE Ranking
J == INSTANCE Journeys

------------------------------------------------------------------------------
\* Three files: repeated and self imports, an alias that may be a package, a
\* test, a call to what another file declares, and two classes of one name.
To(paths, name) == [candidates |-> paths, boundary |-> name]
Says == [b |-> To(<<"b.ts">>, "b"), again |-> To(<<"b", "b.ts">>, "b"), self |-> To(<<"a.ts">>, "a"),
         pkg |-> To(<<>>, "react"), sub |-> To(<<"react.ts">>, "react"), a |-> To(<<"a.ts">>, "a")]
Lines(s, order) == LET kept == SelectSeq(order, LAMBDA x : x \in s) IN [i \in DOMAIN kept |-> Says[kept[i]]]

Sym(name, kind, holder, calls, parents) ==
    [name |-> name, kind |-> kind, container |-> holder, calls |-> calls, parents |-> parents,
     methods |-> IF kind = "class" THEN <<[name |-> "run", calls |-> <<<<"c.ts", "check">>>>]>> ELSE <<>>,
     mentions |-> IF name = "check" THEN {"users"} ELSE {}]
SourceInputs == {[a |-> s, c |-> t, twice |-> w, lost |-> l] :
                   s \in SUBSET {"b", "again", "self", "pkg", "sub"}, t \in SUBSET {"a", "pkg"},
                   w \in BOOLEAN, l \in BOOLEAN}
FilesOf(i) ==
    <<[path |-> "a.ts", test |-> FALSE, imports |-> Lines(i.a, <<"b", "again", "self", "pkg", "sub">>),
       symbols |-> <<Sym("Base", "class", "none", <<>>, {}),
                     Sym("serve", "function", IF i.lost THEN "gone" ELSE "none",
                         <<<<"b.ts", "Base", "run">>, <<"c.ts", "check">>, <<"b.ts", "gone">>>>, {})>>],
      [path |-> "b.ts", test |-> FALSE, imports |-> <<>>,
       symbols |-> <<Sym(IF i.twice THEN "Base" ELSE "Other", "class", "none", <<>>, {"Base"})>>],
      [path |-> "c.ts", test |-> TRUE, imports |-> Lines(i.c, <<"a", "pkg">>),
       symbols |-> <<Sym("check", "function", "none", <<<<"a.ts", "serve">>>>, {}),
                     Sym("Child", "class", "none", <<>>, {"Base"}), Sym("Child", "interface", "none", <<>>, {})>>]>>
Routes == {[file |-> "a.ts", symbol |-> <<"a.ts", "serve">>], [file |-> "a.ts", symbol |-> <<"a.ts", "gone">>]}

------------------------------------------------------------------------------
\* A route, an action, a page that is a guess, and two consumers; an inert branch before
\* the one that writes, and messages from one flow to the next.
FlowNodes == {"f", "h", "v", "u", "p", "k", "j", "c", "m", "s", "users", "express"}
FlowBase(fx, hx) ==
    [nodes |-> FlowNodes,
     type |-> [n \in FlowNodes |-> CASE n = "f" -> "module" [] n = "c" -> "class" [] n = "m" -> "method"
                                     [] n = "users" -> "schema" [] n = "express" -> "external"
                                     [] n = "s" -> "type" [] OTHER -> "function"],
     name |-> [n \in FlowNodes |-> n], file |-> [n \in FlowNodes |-> "f"],
     class |-> [n \in FlowNodes |-> IF n = "m" THEN "c" ELSE "none"],
     line |-> [n \in FlowNodes |-> IF n = "m" THEN 1 ELSE IF n = "h" THEN 2 ELSE 3],
     words |-> [n \in FlowNodes |-> IF n = "v" THEN {"valid"} ELSE IF n = "k" THEN {"noise"} ELSE {}],
     signals |-> [n \in FlowNodes |-> IF n = "h" THEN {"response_output"} \cap hx ELSE {}],
     effects |-> [n \in FlowNodes |-> CASE n = "p" -> fx [] n = "h" -> hx \ {"response_output"}
                                        [] n = "c" -> {"unknown_external"}
                                        [] n = "j" -> {"external_service"} [] OTHER -> {}],
     publishes |-> [n \in FlowNodes |-> CASE n = "p" -> {"first"} [] n = "k" -> {"second"} [] OTHER -> {}],
     exports |-> [n \in FlowNodes |-> IF n = "f" THEN 2 ELSE IF n \in {"h", "s", "u"} THEN 1 ELSE 0],
     test |-> [n \in FlowNodes |-> FALSE], routePath |-> [n \in FlowNodes |-> FALSE],
     commits |-> [n \in FlowNodes |-> 1]]

Edge(a, b, t) == [from |-> a, to |-> b, type |-> t]
FlowEdges == <<Edge("h", "v", "calls"), Edge("v", "u", "calls"), Edge("u", "express", "calls"),
               Edge("v", "p", "calls"), Edge("h", "p", "calls"), Edge("p", "users", "touches_schema"),
               Edge("k", "p", "enqueues_job"), Edge("m", "p", "calls")>>
Holding   == <<Edge("j", "users", "touches_schema"), Edge("f", "h", "contains"), Edge("f", "c", "contains"), Edge("c", "m", "contains"),
               Edge("h", "s", "imports"), Edge("v", "s", "imports"),
               Edge("h", "u", "imports"), Edge("v", "u", "imports"), Edge("m", "u", "imports")>>

Point(kind, symbol, route, tokens) ==
    [file |-> "f", kind |-> kind, symbol |-> symbol, route |-> route, tokens |-> tokens]
FlowPoints(both) ==
    <<Point("http_route", "h", "get", {}), Point("ui_action", "v", "none", {}),
      Point("message_consumer", "j", "queue", IF both THEN {"first", "second"} ELSE {"second"}),
      Point("ui_route", "none", "none", {}), Point("message_consumer", "k", "queue", {"first"})>>

FlowInputs == {[keep |-> s, fx |-> fx, hx |-> hx, both |-> b] :
                 s \in SUBSET DOMAIN FlowEdges, fx \in {{}, {"database_write"}},
                 hx \in {{}, {"auth_call", "response_output"}}, b \in BOOLEAN}
FlowsOf(i) ==
    LET g == FlowBase(i.fx, i.hx)
        kept == SelectSeq([k \in DOMAIN FlowEdges |-> k], LAMBDA k : k \in i.keep)
    IN  [x \in DOMAIN g \cup {"edges"} |->
           IF x = "edges" THEN Holding \o [k \in DOMAIN kept |-> FlowEdges[kept[k]]] ELSE g[x]]

------------------------------------------------------------------------------
\* A sign-up that mints an identity, two routes that open on a guard, a way
\* out and back, what several flows write, and queues with one reader or two.
Hooks == {"mints", "renews", "guards", "mail", "relay", "twins", "leaves", "writes", "shares"}
JourneyInputs == [on : SUBSET Hooks, first : BOOLEAN]
JourneyOf(i) ==
    LET On(hook, S) == IF hook \in i.on THEN S ELSE {}
        Mail(file, score) == [token |-> "mail", file |-> file, score |-> score]
        Flow(key, kind, file, importance) ==
            [key |-> key, kind |-> kind, file |-> file, files |-> {file}, importance |-> importance,
             tokens |-> {}, publishes |-> {}, path |-> "none", byId |-> FALSE, surface |-> "none",
             readsQuery |-> FALSE, redirects |-> FALSE, issues |-> <<>>, guards |-> {}, writes |-> {}, touches |-> {}]
        enter == [Flow("enter", "http_route", "auth", 3) EXCEPT
                    !.issues = [t \in On("mints", {"user"}) \cup On("renews", {"user"}) |-> IF "mints" \in i.on THEN 2 ELSE 1],
                    !.redirects = "leaves" \in i.on, !.surface = "users", !.writes = On("writes", {"order"})]
        order == [Flow("order", "http_route", "shop", 2) EXCEPT !.byId = TRUE, !.surface = "users",
                    !.guards = On("guards", {"user"}), !.touches = {"order"},
                    !.publishes = On("mail", {Mail("shop", 9), Mail("post", 5)})]
        back  == [Flow("back", "http_route", "auth", 2) EXCEPT !.path = "/back", !.readsQuery = TRUE,
                    !.files = IF i.first THEN {"auth"} ELSE {"oauth"}, !.guards = On("guards", {"user"}),
                    !.writes = On("shares", {"order"})]
        post  == [Flow("post", "message_consumer", "post", 1) EXCEPT !.tokens = {"mail"}, !.writes = On("shares", {"order"})]
        copy  == [Flow("copy", "event_handler", "copy", 1) EXCEPT
                    !.tokens = On("twins", {"mail"}) \cup On("relay", {"seen"}), !.writes = On("shares", {"bill"})]
        bill  == [Flow("bill", "http_route", "shop", 3) EXCEPT !.byId = TRUE, !.touches = On("shares", {"order", "bill"})]
    IN  [flows |-> IF i.first THEN <<enter, order, back, post, copy, bill>> ELSE <<copy, post, back, order, bill, enter>>,
         filePublishes |-> [f \in {"post", "copy"} |->
            IF f = "post" THEN On("relay", {[token |-> "seen", file |-> "post", score |-> 7]}) ELSE {}],
         quotes |-> [f \in {"auth", "oauth", "shop", "post", "copy"} |-> IF f = "auth" THEN {"/back"} ELSE {}]]

------------------------------------------------------------------------------
Init == /\ done = FALSE
        /\ \/ task = "graph" /\ in \in SourceInputs
           \/ task = "flows" /\ in \in FlowInputs
           \/ task = "journeys" /\ in \in JourneyInputs

BuildGraph == Judge("graph")
ListFlows  == Judge("flows")
Compose    == Judge("journeys")
Next       == BuildGraph \/ ListFlows \/ Compose

------------------------------------------------------------------------------
\* The graph of a snapshot says of a file what it stores, guesses nothing and
\* does not depend on the order of the files.
GraphCorrect == task = "graph" /\ done =>
    LET g == E!Build(FilesOf(in), Routes, {"users"})
    IN  /\ E!CountsAgree(FilesOf(in), g) /\ E!NothingGuessed(FilesOf(in), g)
        /\ E!OrderFree(FilesOf(in), Routes, {"users"})

\* The flows of a snapshot: the reserve is kept for what arrives at an
\* effect, a tier is earned, and only near duplicates are left out.
FlowsCorrect == task = "flows" /\ done => W!FlowsCorrect(FlowsOf(in), FlowPoints(in.both))

\* What a run reads first: no target is put before one that does more, a
\* score is a share of what can be earned, and a deeper run asks about no less.
RankingCorrect == task = "flows" /\ done =>
    LET g     == FlowsOf(in)
        flows == W!Extract(g, FlowPoints(in.both))
        facts == [n \in FlowNodes |-> R!FactsOf(g, FlowPoints(in.both), flows, n)]
    IN  /\ R!NeverWorse(g, facts) /\ R!WithinScale(g, facts, flows)
        /\ R!GateHonest(g, FlowPoints(in.both), facts, flows)

\* The journeys of a snapshot: a flow is told once, in one place; a boundary is
\* one the code shows; the longest is told whole.
JourneysCorrect == task = "journeys" /\ done => J!JourneysCorrect(JourneyOf(in))
==============================================================================
