------------------------------ MODULE MapLevels ------------------------------
(* The map of a snapshot and the levels of its graph, drawn: each is given  *)
(* every input of a small domain, and what it promises is checked of what   *)
(* it returns.                                                              *)
EXTENDS Inputs, Naturals, Sequences, FiniteSets

CONSTANT MaxNodes   \* MAX_GRAPH_NODES
ASSUME LevelsAssumption == MaxNodes \in Nat

Arch == INSTANCE Architecture
View == INSTANCE GraphLevels

------------------------------------------------------------------------------
\* Two packages whose directories have the same name, a root with scripts and
\* configuration, and a migration that declares one table.
MapNodes == {"srv", "run", "web", "lib", "serve", "draw", "env", "mig", "users", "express", "fs"}
MapBase ==
    [nodes |-> MapNodes,
     type |-> [n \in MapNodes |-> CASE n \in {"srv", "run", "web", "lib"} -> "module"
                                    [] n \in {"serve", "draw"} -> "function"
                                    [] n \in {"env", "mig"} -> "config"
                                    [] n = "users" -> "schema" [] OTHER -> "external"],
     path |-> [n \in MapNodes |-> CASE n = "serve" -> "srv" [] n = "draw" -> "web"
                                    [] n = "users" -> "mig" [] OTHER -> n],
     scope |-> [n \in MapNodes |-> CASE n = "web" -> "apps/ui" [] n = "lib" -> "libs/ui" [] OTHER -> ""],
     rule |-> [n \in MapNodes |-> IF n = "run" THEN "Config" ELSE "none"],
     jsx |-> [n \in MapNodes |-> n = "web"],
     dirs |-> [n \in MapNodes |-> CASE n = "srv" -> <<"src">> [] n = "run" -> <<"scripts">>
                                    [] n = "web" -> <<"apps", "ui">> [] n = "lib" -> <<"libs", "ui">>
                                    [] n = "mig" -> <<"db">> [] OTHER -> <<>>],
     area |-> [s \in {"", "apps/ui", "libs/ui"} |-> IF s = "" THEN "" ELSE "Ui"],
     manifest |-> [s \in {"", "apps/ui", "libs/ui"} |-> IF s = "" THEN {"express", "react"} ELSE {}],
     third |-> [n \in MapNodes |-> n = "express"],
     package |-> [n \in MapNodes |-> n]]

Edge(a, b, t) == [from |-> a, to |-> b, type |-> t]
MapEdges == {Edge("srv", "web", "imports"), Edge("srv", "lib", "imports"), Edge("web", "srv", "imports"),
             Edge("serve", "draw", "calls"), Edge("serve", "users", "touches_schema"),
             Edge("srv", "express", "references_external"), Edge("run", "express", "references_external"),
             Edge("lib", "fs", "references_external"), Edge("run", "srv", "imports")}
MapFlows == {<<>>, [f \in {"login"} |-> <<"serve", "draw">>],
             [f \in {"login", "sign"} |-> IF f = "login" THEN <<"draw", "serve">> ELSE <<"serve", "users">>]}

MapInputs == {[flows |-> f, edges |-> es] : es \in SUBSET MapEdges, f \in MapFlows}
MapOf(i)  == [x \in DOMAIN MapBase \cup {"edges", "flows"} |->
                IF x \in {"edges", "flows"} THEN i[x] ELSE MapBase[x]]

------------------------------------------------------------------------------
\* Files at four depths, one directory inside another.
ViewPath == [r |-> <<"r.ts">>, i |-> <<"b", "i.ts">>, a |-> <<"b", "s", "a.ts">>,
             c |-> <<"b", "s", "c.ts">>, d |-> <<"b", "t", "d.ts">>, e |-> <<"f", "p", "e.ts">>]
ViewEdges == {Edge("r", "i", "imports"), Edge("a", "c", "imports"), Edge("c", "a", "tests"),
              Edge("d", "a", "imports"), Edge("i", "d", "imports"), Edge("e", "a", "imports")}
Asked == {View!Root, View!Here, <<"b">>, <<"b", "s">>, <<"f", "p">>}

LevelInputs == {[items |-> s, edges |-> es, at |-> at] :
                  s \in {DOMAIN ViewPath, DOMAIN ViewPath \ {"i"}, DOMAIN ViewPath \ {"e", "r"}},
                  es \in SUBSET ViewEdges, at \in Asked}
ViewOf(i) == [items |-> i.items, path |-> ViewPath,
              edges |-> {x \in i.edges : x.from \in i.items /\ x.to \in i.items}]

------------------------------------------------------------------------------
DrawInit == /\ done = FALSE
            /\ \/ task = "map" /\ in \in MapInputs
               \/ task \in {"dependencies", "classes"} /\ in \in LevelInputs
DrawMap   == Judge("map")
DrawLevel == Judge("dependencies") \/ Judge("classes")
DrawNext  == DrawMap \/ DrawLevel
DrawSpec  == DrawInit /\ [][DrawNext]_inputVars

\* The map of a snapshot counts every link once, and the stored summary of a
\* component and the one read from the rows say the same; a level of the graph
\* hides nothing it does not tell of, its header agrees with its canvas, and a
\* group opens on what it counts.
MapCorrect ==
    /\ task = "map" /\ done => Arch!WeightsAddUp(MapOf(in)) /\ Arch!NarrativesAgree(MapOf(in))
    /\ task = "dependencies" /\ done =>
         \A level \in View!Dependencies(ViewOf(in), in.at) : View!LevelHonest(ViewOf(in), in.at, level)
    /\ task = "classes" /\ done =>
         \A level \in View!Classes(ViewOf(in), in.at) : View!LevelHonest(ViewOf(in), in.at, level)
==============================================================================
