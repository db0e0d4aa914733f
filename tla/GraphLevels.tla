----------------------------- MODULE GraphLevels -----------------------------
(***************************************************************************)
(* The Dependencies and the Classes views: a level of the graph, drawn as  *)
(* groups of directories, as files, or as both, never more than MaxNodes   *)
(* of them, with the numbers the header prints about it.                   *)
(*                                                                         *)
(* A view v has items (files, or classes and interfaces), path[i] (the     *)
(* segments of the path an item is in, the name of the file last) and      *)
(* edges between items, records [from, to, type].  The order among equals  *)
(* is by name; here any of the equals may be the ones that stay.           *)
(***************************************************************************)
EXTENDS Naturals, Sequences, FiniteSets, FiniteSetsExt, SequencesExt

CONSTANT MaxNodes   \* MAX_GRAPH_NODES

Root == <<"/">>     \* no group asked for
Here == <<>>        \* the group of the files at the root of the repository

\* importCount of a file, as the graph builder stored it.
ImportCount(v, i) == Cardinality({e \in v.edges : e.from = i /\ e.type = "imports"})
ImportedBy(v, i)  == Cardinality({e \in v.edges : e.to = i /\ e.type = "imports"})
Degree(v, S, i)   == Cardinality({e \in v.edges : e.from = i /\ e.to \in S})
                     + Cardinality({e \in v.edges : e.to = i /\ e.from \in S})

\* A bug: only the first directory of the path asked for is compared.
CoveredFirst(v, at) ==
    CASE at = Root -> v.items
      [] at = Here -> {i \in v.items : Len(v.path[i]) = 1}
      [] OTHER     -> {i \in v.items : Len(v.path[i]) > 1 /\ v.path[i][1] = at[1]}

\* The items a level covers: all of them, or those under the path asked for.
Covered(v, at) ==
    CASE at = Root -> v.items
      [] at = Here -> {i \in v.items : Len(v.path[i]) = 1}
      [] OTHER     -> {i \in v.items : IsPrefix(at, v.path[i])}

Links(v, S) == {e \in v.edges : e.from \in S /\ e.to \in S}

\* The n of S that rank highest, in every way ties can be broken.
Survivors(S, rank, n) ==
    {K \in SUBSET S : /\ Cardinality(K) = (IF Cardinality(S) < n THEN Cardinality(S) ELSE n)
                      /\ \A a \in K, b \in S \ K : rank[a] >= rank[b]}

\* What stands for each item of a level: its group, or itself.
Group(dir) == [group |-> TRUE, at |-> dir]
Single(i)  == [group |-> FALSE, at |-> <<i>>]
Nodes(S, standsFor)       == {standsFor[i] : i \in S}
Holds(S, standsFor, node) == {i \in S : standsFor[i] = node}
GroupImports(v, S, standsFor, node) ==
    MapThenSumSet(LAMBDA i : ImportCount(v, i), Holds(S, standsFor, node))

\* The first level: the directories two deep.
RootDir(p)   == IF Len(p) > 2 THEN SubSeq(p, 1, 2) ELSE IF Len(p) > 1 THEN <<p[1]>> ELSE Here
RootGroups(v) == [i \in v.items |-> Group(RootDir(v.path[i]))]

\* A group opened is grouped again one directory deeper.  What lies in the
\* directory itself stays loose, and a group of one is that one.
Depth(at, first) == IF at = Root THEN first ELSE Len(at) + 1
Deeper(v, S, depth) ==
    LET dirs     == [i \in S |-> SubSeq(v.path[i], 1, IF Len(v.path[i]) < depth THEN Len(v.path[i]) ELSE depth)]
        loose(i) == Len(v.path[i]) <= depth
        alone(i) == \A j \in S \ {i} : loose(j) \/ dirs[j] # dirs[i]
    IN  [i \in S |-> IF loose(i) \/ alone(i) THEN Single(i) ELSE Group(dirs[i])]

GroupsIn(S, standsFor) == {n \in Nodes(S, standsFor) : n.group}
\* Regrouping must draw fewer nodes than it covers.
Shrinks(S, standsFor) == GroupsIn(S, standsFor) # {} /\ Cardinality(Nodes(S, standsFor)) < Cardinality(S)

------------------------------------------------------------------------------
\* The nodes that are drawn: the groups come before the loose items.
Drawn(v, S, standsFor, rank) ==
    LET groups == GroupsIn(S, standsFor)
        singles == Nodes(S, standsFor) \ groups
        room   == IF Cardinality(groups) >= MaxNodes THEN 0 ELSE MaxNodes - Cardinality(groups)
    IN  {A \cup B : A \in Survivors(groups, rank, MaxNodes), B \in Survivors(singles, rank, room)}

\* The links between what is drawn, one arrow for each pair.
LinksDrawn(v, S, standsFor, drawn) ==
    {e \in Links(v, S) : standsFor[e.from] \in drawn /\ standsFor[e.to] \in drawn}
Arrows(v, S, standsFor, drawn) ==
    {<<standsFor[e.from], standsFor[e.to]>> :
        e \in {x \in LinksDrawn(v, S, standsFor, drawn) : standsFor[x.from] # standsFor[x.to]}}

\* A level that is grouped, with its counts and what each group says.
GroupedLevel(v, S, standsFor, drawn) ==
    LET links == LinksDrawn(v, S, standsFor, drawn)
        size(n) == Cardinality(Holds(S, standsFor, n))
    IN  [drawn |-> drawn, arrows |-> Arrows(v, S, standsFor, drawn), clustered |-> TRUE,
         size |-> [n \in drawn |-> size(n)],
         out  |-> [n \in drawn |-> Cardinality({e \in Links(v, S) : standsFor[e.from] = n /\ standsFor[e.to] # n})],
         in   |-> [n \in drawn |-> Cardinality({e \in Links(v, S) : standsFor[e.to] = n /\ standsFor[e.from] # n})],
         filesTotal |-> MapThenSumSet(size, drawn), linksTotal |-> Cardinality(links),
         linksInside |-> Cardinality({e \in links : standsFor[e.from] = standsFor[e.to]}),
         hidden |-> Cardinality(Nodes(S, standsFor)) - Cardinality(drawn)]

\* A level of items: the highest ranked of them, and the links among those.
FlatLevel(v, S, kept) ==
    LET drawn == {Single(i) : i \in kept} IN
    [drawn |-> drawn, clustered |-> FALSE,
     arrows |-> {<<Single(e.from), Single(e.to), e.type>> : e \in Links(v, kept)},
     size |-> [n \in drawn |-> 1],
     out  |-> [n \in drawn |-> ImportCount(v, n.at[1])],
     in   |-> [n \in drawn |-> ImportedBy(v, n.at[1])],
     filesTotal |-> Cardinality(S), linksTotal |-> Cardinality(Links(v, S)),
     linksInside |-> 0, hidden |-> Cardinality(S) - Cardinality(kept)]

FlatLevels(v, S, rank) == {FlatLevel(v, S, kept) : kept \in Survivors(S, rank, MaxNodes)}

\* GET .../graph/dependencies, for the level asked for.
Dependencies(v, at) ==
    LET S    == Covered(v, at)
        root == RootGroups(v)
        sub  == Deeper(v, S, Len(at) + 1)
        rank(standsFor) == [n \in Nodes(S, standsFor) |-> GroupImports(v, S, standsFor, n)]
    IN  CASE at = Root /\ Cardinality(S) > MaxNodes ->
               {GroupedLevel(v, S, root, d) : d \in Drawn(v, S, root, rank(root))}
          [] at # Root /\ Cardinality(S) > MaxNodes /\ Shrinks(S, sub) ->
               {GroupedLevel(v, S, sub, d) : d \in Drawn(v, S, sub, rank(sub))}
          [] OTHER -> FlatLevels(v, S, [i \in S |-> ImportCount(v, i)])

\* GET .../graph/classes: the same ladder, by the number of classes in a
\* directory and the inheritance links of a class.
Classes(v, at) ==
    LET S   == Covered(v, at)
        sub == Deeper(v, S, Depth(at, 2))
        rank == [n \in Nodes(S, sub) |-> IF n.group THEN Cardinality(Holds(S, sub, n)) ELSE Degree(v, S, n.at[1])]
    IN  IF Cardinality(S) > MaxNodes /\ Shrinks(S, sub)
        THEN {GroupedLevel(v, S, sub, d) : d \in Drawn(v, S, sub, rank)}
        ELSE FlatLevels(v, S, [i \in S |-> Degree(v, S, i)])

------------------------------------------------------------------------------
\* Every item a level covers is drawn, or is in a group that is drawn, or the
\* level says how many it hides.
NothingVanishes(v, at, level) ==
    level.hidden = 0 => MapThenSumSet(LAMBDA n : level.size[n], level.drawn) = Cardinality(Covered(v, at))

\* The header agrees with the canvas: an arrow of groups stands for at least
\* one link, and with the links inside the groups they are all of them.
HeaderAgrees(level) ==
    /\ level.clustered => level.linksTotal >= level.linksInside + Cardinality(level.arrows)
    /\ level.clustered /\ level.hidden = 0 =>
         /\ MapThenSumSet(LAMBDA n : level.out[n], level.drawn) = level.linksTotal - level.linksInside
         /\ MapThenSumSet(LAMBDA n : level.in[n], level.drawn) = level.linksTotal - level.linksInside
    /\ Cardinality(level.drawn) <= MaxNodes

\* A group opens on as many items as its label counts.  The one-segment
\* groups of the first level are left out: they count the files that lie in a
\* directory and open on everything beneath it.
OpensWhatItCounts(v, at, level) ==
    \A n \in level.drawn :
        n.group /\ ~(at = Root /\ Len(n.at) = 1) => Cardinality(Covered(v, n.at)) = level.size[n]

\* Opening groups gets to every file: a group covers fewer items than the
\* level it is on, or lies deeper.
OpeningGoesDown(at, level) ==
    \A n \in level.drawn : n.group => at = Root \/ Len(n.at) > Len(at)

LevelHonest(v, at, level) ==
    /\ NothingVanishes(v, at, level) /\ HeaderAgrees(level)
    /\ OpensWhatItCounts(v, at, level) /\ OpeningGoesDown(at, level)
==============================================================================
