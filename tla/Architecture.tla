---------------------------- MODULE Architecture ----------------------------
(***************************************************************************)
(* clusterArchitecture and buildNarrativesFromRows: the component map of a *)
(* snapshot, drawn from the evidence graph when the run analyses, and the  *)
(* facts about each component, read again from the stored rows when a page *)
(* or a prompt asks for them.                                              *)
(*                                                                         *)
(* A graph g has nodes with a type, a path (the file they are in), for a   *)
(* file its package scope, the category its path matches ("none" when no   *)
(* rule does), its directories and whether it holds JSX; edges; the        *)
(* package an external node stands for; and flows, which are sequences of  *)
(* nodes.  Wording, scores and the caps on the lists of names are left out.*)
(***************************************************************************)
EXTENDS Naturals, Sequences, FiniteSets, FiniteSetsExt, SequencesExt

\* PATH_RULES: the kind each category of path names.
RuleKind == [Tests |-> "test_layer", Database |-> "database_layer", Api |-> "api_layer",
             Auth |-> "auth_layer", Workers |-> "worker_layer", Engine |-> "analysis_engine",
             UI |-> "frontend_ui", State |-> "frontend_state", Integrations |-> "integration_layer",
             Shared |-> "shared_module", Services |-> "shared_module", Config |-> "devops_layer"]

IsFile(g, n)  == g.type[n] \in {"module", "file"}
Members(g)    == {n \in g.nodes : IsFile(g, n) \/ g.type[n] \in {"config", "schema"}}

\* The component of a member: its package and category, or one of the two
\* root components that hold the files which are not code.
KeyOf(g, n) ==
    CASE g.type[n] = "config" -> <<"", "Config">>
      [] g.type[n] = "schema" -> <<"", "Schema">>
      [] OTHER -> <<g.scope[n], IF g.rule[n] = "none" THEN "Modules" ELSE g.rule[n]>>

Clusters(g)     == {KeyOf(g, n) : n \in Members(g)}
InCluster(g, k) == {n \in Members(g) : KeyOf(g, n) = k}
Files(g, k)     == {n \in InCluster(g, k) : IsFile(g, n)}

\* The name of a component says the last part of its package only.
Label(g, k) == <<g.area[k[1]], k[2]>>

\* clusterOfKey: a member by itself, a symbol by its file, else no component.
Nowhere == <<"-", "-">>
ClusterOf(g, n) ==
    IF n \in Members(g) THEN KeyOf(g, n)
    ELSE IF g.path[n] \in Members(g) THEN KeyOf(g, g.path[n]) ELSE Nowhere

EdgeTypeMap == [imports |-> "imports", calls |-> "calls", http_calls |-> "sends_request",
                enqueues_job |-> "enqueues_job", handles_job |-> "enqueues_job",
                touches_schema |-> "reads_writes_data", queries_database |-> "reads_writes_data",
                writes_database |-> "reads_writes_data", reads_env |-> "uses_config", tests |-> "tests"]

\* The edges that cross from one component into another, and what they
\* collapse to.
Crossing(g) == {e \in g.edges : /\ e.type \in DOMAIN EdgeTypeMap
                                /\ ClusterOf(g, e.from) # Nowhere /\ ClusterOf(g, e.to) # Nowhere
                                /\ ClusterOf(g, e.from) # ClusterOf(g, e.to)}
Collapsed(g, e) == [from |-> ClusterOf(g, e.from), to |-> ClusterOf(g, e.to),
                    type |-> EdgeTypeMap[e.type]]
Aggregated(g)   == {Collapsed(g, e) : e \in Crossing(g)}
Weight(g, a)    == Cardinality({e \in Crossing(g) : Collapsed(g, e) = a})

\* The flows that step from one component into the other, on every edge
\* between the two.
Crossings(g, a) ==
    {f \in DOMAIN g.flows : \E i \in 2 .. Len(g.flows[f]) :
        ClusterOf(g, g.flows[f][i - 1]) = a.from /\ ClusterOf(g, g.flows[f][i]) = a.to}

\* The links of a component, by the name of the other side.
Outbound(g, k) == {[other |-> Label(g, a.to), type |-> a.type, carries |-> Crossings(g, a)] :
                     a \in {b \in Aggregated(g) : b.from = k}}
Inbound(g, k)  == {[other |-> Label(g, a.from), type |-> a.type, carries |-> Crossings(g, a)] :
                     a \in {b \in Aggregated(g) : b.to = k}}

ThirdParty(g, n) == g.type[n] = "external" /\ g.third[n]
\* The packages a file imports, and those that one component alone imports.
ImportsOf(g, f)  == {g.package[e.to] : e \in {x \in g.edges :
                        /\ x.from = f /\ x.type \in {"imports", "references_external"}
                        /\ g.type[x.to] = "external"}}
ThirdPartyOf(g, f) == {g.package[n] : n \in {m \in g.nodes : ThirdParty(g, m)}} \cap ImportsOf(g, f)
PullsIn(g, k)    == UNION {ThirdPartyOf(g, f) : f \in Files(g, k)}
Exclusive(g, k)  == {p \in PullsIn(g, k) : \A other \in Clusters(g) \ {k} : p \notin PullsIn(g, other)}

\* The tables a component's own code touches.
TablesOf(g, k) == {e.to : e \in {x \in g.edges : x.type = "touches_schema" /\ ClusterOf(g, x.from) = k}}

------------------------------------------------------------------------------
\* inferClusterKind: what the files are, then what they import, then what
\* the manifest of their package declares.
Imports == [api |-> {"express"}, worker |-> {"bullmq"}, database |-> {"pg"}, ui |-> {"react"}]
KindFor == [api |-> "api_layer", worker |-> "worker_layer", database |-> "database_layer",
            ui |-> "frontend_ui"]
FirstOf(order, seen) ==
    LET hits == SelectSeq(order, LAMBDA c : Imports[c] \cap seen # {})
    IN  IF hits = <<>> THEN "other" ELSE KindFor[Head(hits)]

InferKind(g, k) ==
    LET files == Files(g, k)
        jsx   == {f \in files : g.jsx[f]}
        used  == UNION {ImportsOf(g, f) : f \in files}
        byUse == FirstOf(<<"api", "worker", "database", "ui">>, used)
    IN  CASE files = {} -> "other"
          [] files # {} /\ 10 * Cardinality(jsx) >= 4 * Cardinality(files) -> "frontend_ui"
          [] OTHER -> IF byUse # "other" THEN byUse
                      ELSE FirstOf(<<"ui", "api", "worker">>, g.manifest[k[1]])

Kind(g, k) == CASE k[2] = "Schema" -> "database_layer"
                [] k[2] = "Modules" -> InferKind(g, k)
                [] OTHER -> RuleKind[k[2]]

\* primaryMemberNoun: what most of the members are; a tie is for the files.
PrimaryNoun(g, k) ==
    LET count == [t \in {"schema", "config"} |-> Cardinality({n \in InCluster(g, k) : g.type[n] = t})]
        files == Cardinality(Files(g, k))
        table == IF count["schema"] > files THEN count["schema"] ELSE files
    IN  CASE count["config"] > table -> "config file"
          [] count["config"] <= table /\ count["schema"] > files -> "table"
          [] OTHER -> "file"

\* commonDirectory: the directories the files share; <<>> when they diverge.
CommonDirectory(g, paths) ==
    LET shared(d) == \A p \in paths : IsPrefix(d, g.dirs[p])
        first     == g.dirs[CHOOSE p \in paths : TRUE]
        prefixes  == {SubSeq(first, 1, i) : i \in 0 .. Len(first)}
    IN  IF paths = {} THEN <<>>
        ELSE CHOOSE d \in prefixes : shared(d) /\ \A e \in prefixes : shared(e) => Len(e) <= Len(d)

------------------------------------------------------------------------------
\* describeLinks: each partner once, under the strongest verb the two share.
Rank == [reads_writes_data |-> 6, enqueues_job |-> 5, sends_request |-> 4, tests |-> 3,
         calls |-> 2, uses_config |-> 1, imports |-> 0]
Strongest(links) ==
    {[other |-> l.other, type |-> l.type] :
        l \in {x \in links : \A y \in links : y.other = x.other => Rank[y.type] <= Rank[x.type]}}

\* buildClusterNarrative, from the facts of one component.
Narrative(f) ==
    LET links   == f.inbound \cup f.outbound
        carried == UNION {l.carries : l \in links}
        said    == f.tables # {} \/ f.externals # {}
    IN  [kind |-> f.kind, tables |-> f.tables, externals |-> f.externals,
         out |-> Strongest(f.outbound), in |-> Strongest(f.inbound), flows |-> carried,
         separation |-> CASE links = {} -> "alone"
                          [] f.inbound = {} /\ links # {} -> "nothing_depends"
                          [] f.outbound = {} /\ f.inbound # {} -> "depends_on_nothing"
                          [] OTHER -> IF f.externals # {} THEN "keeps_packages"
                                      ELSE IF f.common # <<>> THEN "shares_directory" ELSE "convention",
         unknowns |-> {u \in {"no_link", "no_flow", "no_nouns"} :
                         \/ u = "no_link" /\ links = {}
                         \/ u = "no_flow" /\ links # {} /\ carried = {}
                         \/ u = "no_nouns" /\ ~said /\ carried = {}}]

\* The narrative the run stores as the summary of a component.
AtAnalysis(g, k) ==
    Narrative([kind |-> Kind(g, k), tables |-> TablesOf(g, k), externals |-> Exclusive(g, k),
               inbound |-> Inbound(g, k), outbound |-> Outbound(g, k),
               common |-> CommonDirectory(g, Files(g, k))])

------------------------------------------------------------------------------
\* persistArchitecture: the rows of the map.  A member that has no row of its
\* own is not linked.
Rows(g, saved) ==
    [clusters |-> {[key |-> k, label |-> Label(g, k), kind |-> Kind(g, k)] : k \in Clusters(g)},
     members  |-> {[key |-> KeyOf(g, n), path |-> g.path[n]] : n \in Members(g) \cap saved},
     edges    |-> {[from |-> a.from, to |-> a.to, type |-> a.type, flows |-> Crossings(g, a)] :
                      a \in Aggregated(g)},
     tables   |-> {[path |-> g.path[e.from], table |-> e.to] :
                      e \in {x \in g.edges : x.type = "touches_schema"}},
     externals |-> {[path |-> g.path[e.from], package |-> g.package[e.to], third |-> g.third[e.to]] :
                      e \in {x \in g.edges : x.type = "references_external"}}]

\* clusterOfFile keeps the last row of a path, in whatever order they come.
OwnersOfPath(rows, p) == {m.key : m \in {x \in rows.members : x.path = p}}
PathsOf(rows) == {m.path : m \in rows.members}
LastWins(rows) ==
    LET shared == {p \in PathsOf(rows) : Cardinality(OwnersOfPath(rows, p)) > 1}
        picks  == {f \in [shared -> UNION {OwnersOfPath(rows, p) : p \in shared}] :
                     \A p \in shared : f[p] \in OwnersOfPath(rows, p)}
        only(p) == CHOOSE k \in OwnersOfPath(rows, p) : TRUE
    IN  {[p \in PathsOf(rows) |-> IF p \in shared THEN f[p] ELSE only(p)] : f \in picks}

UsersOf(rows, of, p) ==
    {of[x.path] : x \in {y \in rows.externals : y.third /\ y.package = p /\ y.path \in DOMAIN of}}
\* A bug: every package a component pulls in counts as its own.
PulledFromRows(rows, of, k) ==
    {x.package : x \in {y \in rows.externals : k \in UsersOf(rows, of, y.package)}}

ExclusiveFromRows(rows, of, k) ==
    {x.package : x \in {y \in rows.externals : UsersOf(rows, of, y.package) = {k}}}

LabelOf(rows, k) == (CHOOSE c \in rows.clusters : c.key = k).label

\* buildNarrativesFromRows, for one component.
AtRequest(g, rows, of, c) ==
    Narrative([kind |-> c.kind,
               tables |-> {t.table : t \in {x \in rows.tables : x.path \in DOMAIN of /\ of[x.path] = c.key}},
               externals |-> ExclusiveFromRows(rows, of, c.key),
               outbound |-> {[other |-> LabelOf(rows, e.to), type |-> e.type, carries |-> e.flows] :
                               e \in {x \in rows.edges : x.from = c.key}},
               inbound |-> {[other |-> LabelOf(rows, e.from), type |-> e.type, carries |-> e.flows] :
                               e \in {x \in rows.edges : x.to = c.key}},
               common |-> CommonDirectory(g, {m.path : m \in {x \in rows.members : x.key = c.key}})])

------------------------------------------------------------------------------
\* No configuration file is also parsed as code.
SourcesApart(g) == \A m, n \in Members(g) : IsFile(g, m) /\ ~IsFile(g, n) => g.path[m] # g.path[n]

\* The tab and the section describe each component the same way: what the run
\* stored is what the rows say later, in whatever order they come.  A
\* component that mixes code and configuration is compared without the
\* directory its files share: the two count different members there.
NarrativesAgree(g) ==
    LET rows == Rows(g, g.nodes)
        plain(n) == IF n.separation = "shares_directory" THEN [n EXCEPT !.separation = "convention"] ELSE n
    IN  SourcesApart(g) => \A of \in LastWins(rows), c \in rows.clusters :
            LET asked == AtRequest(g, rows, of, c)
                kept  == AtAnalysis(g, c.key)
            IN  IF Files(g, c.key) = InCluster(g, c.key) THEN asked = kept ELSE plain(asked) = plain(kept)

\* Every edge between two components is counted once, in the weight of one
\* edge of the map, and none inside a component.
WeightsAddUp(g) ==
    MapThenSumSet(LAMBDA a : Weight(g, a), Aggregated(g)) = Cardinality(Crossing(g))
==============================================================================
