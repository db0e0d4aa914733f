----------------------------- MODULE Invalidation -----------------------------
(***************************************************************************)
(* What an analysis makes stale: the snapshot before it on its branch, the *)
(* files and symbols that differ, the semantic records whose evidence does *)
(* not hold any more, level by level, and the sections that cite any of    *)
(* it.  Beside it, the evidence a record of a level is kept under.         *)
(*                                                                         *)
(* A version of the code is a record: files and their hashes, which are    *)
(* docs, symbols <<file, name>> and their hashes, calls, which symbols the *)
(* model reads, clusters (sequences of files), the package of a file, and  *)
(* the flows with the fingerprint of their steps.                          *)
(***************************************************************************)
EXTENDS Naturals, Sequences, FiniteSets, Functions

FileOf(k)    == k[1]
Files(v)     == DOMAIN v.files
Symbols(v)   == DOMAIN v.symbols
Members(v, c) == IF c \in DOMAIN v.clusters THEN Range(v.clusters[c]) ELSE {}

------------------------------------------------------------------------------
\* A snapshot: [version, branch, pushed, created, status].  The wanted branch
\* first, then the push seen last, then the row written last.
Before(a, b, wanted) ==
    LET rank(s) == IF s.branch \in {"none", wanted} \/ wanted = "none" THEN 1 ELSE 0
    IN  \/ rank(a) > rank(b)
        \/ rank(a) = rank(b) /\ a.pushed > b.pushed
        \/ rank(a) = rank(b) /\ a.pushed = b.pushed /\ a.created > b.created
First(S, wanted) == {s \in S : \A t \in S \ {s} : Before(s, t, wanted)}
latestSnapshot(S, wanted) == First({s \in S : s.status = "complete"}, wanted)

\* Plausible bug: the snapshot before on whatever branch.
EarlierAnywhere(S, cur) == {s \in S : s # cur /\ s.status = "complete" /\ s.pushed < cur.pushed}

\* The baseline of a diff: on this branch and no other, pushed before.
Earlier(S, cur) == {s \in S : /\ s # cur /\ s.status = "complete" /\ s.branch = cur.branch
                              /\ s.pushed < cur.pushed}
findPreviousSnapshot(S, cur) == First(Earlier(S, cur), cur.branch)

------------------------------------------------------------------------------
\* What a record is kept under.  A symbol: its hashes, and who it calls and is
\* called by.  Above: the records beneath it, and facts of its own.
evidenceHashForSymbol(v, k) ==
    [self |-> v.symbols[k],
     callers |-> {<<c[1], v.symbols[c[1]]>> : c \in {c \in v.calls : c[2] = k}},
     callees |-> {<<c[2], v.symbols[c[2]]>> : c \in {c \in v.calls : c[1] = k}}]

FileChildren(v, f) == {<<k, evidenceHashForSymbol(v, k)>> : k \in {k \in v.read : FileOf(k) = f}}
FileRecords(v) == {FileOf(k) : k \in {k \in v.read : ~v.trivial[k]}}
FileEvidence(v, f) == <<FileChildren(v, f), v.files[f]>>

ModuleChildren(v, c) == {<<f, FileChildren(v, f)>> : f \in Members(v, c) \cap FileRecords(v)}
ModuleRecords(v) == {c \in DOMAIN v.clusters : ModuleChildren(v, c) # {}}

\* groupClustersIntoServices: by the package of a cluster's first member.
ServiceOf(v, c) ==
    IF Range(v.package) = {"none"} THEN "app"
    ELSE IF v.package[Head(v.clusters[c])] = "none" THEN "root" ELSE v.package[Head(v.clusters[c])]
ServiceChildren(v, s) ==
    {<<c, ModuleChildren(v, c)>> : c \in {c \in ModuleRecords(v) : ServiceOf(v, c) = s}}
ServiceRecords(v) == {ServiceOf(v, c) : c \in ModuleRecords(v)}

\* The records a snapshot maps, by level.
RecordsOf(v) ==
    [symbol |-> v.read, file |-> FileRecords(v), module |-> ModuleRecords(v),
     service |-> ServiceRecords(v), workflow |-> DOMAIN v.flows,
     system |-> IF ServiceRecords(v) = {} THEN {} ELSE {"system"}]

------------------------------------------------------------------------------
\* diffFiles and diffSymbols.
RemovedFiles(p, n)  == Files(p) \ Files(n)
ChangedFiles(p, n)  == {f \in Files(p) \cap Files(n) : p.files[f] # n.files[f]}
Removed(p, n) == Symbols(p) \ Symbols(n)
Added(p, n)   == Symbols(n) \ Symbols(p)
Changed(p, n) == {k \in Symbols(p) \cap Symbols(n) : p.symbols[k] # n.symbols[k]}

\* propagateInvalidation, one level after the other.
StaleSymbols(p, n) == {k \in RecordsOf(p).symbol :
    k \notin Symbols(n) \/ evidenceHashForSymbol(n, k) # evidenceHashForSymbol(p, k)}
\* Plausible bug: a file that only gained a symbol is not touched.
TouchedFilesKnown(p, n) == {FileOf(k) : k \in Removed(p, n) \cup StaleSymbols(p, n)}
TouchedFiles(p, n) == {FileOf(k) : k \in Added(p, n) \cup Removed(p, n) \cup StaleSymbols(p, n)}
StaleFiles(p, n) == {f \in RecordsOf(p).file : f \in RemovedFiles(p, n) \/ f \in TouchedFiles(p, n)}
StaleModules(p, n) == {c \in RecordsOf(p).module :
    \/ c \notin DOMAIN n.clusters \/ Members(p, c) # Members(n, c)
    \/ Members(n, c) \cap StaleFiles(p, n) # {}}
StaleServices(p, n) == {s \in RecordsOf(p).service :
    \/ \A c \in DOMAIN n.clusters : ServiceOf(n, c) # s
    \/ \E c \in StaleModules(p, n) \cap DOMAIN n.clusters : ServiceOf(n, c) = s}
StaleFlows(p, n) == {w \in RecordsOf(p).workflow :
    w \notin DOMAIN n.flows \/ p.flows[w] # n.flows[w]}
propagateInvalidation(p, n) ==
    LET below == [symbol |-> StaleSymbols(p, n), file |-> StaleFiles(p, n), module |-> StaleModules(p, n),
                  service |-> StaleServices(p, n), workflow |-> StaleFlows(p, n)]
    IN  [level \in DOMAIN RecordsOf(p) |->
           IF level # "system" THEN below[level]
           ELSE IF \E l \in DOMAIN below : below[l] # {} THEN RecordsOf(p).system ELSE {}]

------------------------------------------------------------------------------
\* A record cited by a section is the row that was mapped when it was written.
IdOf(v, level, key) ==
    <<level, key, CASE level = "symbol" -> evidenceHashForSymbol(v, key)
                    [] level = "file" -> FileEvidence(v, key)
                    [] level = "module" -> ModuleChildren(v, key)>>
CitedLevels == {"symbol", "file", "module"}
StaleIds(p, n) == UNION {{IdOf(p, l, key) : key \in propagateInvalidation(p, n)[l]} : l \in CitedLevels}

\* The files that changed or went, the docs among them that are still there, and
\* the types of section these make stale whatever they cite.
ChangedPaths(p, n) == ChangedFiles(p, n) \cup RemovedFiles(p, n)
docStaleTypes(p, n) ==
    LET docs == {f \in ChangedPaths(p, n) : f \in n.docs}
    IN  IF docs = {} THEN {} ELSE {"doc_health"} \cup (IF "README" \in docs THEN {"start_here"} ELSE {})

\* flagStaleArtifacts: what a diff touched, and one section held against it:
\* [type, files, docs, nodes, records].
Touched(p, n) == [types |-> docStaleTypes(p, n), paths |-> ChangedPaths(p, n),
                  nodes |-> Changed(p, n) \cup Removed(p, n), records |-> StaleIds(p, n)]
Flagged(section, diff) ==
    \/ section.type \in diff.types
    \/ (section.files \cup section.docs) \cap diff.paths # {}
    \/ section.nodes \cap diff.nodes # {}
    \/ section.records \cap diff.records # {}

\* The analyses of a history in the order they ran, all of them or those ran;
\* each is diffed against the snapshot before it among those complete by then.
\* A package of version 1 on the main branch is there from the start.
SnapshotOf(history, i) ==
    [version |-> history[i].version, branch |-> history[i].branch, pushed |-> history[i].pushed,
     created |-> i, status |-> "complete"]
Baselines(history, ran, i) ==
    findPreviousSnapshot({SnapshotOf(history, j) : j \in {j \in ran : j < i}}, SnapshotOf(history, i))
Diffs(history, ran, code, branch) ==
    UNION {{Touched(code[b.version], code[history[i].version]) : b \in Baselines(history, ran, i)} :
             i \in {i \in ran : history[i].branch = branch}}

------------------------------------------------------------------------------
\* A record the diff leaves alone has nothing beneath it that differs: every
\* record its own was made of, and that is still its, is there as it was.
NothingDirtyBelow(p, n) ==
    LET stale == propagateInvalidation(p, n)
        same(f) == f \in Files(n) /\ FileChildren(p, f) = FileChildren(n, f)
        Kept(c, d) == \A f \in Members(p, c) \cap FileRecords(p) : f \in Members(n, d) /\ same(f)
    IN  /\ \A f \in FileRecords(p) \ stale.file : same(f)
        /\ \A c \in ModuleRecords(p) \ stale.module : Kept(c, c)
        /\ \A s \in ServiceRecords(p) \ stale.service, c \in ModuleRecords(p) \cap DOMAIN n.clusters :
             ServiceOf(p, c) = s /\ ServiceOf(n, c) = s => Kept(c, c)
        /\ RecordsOf(p).system # stale.system =>
             \A c \in ModuleRecords(p) : c \in DOMAIN n.clusters /\ Kept(c, c)

\* Where only the text of files differs, no record is stale.
TextAloneKeeps(p, n) ==
    [p EXCEPT !.files = n.files] = n => \A l \in DOMAIN RecordsOf(p) : propagateInvalidation(p, n)[l] = {}

\* What a section of version v cites is in version w as it was; its symbols'
\* records are what they were, and its files' unless the file was reworded.
Holds(section, v, w, later) ==
    /\ \A f \in section.files \cup section.docs : f \in Files(w) /\ w.files[f] = v.files[f]
    /\ \A k \in section.nodes : k \in Symbols(w) /\ w.symbols[k] = v.symbols[k]
    /\ \A r \in section.records : r[1] = "symbol" => r[2] \in Symbols(w) /\ evidenceHashForSymbol(w, r[2]) = r[3]
    /\ \A r \in section.records : r[1] = "file" =>
         \/ r[2] \in Files(w) /\ FileChildren(w, r[2]) = r[3][1]
         \/ \E x \in later : r[2] \in Files(x) /\ x.files[r[2]] # v.files[r[2]]

\* However the analyses were ordered: what a section of version 1 cites holds
\* in every later version of its branch, or the section is stale.
FreshIsTrue(history, sections, code) ==
    LET later == {code[history[i].version] : i \in {i \in DOMAIN history :
                    history[i].branch = "main" /\ history[i].pushed > history[1].pushed}}
        diffs == Diffs(history, DOMAIN history, code, "main")
    IN  \A s \in sections : (\A d \in diffs : ~Flagged(s, d)) =>
          \A w \in later : Holds(s, code[1], w, later)

\* What another branch brings makes nothing stale here.
BranchesApart(history, sections, code) ==
    LET mine  == Diffs(history, {i \in DOMAIN history : history[i].branch = "main"}, code, "main")
        diffs == Diffs(history, DOMAIN history, code, "main")
    IN  \A s \in sections : (\E d \in diffs : Flagged(s, d)) <=> (\E d \in mine : Flagged(s, d))

\* What a reader is shown is the push seen last on the branch, in whatever
\* order the analyses ended, or else the last of all; and a diff starts from
\* what was shown before.
OneOrder(history, wanted) ==
    LET S == {SnapshotOf(history, i) : i \in DOMAIN history}
        on == {s \in S : s.branch = wanted}
    IN  \A s \in latestSnapshot(S, wanted) :
          /\ \A t \in (IF on = {} THEN S ELSE on) : t.pushed <= s.pushed
          /\ on # {} => findPreviousSnapshot(S, s) = latestSnapshot(on \ {s}, wanted)
==============================================================================
