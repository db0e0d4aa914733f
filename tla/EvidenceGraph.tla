----------------------------- MODULE EvidenceGraph -----------------------------
(***************************************************************************)
(* buildEvidenceGraph and persistEvidenceGraph: the graph of a snapshot,   *)
(* built from the analyses of its files, and what of it is stored.         *)
(*                                                                         *)
(* A file has a path, whether it is a test, its import statements and its  *)
(* symbols.  An import has the paths it may stand for, in the order they   *)
(* are tried (aliases and extensions), and the name of the boundary it     *)
(* crosses when none was parsed.  A symbol has a kind, the symbol that     *)
(* holds it ("none" for the file), methods, the keys it was resolved to    *)
(* call, the names of its parents and the tables its text mentions.        *)
(***************************************************************************)
EXTENDS Naturals, Sequences, FiniteSets, SequencesExt

Boundary(name)  == <<"external", name>>
Key(f, s)       == <<f.path, s.name>>
MethodKey(f, s, m) == <<f.path, s.name, m.name>>
Holder(f, s)    == IF s.container = "none" THEN <<f.path>> ELSE <<f.path, s.container>>
Methods(s)      == IF s.kind = "class" THEN s.methods ELSE <<>>

FlatMap(F(_), seq) == FlattenSeq([i \in DOMAIN seq |-> F(seq[i])])

\* Files, symbols and methods; the first node of a key stays.
SymbolNodes(f, s) ==
    <<<<Key(f, s), s.kind>>>> \o [i \in DOMAIN Methods(s) |-> <<MethodKey(f, s, Methods(s)[i]), "method">>]
FileNodes(f) == <<<<<<f.path>>, "module">>>> \o FlatMap(LAMBDA s : SymbolNodes(f, s), f.symbols)
FirstOfKey(seq) ==
    [k \in {seq[i][1] : i \in DOMAIN seq} |-> seq[Min({i \in DOMAIN seq : seq[i][1] = k})][2]]
Declared(files) == FirstOfKey(FlatMap(FileNodes, files))

\* The symbols of the files, with their file; each is held by what declares it.
Owned(files) == UNION {{<<files[i], files[i].symbols[j]>> : j \in DOMAIN files[i].symbols} : i \in DOMAIN files}
Holds(files) ==
    {<<Holder(x[1], x[2]), Key(x[1], x[2]), "contains">> : x \in Owned(files)} \cup
    UNION {{<<Key(x[1], x[2]), MethodKey(x[1], x[2], Methods(x[2])[i]), "contains">> : i \in DOMAIN Methods(x[2])}
             : x \in Owned(files)}

\* resolveImport: the first of the paths that was parsed, else the boundary.
Parsed(files) == {files[i].path : i \in DOMAIN files}
Resolve(files, i) ==
    LET hits == SelectSeq(i.candidates, LAMBDA p : p \in Parsed(files))
    IN  IF hits # <<>> THEN <<hits[1]>> ELSE Boundary(i.boundary)
Statements(files) ==
    FlatMap(LAMBDA f : [i \in DOMAIN f.imports |->
                          [from |-> <<f.path>>, to |-> Resolve(files, f.imports[i]), test |-> f.test]], files)

\* A statement makes its edge and is counted once for each side; one that
\* repeats an import makes it weigh more.
NoImports == [weight |-> <<>>, dependents |-> <<>>, imports |-> <<>>, externals |-> <<>>]
Bump(f, key) == IF key \in DOMAIN f THEN [f EXCEPT ![key] = @ + 1] ELSE f @@ (key :> 1)
AddImport(g, s) ==
    LET inside == Len(s.to) = 1
        e      == <<s.from, s.to, IF inside THEN "imports" ELSE "references_external">>
    IN  CASE s.from = s.to -> g
          [] s.from # s.to /\ e \notin DOMAIN g.weight ->
               [weight     |-> g.weight @@ (e :> 1),
                dependents |-> IF inside THEN Bump(g.dependents, s.to) ELSE g.dependents,
                imports    |-> IF inside THEN Bump(g.imports, s.from) ELSE g.imports,
                externals  |-> IF inside THEN g.externals ELSE Bump(g.externals, s.from)]
          [] OTHER -> IF inside THEN [g EXCEPT !.weight[e] = @ + 1] ELSE g
Imported(files) == FoldLeft(AddImport, NoImports, Statements(files))
Tests(files)    == {<<s.from, s.to, "tests">> : s \in {x \in ToSet(Statements(files)) : x.test /\ Len(x.to) = 1}}
Boundaries(files) == {s.to : s \in {x \in ToSet(Statements(files)) : Len(x.to) = 2}}

\* A call leads to a node that is there, or is left out.
CallsOf(x) == {<<Key(x[1], x[2]), k, "calls">> : k \in ToSet(x[2].calls)} \cup
              UNION {{<<MethodKey(x[1], x[2], m), k, "calls">> : k \in ToSet(m.calls)} : m \in ToSet(Methods(x[2]))}
Calls(files) == {e \in UNION {CallsOf(x) : x \in Owned(files)} : e[2] \in DOMAIN Declared(files)}

\* The bug of a guess: any parent of that name will do.
ParentGuessed(nodes, f, name) == {k \in DOMAIN nodes : Len(k) = 2 /\ nodes[k] \in {"class", "interface"} /\ k[2] = name}

\* resolveParent: the one of the same file, else the only one of that name.
Named(nodes, name) == {k \in DOMAIN nodes : Len(k) = 2 /\ nodes[k] \in {"class", "interface"} /\ k[2] = name}
ParentOf(nodes, f, name) ==
    LET own == {k \in Named(nodes, name) : k[1] = f.path}
    IN  IF own # {} THEN own ELSE IF Cardinality(Named(nodes, name)) = 1 THEN Named(nodes, name) ELSE {}
Extends(files) ==
    UNION {UNION {{<<Key(x[1], x[2]), k, "extends">> : k \in ParentOf(Declared(files), x[1], p)} : p \in x[2].parents}
             : x \in {y \in Owned(files) : y[2].kind \in {"class", "interface"}}}

\* Handlers, and the tables of the migrations with who mentions them.
Handles(files, points) ==
    {<<<<p.file>>, p.symbol, "handles_route">> :
        p \in {q \in points : {q.symbol, <<q.file>>} \subseteq DOMAIN Declared(files)}}
Mentions(files, tables) ==
    UNION {{<<Key(x[1], x[2]), <<"schema", t>>, "touches_schema">> : t \in x[2].mentions \cap tables}
             : x \in Owned(files)}

Build(files, points, tables) ==
    LET got   == Imported(files)
        other == Holds(files) \cup Tests(files) \cup Calls(files) \cup Extends(files)
                   \cup Handles(files, points) \cup Mentions(files, tables)
    IN  [nodes |-> Declared(files) @@ [k \in Boundaries(files) |-> "external"]
                     @@ [k \in {<<"schema", t>> : t \in tables} |-> "schema"],
         weight |-> got.weight @@ [e \in {x \in other : x[1] # x[2]} |-> 1],
         dependents |-> got.dependents, imports |-> got.imports, externals |-> got.externals]

\* What is stored: an edge whose end is no node is left out.
Stored(g) == {e \in DOMAIN g.weight : e[1] \in DOMAIN g.nodes /\ e[2] \in DOMAIN g.nodes}

------------------------------------------------------------------------------
\* The counts on a file are those of the stored edges, and the weights those
\* of the statements: what a page says of a file and what it draws agree.
CountOf(f, key)  == IF key \in DOMAIN f THEN f[key] ELSE 0
Into(g, k, type) == {e \in Stored(g) : e[2] = k /\ e[3] = type}
Out(g, k, type)  == {e \in Stored(g) : e[1] = k /\ e[3] = type}
CountsAgree(files, g) ==
    \A i \in DOMAIN files :
        LET k == <<files[i].path>>
            inside == SelectSeq(files[i].imports, LAMBDA s : Resolve(files, s) \notin {k, Boundary(s.boundary)})
        IN  /\ CountOf(g.dependents, k) = Cardinality(Into(g, k, "imports"))
            /\ CountOf(g.imports, k) = Cardinality(Out(g, k, "imports"))
            /\ CountOf(g.externals, k) = Cardinality(Out(g, k, "references_external"))
            /\ MapThenSumSet(LAMBDA e : g.weight[e], Out(g, k, "imports")) = Len(inside)

\* No call, parent, test or import is lost on the way to the store, and none
\* is guessed: two parents of one name in other files lead nowhere.
NothingGuessed(files, g) ==
    /\ \A e \in DOMAIN g.weight \ Stored(g) : e[3] = "contains" /\ e[1] \notin DOMAIN g.nodes
    /\ \A e \in DOMAIN g.weight : e[3] = "extends" /\ e[1][1] # e[2][1] =>
          \A k \in DOMAIN g.nodes : Len(k) = 2 /\ k[2] = e[2][2] /\ g.nodes[k] \in {"class", "interface"} => k = e[2]
    /\ \A i \in DOMAIN files : \A j \in DOMAIN files[i].symbols :
          LET s == files[i].symbols[j] IN
          \A n \in DOMAIN s.calls : s.calls[n] \in DOMAIN g.nodes \ {Key(files[i], s)} =>
              <<Key(files[i], s), s.calls[n], "calls">> \in Stored(g)

\* The files are analysed in whatever order they are read: the graph is the
\* same.
OrderFree(files, points, tables) ==
    \A p \in Permutations(DOMAIN files) :
        Build([i \in DOMAIN files |-> files[p[i]]], points, tables) = Build(files, points, tables)
==============================================================================
