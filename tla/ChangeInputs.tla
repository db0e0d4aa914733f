---------------------------- MODULE ChangeInputs ----------------------------
(* What a new version of the code makes stale: pairs of versions, and short *)
(* histories of analyses in every order.  A behaviour is one of them.       *)
EXTENDS Inputs, Invalidation

\* Two functions in one file and one in another, which may go, change or only
\* be reworded; the second file beside the first, with it, or renamed apart;
\* one flow over both, and a README.
Kinds == [f : 0 .. 2, g : 0 .. 1, h : 0 .. 2, text : 1 .. 2, layout : 1 .. 3]
Present(x) == {<<"a", "f">>, <<"a", "g">>, <<"b", "h">>}
              \ ((IF x.f = 0 THEN {<<"a", "f">>} ELSE {}) \cup (IF x.g = 0 THEN {<<"a", "g">>} ELSE {})
                 \cup (IF x.h = 0 THEN {<<"b", "h">>} ELSE {}))
VersionOf(x, readme, workspace) ==
    LET files == {"b"} \cup (IF x.f = 0 /\ x.g = 0 THEN {} ELSE {"a"}) \cup (IF readme = 0 THEN {} ELSE {"README"})
        cluster == CASE x.layout = 1 -> [A |-> <<"a">>, B |-> <<"b">>] [] x.layout = 2 -> [A |-> <<"a", "b">>]
                     [] OTHER -> [A |-> <<"a">>, C |-> <<"b">>]
    IN  [files |-> [p \in files |-> CASE p = "a" -> <<x.f, x.g>> [] p = "b" -> <<x.h, x.text>> [] OTHER -> <<readme, 0>>],
         docs |-> files \cap {"README"},
         symbols |-> [k \in Present(x) |-> CASE k[2] = "f" -> x.f [] k[2] = "g" -> x.g [] OTHER -> x.h],
         calls |-> {<<<<"a", "f">>, <<"b", "h">>>>} \cap (Present(x) \X Present(x)),
         read |-> Present(x), trivial |-> [k \in Present(x) |-> k[2] = "g"],
         clusters |-> cluster, package |-> [p \in {"a", "b"} |-> IF workspace THEN (IF p = "a" THEN "api" ELSE "none") ELSE "none"],
         flows |-> IF x.f = 0 THEN <<>> ELSE [w \in {"w"} |-> <<x.f, x.h>>]]

PairInputs == [p : {x \in Kinds : x.text = 1}, n : Kinds, workspace : BOOLEAN]

\* Version 1 and those after it: one function or the other changed, gone, a
\* rewording, a README changed or gone, and the first again.
FirstKind == [f |-> 1, g |-> 1, h |-> 1, text |-> 1, layout |-> 1]
Code == <<VersionOf(FirstKind, 1, FALSE), VersionOf([FirstKind EXCEPT !.h = 2], 1, FALSE),
          VersionOf([FirstKind EXCEPT !.text = 2], 1, FALSE), VersionOf([FirstKind EXCEPT !.g = 0], 2, FALSE),
          VersionOf([FirstKind EXCEPT !.f = 2], 0, FALSE), VersionOf(FirstKind, 1, FALSE),
          VersionOf([FirstKind EXCEPT !.h = 2, !.text = 2], 1, FALSE)>>
Analysis(version, branch, pushed) == [version |-> version, branch |-> branch, pushed |-> pushed]
HistoryInputs ==
    {<<Analysis(1, "main", q[1]), Analysis(v[1], b[1], q[2]), Analysis(v[2], b[2], q[3]), Analysis(v[3], "main", q[4])>> :
        v \in (2 .. 7) \X (2 .. 7) \X {3, 5, 6},
        b \in {<<"main", "main">>, <<"side", "main">>, <<"main", "side">>},
        q \in {<<1, 2, 3, 4>>, <<1, 4, 2, 3>>, <<1, 4, 3, 2>>, <<2, 4, 3, 1>>}}

Section(type, files, docs, nodes, records) ==
    [type |-> type, files |-> files, docs |-> docs, nodes |-> nodes, records |-> records]
Sections == {Section("flows", {"a"}, {}, {}, {}), Section("flows", {}, {}, {<<"b", "h">>}, {}), Section("setup", {}, {"README"}, {}, {}),
             Section("doc_health", {}, {}, {}, {}), Section("map", {"b"}, {}, {<<"a", "f">>}, {IdOf(Code[1], "module", "A")})}
            \cup {Section("map", {}, {}, {}, {IdOf(Code[1], "symbol", k)}) : k \in Code[1].read}
            \cup {Section("map", {}, {}, {}, {IdOf(Code[1], "file", f)}) : f \in {"a", "b"}}

------------------------------------------------------------------------------
ChangeInit == /\ done = FALSE
        /\ \/ task = "pair" /\ in \in PairInputs
           \/ task = "history" /\ in \in HistoryInputs
Compare == Judge("pair")
Follow  == Judge("history")
ChangeNext == Compare \/ Follow
ChangeSpec == ChangeInit /\ [][ChangeNext]_inputVars

\* A record a diff leaves alone has nothing beneath it that differs, and a
\* rewording alone makes none stale; a section that is not stale cites what is
\* still there, whatever the order of the analyses and whatever another branch
\* brings; and the reader and the diff agree on which snapshot is the last.
StaleCorrect ==
    /\ task = "pair" /\ done =>
         LET p == VersionOf(in.p, 1, in.workspace)
             n == VersionOf(in.n, 1, in.workspace)
         IN  NothingDirtyBelow(p, n) /\ TextAloneKeeps(p, n)
    /\ task = "history" /\ done =>
         LET code == Code
             sections == Sections
         IN  /\ FreshIsTrue(in, sections, code) /\ BranchesApart(in, sections, code)
             /\ \A b \in {"main", "side", "none", "new"} : OneOrder(in, b)
==============================================================================
