----------------------------- MODULE TutorialSet -----------------------------
(***************************************************************************)
(* selectProcedures: which flows of a snapshot become tutorials, under a   *)
(* cap, and what is said of the others.                                    *)
(*                                                                         *)
(* A row has its tier, whether it is a flow of the configuration and which *)
(* ("none" for a traced one), whether a guide or a reading of it can be    *)
(* built, its family, and the signals it is ranked by, in hundredths.      *)
(***************************************************************************)
EXTENDS Integers, Sequences, FiniteSets, SequencesExt, FiniteSetsExt

\* Weights in ten-thousandths, so that signals may be in hundredths.
TierWeight == [core |-> 35000, supporting |-> 3000]
AtMost(n, top) == IF n < 0 THEN 0 ELSE IF n > top THEN top ELSE n
Score(row) ==
    TierWeight[row.tier] + (IF row.capability THEN 10000 ELSE 0) + (IF row.crosses THEN 6000 ELSE 0)
    + 60 * AtMost(row.projection, 100) + 20 * AtMost(row.view, 100) + 800 * AtMost(row.effects, 5)
    + 20 * AtMost(row.lit, 100) + 5 * AtMost(row.importance, 300)

\* The strongest first, no more than two of a family that only reads; what
\* room is left goes to the strongest of the others.
Capped == {"read_route", "ui"}
InOrder(scores) ==
    SetToSortSeq(DOMAIN scores, LAMBDA i, j : scores[i] > scores[j] \/ (scores[i] = scores[j] /\ i < j))
Diversely(order, families, room) ==
    LET Take(got, i) ==
            IF Len(got) >= room
               \/ (families[i] \in Capped /\ Cardinality({k \in ToSet(got) : families[k] = families[i]}) >= 2)
            THEN got ELSE Append(got, i)
    IN  FoldLeft(Take, <<>>, order)
Filled(diverse, rest, room) == diverse \o SubSeq(rest, 1, AtMost(room - Len(diverse), Len(rest)))
FillUp(order, diverse, room) == Filled(diverse, SelectSeq(order, LAMBDA i : i \notin ToSet(diverse)), room)
PickOrdered(order, families, room) == FillUp(order, Diversely(order, families, room), room)
PickDiverse(families, scores, room) == PickOrdered(InOrder(scores), families, room)

\* What becomes of each row: a guide once of each kind, a reading, or the
\* reason why not.  A flow of the configuration that is neither is passed over.
Guide(rows, i) == rows[i].config \in {"compose_up", "tests"}
Earlier(rows, i) == \E j \in 1 .. i - 1 : rows[j].config = "tests" /\ rows[j].tier # "surface" /\ rows[j].builds
Fate(rows, i) ==
    CASE rows[i].tier = "surface" -> "skipped"
      [] rows[i].tier # "surface" /\ rows[i].config = "other" -> "passed"
      [] rows[i].tier # "surface" /\ rows[i].config = "tests" /\ Earlier(rows, i) -> "passed"
      [] OTHER -> IF rows[i].builds THEN "eligible" ELSE "skipped"
Those(rows, Fates) == {i \in DOMAIN rows : Fate(rows, i) \in Fates}
InRows(S) == SetToSortSeq(S, <)

Chosen(rows, max, setup, traces) ==
    LET picked == PickDiverse([k \in DOMAIN traces |-> rows[traces[k]].family],
                              [k \in DOMAIN traces |-> Score(rows[traces[k]])], AtMost(max - Len(setup), max))
        InTheRows(chosen) == [k \in DOMAIN chosen |-> traces[chosen[k]]]
    IN  setup \o InTheRows(picked)
Outcome(rows, eligible, emitted) ==
    [emitted |-> emitted, eligible |-> Cardinality(eligible), skipped |-> Those(rows, {"skipped"}),
     overflow |-> eligible \ ToSet(emitted), binding |-> Cardinality(eligible) > Len(emitted)]
SelectTutorials(rows, max) ==
    LET eligible == Those(rows, {"eligible"})
        guides   == {i \in eligible : Guide(rows, i)}
        all      == Chosen(rows, max, InRows(guides), InRows(eligible \ guides))
        Cut(chosen) == SubSeq(chosen, 1, AtMost(max, Len(chosen)))
    IN  Outcome(rows, eligible, Cut(all))

------------------------------------------------------------------------------
\* Every row is a tutorial, over the cap, or skipped with a reason, once; the
\* cap is said to bind exactly when something is over it.
Accounted(rows, max, s) ==
    /\ Len(s.emitted) <= max /\ Cardinality(ToSet(s.emitted)) = Len(s.emitted)
    /\ s.overflow \cap s.skipped = {} /\ (s.binding <=> s.overflow # {})
    /\ DOMAIN rows \ (ToSet(s.emitted) \cup s.overflow \cup s.skipped) = Those(rows, {"passed"})
    /\ s.overflow # {} => Len(s.emitted) = max

\* No signal makes up for a tier: a supporting flow takes the place of a core
\* one only when that is the third or later of a family that only reads.  A
\* guide is never displaced by a reading.
TierFirst(rows, s) ==
    LET in == ToSet(s.emitted) IN
    \A i \in in, j \in s.overflow :
        /\ Guide(rows, j) => Guide(rows, i)
        /\ rows[i].tier = "supporting" /\ rows[j].tier = "core" /\ ~Guide(rows, i) =>
              rows[j].family \in Capped
              /\ Cardinality({k \in in : rows[k].family = rows[j].family /\ ~Guide(rows, k)}) >= 2
\* More than two of such a family only when nothing else was left to show.
Diverse(rows, s) ==
    LET in == ToSet(s.emitted) IN
    \A f \in Capped : Cardinality({k \in in : rows[k].family = f /\ ~Guide(rows, k)}) > 2 =>
        \A j \in s.overflow : rows[j].family \in Capped

\* The choice, as a whole.
ChoiceKept(rows, max) ==
    LET Kept(s) == Accounted(rows, max, s) /\ TierFirst(rows, s) /\ Diverse(rows, s)
    IN  Kept(SelectTutorials(rows, max))
==============================================================================
