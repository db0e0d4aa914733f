----------------------------- MODULE Walkthroughs -----------------------------
(***************************************************************************)
(* The readings of a package: one flow, or a journey leg by leg, as cards  *)
(* on the places in the code it goes through.                              *)
(*                                                                         *)
(* A traced step has the place it is at, its kind, the effects recorded    *)
(* there, the leg of a journey it belongs to, the crossing it makes,       *)
(* whether it was added for a response, and whether a marker can be put on *)
(* it. The flow of a reading says how it is set off. A journey has its     *)
(* members in order, the crossings between them keyed by the member they   *)
(* come after, and the steps of each member's own flow, <<>> when that was *)
(* not loaded. Prose and labels are left out.                              *)
(***************************************************************************)
EXTENDS Integers, Sequences, FiniteSets, SequencesExt, FiniteSetsExt

CONSTANTS PhaseBudget, MaxVisible, MaxFolded, WindowLines, WindowMax

P == INSTANCE Procedures
EffectKinds == P!EffectKinds

------------------------------------------------------------------------------
\* One card for a place: later steps at the place of an earlier one are merged
\* into it.  It keeps the leg of the first.
Merge(held, s) ==
    [held EXCEPT !.effects = @ \cup s.effects,
                 !.boundary = IF @ = "none" THEN s.boundary ELSE @,
                 !.kind = IF @ = "trigger" /\ s.kind \in EffectKinds THEN s.kind ELSE @]
Coalesce(steps) ==
    LET first == SelectSeq([i \in DOMAIN steps |-> i], LAMBDA i : \A j \in 1 .. i - 1 : steps[j].at # steps[i].at)
        later(i) == SelectSeq(SubSeq(steps, i + 1, Len(steps)), LAMBDA s : s.at = steps[i].at)
    IN  [k \in DOMAIN first |-> FoldLeft(Merge, steps[first[k]], later(first[k]))]

\* The cards a leg shows: where it is entered, the step that hands over if a
\* crossing follows, then effects, one of each kind before a second one; and
\* its last step when there is room.
Strong(steps) == SelectSeq([i \in DOMAIN steps |-> i],
                           LAMBDA i : i # 1 /\ steps[i].kind \in EffectKinds /\ ~steps[i].synthetic)
SelectVisible(steps, budget, handsOver) ==
    LET strong  == Strong(steps)
        firsts  == SelectSeq(strong, LAMBDA i : \A j \in ToSet(strong) : j < i => steps[j].kind # steps[i].kind)
        base    == {1} \cup IF ~handsOver THEN {} ELSE {IF strong = <<>> THEN Len(steps) ELSE Last(strong)}
        Add(S, i) == IF Cardinality(S) >= budget THEN S ELSE S \cup {i}
        filled  == FoldLeft(Add, base, firsts \o strong)
    IN  IF steps = <<>> THEN {} ELSE Add(filled, Len(steps))

------------------------------------------------------------------------------
\* The legs: one for each member, from its own flow, else from what the
\* composed steps keep of it.
\* Plausible bug: a member is told from the spine though its trace is loaded.
LegStepsOfSpine(r, m) == Coalesce(SelectSeq(Coalesce(r.steps), LAMBDA s : s.member = m))
LegSteps(r, m) ==
    LET own   == r.own[m]
        spine == SelectSeq(Coalesce(r.steps), LAMBDA s : s.member = m)
    IN  Coalesce(IF own # <<>> THEN own ELSE spine)
Legs(r) ==
    IF r.members = <<>> THEN <<[member |-> "none", at |-> 0, steps |-> Coalesce(r.steps)]>>
    ELSE [i \in DOMAIN r.members |-> [member |-> r.members[i], at |-> i, steps |-> LegSteps(r, r.members[i])]]
Phases(r) == SelectSeq(Legs(r), LAMBDA leg : leg.steps # <<>>)
Untraced(r) == {Legs(r)[i].member : i \in {j \in DOMAIN Legs(r) : Legs(r)[j].steps = <<>>}}
Follows(r, leg) == leg.at \in DOMAIN r.crossings

\* Too many cards make the legs shorter; no leg is left out.
Picked(r, phases, budget) == [i \in DOMAIN phases |-> SelectVisible(phases[i].steps, budget, Follows(r, phases[i]))]
Shown(picked) == FoldLeft(LAMBDA n, S : n + Cardinality(S), 0, picked)
Budgeted(r, phases) ==
    LET loose == Picked(r, phases, PhaseBudget)
    IN  IF Shown(loose) > MaxVisible /\ PhaseBudget > 2 THEN Picked(r, phases, 2) ELSE loose

Ascending(S) == SetToSortSeq(S, <)
Slots(phases, picked) ==
    FlattenSeq([i \in DOMAIN phases |->
        LET shown  == Ascending(picked[i])
            folded == P!Prefix(Ascending(DOMAIN phases[i].steps \ picked[i]), MaxFolded)
        IN  [k \in DOMAIN shown |-> [phase |-> i, step |-> shown[k], folded |-> FALSE]]
            \o [k \in DOMAIN folded |-> [phase |-> i, step |-> folded[k], folded |-> TRUE]]])

\* The cards.  A card that is shown hands over to the next that is shown; the
\* last of a leg carries the crossing that comes after the leg.
Cards(r, phases, slots) ==
    [k \in DOMAIN slots |->
        LET slot   == slots[k]
            leg    == phases[slot.phase]
            step   == leg.steps[slot.step]
            after  == {j \in k + 1 .. Len(slots) : ~slots[j].folded}
            next   == IF slot.folded \/ after = {} THEN 0 ELSE Min(after)
            last   == ~slot.folded /\ after = {}
            crosses == next # 0 /\ slots[next].phase # slot.phase /\ Follows(r, leg)
        IN  [place |-> step.at, member |-> leg.member, folded |-> slot.folded, next |-> next,
             boundary |-> IF crosses THEN r.crossings[leg.at] ELSE "none",
             landing |-> last, entry |-> k = 1,
             role |-> CASE k = 1 -> "entry" [] k # 1 /\ last -> "landing"
                        [] k # 1 /\ ~last /\ ~crosses /\ step.kind \in EffectKinds -> "effect" [] OTHER -> "hop"]]

\* The marker a reader may plant: over all the steps, whatever they cross.
Appendix(r, env) ==
    LET t     == [r.flow EXCEPT !.steps = Coalesce(r.steps)]
        probe == P!Probe(t, P!EffectSteps(t, DOMAIN t.steps))
    IN  IF probe = 0 \/ P!Trigger(t, env) = "none" THEN 0 ELSE probe

Walkthrough(r, env) ==
    LET phases == Phases(r)
        picked == Budgeted(r, phases)
        slots  == Slots(phases, picked)
        gaps   == (IF Untraced(r) # {} /\ r.members # <<>> THEN {"phase_not_traced"} ELSE {})
                  \cup (IF Shown(picked) > MaxVisible THEN {"walkthrough_longer_than_budget"} ELSE {})
                  \cup (IF \E i \in DOMAIN phases : Len(phases[i].steps) - Cardinality(picked[i]) > MaxFolded
                        THEN {"phase_substeps_truncated"} ELSE {})
                  \cup (IF Len(slots) = 1 THEN {"trace_is_one_step"} ELSE {})
                  \cup (IF Appendix(r, env) # 0 THEN P!TriggerGaps(r.flow, env) ELSE {})
    IN  IF r.steps = <<>> \/ phases = <<>> THEN [ok |-> FALSE]
        ELSE [ok |-> TRUE, cards |-> Cards(r, phases, slots), gaps |-> gaps, appendix |-> Appendix(r, env)]

\* lintWalkthrough, of what does not depend on prose.
Lint(r, d) ==
    LET kinds == {d.cards[k].boundary : k \in DOMAIN d.cards}
    IN  {"member_not_covered" : m \in {x \in ToSet(r.members) : \A k \in DOMAIN d.cards : d.cards[k].member # x}}
        \cup {"boundary_not_covered" : a \in {x \in DOMAIN r.crossings : x < Len(r.members) /\ r.crossings[x] \notin kinds}}
        \cup {"landing_missing" : k \in {x \in DOMAIN d.cards : ~d.cards[x].folded /\ d.cards[x].next = 0 /\ ~d.cards[x].landing}}

------------------------------------------------------------------------------
\* The lines that matter on a card: where its effects are, else where the next
\* symbol is called, the token of the crossing, and with none of these the
\* declaration.  <<0, 0>> is what was not found.
NotFound == <<0, 0>>
Clamp(c, range) == <<range[1], IF range[2] > c.lineEnd THEN c.lineEnd ELSE range[2]>>
Highlights(c) ==
    LET found   == SelectSeq(c.effects \o <<c.call, c.token>>, LAMBDA h : h # NotFound /\ h[1] <= c.lineEnd)
        clamped == [i \in DOMAIN found |-> Clamp(c, found[i])]
        all     == IF clamped = <<>> /\ c.named THEN <<<<1, 1>>>> ELSE clamped
        fresh   == SelectSeq([i \in DOMAIN all |-> i], LAMBDA i : \A j \in 1 .. i - 1 : all[j] # all[i])
    IN  SortSeq([k \in DOMAIN fresh |-> all[fresh[k]]], LAMBDA a, b : a[1] < b[1])

\* What is on screen: around the first highlight, then wider by the one that
\* costs least, until the next would be too many lines.
Primary(c, hs) ==
    LET focus == IF hs = <<>> THEN 1 ELSE hs[1][1]
        from  == Max({1, focus - WindowLines \div 2})
        to    == Min({c.total, from + WindowLines - 1})
    IN  <<Max({1, to - WindowLines + 1}), to>>
Around(w, h) == <<Min({w[1], h[1]}), Max({w[2], h[2]})>>
Size(w) == w[2] - w[1] + 1
Covers(w, h) == w[1] <= h[1] /\ h[2] <= w[2]
RECURSIVE Widen(_, _)
Widen(w, hs) ==
    LET out  == {i \in DOMAIN hs : ~Covers(w, hs[i])}
        best == CHOOSE i \in out : \A j \in out : \/ Size(Around(w, hs[i])) < Size(Around(w, hs[j]))
                                                  \/ Size(Around(w, hs[i])) = Size(Around(w, hs[j])) /\ i <= j
    IN  IF out = {} THEN w
        ELSE IF Size(Around(w, hs[best])) > WindowMax THEN w ELSE Widen(Around(w, hs[best]), hs)
Window(c) == IF c.total <= WindowLines THEN <<1, c.total>> ELSE Widen(Primary(c, Highlights(c)), Highlights(c))

\* The publishers of the token a handler waits for: not the handler's own
\* file; a product file before a test, the narrower before the wider, which
\* is the same call seen from further out; no more than three.
Wider(a, b) == a.to - a.from > b.to - b.from
RankEmitters(sites, handler) ==
    LET outside == SelectSeq(sites, LAMBDA s : s.file # handler)
        ranked  == SortSeq(outside, LAMBDA a, b : \/ ~a.test /\ b.test
                                                  \/ a.test = b.test /\ Wider(b, a))
        Keep(kept, s) == IF \E i \in DOMAIN kept : kept[i].file = s.file /\ kept[i].from \in s.from .. s.to
                         THEN kept ELSE Append(kept, s)
    IN  P!Prefix(FoldLeft(Keep, <<>>, ranked), 3)

------------------------------------------------------------------------------
\* A reading may fold, and never drop, a leg that was traced or a crossing
\* between two that were; what it lacks it says.
WholePath(r, d) ==
    LET shown(m) == {k \in DOMAIN d.cards : d.cards[k].member = m /\ ~d.cards[k].folded}
        traced   == ToSet(r.members) \ Untraced(r)
        tells(a) == {k \in DOMAIN d.cards : d.cards[k].boundary # "none" /\ d.cards[k].member = r.members[a]}
    IN  /\ \A m \in traced : shown(m) # {}
        /\ \A m \in ToSet(r.members) : r.own[m] # <<>> => shown(m) # {}
        /\ \A a \in DOMAIN r.crossings : r.members[a] \in traced /\ (\E b \in a + 1 .. Len(r.members) : r.members[b] \in traced) =>
              \E k \in DOMAIN d.cards : tells(a) = {k} /\ k = Max(shown(r.members[a]))
        /\ (r.members # <<>> /\ traced # ToSet(r.members)) <=> "phase_not_traced" \in d.gaps
        /\ Lint(r, d) = {} => traced = ToSet(r.members) /\ \A a \in DOMAIN r.crossings : a < Len(r.members) => tells(a) # {}

\* From the first card the hand-offs lead through every card that is shown, to
\* the one that says what now exists; what is folded is no link of the path.
Chained(d) ==
    LET shown == {k \in DOMAIN d.cards : ~d.cards[k].folded}
    IN  /\ 1 \in shown /\ d.cards[1].entry
        /\ {d.cards[k].next : k \in shown} = (shown \ {1}) \cup {0}
        /\ \A k \in shown : d.cards[k].next # 0 => d.cards[k].next > k
        /\ \A k \in DOMAIN d.cards : d.cards[k].landing <=> k = Max(shown)

\* A place is on one card of a leg, and only what does not fit is missing.
PlacesKept(r, d) ==
    \A leg \in ToSet(Phases(r)) :
        LET cards == {k \in DOMAIN d.cards : d.cards[k].member = leg.member}
            places == {s.at : s \in ToSet(leg.steps)}
        IN  /\ Cardinality({d.cards[k].place : k \in cards}) = Cardinality(cards)
            /\ {d.cards[k].place : k \in cards} = places \/ "phase_substeps_truncated" \in d.gaps

\* When a reading is too long every leg is at its shortest, and it is said.
NoLongerThanNeeded(r, d) ==
    LET shown == {k \in DOMAIN d.cards : ~d.cards[k].folded}
    IN  Cardinality(shown) > MaxVisible =>
          /\ "walkthrough_longer_than_budget" \in d.gaps
          /\ \A m \in {d.cards[k].member : k \in shown} : Cardinality({k \in shown : d.cards[k].member = m}) <= 2

ReadingKept(r, env) ==
    LET d == Walkthrough(r, env)
    IN  d.ok => WholePath(r, d) /\ Chained(d) /\ PlacesKept(r, d) /\ NoLongerThanNeeded(r, d)

\* What is highlighted is inside the card, once; the first highlight is always
\* on screen, and no other is off it that would have fitted.
CardKept(c) ==
    LET hs == Highlights(c)
        w  == Window(c)
    IN  /\ \A i, j \in DOMAIN hs : /\ 1 <= hs[i][1] /\ hs[i][1] <= hs[i][2] /\ hs[i][2] <= c.lineEnd
                                   /\ i < j => hs[i][1] <= hs[j][1] /\ hs[i] # hs[j]
        /\ c.named => hs # <<>>
        /\ 1 <= w[1] /\ w[2] <= c.total /\ Size(w) <= Max({WindowLines, WindowMax})
        /\ hs # <<>> => w[1] <= hs[1][1] /\ hs[1][1] <= w[2]
        /\ \A i \in DOMAIN hs : Covers(w, hs[i]) \/ Size(Around(w, hs[i])) > WindowMax

\* No publisher is counted twice, the narrowest range that holds the call is
\* named, and a test comes after every product file.
EmittersKept(sites, handler) ==
    LET kept == RankEmitters(sites, handler)
    IN  /\ \A i, j \in DOMAIN kept : i < j =>
              /\ kept[i].file = kept[j].file => ~(kept[i].from \in kept[j].from .. kept[j].to)
              /\ kept[i].test => kept[j].test
        /\ \A i \in DOMAIN kept, s \in ToSet(sites) :
              s.file = kept[i].file /\ Wider(kept[i], s) => ~(s.from >= kept[i].from /\ s.to <= kept[i].to)
        /\ \A s \in ToSet(sites) : s.file # handler =>
              \/ Len(kept) = 3
              \/ \E i \in DOMAIN kept : kept[i].file = s.file /\ kept[i].from \in s.from .. s.to
==============================================================================
