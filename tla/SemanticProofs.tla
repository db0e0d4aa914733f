--------------------------- MODULE SemanticProofs ---------------------------
(***************************************************************************)
(* Four parts of the semantic pipeline, for every value of their           *)
(* constants: the records of a symbol that the runs of a project share, the *)
(* rows of the phases of one run, the rows of the tutorials, and what a new *)
(* version of the code makes stale.                                         *)
(***************************************************************************)
EXTENDS RecordStore, SemanticPhases, TutorialCache, ChangeInputs, FiniteSetTheorems,
        WellFoundedInduction, TLAPS

(* The records *)

\* The snapshots are finitely many, each with a baseline, a depth and a content;
\* which they are is open.
Setting ==
  /\ IsFiniteSet(Snaps) /\ Previous \in [Snaps -> Snaps] /\ MaxAgain \in Nat
  /\ Histories \subseteq [Snaps -> Contents] /\ DepthSets \subseteq [Snaps -> Depths]

Written(r) == rows[r] # "none"

\* The record is made of the evidence of the snapshot, and deep enough for it.
Own(s, r) == r \in Rows /\ r.evidence = evidence[s] /\ r.depth \in Accepted(depth[s])

\* What a run holds, what the snapshot is mapped to and what its reviewer read are
\* its own; a second try is under way only from a verdict to the next one.
Held(s) ==
  /\ at[s] \in {"supersede", "write", "map", "refine"} => Own(s, held[s])
  /\ at[s] \in {"map", "refine"} => Written(held[s])
  /\ at[s] = "refine" => held[s].prompt = "symbol"
  /\ at[s] \in {"refine", "review", "judged", "done"} => Own(s, mapped[s])
  /\ at[s] = "judged" => read[s].row \in Rows /\ Written(read[s].row)
  /\ at[s] \in Idle \union {"symbols", "refine", "review"} => tries[s] = 0
  /\ prior[s] # None => prior[s] \in Rows /\ Written(prior[s])

\* A reviewer has its hand on what it read, and whoever rewrote it since has too.
Hands(s) ==
  /\ at[s] = "map" /\ tries[s] = 1 => s \in hands[held[s]]
  /\ at[s] = "judged" => /\ s \in hands[read[s].row]
                         /\ read[s].same \/ Cardinality(hands[read[s].row]) > 1

\* A record is superseded by a run whose snapshot has other evidence.
Superseded == \A r \in Rows : rows[r] = "superseded" =>
  \E q \in Snaps : at[q] # "idle" /\ evidence[q] # r.evidence

\* The record of the symbol that a refined one was made from.
HasBase(r) == \E d \in Accepted(r.depth) : Written(Row(r.evidence, "symbol", d))

\* A refined record, written or about to be, was made from one of the symbol.
Refined ==
  /\ \A r \in Rows : Written(r) /\ r.prompt = "refinement" => HasBase(r)
  /\ \A s \in Snaps : at[s] \in {"supersede", "write"} /\ held[s].prompt = "refinement"
                        => HasBase(held[s])

StoreInv ==
  /\ TypeOK
  /\ \A s \in Snaps : Held(s) /\ Hands(s)
  /\ Superseded /\ Refined
  /\ ReviewedFirst /\ UnchangedIsFree

------------------------------------------------------------------------------
(* What the rows are *)

LEMMA RowFacts ==
  /\ \A e \in Contents, p \in Prompts, d \in Depths :
       Row(e, p, d) \in Rows /\ Row(e, p, d).evidence = e /\ Row(e, p, d).prompt = p
       /\ Row(e, p, d).depth = d
  /\ \A r \in Rows : /\ r.evidence \in Contents /\ r.prompt \in Prompts /\ r.depth \in Depths
                     /\ r = Row(r.evidence, r.prompt, r.depth)
  /\ None \notin Rows
<1>1. ASSUME NEW e \in Contents, NEW p \in Prompts, NEW d \in Depths
      PROVE  /\ Row(e, p, d) \in Rows /\ Row(e, p, d).evidence = e
             /\ Row(e, p, d).prompt = p /\ Row(e, p, d).depth = d
  BY DEF Rows, Row
<1>2. ASSUME NEW r \in Rows
      PROVE  /\ r.evidence \in Contents /\ r.prompt \in Prompts /\ r.depth \in Depths
             /\ r = Row(r.evidence, r.prompt, r.depth)
  BY DEF Rows, Row
<1>3. None.prompt \notin Prompts
  BY DEF None, Row, Prompts
<1> QED  BY <1>1, <1>2, <1>3

LEMMA DepthFacts ==
  /\ \A d \in Depths : d \in Accepted(d) /\ Accepted(d) \subseteq Depths
  /\ \A d \in Depths : \A c \in Accepted(d) : Accepted(c) \subseteq Accepted(d)
  BY DEF Depths, Accepted

\* A lookup returns a live row of the key at an accepted depth, or there is none.
LEMMA FoundFacts ==
  ASSUME TypeOK, NEW s \in Snaps, NEW e \in Contents, NEW p \in Prompts
  PROVE  /\ Found(s, e, p) # None =>
              \E d \in Accepted(depth[s]) : Found(s, e, p) = Row(e, p, d) /\ Live(Row(e, p, d))
         /\ Found(s, e, p) = None => \A d \in Accepted(depth[s]) : ~Live(Row(e, p, d))
<1>1. depth[s] \in Depths
  BY DEF TypeOK
<1> DEFINE live == {d \in Accepted(depth[s]) : Live(Row(e, p, d))}
<1>2. CASE live = {}
  BY <1>2 DEF Found
<1>3. CASE live # {}
  <2> DEFINE best == IF "full" \in live THEN "full" ELSE "standard"
  <2>1. best \in live
    BY <1>3 DEF Accepted
  <2>2. Found(s, e, p) = Row(e, p, best)
    BY <1>3 DEF Found
  <2>3. Row(e, p, best) # None
    BY <2>1, <1>1, RowFacts, DepthFacts
  <2> QED  BY <2>1, <2>2, <2>3
<1> QED  BY <1>2, <1>3

LEMMA TwoHands ==
  ASSUME NEW H, IsFiniteSet(H), NEW a \in H, NEW b \in H, a # b PROVE Cardinality(H) > 1
<1>1. IsFiniteSet({a}) /\ Cardinality({a}) = 1
  BY FS_Singleton
<1>2. Cardinality({a}) <= Cardinality(H) /\ (Cardinality({a}) = Cardinality(H) => {a} = H)
  BY FS_Subset
<1>3. Cardinality(H) \in Nat
  BY FS_CardinalityType
<1> QED  BY <1>1, <1>2, <1>3

LEMMA MoreHands ==
  ASSUME NEW H, IsFiniteSet(H), NEW G \in SUBSET H, Cardinality(G) > 1 PROVE Cardinality(H) > 1
<1>1. Cardinality(G) <= Cardinality(H) /\ Cardinality(G) \in Nat /\ Cardinality(H) \in Nat
  BY FS_Subset, FS_CardinalityType
<1> QED  BY <1>1

------------------------------------------------------------------------------
(* What no step undoes *)

StepOf(s) ==
  \/ Start(s) \/ Resolve(s) \/ Supersede(s) \/ Write(s) \/ Map(s) \/ Refine(s)
  \/ Review(s) \/ Approve(s) \/ Reject(s) \/ Regenerate(s) \/ Die(s)

\* Evidence and depth stay, a run once started is never idle again, and rows and hands
\* are only added.
Grows ==
  /\ evidence' = evidence /\ depth' = depth
  /\ \A q \in Snaps : at[q] # "idle" => at'[q] # "idle"
  /\ \A r \in Rows : Written(r) => Written(r)'
  /\ \A r \in Rows : hands[r] \subseteq hands'[r]

Readings == [row : Rows \union {None}, same : BOOLEAN]

LEMMA LeaveTyped ==
  ASSUME TypeOK, NEW s \in Snaps, NEW p \in Places, Leave(s, p)
  PROVE  /\ at' \in [Snaps -> Places] /\ tries' \in [Snaps -> 0 .. 1]
         /\ held' \in [Snaps -> Rows \union {None}] /\ prior' \in [Snaps -> Rows \union {None}]
         /\ read' \in [Snaps -> Readings]
<1> USE DEF TypeOK, Leave
<1>1. at' \in [Snaps -> Places] /\ tries' \in [Snaps -> 0 .. 1]
  OBVIOUS
<1>2. held' \in [Snaps -> Rows \union {None}] /\ prior' \in [Snaps -> Rows \union {None}]
  OBVIOUS
<1>3. read \in [Snaps -> Readings] /\ Nothing \in Readings
  BY DEF Nothing, Readings
<1>4. read' \in [Snaps -> Readings]
  BY <1>3
<1> QED  BY <1>1, <1>2, <1>4

LEMMA StoreTyped ==
  ASSUME StoreInv, Setting, NEW s \in Snaps, StepOf(s) PROVE TypeOK'
<1> USE DEF StoreInv, TypeOK, Places, Idle
<1>0. Held(s) /\ held[s] \in Rows \union {None} /\ mapped[s] \in Rows \union {None}
  OBVIOUS
<1>1. CASE Start(s)
  BY <1>1 DEF Start, Setting
<1>2. CASE Resolve(s)
  <2>1. Row(evidence[s], "symbol", depth[s]) \in Rows
    BY RowFacts DEF Prompts
  <2>2. Found(s, evidence[s], "symbol") \in Rows \union {None}
    BY FoundFacts DEF Prompts, Live
  <2> QED  BY <1>2, <2>1, <2>2 DEF Resolve
<1>3. CASE Supersede(s)
  BY <1>3 DEF Supersede
<1>4. CASE Write(s)
  <2>1. held[s] \in Rows
    BY <1>0, <1>4 DEF Write, Held, Own
  <2>2. read' \in [Snaps -> [row : Rows \union {None}, same : BOOLEAN]]
    BY <1>4, ZenonT(40) DEF Write
  <2> QED  BY <1>4, <2>1, <2>2 DEF Write
<1>5. CASE Map(s)
  <2>1. held[s] \in Rows
    BY <1>0, <1>5 DEF Map, Held, Own
  <2>2. [row |-> held[s], same |-> TRUE] \in [row : Rows \union {None}, same : BOOLEAN]
    BY <2>1
  <2> QED  BY <1>5, <2>1, <2>2 DEF Map
<1>6. CASE Refine(s)
  <2>1. held[s].evidence \in Contents
    BY <1>0, <1>6, RowFacts DEF Refine, Held, Own
  <2>2. Row(held[s].evidence, "refinement", depth[s]) \in Rows
    BY <2>1, RowFacts DEF Prompts
  <2>3. Found(s, held[s].evidence, "refinement") \in Rows \union {None}
    BY <2>1, FoundFacts DEF Prompts, Live
  <2>4. held' \in [Snaps -> Rows \union {None}] /\ mapped' \in [Snaps -> Rows \union {None}]
    BY <1>6, <2>2, <2>3 DEF Refine
  <2>5. at' \in [Snaps -> Places]
    BY <1>6, ZenonT(40) DEF Refine
  <2> QED  BY <1>6, <2>4, <2>5 DEF Refine
<1>7. CASE Review(s)
  <2>1. mapped[s] \in Rows
    BY <1>0, <1>7 DEF Review, Held, Own
  <2>2. CASE rows[mapped[s]] = "pending"
    <3>1. [row |-> mapped[s], same |-> TRUE] \in Readings /\ read \in [Snaps -> Readings]
      BY <2>1 DEF Readings
    <3>2. read' \in [Snaps -> Readings]
      BY <1>7, <2>2, <3>1 DEF Review
    <3>3. hands' = [hands EXCEPT ![mapped[s]] = @ \cup {s}] /\ at' = [at EXCEPT ![s] = "judged"]
      BY <1>7, <2>2 DEF Review
    <3>4. hands' \in [Rows -> SUBSET Snaps]
      BY <2>1, <3>3
    <3>5. at' \in [Snaps -> Places]
      BY <3>3
    <3> QED  BY <1>7, <2>2, <3>2, <3>4, <3>5 DEF Review, Readings
  <2>3. CASE rows[mapped[s]] # "pending"
    <3>1. Leave(s, "done")
      BY <1>7, <2>3 DEF Review
    <3>2. UNCHANGED <<evidence, depth, rows, reviewed, hands, mapped, again>>
      BY <1>7, <2>3 DEF Review
    <3> HIDE DEF TypeOK
    <3> QED  BY <3>1, <3>2, LeaveTyped DEF TypeOK, Readings
  <2> QED  BY <2>2, <2>3
<1>8. CASE Approve(s) \/ Reject(s)
  <2>1. rows' \in [Rows -> {"none", "pending", "usable", "rejected", "superseded"}]
    BY <1>8 DEF Approve, Reject, Settle
  <2>2. reviewed' \in [Rows -> BOOLEAN]
    BY <1>8 DEF Approve, Reject, Settle
  <2>3. Leave(s, "done") /\ UNCHANGED <<evidence, depth, hands, mapped, again>>
    BY <1>8 DEF Approve, Reject, Settle
  <2> HIDE DEF TypeOK
  <2> QED  BY <2>1, <2>2, <2>3, LeaveTyped DEF TypeOK, Readings
<1>9. CASE Regenerate(s)
  <2>1. Row(evidence[s], "symbol", depth[s]) \in Rows
    BY RowFacts DEF Prompts
  <2> QED  BY <1>9, <2>1 DEF Regenerate
<1>10. CASE Die(s)
  <2>1. again' \in 0 .. MaxAgain
    BY <1>10 DEF Die, Setting
  <2>2. Leave(s, "dead") /\ UNCHANGED <<evidence, depth, rows, reviewed, hands, mapped>>
    BY <1>10 DEF Die
  <2> HIDE DEF TypeOK
  <2> QED  BY <2>1, <2>2, LeaveTyped DEF TypeOK, Readings
<1> QED  BY <1>1, <1>2, <1>3, <1>4, <1>5, <1>6, <1>7, <1>8, <1>9, <1>10 DEF StepOf

LEMMA StoreGrows ==
  ASSUME StoreInv, NEW s \in Snaps, StepOf(s) PROVE Grows
<1> USE DEF StoreInv, TypeOK, Grows, Written, Idle
<1>1. CASE Start(s) \/ Resolve(s) \/ Map(s) \/ Refine(s) \/ Regenerate(s)
  BY <1>1 DEF Start, Resolve, Map, Refine, Regenerate
<1>2. CASE Supersede(s) \/ Write(s)
  BY <1>2, SMTT(30) DEF Supersede, Write, Live
<1>3. CASE Review(s) \/ Die(s)
  BY <1>3, SMTT(30) DEF Review, Die, Leave
<1>4. CASE Approve(s) \/ Reject(s)
  BY <1>4 DEF Approve, Reject, Settle, Leave
<1> QED  BY <1>1, <1>2, <1>3, <1>4 DEF StepOf

------------------------------------------------------------------------------
(* What a step makes of the parts of the invariant *)

\* A step of one run leaves what every other run holds alone, but for what a reviewer
\* of a row that is rewritten knows of it.
Apart(s) == \A q \in Snaps \ {s} :
  /\ at'[q] = at[q] /\ held'[q] = held[q] /\ mapped'[q] = mapped[q] /\ prior'[q] = prior[q]
  /\ tries'[q] = tries[q] /\ read'[q].row = read[q].row
  /\ read'[q] = read[q] \/ (Write(s) /\ read[q].row = held[s])

LEMMA OthersApart ==
  ASSUME StoreInv, NEW s \in Snaps, StepOf(s) PROVE Apart(s)
<1> USE DEF StoreInv, TypeOK, Apart
<1>1. CASE Start(s) \/ Resolve(s) \/ Map(s) \/ Refine(s) \/ Regenerate(s)
  BY <1>1 DEF Start, Resolve, Map, Refine, Regenerate
<1>2. CASE Supersede(s) \/ Write(s)
  BY <1>2 DEF Supersede, Write
<1>3. CASE Review(s) \/ Die(s)
  BY <1>3 DEF Review, Die, Leave
<1>4. CASE Approve(s) \/ Reject(s)
  BY <1>4 DEF Approve, Reject, Settle, Leave
<1> QED  BY <1>1, <1>2, <1>3, <1>4 DEF StepOf

\* What a run holds.
LEMMA HeldKept ==
  ASSUME StoreInv, Setting, NEW s \in Snaps, StepOf(s) PROVE \A q \in Snaps : Held(q)'
<1>1. TypeOK' /\ Grows /\ Apart(s) /\ TypeOK /\ Held(s)
  BY StoreTyped, StoreGrows, OthersApart DEF StoreInv
<1>2. ASSUME NEW q \in Snaps \ {s} PROVE Held(q)'
  BY <1>1 DEF StoreInv, Held, Own, Apart, Grows
<1>3. evidence[s] \in Contents /\ depth[s] \in Depths
  BY <1>1 DEF TypeOK
<1> USE DEF TypeOK, Idle
<1>4. Held(s)'
  <2>1. CASE Start(s)
    <3>1. at'[s] = "symbols" /\ tries'[s] = 0
      BY <1>1, <2>1 DEF Start, Held
    <3>2. prior'[s] # None => Live(prior'[s]) /\ rows' = rows
      BY <1>1, <2>1 DEF Start, Setting
    <3> QED  BY <3>1, <3>2 DEF Held, Live, Written
  <2>2. CASE Resolve(s)
    <3>1. \/ Own(s, held'[s]) /\ Written(held'[s]) /\ at'[s] = "map"
          \/ Own(s, held'[s]) /\ at'[s] = "supersede"
      <4>1. CASE isCarryForwardEligible(s)
        BY <1>1, <2>2, <4>1 DEF Resolve, isCarryForwardEligible, Held, Own
      <4>2. CASE ~isCarryForwardEligible(s) /\ Found(s, evidence[s], "symbol") # None
        <5>1. PICK d \in Accepted(depth[s]) : /\ Found(s, evidence[s], "symbol") = Row(evidence[s], "symbol", d)
                                               /\ Live(Row(evidence[s], "symbol", d))
          BY <1>1, <1>3, <4>2, FoundFacts DEF Prompts
        <5>2. held'[s] = Row(evidence[s], "symbol", d) /\ at'[s] = "map"
          BY <1>1, <2>2, <4>2, <5>1 DEF Resolve
        <5> QED  BY <1>3, <5>1, <5>2, RowFacts, DepthFacts DEF Own, Live, Written, Prompts
      <4>3. CASE ~isCarryForwardEligible(s) /\ Found(s, evidence[s], "symbol") = None
        BY <1>1, <1>3, <2>2, <4>3, RowFacts, DepthFacts DEF Resolve, Own, Prompts
      <4> QED  BY <4>1, <4>2, <4>3
    <3>2. UNCHANGED <<evidence, depth, rows, prior>>
      BY <2>2 DEF Resolve
    <3> QED  BY <1>1, <3>1, <3>2 DEF Held, Own, Written
  <2>3. CASE Supersede(s) \/ Write(s)
    BY <1>1, <2>3 DEF Supersede, Write, Held, Own, Grows, Written
  <2>4. CASE Map(s)
    BY <1>1, <2>4 DEF Map, Held, Own, Written, Prompts, Rows, Row
  <2>5. CASE Refine(s)
    <3>1. at'[s] = "review" \/ at'[s] = "supersede"
      BY <1>1, <2>5 DEF Refine
    <3>2. at'[s] = "review" => Own(s, mapped'[s])
      <4>1. held[s].evidence = evidence[s] /\ Own(s, mapped[s])
        BY <1>1, <2>5 DEF Refine, Held, Own
      <4>2. Found(s, evidence[s], "refinement") # None => Own(s, Found(s, evidence[s], "refinement"))
        BY <1>1, <1>3, FoundFacts, RowFacts, DepthFacts DEF Own, Prompts
      <4>3. at'[s] = "review" => \/ mapped' = mapped
                                 \/ /\ Found(s, evidence[s], "refinement") # None
                                    /\ mapped'[s] = Found(s, evidence[s], "refinement")
        BY <1>1, <2>5, <4>1 DEF Refine
      <4> QED  BY <4>1, <4>2, <4>3
    <3>3. at'[s] = "supersede" => Own(s, held'[s])
      BY <1>1, <1>3, <2>5, RowFacts, DepthFacts DEF Refine, Held, Own, Prompts
    <3>4. UNCHANGED <<evidence, depth, rows, prior, tries>> /\ tries[s] = 0
      BY <1>1, <2>5 DEF Refine, Held
    <3> QED  BY <1>1, <3>1, <3>2, <3>3, <3>4 DEF Held, Own, Written
  <2>6. CASE Review(s)
    BY <1>1, <2>6 DEF Review, Leave, Held, Own, Written
  <2>7. CASE Approve(s) \/ Reject(s)
    <3>1. at'[s] = "done" /\ tries'[s] = 0 /\ prior'[s] = None
      BY <1>1, <2>7 DEF Approve, Reject, Settle, Leave
    <3>2. Own(s, mapped[s]) /\ UNCHANGED <<evidence, depth, mapped>>
      BY <1>1, <2>7 DEF Approve, Reject, Settle, Held
    <3> QED  BY <3>1, <3>2 DEF Held, Own
  <2>8. CASE Regenerate(s)
    BY <1>1, <1>3, <2>8, RowFacts, DepthFacts DEF Regenerate, Held, Own, Written, Prompts
  <2>9. CASE Die(s)
    BY <1>1, <2>9 DEF Die, Leave, Held
  <2> QED  BY <2>1, <2>2, <2>3, <2>4, <2>5, <2>6, <2>7, <2>8, <2>9 DEF StepOf
<1> QED  BY <1>2, <1>4
\* Whoever reviews a row has its hand on it; so has whoever rewrites it meanwhile.
LEMMA HandsKept ==
  ASSUME StoreInv, Setting, NEW s \in Snaps, StepOf(s) PROVE \A q \in Snaps : Hands(q)'
<1>1. TypeOK' /\ Grows /\ Apart(s) /\ TypeOK /\ Held(s) /\ Hands(s)
  BY StoreTyped, StoreGrows, OthersApart DEF StoreInv
<1>2. \A r \in Rows : IsFiniteSet(hands'[r])
  BY <1>1, FS_Subset DEF TypeOK, Setting
<1>3. \A r \in Rows : Cardinality(hands[r]) > 1 => Cardinality(hands'[r]) > 1
  BY <1>1, <1>2, MoreHands DEF Grows
<1>4. ASSUME NEW q \in Snaps \ {s} PROVE Hands(q)'
  <2>1. Held(q) /\ Hands(q)
    BY DEF StoreInv
  <2>2. at'[q] = at[q] /\ held'[q] = held[q] /\ tries'[q] = tries[q] /\ read'[q].row = read[q].row
    BY <1>1 DEF Apart
  <2>3. at[q] = "map" /\ tries[q] = 1 => q \in hands'[held[q]]
    BY <1>1, <2>1 DEF Held, Hands, Own, Grows
  <2>4. ASSUME at[q] = "judged"
        PROVE  q \in hands'[read[q].row] /\ (read'[q].same \/ Cardinality(hands'[read[q].row]) > 1)
    <3>1. read[q].row \in Rows /\ q \in hands'[read[q].row]
      BY <1>1, <2>1, <2>4 DEF Held, Hands, Grows
    <3>2. CASE read'[q] = read[q]
      BY <1>3, <2>1, <2>4, <3>1, <3>2 DEF Hands
    <3>3. CASE Write(s) /\ read[q].row = held[s]
      <4>1. s \in hands'[held[s]]
        BY <1>1, <3>1, <3>3 DEF Write, TypeOK
      <4> QED  BY <1>2, <3>1, <3>3, <4>1, TwoHands
    <3> QED  BY <1>1, <3>2, <3>3 DEF Apart
  <2> QED  BY <2>2, <2>3, <2>4 DEF Hands
<1>5. Hands(s)'
  <2>1. CASE Write(s)
    <3>1. at'[s] = "map" /\ held'[s] = held[s] /\ held[s] \in Rows
      BY <1>1, <2>1 DEF Write, TypeOK, Held, Own
    <3>2. s \in hands'[held[s]]
      BY <1>1, <2>1, <3>1 DEF Write, TypeOK
    <3> QED  BY <3>1, <3>2 DEF Hands
  <2>2. CASE Map(s)
    BY <1>1, <2>2 DEF Map, TypeOK, Held, Hands
  <2>3. CASE Resolve(s)
    BY <1>1, <2>3 DEF Resolve, TypeOK, Held, Hands, Idle
  <2>4. CASE Review(s)
    <3>1. CASE rows[mapped[s]] = "pending"
      <4>1. at'[s] = "judged" /\ read'[s].row = mapped[s] /\ read'[s].same
        BY <1>1, <2>4, <3>1 DEF Review, TypeOK
      <4>2. s \in hands'[mapped[s]]
        BY <1>1, <2>4, <3>1 DEF Review, TypeOK, Held, Own
      <4> QED  BY <4>1, <4>2 DEF Hands
    <3>2. CASE rows[mapped[s]] # "pending"
      <4>1. at'[s] = "done"
        BY <1>1, <2>4, <3>2 DEF Review, Leave, TypeOK
      <4> QED  BY <4>1 DEF Hands
    <3> QED  BY <3>1, <3>2
  <2>5. CASE Start(s) \/ Supersede(s) \/ Refine(s) \/ Regenerate(s)
    <3>1. at'[s] \in {"symbols", "write", "supersede", "review"}
      BY <1>1, <2>5 DEF Start, Supersede, Refine, Regenerate, TypeOK
    <3> QED  BY <3>1 DEF Hands
  <2>6. CASE Approve(s) \/ Reject(s) \/ Die(s)
    <3>1. at'[s] \in {"done", "dead"}
      BY <1>1, <2>6 DEF Approve, Reject, Settle, Die, Leave, TypeOK
    <3> QED  BY <3>1 DEF Hands
  <2> QED  BY <2>1, <2>2, <2>3, <2>4, <2>5, <2>6 DEF StepOf
<1> QED  BY <1>4, <1>5

LEMMA SupersededKept ==
  ASSUME StoreInv, Setting, NEW s \in Snaps, StepOf(s) PROVE Superseded'
<1>1. Grows /\ TypeOK /\ Held(s) /\ Superseded
  BY StoreGrows DEF StoreInv
<1>2. SUFFICES ASSUME NEW r \in Rows, rows'[r] = "superseded", rows[r] # "superseded"
               PROVE  \E q \in Snaps : at'[q] # "idle" /\ evidence'[q] # r.evidence
  BY <1>1 DEF Superseded, Grows
<1>3. Supersede(s) /\ Supersedes(held[s], r)
  <2>1. CASE Supersede(s)
    BY <1>2, <2>1 DEF Supersede
  <2>2. CASE Write(s)
    BY <1>1, <1>2, <2>2 DEF Write, TypeOK
  <2>3. CASE Approve(s) \/ Reject(s)
    BY <1>1, <1>2, <2>3 DEF Approve, Reject, Settle, TypeOK
  <2>4. CASE Start(s) \/ Resolve(s) \/ Map(s) \/ Refine(s) \/ Review(s) \/ Regenerate(s) \/ Die(s)
    BY <1>2, <2>4 DEF Start, Resolve, Map, Refine, Review, Regenerate, Die
  <2> QED  BY <2>1, <2>2, <2>3, <2>4 DEF StepOf
<1>4. held[s].evidence = evidence[s] /\ at[s] # "idle"
  BY <1>1, <1>3 DEF Supersede, Held, Own
<1> QED  BY <1>1, <1>3, <1>4 DEF Supersedes, Grows

LEMMA RefinedKept ==
  ASSUME StoreInv, Setting, NEW s \in Snaps, StepOf(s) PROVE Refined'
<1>1. TypeOK' /\ Grows /\ Apart(s) /\ TypeOK /\ Held(s) /\ Refined
  BY StoreTyped, StoreGrows, OthersApart DEF StoreInv
<1>2. \A r \in Rows : HasBase(r) => HasBase(r)'
  BY <1>1, RowFacts, DepthFacts DEF HasBase, Grows, Prompts
<1>3. ASSUME NEW r \in Rows, Written(r)', r.prompt = "refinement" PROVE HasBase(r)'
  <2>1. CASE Written(r)
    BY <1>1, <1>2, <1>3, <2>1 DEF Refined
  <2>2. CASE ~Written(r)
    <3>1. Write(s) /\ held[s] = r
      <4>1. CASE Supersede(s)
        BY <1>3, <2>2, <4>1 DEF Supersede, Written, Live
      <4>2. CASE Write(s)
        BY <1>1, <1>3, <2>2, <4>2 DEF Write, TypeOK, Written
      <4>3. CASE Approve(s) \/ Reject(s)
        <5>1. Written(read[s].row)
          BY <1>1, <4>3 DEF Held, Approve, Reject
        <5> QED  BY <1>1, <1>3, <2>2, <4>3, <5>1 DEF Approve, Reject, Settle, TypeOK, Written
      <4>4. CASE Start(s) \/ Resolve(s) \/ Map(s) \/ Refine(s) \/ Review(s) \/ Regenerate(s) \/ Die(s)
        BY <1>3, <2>2, <4>4 DEF Start, Resolve, Map, Refine, Review, Regenerate, Die, Written
      <4> QED  BY <4>1, <4>2, <4>3, <4>4 DEF StepOf
    <3> QED  BY <1>1, <1>2, <1>3, <3>1 DEF Refined, Write
  <2> QED  BY <2>1, <2>2
<1>4. ASSUME NEW q \in Snaps, at'[q] \in {"supersede", "write"}, held'[q].prompt = "refinement"
      PROVE  HasBase(held[q])'
  <2>1. CASE q # s
    <3>1. at'[q] = at[q] /\ held'[q] = held[q] /\ Held(q)
      BY <1>1, <2>1 DEF Apart, StoreInv
    <3> QED  BY <1>1, <1>2, <1>4, <3>1 DEF Refined, Held, Own, HasBase
  <2>2. CASE q = s
    <3>1. CASE Supersede(s)
      BY <1>1, <1>2, <1>4, <2>2, <3>1 DEF Refined, Held, Own, Supersede, HasBase
    <3>2. CASE Refine(s)
      <4>1. held'[s] = Row(evidence[s], "refinement", depth[s])
        BY <1>1, <1>4, <2>2, <3>2 DEF Refine, TypeOK, Held, Own
      <4>2. held[s] = Row(evidence[s], "symbol", held[s].depth) /\ held[s].depth \in Accepted(depth[s])
        BY <1>1, <3>2, RowFacts DEF Refine, Held, Own
      <4>3. Written(held[s]) /\ rows' = rows
        BY <1>1, <3>2 DEF Refine, Held
      <4>4. held'[s].evidence = evidence[s] /\ held'[s].depth = depth[s]
        BY <1>1, <4>1, RowFacts DEF TypeOK, Prompts
      <4> QED  BY <2>2, <4>2, <4>3, <4>4 DEF HasBase, Written
    <3>3. CASE Resolve(s) \/ Regenerate(s)
      <4>1. at'[s] = "supersede" => held'[s] = Row(evidence[s], "symbol", depth[s])
        BY <1>1, <3>3 DEF Resolve, Regenerate, TypeOK
      <4>2. at'[s] # "write"
        BY <1>1, <3>3 DEF Resolve, Regenerate, TypeOK
      <4> QED  BY <1>1, <1>4, <2>2, <4>1, <4>2, RowFacts DEF TypeOK, Prompts
    <3>4. CASE Start(s) \/ Write(s) \/ Map(s) \/ Review(s) \/ Approve(s) \/ Reject(s) \/ Die(s)
      <4>1. at'[s] \in {"symbols", "map", "judged", "refine", "review", "done", "dead"}
        BY <1>1, <3>4 DEF Start, Write, Map, Review, Approve, Reject, Settle, Die, Leave, TypeOK
      <4> QED  BY <1>4, <2>2, <4>1
    <3> QED  BY <3>1, <3>2, <3>3, <3>4 DEF StepOf
  <2> QED  BY <2>1, <2>2
<1> QED  BY <1>3, <1>4 DEF Refined
\* A record becomes usable only by a verdict, and what is rewritten is not usable.
LEMMA ReviewedKept ==
  ASSUME StoreInv, Setting, NEW s \in Snaps, StepOf(s) PROVE ReviewedFirst'
<1>1. TypeOK' /\ Grows /\ TypeOK /\ Held(s) /\ Hands(s) /\ ReviewedFirst
  BY StoreTyped, StoreGrows DEF StoreInv
<1>2. \A r \in Rows : Cardinality(hands[r]) > 1 => Cardinality(hands'[r]) > 1
  BY <1>1, FS_Subset, MoreHands DEF Grows, TypeOK, Setting
<1>3. SUFFICES ASSUME NEW r \in Rows, rows'[r] = "usable"
               PROVE  reviewed'[r] \/ Cardinality(hands'[r]) > 1
  BY DEF ReviewedFirst
<1>4. CASE rows[r] = "usable" /\ reviewed'[r] = reviewed[r]
  BY <1>1, <1>2, <1>4 DEF ReviewedFirst
<1>5. CASE Supersede(s)
  <2>1. rows[r] = "usable" /\ reviewed' = reviewed
    BY <1>3, <1>5 DEF Supersede
  <2> QED  BY <1>4, <2>1
<1>6. CASE Write(s)
  <2>1. r # held[s] /\ rows[r] = "usable" /\ reviewed'[r] = reviewed[r]
    BY <1>1, <1>3, <1>6 DEF Write, TypeOK
  <2> QED  BY <1>4, <2>1
<1>7. CASE Approve(s) \/ Reject(s)
  <2>1. read[s].row \in Rows /\ (read[s].same \/ Cardinality(hands[read[s].row]) > 1)
    BY <1>1, <1>7 DEF Approve, Reject, Held, Hands
  <2>2. CASE r = read[s].row
    <3>1. reviewed'[r] = read[s].same
      BY <1>1, <1>7, <2>1, <2>2 DEF Approve, Reject, Settle, TypeOK
    <3> QED  BY <1>2, <2>1, <2>2, <3>1
  <2>3. CASE r # read[s].row
    <3>1. rows[r] = "usable" /\ reviewed'[r] = reviewed[r]
      BY <1>1, <1>3, <1>7, <2>3 DEF Approve, Reject, Settle, TypeOK
    <3> QED  BY <1>4, <3>1
  <2> QED  BY <2>2, <2>3
<1>8. CASE Start(s) \/ Resolve(s) \/ Map(s) \/ Refine(s) \/ Review(s) \/ Regenerate(s) \/ Die(s)
  <2>1. rows' = rows /\ reviewed' = reviewed
    BY <1>8 DEF Start, Resolve, Map, Refine, Review, Regenerate, Die
  <2> QED  BY <1>3, <1>4, <2>1
<1> QED  BY <1>5, <1>6, <1>7, <1>8 DEF StepOf

\* The symbol of this snapshot is asked for although a record of its evidence was taken down.
PaidAgain(s) ==
  /\ at[s] = "supersede" /\ held[s].prompt = "symbol" /\ tries[s] = 0 /\ prior[s] # None
  /\ prior[s].evidence = evidence[s] /\ prior[s].depth \in Accepted(depth[s])

Otherwise(s) == \E q \in Snaps : at[q] # "idle" /\ evidence[q] # evidence[s]

\* Then what was taken down was a refined record, whose base was superseded.
LEMMA FreeKept ==
  ASSUME StoreInv, Setting, NEW s \in Snaps, StepOf(s) PROVE UnchangedIsFree'
<1>1. Grows /\ Apart(s) /\ TypeOK /\ Held(s) /\ Refined /\ Superseded
      /\ \A q \in Snaps : PaidAgain(q) => Otherwise(q)
  BY StoreGrows, OthersApart DEF StoreInv, UnchangedIsFree, PaidAgain, Otherwise
<1>2. SUFFICES ASSUME NEW q \in Snaps, PaidAgain(q)' PROVE Otherwise(q)'
  BY DEF UnchangedIsFree, PaidAgain, Otherwise
<1>3. \A p \in Snaps : Otherwise(p) => Otherwise(p)'
  BY <1>1 DEF Otherwise, Grows
<1>4. CASE q # s
  <2>1. PaidAgain(q)
    BY <1>1, <1>2, <1>4 DEF Apart, Grows, PaidAgain
  <2> QED  BY <1>1, <1>3, <2>1
<1>5. CASE q = s
  <2>1. CASE Resolve(s)
    <3>1. at'[s] = "supersede" /\ prior' = prior /\ rows' = rows /\ evidence' = evidence
          /\ depth' = depth /\ prior[s] # None /\ prior[s].evidence = evidence[s]
          /\ prior[s].depth \in Accepted(depth[s])
      BY <1>2, <1>5, <2>1 DEF Resolve, PaidAgain
    <3>2. ~isCarryForwardEligible(s) /\ Found(s, evidence[s], "symbol") = None
      BY <1>1, <2>1, <3>1, RowFacts DEF Resolve, TypeOK, isCarryForwardEligible
    <3>3. prior[s] \in Rows /\ Written(prior[s]) /\ prior[s].prompt = "refinement"
      BY <1>1, <3>1, <3>2, RowFacts DEF Held, isCarryForwardEligible, Prompts
    <3>4. PICK d \in Accepted(prior[s].depth) : Written(Row(evidence[s], "symbol", d))
      BY <1>1, <3>1, <3>3 DEF Refined, HasBase
    <3>5. d \in Accepted(depth[s]) /\ d \in Depths /\ evidence[s] \in Contents
      BY <1>1, <3>1, <3>4, DepthFacts DEF TypeOK
    <3>6. ~Live(Row(evidence[s], "symbol", d))
      BY <1>1, <3>2, <3>5, FoundFacts DEF Prompts
    <3>7. Row(evidence[s], "symbol", d) \in Rows /\ Row(evidence[s], "symbol", d).evidence = evidence[s]
      BY <3>5, RowFacts DEF Prompts
    <3>8. rows[Row(evidence[s], "symbol", d)] = "superseded"
      BY <3>4, <3>6, <3>7 DEF Live, Written
    <3>9. Otherwise(s)
      BY <1>1, <3>7, <3>8 DEF Superseded, Otherwise
    <3> QED  BY <1>3, <1>5, <3>9
  <2>2. CASE Refine(s)
    <3>1. at'[s] = "supersede" => held'[s] = Row(held[s].evidence, "refinement", depth[s])
      BY <1>1, <2>2 DEF Refine, TypeOK
    <3>2. held[s].evidence \in Contents /\ depth[s] \in Depths
      BY <1>1, <2>2, RowFacts DEF Refine, Held, Own, TypeOK
    <3> QED  BY <1>2, <1>5, <3>1, <3>2, RowFacts DEF PaidAgain, Prompts
  <2>3. CASE Regenerate(s)
    BY <1>1, <1>2, <1>5, <2>3 DEF Regenerate, PaidAgain, TypeOK
  <2>4. CASE Start(s) \/ Supersede(s) \/ Write(s) \/ Map(s) \/ Review(s) \/ Approve(s) \/ Reject(s) \/ Die(s)
    <3>1. at'[s] \in {"symbols", "write", "map", "judged", "refine", "review", "done", "dead"}
      BY <1>1, <2>4
      DEF Start, Supersede, Write, Map, Review, Approve, Reject, Settle, Die, Leave, TypeOK
    <3> QED  BY <1>2, <1>5, <3>1 DEF PaidAgain
  <2> QED  BY <2>1, <2>2, <2>3, <2>4 DEF StepOf
<1> QED  BY <1>4, <1>5

------------------------------------------------------------------------------
(* The theorem *)

LEMMA StoreInit == ASSUME Setting, Init PROVE StoreInv
<1> USE DEF Setting, Init
<1>1. TypeOK
  <2>1. read \in [Snaps -> [row : Rows \union {None}, same : BOOLEAN]]
    BY DEF Nothing
  <2> QED  BY <2>1 DEF TypeOK, Places
<1>2. ASSUME NEW s \in Snaps PROVE Held(s) /\ Hands(s)
  BY DEF Held, Hands
<1>3. Superseded /\ Refined /\ ReviewedFirst /\ UnchangedIsFree
  BY DEF Superseded, Refined, Written, ReviewedFirst, UnchangedIsFree
<1> QED  BY <1>1, <1>2, <1>3 DEF StoreInv

LEMMA StoreStep == ASSUME StoreInv, Setting, [StoreNext]_vars PROVE StoreInv'
<1>1. CASE UNCHANGED vars
  <2>1. TypeOK' /\ ReviewedFirst' /\ UnchangedIsFree'
    BY <1>1 DEF StoreInv, vars, TypeOK, ReviewedFirst, UnchangedIsFree
  <2>2. \A s \in Snaps : Held(s)' /\ Hands(s)'
    BY <1>1 DEF StoreInv, vars, Held, Hands, Own, Written
  <2>3. Superseded' /\ Refined'
    BY <1>1 DEF StoreInv, vars, Superseded, Refined, HasBase, Written
  <2> QED  BY <2>1, <2>2, <2>3 DEF StoreInv
<1>2. CASE StoreNext
  <2>1. PICK s \in Snaps : StepOf(s)
    BY <1>2 DEF StoreNext, StepOf
  <2> QED  BY <2>1, StoreTyped, HeldKept, HandsKept, SupersededKept, RefinedKept, ReviewedKept, FreeKept
           DEF StoreInv
<1> QED  BY <1>1, <1>2

\* For any number of snapshots, contents, runs at once, deaths and second analyses: a
\* complete snapshot has a record made of its own evidence and as deep as it asked for;
\* nothing is used before a verdict on what is written there, unless two runs had the row
\* in hand; and a symbol that is the same in every snapshot is not paid for again
\* (recordStore.ts, symbolPass.ts, refinementPass.ts and critiquePass.ts).
THEOREM RecordsAreCorrect == ASSUME Setting PROVE Spec => []RecordsCorrect
<1>1. StoreInv => RecordsCorrect
  <2>1. StoreInv => OwnEvidence
    BY RowFacts DEF StoreInv, OwnEvidence, Held, Own
  <2> QED  BY <2>1 DEF StoreInv, RecordsCorrect
<1> QED  BY StoreInit, StoreStep, <1>1, PTL DEF Spec

------------------------------------------------------------------------------
(* The phases *)

Ended == {"ok", "degrade", "hard"}

\* While a run is under way: what it has passed is complete, what it has reached in
\* the pair is as the pair says, a budget that ended the first phase ended the work,
\* and nothing has failed for good but a pass of the pair.
UnderWay ==
  /\ \A k \in 1 .. NP : k < place \/ (k = place /\ step = "flush") => row[InOrder[k]] = "complete"
  /\ place <= NP => \A p \in Tail2 : pair[p] = "mark"
  /\ \A p \in Tail2 : pair[p] = "ok" => row[p] = "complete"
  /\ symbolsDegraded => place = 1
  /\ fault => \E p \in Tail2 : pair[p] = "hard"

\* What a run that ended without a throw reports is on the rows.
Reported ==
  /\ outcome = "complete" => \A p \in Phases : row[p] = "complete"
  /\ outcome = "degraded" => /\ ~fault /\ \A p \in Phases : row[p] \in {"complete", "skipped"}
                             /\ \E p \in Phases : row[p] = "skipped"

PhasesInv ==
  /\ PhasesTypeOK
  /\ outcome = "running" => UnderWay
  /\ Reported

Bounds == MaxRuns \in Nat \ {0} /\ MaxFaults \in Nat

\* Seven phases: five in order, and a pair that is not among them.
LEMMA PhaseFacts ==
  /\ NP = 5
  /\ Phases = {InOrder[k] : k \in 1 .. NP} \union Tail2
  /\ \A k \in 1 .. NP : InOrder[k] \in Phases /\ InOrder[k] \notin Tail2
  /\ \A j, k \in 1 .. NP : InOrder[j] = InOrder[k] => j = k
<1>1. NP = 5
  BY DEF NP, InOrder
<1>2. Phases = {InOrder[k] : k \in 1 .. NP} \union Tail2
  BY DEF Phases, NP, InOrder, ToSet
<1>3. ASSUME NEW k \in 1 .. NP PROVE InOrder[k] \notin Tail2
  <2>1. k \in {1, 2, 3, 4, 5}
    BY <1>1
  <2> QED  BY <2>1 DEF InOrder, Tail2
<1>4. ASSUME NEW j \in 1 .. NP, NEW k \in 1 .. NP, InOrder[j] = InOrder[k] PROVE j = k
  <2>1. j \in {1, 2, 3, 4, 5} /\ k \in {1, 2, 3, 4, 5}
    BY <1>1
  <2> QED  BY <1>4, <2>1 DEF InOrder
<1> QED  BY <1>1, <1>2, <1>3, <1>4

\* What is skipped from a phase of the list on, over what is complete before it.
LEMMA SkippedFacts ==
  ASSUME PhasesTypeOK, NEW i \in 1 .. NP,
         \A k \in 1 .. NP : k < i => row[InOrder[k]] = "complete",
         row' = Skipped(Later(i))
  PROVE  /\ \A p \in Phases : row'[p] \in {"complete", "skipped"}
         /\ \E p \in Phases : row'[p] = "skipped"
<1>1. \A p \in Phases : row'[p] = IF p \in Later(i) THEN "skipped" ELSE row[p]
  BY DEF Skipped
<1>2. ASSUME NEW k \in 1 .. NP PROVE row'[InOrder[k]] \in {"complete", "skipped"}
  <2>1. CASE k < i
    BY <1>1, <2>1, PhaseFacts
  <2>2. CASE k \in i .. NP
    BY <1>1, <2>2, PhaseFacts DEF Later
  <2> QED  BY <2>1, <2>2, PhaseFacts
<1>3. Tail2 \subseteq Later(i) /\ "embeddings" \in Tail2 /\ Tail2 \subseteq Phases
  BY PhaseFacts DEF Later, Tail2
<1> QED  BY <1>1, <1>2, <1>3, PhaseFacts

LEMMA PhasesStart == ASSUME Bounds, PhasesInit PROVE PhasesInv
<1> USE DEF PhasesInit, Bounds
<1>1. PhasesTypeOK
  <2>1. place \in 1 .. NP + 1 /\ runs \in 1 .. MaxRuns /\ faults \in 0 .. MaxFaults
    BY PhaseFacts
  <2> QED  BY <2>1 DEF PhasesTypeOK, Statuses
<1>2. UnderWay /\ Reported
  BY PhaseFacts DEF UnderWay, Reported
<1> QED  BY <1>1, <1>2 DEF PhasesInv

PhaseStep ==
  \/ Enter \/ PassReturns \/ MarkComplete \/ Flush \/ PassDegrades \/ PassThrows
  \/ StatementFails
TailStep ==
  \/ TailClean \/ TailRejected
  \/ \E p \in Tail2 : TailEnter(p) \/ TailReturns(p) \/ TailComplete(p) \/ TailThrows(p)

LEMMA PhasesTyped ==
  ASSUME PhasesTypeOK, Bounds, PhasesNext PROVE PhasesTypeOK'
<1> USE DEF PhasesTypeOK, Statuses, Bounds
<1>1. place <= NP => place \in 1 .. NP /\ InOrder[place] \in Phases /\ place + 1 \in 1 .. NP + 1
  BY PhaseFacts
<1>2. \A ps : Skipped(ps) \in [Phases -> Statuses]
  BY DEF Skipped
<1>3. Tail2 \subseteq Phases /\ "embeddings" \in Tail2 /\ "semantic_ranking" \in Tail2
  BY PhaseFacts DEF Tail2
<1>4. CASE Enter
  BY <1>1, <1>4 DEF Enter
<1>5. CASE PassReturns
  BY <1>5 DEF PassReturns
<1>6. CASE MarkComplete
  BY <1>1, <1>6 DEF MarkComplete
<1>7. CASE Flush
  BY <1>1, <1>2, <1>7 DEF Flush
<1>8. CASE PassDegrades
  BY <1>2, <1>8 DEF PassDegrades
<1>9. CASE PassThrows
  BY <1>1, <1>9 DEF PassThrows, ForError
<1>10. CASE StatementFails
  BY <1>10 DEF StatementFails
<1>11. CASE TailClean
  <2>1. CASE outcome' = "complete" /\ UNCHANGED <<fault, faults>>
    BY <1>11, <2>1 DEF TailClean
  <2>2. CASE faults < MaxFaults /\ faults' = faults + 1 /\ outcome' = "threw" /\ fault' = TRUE
    BY <1>11, <2>2 DEF TailClean
  <2> QED  BY <1>11, <2>1, <2>2 DEF TailClean
<1>12. CASE TailRejected
  BY <1>2, <1>3, <1>12 DEF TailRejected, ForError
<1>13. CASE Again
  <2>1. place' \in 1 .. NP + 1 /\ runs' \in 1 .. MaxRuns
    BY PhaseFacts, <1>13 DEF Again
  <2> QED  BY <1>13, <2>1 DEF Again
<1>14. ASSUME NEW p \in Tail2, TailEnter(p) \/ TailReturns(p) \/ TailComplete(p) \/ TailThrows(p)
       PROVE  PhasesTypeOK'
  <2>1. CASE TailEnter(p) \/ TailReturns(p) \/ TailComplete(p)
    BY <1>3, <2>1 DEF TailEnter, TailReturns, TailComplete
  <2>2. CASE TailThrows(p)
    <3>1. fault' \in BOOLEAN
      BY <2>2 DEF TailThrows
    <3>2. faults' \in 0 .. MaxFaults
      BY <2>2 DEF TailThrows
    <3>3. pair' \in [Tail2 -> {"mark", "run", "done", "ok", "degrade", "hard"}]
      BY <2>2 DEF TailThrows
    <3> QED  BY <2>2, <3>1, <3>2, <3>3 DEF TailThrows
  <2> QED  BY <1>14, <2>1, <2>2
<1> QED  BY <1>4, <1>5, <1>6, <1>7, <1>8, <1>9, <1>10, <1>11, <1>12, <1>13, <1>14 DEF PhasesNext
\* The facts a run under way keeps, action by action.
LEMMA PhaseRuns ==
  ASSUME PhasesInv, Bounds, PhasesNext, outcome' = "running" PROVE UnderWay'
<1> USE DEF UnderWay
<1>0. PhasesTypeOK /\ PhasesTypeOK'
  BY PhasesTyped DEF PhasesInv
<1>1. CASE Again
  BY <1>1, PhaseFacts DEF Again
<1> SUFFICES ASSUME ~Again PROVE UnderWay'
  BY <1>1
<1>2. outcome = "running" /\ UnderWay
  BY DEF PhasesInv, PhasesNext, Enter, PassReturns, MarkComplete, Flush, PassDegrades,
         PassThrows, StatementFails, TailClean, TailRejected, Settled,
         TailEnter, TailReturns, TailComplete, TailThrows
<1>3. place <= NP => place \in 1 .. NP /\ InOrder[place] \in Phases
  BY <1>0, PhaseFacts DEF PhasesTypeOK
<1>4. Tail2 \subseteq Phases
  BY PhaseFacts
<1> USE DEF PhasesTypeOK
<1>5. CASE Enter
  BY <1>0, <1>2, <1>3, <1>5, PhaseFacts DEF Enter
<1>6. CASE PassReturns
  BY <1>0, <1>2, <1>3, <1>6, PhaseFacts DEF PassReturns
<1>7. CASE MarkComplete
  BY <1>0, <1>2, <1>3, <1>7, PhaseFacts DEF MarkComplete
<1>8. CASE Flush
  BY <1>0, <1>2, <1>3, <1>8, PhaseFacts DEF Flush
<1>9. CASE PassDegrades \/ PassThrows \/ StatementFails
  BY <1>9 DEF PassDegrades, PassThrows, StatementFails
<1>10. CASE TailClean \/ TailRejected
  BY <1>10 DEF TailClean, TailRejected
<1>11. ASSUME NEW p \in Tail2, TailEnter(p) \/ TailReturns(p) \/ TailComplete(p)
       PROVE  UnderWay'
  BY <1>0, <1>2, <1>4, <1>11, PhaseFacts DEF TailEnter, TailReturns, TailComplete
<1>12. ASSUME NEW p \in Tail2, TailThrows(p) PROVE UnderWay'
  <2>1. fault' => \E q \in Tail2 : pair'[q] = "hard"
    BY <1>0, <1>2, <1>12 DEF TailThrows
  <2>2. \A q \in Tail2 : pair'[q] = "ok" => row'[q] = "complete"
    BY <1>0, <1>2, <1>12 DEF TailThrows
  <2> QED  BY <1>0, <1>2, <1>12, <2>1, <2>2, PhaseFacts DEF TailThrows
<1> QED  BY <1>5, <1>6, <1>7, <1>8, <1>9, <1>10, <1>11, <1>12 DEF PhasesNext

\* The ways a run reports: complete, degraded by a pass or by the first phase, and
\* degraded by one of the pair.
LEMMA PhaseReports ==
  ASSUME PhasesInv, Bounds, PhasesNext PROVE Reported'
<1>0. PhasesTypeOK /\ Reported
  BY DEF PhasesInv
<1>1. CASE outcome' \in {"running", "threw"}
  BY <1>1 DEF Reported
<1> SUFFICES ASSUME outcome' \notin {"running", "threw"} PROVE Reported'
  BY <1>1
<1>2. ~Again /\ outcome = "running" /\ UnderWay
  BY DEF PhasesInv, PhasesNext, Enter, PassReturns, MarkComplete, Flush, PassDegrades,
         PassThrows, StatementFails, TailClean, TailRejected, Settled, Again,
         TailEnter, TailReturns, TailComplete, TailThrows
<1>3. \/ Flush /\ place = 1 /\ symbolsDegraded
      \/ PassDegrades
      \/ TailClean
      \/ TailRejected
  BY <1>2 DEF PhasesNext, Enter, PassReturns, MarkComplete, Flush, PassThrows,
              StatementFails, TailEnter, TailReturns, TailComplete, TailThrows
<1>4. place <= NP => ~fault
  BY <1>2 DEF UnderWay
<1>5. CASE Flush /\ place = 1 /\ symbolsDegraded
  <2>1. place <= NP /\ step = "flush" /\ row' = Skipped(Later(2)) /\ fault' = fault
        /\ outcome' = "degraded"
    BY <1>5 DEF Flush
  <2>2. \A k \in 1 .. NP : k < 2 => row[InOrder[k]] = "complete"
    BY <1>2, <1>5, <2>1 DEF UnderWay
  <2>3. 2 \in 1 .. NP
    BY PhaseFacts
  <2> QED  BY <1>0, <1>4, <2>1, <2>2, <2>3, SkippedFacts DEF Reported
<1>6. CASE PassDegrades
  <2>1. place \in 1 .. NP /\ row' = Skipped(Later(place)) /\ fault' = fault
        /\ outcome' = "degraded"
    BY <1>6, PhaseFacts DEF PassDegrades
  <2>2. \A k \in 1 .. NP : k < place => row[InOrder[k]] = "complete"
    BY <1>2 DEF UnderWay
  <2>3. ~fault
    BY <1>4, <2>1, PhaseFacts
  <2> QED  BY <1>0, <2>1, <2>2, <2>3, SkippedFacts DEF Reported
<1>7. ASSUME TailClean \/ TailRejected
      PROVE  \A k \in 1 .. NP : row[InOrder[k]] = "complete"
  BY <1>2, <1>7, PhaseFacts DEF TailClean, TailRejected, Settled, UnderWay
<1>8. CASE TailClean
  <2>1. outcome' = "complete" /\ row' = row /\ \A p \in Tail2 : row[p] = "complete"
    BY <1>2, <1>8 DEF TailClean, UnderWay
  <2> QED  BY <1>7, <1>8, <2>1, PhaseFacts DEF Reported
<1>9. CASE TailRejected
  <2> DEFINE cut == {p \in Tail2 : pair[p] = "degrade"}
             hard == {p \in Tail2 : pair[p] = "hard"}
  <2>1. hard = {} /\ row' = Skipped(cut) /\ outcome' = "degraded" /\ fault' = fault
    BY <1>9 DEF TailRejected
  <2>2. ~fault
    BY <1>2, <2>1 DEF UnderWay
  <2>3. \A p \in Tail2 : pair[p] = "ok" \/ p \in cut
    BY <1>9, <2>1 DEF TailRejected, Settled
  <2>4. \E p \in Tail2 : p \in cut
    BY <1>9, <2>3 DEF TailRejected
  <2>5. \A p \in Phases : row'[p] = IF p \in cut THEN "skipped" ELSE row[p]
    BY <2>1 DEF Skipped
  <2>6. \A k \in 1 .. NP : row'[InOrder[k]] = "complete"
    BY <1>7, <1>9, <2>5, PhaseFacts
  <2>7. \A p \in Tail2 : row'[p] \in {"complete", "skipped"}
    BY <1>2, <2>3, <2>5, PhaseFacts DEF UnderWay
  <2> QED  BY <2>1, <2>2, <2>4, <2>5, <2>6, <2>7, PhaseFacts DEF Reported
<1> QED  BY <1>3, <1>5, <1>6, <1>8, <1>9

LEMMA PhasesStep ==
  ASSUME PhasesInv, Bounds, [PhasesNext]_phaseVars PROVE PhasesInv'
<1>1. CASE PhasesNext
  BY <1>1, PhasesTyped, PhaseRuns, PhaseReports DEF PhasesInv
<1>2. CASE UNCHANGED phaseVars
  BY <1>2 DEF PhasesInv, phaseVars, PhasesTypeOK, UnderWay, Reported
<1> QED  BY <1>1, <1>2

\* For any number of runs and of statements that fail: a run that reports "complete" has
\* every phase complete on its rows; one that reports "degraded" had no fault, and each
\* phase is complete or skipped, one at least skipped; and nothing strong runs once the
\* cheap tier has degraded (runSemanticPipeline, semanticPipeline.ts; markPhase, checkpoints.ts).
THEOREM MarksAreHonest ==
  ASSUME Bounds
  PROVE  PhasesSpec => []MarksHonest
<1>1. PhasesInv => MarksHonest
  BY DEF PhasesInv, UnderWay, Reported, MarksHonest
<1> QED  BY PhasesStart, PhasesStep, <1>1, PTL DEF PhasesSpec

(* Least and greatest numbers: the induction the other parts need *)

\* A set of natural numbers has a least member.
LEMMA LeastNumber ==
  ASSUME NEW T, T \subseteq Nat, T # {}
  PROVE  \E x \in T : \A y \in T : x <= y
<1> DEFINE R == OpToRel(<, Nat)
<1>1. IsWellFoundedOn(R, Nat)
  BY NatLessThanWellFounded
<1>2. \A x, y \in Nat : y < x => <<y, x>> \in R
  BY DEF OpToRel
<1> HIDE DEF R
<1>3. PICK x \in T : \A y \in T : ~ (<<y, x>> \in R)
  BY <1>1, WFMin
<1>4. \A y \in T : x <= y
  <2> TAKE y \in T
  <2>1. x \in Nat /\ y \in Nat
    OBVIOUS
  <2>2. ~ (y < x)
    BY <2>1, <1>2, <1>3, Zenon
  <2> QED  BY <2>1, <2>2
<1> QED  BY <1>4

\* And a greatest, below a bound.
LEMMA GreatestNumber ==
  ASSUME NEW n \in Nat, NEW T, T \subseteq 0 .. n, T # {}
  PROVE  \E x \in T : \A y \in T : y <= x
<1> DEFINE U == {n - x : x \in T}
<1>1. U \subseteq Nat
  <2>1. ASSUME NEW u \in U  PROVE u \in Nat
    <3>1. PICK x \in T : u = n - x
      BY <2>1
    <3> QED  BY <3>1
  <2> QED  BY <2>1
<1>2. U # {}
  OBVIOUS
<1>3. PICK u \in U : \A w \in U : u <= w
  BY <1>1, <1>2, LeastNumber
<1>4. PICK x \in T : u = n - x
  BY <1>3
<1>5. \A y \in T : y <= x
  <2> TAKE y \in T
  <2>1. x \in Nat /\ y \in Nat
    OBVIOUS
  <2>2. n - y \in U
    OBVIOUS
  <2>3. n - x <= n - y
    BY <2>2, <1>3, <1>4
  <2> HIDE DEF U
  <2> QED  BY <2>1, <2>3
<1> QED  BY <1>5

(* The rows of a tutorial *)

\* What a row is.
TutorialRows == [pkg : Packages, hash : Evidence, sure : BOOLEAN,
                 steps : Evidence \union {0}, status : {"draft", "stale"}]
TableTyped == tutorials \in [DOMAIN tutorials -> TutorialRows]

\* The row a package writes is its own, of the evidence it works on, without
\* steps; and between the deletion and the insertion it has none.
Writes(p) ==
  /\ busy[p] \in {"steps", "copySteps"} =>
       /\ own[p] \in DOMAIN tutorials
       /\ tutorials[own[p]].pkg = p /\ tutorials[own[p]].hash = has[p]
  /\ busy[p] \in {"replace", "copy"} => Mine(p) = {}

\* The row a package copies is, while it is there, what was found: the evidence
\* it works on, sure, and with steps.  It is of another package.
Copies(p) ==
  busy[p] \in {"found", "clear", "copy", "copySteps"} =>
    /\ source[p] \in Ids
    /\ source[p] \in DOMAIN tutorials =>
         /\ tutorials[source[p]].hash = has[p] /\ tutorials[source[p]].sure
         /\ tutorials[source[p]].steps # 0
  
CacheInv ==
  /\ CacheTypeOK /\ TableTyped
  /\ \A p \in Packages : Writes(p) /\ Copies(p)
  /\ EmptyNeverSpreads /\ StepsMatch /\ DoubtStays

\* A new row has an id that nothing points at.
LEMMA FreshIsNew ==
  ASSUME CacheTypeOK
  PROVE  /\ Fresh \in 1 .. MaxRows + 1 /\ Fresh \notin Used
         /\ Fresh <= MaxRows => Fresh \in Ids
<1>1. Used \subseteq 0 .. MaxRows
  <2>1. Ids \union {0} \subseteq 0 .. MaxRows
    BY CacheAssumption DEF Ids
  <2>2. ASSUME NEW p \in Packages  PROVE own[p] \in Ids \union {0} /\ source[p] \in Ids \union {0}
    BY DEF CacheTypeOK
  <2> QED  BY <2>1, <2>2 DEF CacheTypeOK, Used
<1>2. /\ MaxRows + 1 \in 1 .. MaxRows + 1 /\ MaxRows + 1 \notin Used
      /\ \A m \in Used : m < MaxRows + 1
  BY <1>1, CacheAssumption
<1>3. Fresh \in 1 .. MaxRows + 1 /\ Fresh \notin Used
  BY <1>2 DEF Fresh
<1> QED  BY <1>3, CacheAssumption DEF Ids

\* What is found is fit to be shown again.
LEMMA NewestIsFit ==
  ASSUME CacheTypeOK, NEW h \in Evidence, Reusable(h) # {}
  PROVE  Newest(Reusable(h)) \in Reusable(h)
<1> DEFINE S == Reusable(h)
<1>1. S \subseteq 0 .. MaxRows
  BY CacheAssumption DEF CacheTypeOK, Ids, Reusable
<1>2. \E i \in S : \A j \in S : j <= i
  BY <1>1, GreatestNumber, CacheAssumption
<1> QED  BY <1>2 DEF Newest

\* A lookup changes what the package works on and nothing in the table.
LEMMA LookupKeepsCache ==
  ASSUME CacheInv, NEW p \in Packages, NEW h \in Evidence, Lookup(p, h)
  PROVE  CacheInv'
<1> USE DEF CacheInv, CacheTypeOK, Lookup, Goes, Where
<1>1. Reusable(h) # {} =>
        /\ Newest(Reusable(h)) \in DOMAIN tutorials
        /\ tutorials[Newest(Reusable(h))].hash = h
        /\ tutorials[Newest(Reusable(h))].sure
        /\ tutorials[Newest(Reusable(h))].steps # 0
  BY NewestIsFit DEF Reusable
<1>2. CacheTypeOK' /\ TableTyped'
  BY <1>1 DEF TableTyped
<1>3. ASSUME NEW q \in Packages  PROVE Writes(q)' /\ Copies(q)'
  <2>1. CASE q = p
    BY <1>1, <2>1 DEF Writes, Copies
  <2>2. CASE q # p
    BY <2>2 DEF Writes, Copies, Mine
  <2> QED  BY <2>1, <2>2
<1>4. EmptyNeverSpreads' /\ StepsMatch' /\ DoubtStays'
  BY DEF EmptyNeverSpreads, StepsMatch, DoubtStays
<1> QED  BY <1>2, <1>3, <1>4

\* Steps that only move the package, with the table as it was.
LEMMA MovesKeepCache ==
  ASSUME CacheInv, NEW p \in Packages, Hit(p) \/ Refused(p) \/ Dies(p)
  PROVE  CacheInv'
<1> USE DEF CacheInv, CacheTypeOK, Hit, Refused, Dies, Goes, Where
<1>1. UNCHANGED <<tutorials, has, source, own>> /\ \A q \in Packages : q # p => busy'[q] = busy[q]
  OBVIOUS
<1>2. busy'[p] \in {"idle", "clear"} /\ (busy'[p] = "clear" => busy[p] = "found")
  OBVIOUS
<1>3. own[p] \in Ids \/ busy[p] \notin {"steps", "copySteps"}
  BY DEF Writes
<1>4. CacheTypeOK' /\ TableTyped'
  BY <1>3 DEF TableTyped
<1>5. ASSUME NEW q \in Packages  PROVE Writes(q)' /\ Copies(q)'
  BY <1>1, <1>2 DEF Writes, Copies, Mine
<1>6. spoilt \subseteq spoilt' /\ (busy[p] \in {"steps", "copySteps"} => own[p] \in spoilt')
  OBVIOUS
<1>7. EmptyNeverSpreads'
  BY <1>1, <1>6 DEF EmptyNeverSpreads
<1>8. StepsMatch' /\ DoubtStays'
  BY <1>1, <1>2 DEF StepsMatch, DoubtStays
<1> QED  BY <1>4, <1>5, <1>7, <1>8

\* The old row of a package goes.
LEMMA RemovalKeepsCache ==
  ASSUME CacheInv, NEW p \in Packages, Annotated(p) \/ Clear(p)
  PROVE  CacheInv'
<1> USE DEF CacheInv, CacheTypeOK, Annotated, Clear, Goes, Where
<1>1. /\ tutorials' = Without(Mine(p)) /\ UNCHANGED <<has, source, own, spoilt>>
      /\ busy' \in [Packages -> Where]
      /\ \A q \in Packages : q # p => busy'[q] = busy[q]
      /\ \/ busy'[p] = "replace"
         \/ busy'[p] = "copy" /\ busy[p] = "clear"
  <2>1. CASE Annotated(p)
    BY <2>1
  <2>2. CASE Clear(p)
    BY <2>2
  <2> QED  BY <2>1, <2>2
<1>2. /\ DOMAIN tutorials' = DOMAIN tutorials \ Mine(p)
      /\ \A i \in DOMAIN tutorials' : tutorials'[i] = tutorials[i] /\ tutorials[i].pkg # p
      /\ \A i \in DOMAIN tutorials : tutorials[i].pkg # p => i \in DOMAIN tutorials'
  BY <1>1 DEF Without, Mine
<1>3. CacheTypeOK' /\ TableTyped'
  <2>1. tutorials' = [i \in DOMAIN tutorials' |-> tutorials'[i]]
    BY <1>1 DEF Without
  <2>2. \A i \in DOMAIN tutorials' : tutorials'[i] \in TutorialRows
    BY <1>2 DEF TableTyped
  <2>3. CacheTypeOK'
    BY <1>1, <1>2
  <2> QED  BY <2>1, <2>2, <2>3 DEF TableTyped
<1>4. ASSUME NEW q \in Packages  PROVE Writes(q)' /\ Copies(q)'
  <2>1. CASE q = p
    BY <1>1, <1>2, <2>1 DEF Writes, Copies, Mine
  <2>2. CASE q # p
    <3>1. Writes(q) /\ Copies(q)
      OBVIOUS
    <3>2. busy'[q] = busy[q] /\ own'[q] = own[q] /\ source'[q] = source[q] /\ has'[q] = has[q]
      BY <1>1, <2>2
    <3>3. Mine(q)' \subseteq Mine(q)
      BY <1>2 DEF Mine
    <3>4. own[q] \in DOMAIN tutorials /\ tutorials[own[q]].pkg = q => own[q] \in DOMAIN tutorials'
      BY <1>2, <2>2
    <3> QED  BY <1>2, <3>1, <3>2, <3>3, <3>4 DEF Writes, Copies
  <2> QED  BY <2>1, <2>2
<1>5. EmptyNeverSpreads' /\ StepsMatch'
  BY <1>1, <1>2 DEF EmptyNeverSpreads, StepsMatch
<1>6. DoubtStays'
  BY <1>1, <1>2, <1>4 DEF DoubtStays, Writes
<1> QED  BY <1>3, <1>4, <1>5, <1>6

\* A new row comes without steps, in a package that has none.
LEMMA NewRowKeepsCache ==
  ASSUME CacheInv, NEW p \in Packages, NEW sure \in BOOLEAN,
         busy[p] \in {"replace", "copy"}, Fresh <= MaxRows,
         tutorials' = With(Fresh, TutorialRow(p, has[p], sure)), own' = [own EXCEPT ![p] = Fresh],
         \/ busy[p] = "replace" /\ Goes(p, "steps")
         \/ busy[p] = "copy" /\ Goes(p, "copySteps") /\ sure,
         UNCHANGED <<has, source, spoilt>>
  PROVE  CacheInv'
<1> DEFINE n == Fresh
<1> USE DEF CacheInv, CacheTypeOK, Goes, Where
<1>1. n \in Ids /\ n \notin Used
  BY FreshIsNew
<1> HIDE DEF n
<1>2. /\ n \notin DOMAIN tutorials /\ n \notin spoilt
      /\ \A q \in Packages : own[q] # n /\ source[q] # n
  BY <1>1 DEF Used
<1>3. /\ DOMAIN tutorials' = DOMAIN tutorials \union {n}
      /\ tutorials'[n] = TutorialRow(p, has[p], sure)
      /\ \A i \in DOMAIN tutorials : tutorials'[i] = tutorials[i]
  BY <1>2 DEF With, n
<1>4. TutorialRow(p, has[p], sure) \in TutorialRows
  BY DEF TutorialRow, TutorialRows
<1>5. own'[p] = n /\ \A q \in Packages : q # p => own'[q] = own[q] /\ busy'[q] = busy[q]
  BY DEF n
<1>6. busy'[p] \in {"steps", "copySteps"}
  OBVIOUS
<1>7. CacheTypeOK' /\ TableTyped'
  <2>1. tutorials' = [i \in DOMAIN tutorials' |-> tutorials'[i]]
    BY DEF With
  <2>2. \A i \in DOMAIN tutorials' : tutorials'[i] \in TutorialRows
    BY <1>3, <1>4 DEF TableTyped
  <2>3. TableTyped'
    BY <2>1, <2>2 DEF TableTyped
  <2>4. own' \in [Packages -> Ids \union {0}] /\ DOMAIN tutorials' \subseteq Ids
    BY <1>1, <1>3 DEF n
  <2> QED  BY <2>3, <2>4
<1>8. ASSUME NEW q \in Packages  PROVE Writes(q)' /\ Copies(q)'
  <2>1. CASE q = p
    BY <1>2, <1>3, <1>5, <1>6, <2>1 DEF Writes, Copies, TutorialRow
  <2>2. CASE q # p
    <3>1. Mine(q)' = Mine(q)
      BY <1>2, <1>3, <2>2 DEF Mine, TutorialRow
    <3> QED  BY <1>2, <1>3, <1>5, <2>2, <3>1 DEF Writes, Copies
  <2> QED  BY <2>1, <2>2
<1>9. EmptyNeverSpreads'
  BY <1>2, <1>3, <1>5, <1>6 DEF EmptyNeverSpreads
<1>10. StepsMatch'
  <2>1. \A i \in DOMAIN tutorials : tutorials[i].pkg # p
    BY DEF Writes, Mine
  <2> QED  BY <1>2, <1>3, <2>1 DEF StepsMatch, TutorialRow
<1>11. DoubtStays'
  <2>1. \A q \in Packages : q # p /\ busy[q] = "copySteps" => own[q] \in DOMAIN tutorials
    BY DEF Writes
  <2> QED  BY <1>3, <1>5, <2>1 DEF DoubtStays, TutorialRow
<1> QED  BY <1>7, <1>8, <1>9, <1>10, <1>11

\* The steps of a row follow: those of the evidence it is kept under.
LEMMA StepsKeepCache ==
  ASSUME CacheInv, NEW p \in Packages, busy[p] \in {"steps", "copySteps"}, NEW e,
         e = has[p], tutorials' = [tutorials EXCEPT ![own[p]].steps = e], Goes(p, "idle"),
         UNCHANGED <<has, source, own, spoilt>>
  PROVE  CacheInv'
<1> USE DEF CacheInv, CacheTypeOK, Goes, Where
<1>1. /\ own[p] \in DOMAIN tutorials /\ tutorials[own[p]].pkg = p
      /\ tutorials[own[p]].hash = e /\ e \in Evidence /\ e # 0
  BY CacheAssumption DEF Writes
<1>2. /\ DOMAIN tutorials' = DOMAIN tutorials
      /\ \A i \in DOMAIN tutorials : i # own[p] => tutorials'[i] = tutorials[i]
      /\ tutorials'[own[p]] = [tutorials[own[p]] EXCEPT !.steps = e]
  BY <1>1 DEF TableTyped
<1>3. \A i \in DOMAIN tutorials :
        /\ tutorials'[i].pkg = tutorials[i].pkg /\ tutorials'[i].hash = tutorials[i].hash
        /\ tutorials'[i].sure = tutorials[i].sure
        /\ tutorials'[i].steps = IF i = own[p] THEN e ELSE tutorials[i].steps
  BY <1>2 DEF TableTyped, TutorialRows
<1>4. CacheTypeOK' /\ TableTyped'
  BY <1>1, <1>2 DEF TableTyped, TutorialRows
<1>5. ASSUME NEW q \in Packages  PROVE Writes(q)' /\ Copies(q)'
  <2>1. Mine(q)' = Mine(q)
    BY <1>2, <1>3 DEF Mine
  <2> QED  BY <1>1, <1>2, <1>3, <2>1 DEF Writes, Copies
<1>6. EmptyNeverSpreads'
  BY <1>1, <1>2, <1>3 DEF EmptyNeverSpreads
<1>7. StepsMatch'
  BY <1>1, <1>2, <1>3 DEF StepsMatch
<1>8. DoubtStays'
  BY <1>2, <1>3 DEF DoubtStays, Writes
<1> QED  BY <1>4, <1>5, <1>6, <1>7, <1>8

\* A push makes a row stale.
LEMMA StaleKeepsCache ==
  ASSUME CacheInv, NEW i \in Ids, MarkStale(i)
  PROVE  CacheInv'
<1> USE DEF CacheInv, CacheTypeOK, MarkStale
<1>1. /\ DOMAIN tutorials' = DOMAIN tutorials
      /\ \A j \in DOMAIN tutorials :
           /\ tutorials'[j].pkg = tutorials[j].pkg /\ tutorials'[j].hash = tutorials[j].hash
           /\ tutorials'[j].sure = tutorials[j].sure /\ tutorials'[j].steps = tutorials[j].steps
  BY DEF TableTyped, TutorialRows
<1>2. CacheTypeOK' /\ TableTyped'
  BY DEF TableTyped, TutorialRows
<1>3. ASSUME NEW q \in Packages  PROVE Writes(q)' /\ Copies(q)'
  <2>1. Mine(q)' = Mine(q)
    BY <1>1 DEF Mine
  <2> QED  BY <1>1, <2>1 DEF Writes, Copies
<1>4. EmptyNeverSpreads' /\ StepsMatch'
  BY <1>1 DEF EmptyNeverSpreads, StepsMatch
<1>5. DoubtStays'
  BY <1>1 DEF DoubtStays, Writes
<1> QED  BY <1>2, <1>3, <1>4, <1>5

\* A copy whose source went: the package is left without the row, or the row
\* without steps.
LEMMA LostSourceKeepsCache ==
  ASSUME CacheInv, NEW p \in Packages, busy[p] \in {"copy", "copySteps"}, Goes(p, "idle"),
         UNCHANGED <<tutorials, has, source, own>>,
         spoilt' = IF busy[p] = "copySteps" THEN spoilt \union {own[p]} ELSE spoilt
  PROVE  CacheInv'
<1> USE DEF CacheInv, CacheTypeOK, Goes, Where
<1>1. busy'[p] = "idle" /\ \A q \in Packages : q # p => busy'[q] = busy[q]
  OBVIOUS
<1>2. busy[p] = "copySteps" => own[p] \in Ids
  BY DEF Writes
<1>3. CacheTypeOK' /\ TableTyped'
  BY <1>2 DEF TableTyped
<1>4. ASSUME NEW q \in Packages  PROVE Writes(q)' /\ Copies(q)'
  BY <1>1 DEF Writes, Copies, Mine
<1>5. EmptyNeverSpreads'
  BY <1>1 DEF EmptyNeverSpreads
<1>6. StepsMatch' /\ DoubtStays'
  BY <1>1 DEF StepsMatch, DoubtStays
<1> QED  BY <1>3, <1>4, <1>5, <1>6

LEMMA CacheStart == CacheInit => CacheInv
<1> SUFFICES ASSUME CacheInit  PROVE CacheInv
  OBVIOUS
<1>1. (CHOOSE h \in Evidence : TRUE) \in Evidence
  BY CacheAssumption
<1>2. DOMAIN tutorials = {}
  BY DEF CacheInit
<1>3. CacheTypeOK /\ TableTyped
  BY <1>1, <1>2 DEF CacheInit, CacheTypeOK, TableTyped, Where
<1> QED  BY <1>2, <1>3 DEF CacheInit, CacheInv, Writes, Copies, Mine, EmptyNeverSpreads, StepsMatch, DoubtStays

LEMMA CacheStep == CacheInv /\ [CacheNext]_cacheVars => CacheInv'
<1> SUFFICES ASSUME CacheInv, [CacheNext]_cacheVars  PROVE CacheInv'
  OBVIOUS
<1>1. ASSUME NEW p \in Packages, Step(p)  PROVE CacheInv'
  <2>1. ASSUME NEW h \in Evidence, Lookup(p, h)  PROVE CacheInv'
    BY <2>1, LookupKeepsCache
  <2>2. CASE Hit(p) \/ Refused(p) \/ Dies(p)
    BY <2>2, MovesKeepCache
  <2>3. CASE Annotated(p) \/ Clear(p)
    BY <2>3, RemovalKeepsCache
  <2>4. ASSUME NEW sure \in BOOLEAN, Insert(p, sure)  PROVE CacheInv'
    BY <2>4, NewRowKeepsCache DEF Insert
  <2>5. CASE WriteSteps(p)
    BY <2>5, StepsKeepCache DEF WriteSteps
  <2>6. CASE Copy(p)
    <3>1. CASE source[p] \in DOMAIN tutorials
      <4>1. tutorials[source[p]].sure \in BOOLEAN /\ tutorials[source[p]].sure
        BY <2>6, <3>1 DEF Copy, CacheInv, Copies, TableTyped, TutorialRows
      <4> QED  BY <2>6, <3>1, <4>1, NewRowKeepsCache DEF Copy
    <3>2. CASE source[p] \notin DOMAIN tutorials
      BY <2>6, <3>2, LostSourceKeepsCache DEF Copy
    <3> QED  BY <3>1, <3>2
  <2>7. CASE CopySteps(p)
    <3>1. CASE source[p] \in DOMAIN tutorials
      <4>1. tutorials[source[p]].steps = has[p]
        BY <2>7, <3>1 DEF CopySteps, CacheInv, Copies, StepsMatch
      <4> QED  BY <2>7, <3>1, <4>1, StepsKeepCache DEF CopySteps
    <3>2. CASE source[p] \notin DOMAIN tutorials
      BY <2>7, <3>2, LostSourceKeepsCache DEF CopySteps
    <3> QED  BY <3>1, <3>2
  <2> QED  BY <1>1, <2>1, <2>2, <2>3, <2>4, <2>5, <2>6, <2>7 DEF Step
<1>2. ASSUME NEW i \in Ids, MarkStale(i)  PROVE CacheInv'
  BY <1>2, StaleKeepsCache
<1>3. CASE UNCHANGED cacheVars
  BY <1>3 DEF cacheVars, CacheInv, CacheTypeOK, TableTyped, Writes, Copies, Mine,
              EmptyNeverSpreads, StepsMatch, DoubtStays
<1> QED  BY <1>1, <1>2, <1>3 DEF CacheNext

\* The rows of a tutorial, whatever its packages, jobs that die and rows that go
\* stale: no row without steps and no doubtful one is copied, the steps of a row
\* are those of its evidence, and a package has one row.
THEOREM TutorialRowsAreKept == CacheSpec => [](CacheTypeOK /\ RowsKept)
<1>1. CacheSpec => []CacheInv
  BY CacheStart, CacheStep, PTL DEF CacheSpec
<1>2. CacheInv => CacheTypeOK /\ RowsKept
  BY DEF CacheInv, RowsKept
<1> QED  BY <1>1, <1>2, PTL

(* What a new version makes stale *)

\* A version of the code: every symbol is in one of its files, only symbols are
\* read, and a cluster is a sequence of files.
IsVersion(v) ==
  /\ v = [files |-> v.files, docs |-> v.docs, symbols |-> v.symbols, calls |-> v.calls, read |-> v.read,
          trivial |-> v.trivial, clusters |-> v.clusters, package |-> v.package, flows |-> v.flows]
  /\ \A k \in Symbols(v) : FileOf(k) \in Files(v)
  /\ v.read \subseteq Symbols(v)

\* Whether a symbol both versions have is read is decided alike in both, and
\* what is trivial by its text alone.
Alike(p, n) == \A k \in Symbols(p) \cap Symbols(n) :
  /\ k \in p.read <=> k \in n.read
  /\ k \in p.read /\ p.symbols[k] = n.symbols[k] => p.trivial[k] = n.trivial[k]

SameFile(p, n, f) == f \in Files(n) /\ FileChildren(p, f) = FileChildren(n, f)
KeptIn(p, n, c) == \A f \in Members(p, c) \cap FileRecords(p) : f \in Members(n, c) /\ SameFile(p, n, f)

\* The record of a symbol that is not stale is of a symbol that is still read,
\* with the evidence it had.
LEMMA SymbolLeftAlone ==
  ASSUME NEW p, NEW n, NEW k \in p.read \ StaleSymbols(p, n)
  PROVE  k \in Symbols(n) /\ evidenceHashForSymbol(n, k) = evidenceHashForSymbol(p, k)
BY DEF StaleSymbols, RecordsOf

\* A file whose record is not stale has the records of its symbols as they were.
LEMMA FileLeftAlone ==
  ASSUME NEW p, NEW n, IsVersion(p), IsVersion(n), Alike(p, n),
         NEW f \in FileRecords(p) \ StaleFiles(p, n)
  PROVE  SameFile(p, n, f)
<1>1. f \in Files(p) /\ f \in Files(n)
  BY DEF IsVersion, FileRecords, StaleFiles, RecordsOf, RemovedFiles
<1>2. \A k : FileOf(k) = f =>
        /\ k \notin Added(p, n) /\ k \notin Removed(p, n) /\ k \notin StaleSymbols(p, n)
  BY DEF StaleFiles, TouchedFiles, RecordsOf
<1>3. ASSUME NEW k, FileOf(k) = f  PROVE k \in p.read <=> k \in n.read
  BY <1>2, <1>3 DEF Added, Removed, IsVersion, Alike
<1>4. ASSUME NEW k \in p.read, FileOf(k) = f
      PROVE  evidenceHashForSymbol(n, k) = evidenceHashForSymbol(p, k)
  BY <1>2, <1>4, SymbolLeftAlone
<1>5. FileChildren(p, f) = FileChildren(n, f)
  <2>1. {k \in p.read : FileOf(k) = f} = {k \in n.read : FileOf(k) = f}
    BY <1>3
  <2> QED  BY <1>4, <2>1 DEF FileChildren
<1> QED  BY <1>1, <1>5 DEF SameFile

\* A module whose record is not stale has its files, as they were.
LEMMA ModuleLeftAlone ==
  ASSUME NEW p, NEW n, IsVersion(p), IsVersion(n), Alike(p, n),
         NEW c \in ModuleRecords(p) \ StaleModules(p, n)
  PROVE  c \in DOMAIN n.clusters /\ KeptIn(p, n, c)
<1>1. /\ c \in DOMAIN n.clusters /\ Members(p, c) = Members(n, c)
      /\ Members(n, c) \cap StaleFiles(p, n) = {}
  BY DEF StaleModules, RecordsOf
<1> QED  BY <1>1, FileLeftAlone DEF KeptIn

\* A service whose record is not stale has its modules, as they were.
LEMMA ServiceLeftAlone ==
  ASSUME NEW p, NEW n, IsVersion(p), IsVersion(n), Alike(p, n),
         NEW s \in ServiceRecords(p) \ StaleServices(p, n),
         NEW c \in ModuleRecords(p) \cap DOMAIN n.clusters, ServiceOf(n, c) = s
  PROVE  KeptIn(p, n, c)
<1>1. c \notin StaleModules(p, n)
  BY DEF StaleServices, RecordsOf
<1> QED  BY <1>1, ModuleLeftAlone

\* What the levels of a diff are.
LEMMA LevelsOfADiff ==
  ASSUME NEW p, NEW n
  PROVE  /\ propagateInvalidation(p, n).symbol = StaleSymbols(p, n)
         /\ propagateInvalidation(p, n).file = StaleFiles(p, n)
         /\ propagateInvalidation(p, n).module = StaleModules(p, n)
         /\ propagateInvalidation(p, n).service = StaleServices(p, n)
         /\ propagateInvalidation(p, n).workflow = StaleFlows(p, n)
         /\ propagateInvalidation(p, n).system =
              IF /\ StaleSymbols(p, n) = {} /\ StaleFiles(p, n) = {} /\ StaleModules(p, n) = {}
                 /\ StaleServices(p, n) = {} /\ StaleFlows(p, n) = {}
              THEN {} ELSE RecordsOf(p).system
<1> DEFINE below == [symbol |-> StaleSymbols(p, n), file |-> StaleFiles(p, n), module |-> StaleModules(p, n),
                     service |-> StaleServices(p, n), workflow |-> StaleFlows(p, n)]
<1>1. DOMAIN RecordsOf(p) = {"symbol", "file", "module", "service", "workflow", "system"}
  BY DEF RecordsOf
<1>2. (\E l \in DOMAIN below : below[l] # {}) <=>
        ~(/\ StaleSymbols(p, n) = {} /\ StaleFiles(p, n) = {} /\ StaleModules(p, n) = {}
          /\ StaleServices(p, n) = {} /\ StaleFlows(p, n) = {})
  OBVIOUS
<1> QED  BY <1>1, <1>2 DEF propagateInvalidation

\* A record a diff leaves alone has nothing beneath it that differs, whatever
\* the two versions are.
THEOREM NothingIsDirtyBelow ==
  ASSUME NEW p, NEW n, IsVersion(p), IsVersion(n), Alike(p, n)
  PROVE  NothingDirtyBelow(p, n)
<1> DEFINE stale == propagateInvalidation(p, n)
<1>1. \A f \in FileRecords(p) \ stale.file : SameFile(p, n, f)
  BY LevelsOfADiff, FileLeftAlone
<1>2. \A c \in ModuleRecords(p) \ stale.module : KeptIn(p, n, c)
  BY LevelsOfADiff, ModuleLeftAlone
<1>3. \A s \in ServiceRecords(p) \ stale.service, c \in ModuleRecords(p) \cap DOMAIN n.clusters :
        ServiceOf(p, c) = s /\ ServiceOf(n, c) = s => KeptIn(p, n, c)
  BY LevelsOfADiff, ServiceLeftAlone
<1>4. ASSUME RecordsOf(p).system # stale.system, NEW c \in ModuleRecords(p)
      PROVE  c \in DOMAIN n.clusters /\ KeptIn(p, n, c)
  <2>1. StaleModules(p, n) = {}
    BY <1>4, LevelsOfADiff
  <2> QED  BY <2>1, ModuleLeftAlone
<1> HIDE DEF stale
<1>5. /\ \A f \in FileRecords(p) \ stale.file : SameFile(p, n, f)
      /\ \A c \in ModuleRecords(p) \ stale.module : KeptIn(p, n, c)
      /\ \A s \in ServiceRecords(p) \ stale.service, c \in ModuleRecords(p) \cap DOMAIN n.clusters :
             ServiceOf(p, c) = s /\ ServiceOf(n, c) = s => KeptIn(p, n, c)
      /\ RecordsOf(p).system # stale.system =>
             \A c \in ModuleRecords(p) : c \in DOMAIN n.clusters /\ KeptIn(p, n, c)
  BY <1>1, <1>2, <1>3, <1>4
<1> QED  BY <1>5 DEF NothingDirtyBelow, KeptIn, SameFile, stale

\* Where only the text of files differs, nothing is stale.
THEOREM TextAloneIsKept ==
  ASSUME NEW p, NEW n, IsVersion(p), IsVersion(n)
  PROVE  TextAloneKeeps(p, n)
<1> SUFFICES ASSUME [p EXCEPT !.files = n.files] = n
             PROVE  \A l \in DOMAIN RecordsOf(p) : propagateInvalidation(p, n)[l] = {}
  BY DEF TextAloneKeeps
<1>1. /\ n.symbols = p.symbols /\ n.calls = p.calls /\ n.read = p.read /\ n.trivial = p.trivial
      /\ n.clusters = p.clusters /\ n.package = p.package /\ n.flows = p.flows
  BY DEF IsVersion
<1>2. \A k : evidenceHashForSymbol(n, k) = evidenceHashForSymbol(p, k)
  BY <1>1 DEF evidenceHashForSymbol
<1>3. StaleSymbols(p, n) = {}
  BY <1>1, <1>2 DEF StaleSymbols, RecordsOf, Symbols, IsVersion
<1>4. StaleFiles(p, n) = {}
  <2>1. FileRecords(p) \subseteq Files(n)
    BY <1>1 DEF FileRecords, IsVersion, Symbols
  <2>2. TouchedFiles(p, n) = {}
    BY <1>1, <1>3 DEF TouchedFiles, Added, Removed, Symbols
  <2> QED  BY <2>1, <2>2 DEF StaleFiles, RecordsOf, RemovedFiles
<1>5. StaleModules(p, n) = {}
  BY <1>1, <1>4 DEF StaleModules, RecordsOf, ModuleRecords, Members
<1>6. StaleServices(p, n) = {}
  <2>1. \A c : ServiceOf(n, c) = ServiceOf(p, c)
    BY <1>1 DEF ServiceOf
  <2> QED  BY <1>1, <1>5, <2>1 DEF StaleServices, RecordsOf, ServiceRecords, ModuleRecords
<1>7. StaleFlows(p, n) = {}
  BY <1>1 DEF StaleFlows, RecordsOf
<1>8. DOMAIN RecordsOf(p) = {"symbol", "file", "module", "service", "workflow", "system"}
  BY DEF RecordsOf
<1> QED  BY <1>3, <1>4, <1>5, <1>6, <1>7, <1>8, LevelsOfADiff

(* Histories *)

\* The analyses of a project: a push is seen once on its branch, and "none" names
\* no branch.
IsHistory(h) ==
  /\ DOMAIN h \subseteq Nat
  /\ \A i \in DOMAIN h : h[i].pushed \in Nat /\ h[i].branch # "none"
  /\ \A i, j \in DOMAIN h : h[i].branch = h[j].branch /\ h[i].pushed = h[j].pushed => i = j

IsCode(code, h) ==
  /\ \A i \in DOMAIN h : IsVersion(code[h[i].version])
  /\ \A i, j \in DOMAIN h : Alike(code[h[i].version], code[h[j].version])

\* A section of a version cites what the version has.
Cites(s, v) ==
  /\ s.files \union s.docs \subseteq Files(v) /\ s.nodes \subseteq Symbols(v)
  /\ \A r \in s.records :
       \/ \E k \in v.read : r = IdOf(v, "symbol", k)
       \/ \E f \in FileRecords(v) : r = IdOf(v, "file", f)
       \/ \E c \in ModuleRecords(v) : r = IdOf(v, "module", c)

\* What was pushed earlier on the branch of an analysis gives it a baseline, and
\* the baseline was pushed no earlier.
LEMMA BaselineIsThere ==
  ASSUME NEW h, IsHistory(h), NEW ran \in SUBSET DOMAIN h, NEW i \in ran, NEW j \in ran,
         j < i, h[j].branch = h[i].branch, h[j].pushed < h[i].pushed
  PROVE  \E b \in ran : /\ b < i /\ h[b].branch = h[i].branch
                        /\ h[j].pushed <= h[b].pushed /\ h[b].pushed < h[i].pushed
                        /\ SnapshotOf(h, b) \in Baselines(h, ran, i)
<1> DEFINE Before_i == {b \in ran : b < i /\ h[b].branch = h[i].branch /\ h[b].pushed < h[i].pushed}
           Pushes   == {h[b].pushed : b \in Before_i}
           All      == {SnapshotOf(h, b) : b \in {b \in ran : b < i}}
           Cur      == SnapshotOf(h, i)
<1>1. h[i].pushed \in Nat /\ \A b \in ran : h[b].pushed \in Nat
  BY DEF IsHistory
<1>2. Pushes \subseteq 0 .. h[i].pushed /\ Pushes # {}
  BY <1>1
<1>3. PICK m \in Pushes : \A y \in Pushes : y <= m
  BY <1>1, <1>2, GreatestNumber
<1>4. PICK b \in Before_i : m = h[b].pushed
  BY <1>3
<1>5. \A d \in Before_i : d # b => h[d].pushed < h[b].pushed
  <2> TAKE d \in Before_i
  <2> HAVE d # b
  <2>1. h[d].pushed <= h[b].pushed
    BY <1>3, <1>4
  <2>2. h[d].pushed # h[b].pushed
    BY <1>4 DEF IsHistory
  <2> QED  BY <1>1, <2>1, <2>2
<1>6. Earlier(All, Cur) = {SnapshotOf(h, d) : d \in Before_i}
  <2>1. \A d \in ran : d < i => SnapshotOf(h, d) # Cur
    <3> SUFFICES ASSUME NEW d \in ran, d < i  PROVE SnapshotOf(h, d) # Cur
      OBVIOUS
    <3>1. d # i
      BY DEF IsHistory
    <3> QED  BY <3>1 DEF SnapshotOf
  <2> QED  BY <2>1 DEF Earlier, SnapshotOf
<1>7. \A d \in Before_i : SnapshotOf(h, d) # SnapshotOf(h, b) =>
        Before(SnapshotOf(h, b), SnapshotOf(h, d), Cur.branch)
  <2> SUFFICES ASSUME NEW d \in Before_i, SnapshotOf(h, d) # SnapshotOf(h, b)
               PROVE  Before(SnapshotOf(h, b), SnapshotOf(h, d), Cur.branch)
    OBVIOUS
  <2>1. h[d].pushed < h[b].pushed
    BY <1>5
  <2>2. h[d].branch = h[i].branch /\ h[b].branch = h[i].branch
    OBVIOUS
  <2> QED  BY <2>1, <2>2 DEF Before, SnapshotOf
<1>8. SnapshotOf(h, b) \in Baselines(h, ran, i)
  <2>1. SnapshotOf(h, b) \in First({SnapshotOf(h, d) : d \in Before_i}, Cur.branch)
    BY <1>4, <1>7 DEF First
  <2> QED  BY <1>6, <2>1 DEF Baselines, findPreviousSnapshot
<1>9. h[j].pushed \in Pushes
  OBVIOUS
<1>10. h[j].pushed <= h[b].pushed
  BY <1>3, <1>4, <1>9
<1> QED  BY <1>4, <1>8, <1>10

\* A section cites what its own version has.
LEMMA CitedIsThere ==
  ASSUME NEW v, NEW s, NEW later, IsVersion(v), Cites(s, v)
  PROVE  Holds(s, v, v, later)
<1>1. ASSUME NEW r \in s.records, r[1] = "symbol"
      PROVE  r[2] \in Symbols(v) /\ evidenceHashForSymbol(v, r[2]) = r[3]
  BY <1>1 DEF Cites, IdOf, IsVersion
<1>2. ASSUME NEW r \in s.records, r[1] = "file"
      PROVE  r[2] \in Files(v) /\ FileChildren(v, r[2]) = r[3][1]
  <2>1. PICK f \in FileRecords(v) : r = IdOf(v, "file", f)
    BY <1>2 DEF Cites, IdOf
  <2> QED  BY <2>1 DEF IdOf, FileEvidence, FileRecords, IsVersion
<1> QED  BY <1>1, <1>2 DEF Holds, Cites

\* What held in the baseline of an analysis holds after it, or the section is
\* flagged.
LEMMA UnflaggedHoldsOn ==
  ASSUME NEW v, NEW p, NEW n, NEW s, NEW later,
         IsVersion(v), IsVersion(p), IsVersion(n), Alike(v, p), Alike(p, n),
         Cites(s, v), Holds(s, v, p, later), ~Flagged(s, Touched(p, n)),
         p = v \/ p \in later
  PROVE  Holds(s, v, n, later)
<1>1. /\ (s.files \union s.docs) \cap ChangedPaths(p, n) = {}
      /\ s.nodes \cap (Changed(p, n) \union Removed(p, n)) = {}
      /\ s.records \cap StaleIds(p, n) = {}
  BY DEF Flagged, Touched
<1>2. ASSUME NEW f \in s.files \union s.docs
      PROVE  f \in Files(n) /\ n.files[f] = v.files[f]
  <2>1. f \in Files(p) /\ p.files[f] = v.files[f]
    BY DEF Holds
  <2>2. f \notin ChangedFiles(p, n) /\ f \notin RemovedFiles(p, n)
    BY <1>1 DEF ChangedPaths
  <2> QED  BY <2>1, <2>2 DEF ChangedFiles, RemovedFiles
<1>3. ASSUME NEW k \in s.nodes
      PROVE  k \in Symbols(n) /\ n.symbols[k] = v.symbols[k]
  <2>1. k \in Symbols(p) /\ p.symbols[k] = v.symbols[k]
    BY DEF Holds
  <2> QED  BY <1>1, <2>1 DEF Changed, Removed
<1>4. ASSUME NEW r \in s.records, r[1] = "symbol"
      PROVE  r[2] \in Symbols(n) /\ evidenceHashForSymbol(n, r[2]) = r[3]
  <2>1. PICK k \in v.read : r = IdOf(v, "symbol", k)
    BY <1>4 DEF Cites, IdOf
  <2>2. r[2] = k /\ r[3] = evidenceHashForSymbol(v, k)
    BY <2>1 DEF IdOf
  <2>3. k \in Symbols(p) /\ evidenceHashForSymbol(p, k) = evidenceHashForSymbol(v, k)
    BY <1>4, <2>2 DEF Holds
  <2>4. k \in p.read
    BY <2>3 DEF IsVersion, Alike
  <2>5. r = IdOf(p, "symbol", k)
    BY <2>1, <2>3 DEF IdOf
  <2>6. k \notin StaleSymbols(p, n)
    BY <1>1, <2>5, LevelsOfADiff DEF StaleIds, CitedLevels
  <2> QED  BY <2>2, <2>3, <2>4, <2>6, SymbolLeftAlone
<1>5. ASSUME NEW r \in s.records, r[1] = "file",
             ~ \E x \in later : r[2] \in Files(x) /\ x.files[r[2]] # v.files[r[2]]
      PROVE  r[2] \in Files(n) /\ FileChildren(n, r[2]) = r[3][1]
  <2>1. PICK f \in FileRecords(v) : r = IdOf(v, "file", f)
    BY <1>5 DEF Cites, IdOf
  <2>2. r[2] = f /\ r[3] = FileEvidence(v, f) /\ r[3][1] = FileChildren(v, f)
    BY <2>1 DEF IdOf, FileEvidence
  <2>3. f \in Files(p) /\ FileChildren(p, f) = FileChildren(v, f)
    BY <1>5, <2>2 DEF Holds
  <2>4. p.files[f] = v.files[f]
    BY <1>5, <2>2, <2>3
  <2>5. f \in FileRecords(p)
    <3>1. PICK k \in v.read : FileOf(k) = f /\ ~v.trivial[k]
      BY DEF FileRecords
    <3>2. <<k, evidenceHashForSymbol(v, k)>> \in FileChildren(p, f)
      BY <2>3, <3>1 DEF FileChildren
    <3>3. k \in p.read /\ evidenceHashForSymbol(p, k) = evidenceHashForSymbol(v, k)
      BY <3>2 DEF FileChildren
    <3>4. p.symbols[k] = v.symbols[k]
      BY <3>3 DEF evidenceHashForSymbol
    <3>5. ~p.trivial[k]
      BY <3>1, <3>3, <3>4 DEF Alike, IsVersion
    <3> QED  BY <3>1, <3>3, <3>5 DEF FileRecords
  <2>6. r = IdOf(p, "file", f)
    BY <2>1, <2>3, <2>4 DEF IdOf, FileEvidence
  <2>7. f \notin StaleFiles(p, n)
    BY <1>1, <2>6, LevelsOfADiff DEF StaleIds, CitedLevels
  <2> QED  BY <2>2, <2>3, <2>5, <2>7, FileLeftAlone DEF SameFile
<1> QED  BY <1>2, <1>3, <1>4, <1>5 DEF Holds

\* However the analyses of a branch were ordered, what a section of the first
\* cites holds in every later version of the branch, or the section is stale.
THEOREM FreshMeansTrue ==
  ASSUME NEW h, NEW code, NEW sections, IsHistory(h), IsCode(code, h),
         1 \in DOMAIN h, h[1].branch = "main", h[1].version = 1,
         \A s \in sections : Cites(s, code[1]),
         \A i \in DOMAIN h : i >= 1
  PROVE  FreshIsTrue(h, sections, code)
<1> DEFINE later == {code[h[i].version] : i \in {i \in DOMAIN h :
                       h[i].branch = "main" /\ h[i].pushed > h[1].pushed}}
           diffs == Diffs(h, DOMAIN h, code, "main")
<1> SUFFICES ASSUME NEW s \in sections, \A d \in diffs : ~Flagged(s, d)
             PROVE  \A w \in later : Holds(s, code[1], w, later)
  BY DEF FreshIsTrue
<1> DEFINE Line == {i \in DOMAIN h : h[i].branch = "main" /\ h[1].pushed <= h[i].pushed}
           Bad  == {i \in Line : ~Holds(s, code[1], code[h[i].version], later)}
<1>1. Bad = {}
  <2> SUFFICES ASSUME Bad # {}  PROVE FALSE
    OBVIOUS
  <2>1. Bad \subseteq Nat
    BY DEF IsHistory
  <2>2. PICK i \in Bad : \A j \in Bad : i <= j
    BY <2>1, LeastNumber
  <2>3. i # 1
    BY CitedIsThere DEF IsCode
  <2>4. 1 < i /\ h[1].pushed < h[i].pushed
    BY <2>1, <2>3 DEF IsHistory
  <2>5. PICK b \in DOMAIN h : /\ b < i /\ h[b].branch = h[i].branch
                              /\ h[1].pushed <= h[b].pushed /\ h[b].pushed < h[i].pushed
                              /\ SnapshotOf(h, b) \in Baselines(h, DOMAIN h, i)
    <3> HIDE DEF Bad, Line
    <3>1. i \in DOMAIN h /\ h[i].branch = "main"
      BY DEF Bad, Line
    <3> QED  BY <2>4, <3>1, BaselineIsThere
  <2>6. b \in Line /\ b \notin Bad
    <3>1. b \in Nat /\ i \in Nat /\ ~(i <= b)
      BY <2>1, <2>5 DEF IsHistory
    <3>2. b \in Line
      BY <2>5
    <3> HIDE DEF Bad
    <3> QED  BY <2>2, <3>1, <3>2
  <2>7. Holds(s, code[1], code[h[b].version], later)
    BY <2>6
  <2>8. code[h[b].version] = code[1] \/ code[h[b].version] \in later
    <3>1. b = 1 \/ h[b].pushed > h[1].pushed
      BY <2>6 DEF IsHistory
    <3> QED  BY <2>6, <3>1
  <2>9. Touched(code[h[b].version], code[h[i].version]) \in diffs
    <3>1. SnapshotOf(h, b).version = h[b].version
      BY DEF SnapshotOf
    <3> QED  BY <2>5, <3>1 DEF Diffs
  <2>10. Holds(s, code[1], code[h[i].version], later)
    <3> HIDE DEF later, diffs, Bad, Line
    <3>1. i \in DOMAIN h
      BY DEF Bad, Line
    <3>2. /\ IsVersion(code[1]) /\ IsVersion(code[h[b].version]) /\ IsVersion(code[h[i].version])
          /\ Alike(code[1], code[h[b].version]) /\ Alike(code[h[b].version], code[h[i].version])
      BY <3>1 DEF IsCode
    <3> QED  BY <2>7, <2>8, <2>9, <3>2, UnflaggedHoldsOn
  <2> QED  BY <2>10
<1>2. ASSUME NEW w \in later  PROVE Holds(s, code[1], w, later)
  <2>1. PICK i \in DOMAIN h : h[i].branch = "main" /\ h[i].pushed > h[1].pushed /\ w = code[h[i].version]
    OBVIOUS
  <2>2. i \in Line
    BY <2>1 DEF IsHistory
  <2> HIDE DEF later
  <2> QED  BY <1>1, <2>1, <2>2
<1> QED  BY <1>2

\* What another branch brings makes nothing stale on this one.
LEMMA BranchesStayApart ==
  ASSUME NEW h, NEW code, NEW sections
  PROVE  BranchesApart(h, sections, code)
<1> DEFINE main == {i \in DOMAIN h : h[i].branch = "main"}
<1>1. ASSUME NEW i \in main  PROVE Baselines(h, main, i) = Baselines(h, DOMAIN h, i)
  <2>1. Earlier({SnapshotOf(h, j) : j \in {j \in main : j < i}}, SnapshotOf(h, i))
          = Earlier({SnapshotOf(h, j) : j \in {j \in DOMAIN h : j < i}}, SnapshotOf(h, i))
    BY DEF Earlier, SnapshotOf
  <2> QED  BY <2>1 DEF Baselines, findPreviousSnapshot
<1>2. Diffs(h, main, code, "main") = Diffs(h, DOMAIN h, code, "main")
  <2> DEFINE Of(ran, i) == {Touched(code[b.version], code[h[i].version]) : b \in Baselines(h, ran, i)}
  <2>1. {i \in main : h[i].branch = "main"} = main
    OBVIOUS
  <2>2. \A i \in main : Of(main, i) = Of(DOMAIN h, i)
    BY <1>1
  <2>3. Diffs(h, main, code, "main") = UNION {Of(main, i) : i \in main}
    BY <2>1 DEF Diffs
  <2>4. Diffs(h, DOMAIN h, code, "main") = UNION {Of(DOMAIN h, i) : i \in main}
    BY DEF Diffs
  <2> HIDE DEF Of
  <2>5. {Of(main, i) : i \in main} = {Of(DOMAIN h, i) : i \in main}
    BY <2>2
  <2> QED  BY <2>3, <2>4, <2>5
<1> QED  BY <1>2 DEF BranchesApart

\* The snapshot a reader is shown is the push seen last, and the baseline of its
\* diff is what was shown before it.
LEMMA OrderIsOne ==
  ASSUME NEW h, NEW wanted, IsHistory(h)
  PROVE  OneOrder(h, wanted)
<1> DEFINE S == {SnapshotOf(h, i) : i \in DOMAIN h}
           on == {s \in S : s.branch = wanted}
<1> SUFFICES ASSUME NEW s \in latestSnapshot(S, wanted)
             PROVE  /\ \A t \in (IF on = {} THEN S ELSE on) : t.pushed <= s.pushed
                    /\ on # {} => findPreviousSnapshot(S, s) = latestSnapshot(on \ {s}, wanted)
  BY DEF OneOrder
<1>1. \A t \in S : t.status = "complete" /\ t.pushed \in Nat /\ t.created \in Nat /\ t.branch # "none"
  BY DEF IsHistory, SnapshotOf
<1>2. \A t, u \in S : t.branch = u.branch /\ t.pushed = u.pushed => t = u
  BY DEF IsHistory, SnapshotOf
<1>3. s \in S /\ \A t \in S \ {s} : Before(s, t, wanted)
  <2>1. {t \in S : t.status = "complete"} = S
    BY <1>1
  <2> HIDE DEF S
  <2> QED  BY <2>1 DEF latestSnapshot, First
<1> HIDE DEF S
<1>4. CASE on = {}
  <2>1. ASSUME NEW t \in S  PROVE t.pushed <= s.pushed
    <3>1. CASE t = s
      BY <1>1, <3>1
    <3>2. CASE t # s
      <4>1. Before(s, t, wanted)
        BY <1>3, <3>2
      <4>2. t.branch # wanted /\ s.branch # wanted
        BY <1>3, <1>4
      <4> QED  BY <1>1, <1>3, <4>1, <4>2 DEF Before
    <3> QED  BY <3>1, <3>2
  <2> QED  BY <1>4, <2>1
<1>5. CASE on # {}
  <2>1. wanted # "none"
    BY <1>1, <1>5
  <2>2. s.branch = wanted
    <3> SUFFICES ASSUME s.branch # wanted  PROVE FALSE
      OBVIOUS
    <3>1. PICK t \in on : t # s
      BY <1>5
    <3>2. Before(s, t, wanted)
      BY <1>3, <3>1
    <3> QED  BY <1>1, <1>3, <2>1, <3>1, <3>2 DEF Before
  <2>3. ASSUME NEW t \in on, t # s  PROVE t.pushed < s.pushed
    <3>1. Before(s, t, wanted)
      BY <1>3, <2>3
    <3>2. t.pushed # s.pushed
      BY <1>2, <1>3, <2>2, <2>3
    <3> QED  BY <1>1, <1>3, <2>2, <3>1, <3>2 DEF Before
  <2>4. \A t \in on : t.pushed <= s.pushed
    BY <1>1, <1>3, <2>3
  <2>5. Earlier(S, s) = on \ {s}
    BY <1>1, <1>3, <2>2, <2>3 DEF Earlier
  <2>6. latestSnapshot(on \ {s}, wanted) = First(on \ {s}, wanted)
    <3>1. {t \in on \ {s} : t.status = "complete"} = on \ {s}
      BY <1>1
    <3> QED  BY <3>1 DEF latestSnapshot
  <2> QED  BY <1>5, <2>2, <2>4, <2>5, <2>6 DEF findPreviousSnapshot
<1> QED  BY <1>4, <1>5

(* The versions and the histories that are followed *)

LEMMA WhatAVersionIs ==
  ASSUME NEW x \in Kinds, NEW readme \in Nat, NEW workspace \in BOOLEAN
  PROVE  /\ IsVersion(VersionOf(x, readme, workspace))
         /\ VersionOf(x, readme, workspace).read = Present(x)
         /\ DOMAIN VersionOf(x, readme, workspace).symbols = Present(x)
         /\ VersionOf(x, readme, workspace).trivial = [k \in Present(x) |-> k[2] = "g"]
         /\ DOMAIN VersionOf(x, readme, workspace).files
              = {"b"} \union (IF x.f = 0 /\ x.g = 0 THEN {} ELSE {"a"}) \union (IF readme = 0 THEN {} ELSE {"README"})
         /\ x.layout = 1 => VersionOf(x, readme, workspace).clusters = [A |-> <<"a">>, B |-> <<"b">>]
<1> DEFINE v == VersionOf(x, readme, workspace)
<1>1. v = [files |-> v.files, docs |-> v.docs, symbols |-> v.symbols, calls |-> v.calls, read |-> v.read,
           trivial |-> v.trivial, clusters |-> v.clusters, package |-> v.package, flows |-> v.flows]
  BY DEF VersionOf
<1>2. /\ v.read = Present(x) /\ DOMAIN v.symbols = Present(x)
      /\ v.trivial = [k \in Present(x) |-> k[2] = "g"]
  BY DEF VersionOf
<1>3. DOMAIN v.files = {"b"} \union (IF x.f = 0 /\ x.g = 0 THEN {} ELSE {"a"})
                             \union (IF readme = 0 THEN {} ELSE {"README"})
  BY DEF VersionOf
<1>4. x.layout = 1 => v.clusters = [A |-> <<"a">>, B |-> <<"b">>]
  BY DEF VersionOf
<1>5. ASSUME NEW k \in Present(x)  PROVE k[1] \in DOMAIN v.files
  BY <1>3 DEF Present
<1> HIDE DEF v
<1>6. IsVersion(v)
  BY <1>1, <1>2, <1>5 DEF IsVersion, Symbols, Files, FileOf
<1> QED  BY <1>2, <1>3, <1>4, <1>6 DEF v

LEMMA VersionsAreAlike ==
  ASSUME NEW x \in Kinds, NEW y \in Kinds, NEW r1 \in Nat, NEW r2 \in Nat, NEW w1 \in BOOLEAN, NEW w2 \in BOOLEAN
  PROVE  Alike(VersionOf(x, r1, w1), VersionOf(y, r2, w2))
<1> DEFINE p == VersionOf(x, r1, w1)
           n == VersionOf(y, r2, w2)
<1>1. p.read = Present(x) /\ DOMAIN p.symbols = Present(x) /\ p.trivial = [k \in Present(x) |-> k[2] = "g"]
  BY WhatAVersionIs, ZenonT(30)
<1>2. n.read = Present(y) /\ DOMAIN n.symbols = Present(y) /\ n.trivial = [k \in Present(y) |-> k[2] = "g"]
  BY WhatAVersionIs, ZenonT(30)
<1> HIDE DEF p, n
<1>3. Alike(p, n)
  BY <1>1, <1>2 DEF Alike, Symbols
<1> QED  BY <1>3 DEF p, n

LEMMA WhatTheCodeIs ==
  /\ Code[1] = VersionOf(FirstKind, 1, FALSE) /\ FirstKind \in Kinds
  /\ \A v \in 1 .. 7 : \E x \in Kinds, readme \in 0 .. 2 : Code[v] = VersionOf(x, readme, FALSE)
<1>1. /\ FirstKind \in Kinds /\ [FirstKind EXCEPT !.h = 2] \in Kinds /\ [FirstKind EXCEPT !.text = 2] \in Kinds
      /\ [FirstKind EXCEPT !.g = 0] \in Kinds /\ [FirstKind EXCEPT !.f = 2] \in Kinds
      /\ [FirstKind EXCEPT !.h = 2, !.text = 2] \in Kinds
  <2>1. \A f, h \in 0 .. 2, g \in 0 .. 1, t \in 1 .. 2 :
          [f |-> f, g |-> g, h |-> h, text |-> t, layout |-> 1] \in Kinds
    BY DEF Kinds
  <2> DEFINE k == [f |-> 1, g |-> 1, h |-> 1, text |-> 1, layout |-> 1]
  <2>2. [k EXCEPT !.h = 2] = [f |-> 1, g |-> 1, h |-> 2, text |-> 1, layout |-> 1]
    OBVIOUS
  <2>3. [k EXCEPT !.text = 2] = [f |-> 1, g |-> 1, h |-> 1, text |-> 2, layout |-> 1]
    OBVIOUS
  <2>4. [k EXCEPT !.g = 0] = [f |-> 1, g |-> 0, h |-> 1, text |-> 1, layout |-> 1]
    OBVIOUS
  <2>5. [k EXCEPT !.f = 2] = [f |-> 2, g |-> 1, h |-> 1, text |-> 1, layout |-> 1]
    OBVIOUS
  <2>6. [k EXCEPT !.h = 2, !.text = 2] = [f |-> 1, g |-> 1, h |-> 2, text |-> 2, layout |-> 1]
    <3> DEFINE k2 == [f |-> 1, g |-> 1, h |-> 2, text |-> 1, layout |-> 1]
    <3>1. [k2 EXCEPT !.text = 2] = [f |-> 1, g |-> 1, h |-> 2, text |-> 2, layout |-> 1]
      OBVIOUS
    <3>2. [k EXCEPT !.h = 2] = k2
      BY <2>2
    <3> HIDE DEF k, k2
    <3> QED  BY <3>1, <3>2
  <2>7. FirstKind = k
    BY DEF FirstKind
  <2> HIDE DEF k
  <2>8. k \in Kinds
    BY <2>1 DEF k
  <2> QED  BY <2>1, <2>2, <2>3, <2>4, <2>5, <2>6, <2>7, <2>8
<1>2. /\ Code[1] = VersionOf(FirstKind, 1, FALSE)
      /\ Code[2] = VersionOf([FirstKind EXCEPT !.h = 2], 1, FALSE)
      /\ Code[3] = VersionOf([FirstKind EXCEPT !.text = 2], 1, FALSE)
      /\ Code[4] = VersionOf([FirstKind EXCEPT !.g = 0], 2, FALSE)
      /\ Code[5] = VersionOf([FirstKind EXCEPT !.f = 2], 0, FALSE)
      /\ Code[6] = VersionOf(FirstKind, 1, FALSE)
      /\ Code[7] = VersionOf([FirstKind EXCEPT !.h = 2, !.text = 2], 1, FALSE)
  BY DEF Code
<1>3. \A v \in 1 .. 7 : v \in {1, 2, 3, 4, 5, 6, 7}
  OBVIOUS
<1>4. 0 \in 0 .. 2 /\ 1 \in 0 .. 2 /\ 2 \in 0 .. 2
  OBVIOUS
<1> QED  BY <1>1, <1>2, <1>3, <1>4, ZenonT(40)

LEMMA WhatAHistoryIs ==
  ASSUME NEW h \in HistoryInputs
  PROVE  /\ IsHistory(h) /\ 1 \in DOMAIN h /\ h[1].branch = "main" /\ h[1].version = 1
         /\ \A i \in DOMAIN h : i >= 1 /\ h[i].version \in 1 .. 7
<1>1. PICK v \in (2 .. 7) \X (2 .. 7) \X {3, 5, 6},
           b \in {<<"main", "main">>, <<"side", "main">>, <<"main", "side">>},
           q \in {<<1, 2, 3, 4>>, <<1, 4, 2, 3>>, <<1, 4, 3, 2>>, <<2, 4, 3, 1>>} :
        h = <<Analysis(1, "main", q[1]), Analysis(v[1], b[1], q[2]), Analysis(v[2], b[2], q[3]),
              Analysis(v[3], "main", q[4])>>
  BY DEF HistoryInputs
<1>2. DOMAIN h = {1, 2, 3, 4}
  BY <1>1
<1>3. /\ h[1] = Analysis(1, "main", q[1]) /\ h[2] = Analysis(v[1], b[1], q[2])
      /\ h[3] = Analysis(v[2], b[2], q[3]) /\ h[4] = Analysis(v[3], "main", q[4])
  BY <1>1
<1>4. /\ q[1] \in Nat /\ q[2] \in Nat /\ q[3] \in Nat /\ q[4] \in Nat
      /\ q[1] # q[2] /\ q[1] # q[3] /\ q[1] # q[4] /\ q[2] # q[3] /\ q[2] # q[4] /\ q[3] # q[4]
  OBVIOUS
<1>5. v[1] \in 1 .. 7 /\ v[2] \in 1 .. 7 /\ v[3] \in 1 .. 7 /\ b[1] \in {"main", "side"} /\ b[2] \in {"main", "side"}
  OBVIOUS
<1>6. /\ h[1].pushed = q[1] /\ h[2].pushed = q[2] /\ h[3].pushed = q[3] /\ h[4].pushed = q[4]
      /\ h[1].branch = "main" /\ h[2].branch = b[1] /\ h[3].branch = b[2] /\ h[4].branch = "main"
      /\ h[1].version = 1 /\ h[2].version = v[1] /\ h[3].version = v[2] /\ h[4].version = v[3]
  BY <1>3 DEF Analysis
<1>7. IsHistory(h)
  BY <1>2, <1>4, <1>5, <1>6 DEF IsHistory
<1> QED  BY <1>2, <1>5, <1>6, <1>7

\* The sections that are held against a history cite the first version.
LEMMA SectionsCite == \A s \in Sections : Cites(s, Code[1])
<1> DEFINE v == Code[1]
           ks == {<<"a", "f">>, <<"a", "g">>, <<"b", "h">>}
<1>1. Present(FirstKind) = ks
  BY DEF Present, FirstKind
<1>2. /\ IsVersion(v) /\ v.read = ks /\ DOMAIN v.symbols = ks
      /\ v.trivial = [k \in ks |-> k[2] = "g"]
      /\ DOMAIN v.files = {"a", "b", "README"}
      /\ v.clusters = [A |-> <<"a">>, B |-> <<"b">>]
  <2>1. FirstKind \in Kinds /\ v = VersionOf(FirstKind, 1, FALSE)
    BY WhatTheCodeIs
  <2>2. FirstKind.f = 1 /\ FirstKind.layout = 1
    BY DEF FirstKind
  <2> HIDE DEF v, ks
  <2> DEFINE w == VersionOf(FirstKind, 1, FALSE)
  <2>3. /\ IsVersion(w) /\ w.read = Present(FirstKind) /\ DOMAIN w.symbols = Present(FirstKind)
        /\ w.trivial = [k \in Present(FirstKind) |-> k[2] = "g"]
        /\ DOMAIN w.files = {"b"} \union (IF FirstKind.f = 0 /\ FirstKind.g = 0 THEN {} ELSE {"a"})
                                  \union (IF 1 = 0 THEN {} ELSE {"README"})
        /\ FirstKind.layout = 1 => w.clusters = [A |-> <<"a">>, B |-> <<"b">>]
    BY <2>1, WhatAVersionIs
  <2> HIDE DEF w
  <2>4. v = w
    BY <2>1 DEF w
  <2> QED  BY <1>1, <2>2, <2>3, <2>4
<1> HIDE DEF v
<1>3. "a" \in FileRecords(v) /\ "b" \in FileRecords(v)
  <2>1. /\ <<"a", "f">> \in v.read /\ ~v.trivial[<<"a", "f">>] /\ FileOf(<<"a", "f">>) = "a"
        /\ <<"b", "h">> \in v.read /\ ~v.trivial[<<"b", "h">>] /\ FileOf(<<"b", "h">>) = "b"
    BY <1>2 DEF FileOf
  <2> QED  BY <2>1 DEF FileRecords
<1>4. "A" \in ModuleRecords(v)
  <2>1. "a" \in Members(v, "A")
    BY <1>2 DEF Members, Range
  <2>2. <<"a", FileChildren(v, "a")>> \in ModuleChildren(v, "A")
    BY <1>3, <2>1 DEF ModuleChildren
  <2> QED  BY <1>2, <2>2 DEF ModuleRecords
<1>5. ASSUME NEW s \in Sections  PROVE Cites(s, v)
  <2>1. CASE s \in {Section("flows", {"a"}, {}, {}, {}), Section("flows", {}, {}, {<<"b", "h">>}, {}),
                    Section("setup", {}, {"README"}, {}, {}), Section("doc_health", {}, {}, {}, {})}
    BY <1>2, <2>1 DEF Section, Cites, Files, Symbols
  <2>2. CASE s = Section("map", {"b"}, {}, {<<"a", "f">>}, {IdOf(v, "module", "A")})
    BY <1>2, <1>4, <2>2 DEF Section, Cites, Files, Symbols
  <2>3. CASE s \in {Section("map", {}, {}, {}, {IdOf(v, "symbol", k)}) : k \in v.read}
    BY <1>2, <2>3 DEF Section, Cites, Files, Symbols
  <2>4. CASE s \in {Section("map", {}, {}, {}, {IdOf(v, "file", f)}) : f \in {"a", "b"}}
    BY <1>3, <2>4 DEF Section, Cites, Files, Symbols
  <2> QED  BY <1>5, <2>1, <2>2, <2>3, <2>4 DEF Sections, v
<1> QED  BY <1>5 DEF v

ChangeTyped ==
  /\ task \in {"pair", "history"}
  /\ task = "pair" => in \in PairInputs
  /\ task = "history" => in \in HistoryInputs

LEMMA TypedIsCorrect == ChangeTyped => StaleCorrect
<1>1. ASSUME in \in PairInputs
      PROVE  LET p == VersionOf(in.p, 1, in.workspace)
                 n == VersionOf(in.n, 1, in.workspace)
             IN  NothingDirtyBelow(p, n) /\ TextAloneKeeps(p, n)
  <2>1. in.p \in Kinds /\ in.n \in Kinds /\ in.workspace \in BOOLEAN /\ 1 \in Nat
    BY <1>1 DEF PairInputs
  <2> DEFINE p == VersionOf(in.p, 1, in.workspace)
             n == VersionOf(in.n, 1, in.workspace)
  <2>2. IsVersion(p) /\ IsVersion(n) /\ Alike(p, n)
    BY <2>1, WhatAVersionIs, VersionsAreAlike
  <2> HIDE DEF p, n
  <2>3. NothingDirtyBelow(p, n) /\ TextAloneKeeps(p, n)
    BY <2>2, NothingIsDirtyBelow, TextAloneIsKept
  <2> QED  BY <2>3 DEF p, n
<1>2. ASSUME in \in HistoryInputs
      PROVE  /\ FreshIsTrue(in, Sections, Code) /\ BranchesApart(in, Sections, Code)
             /\ \A b : OneOrder(in, b)
  <2>0. FALSE \in BOOLEAN /\ \A n \in 0 .. 2 : n \in Nat
    OBVIOUS
  <2>1. ASSUME NEW i \in DOMAIN in
        PROVE  \E x \in Kinds, readme \in 0 .. 2 : Code[in[i].version] = VersionOf(x, readme, FALSE)
    BY <1>2, WhatAHistoryIs, WhatTheCodeIs
  <2>2. IsCode(Code, in)
    <3>1. ASSUME NEW i \in DOMAIN in  PROVE IsVersion(Code[in[i].version])
      <4>1. PICK x \in Kinds, readme \in 0 .. 2 : Code[in[i].version] = VersionOf(x, readme, FALSE)
        BY <2>1
      <4>2. IsVersion(VersionOf(x, readme, FALSE))
        BY <2>0, WhatAVersionIs
      <4> QED  BY <4>1, <4>2
    <3>2. ASSUME NEW i \in DOMAIN in, NEW j \in DOMAIN in
          PROVE  Alike(Code[in[i].version], Code[in[j].version])
      <4>1. PICK x \in Kinds, r \in 0 .. 2 : Code[in[i].version] = VersionOf(x, r, FALSE)
        BY <2>1
      <4>2. PICK y \in Kinds, q \in 0 .. 2 : Code[in[j].version] = VersionOf(y, q, FALSE)
        BY <2>1
      <4>3. Alike(VersionOf(x, r, FALSE), VersionOf(y, q, FALSE))
        BY <2>0, VersionsAreAlike
      <4> QED  BY <4>1, <4>2, <4>3
    <3> QED  BY <3>1, <3>2 DEF IsCode
  <2>3. FreshIsTrue(in, Sections, Code)
    BY <1>2, <2>2, WhatAHistoryIs, SectionsCite, FreshMeansTrue
  <2> QED  BY <1>2, <2>3, WhatAHistoryIs, BranchesStayApart, OrderIsOne
<1> QED  BY <1>1, <1>2 DEF ChangeTyped, StaleCorrect

\* Every pair of versions and every history that is followed.
THEOREM StaleIsCorrect == ChangeSpec => []StaleCorrect
<1>1. ChangeInit => ChangeTyped
  BY DEF ChangeInit, ChangeTyped
<1>2. ChangeTyped /\ [ChangeNext]_inputVars => ChangeTyped'
  BY DEF ChangeTyped, ChangeNext, Compare, Follow, Judge, inputVars
<1>3. ChangeSpec => []ChangeTyped
  BY <1>1, <1>2, PTL DEF ChangeSpec
<1> QED  BY <1>3, TypedIsCorrect, PTL
=============================================================================
