----------------------------- MODULE RecordStore -----------------------------
(***************************************************************************)
(* The semantic records of one symbol, which every run of the project      *)
(* shares.  A record is kept under the evidence it was written from, the   *)
(* prompt and the depth.  A run takes the record of the snapshot before    *)
(* it, or looks one up, or asks the model and writes one, which supersedes *)
(* what other evidence gave; it may refine it, and reviews it before it is *)
(* used.  Runs of several snapshots go side by side, a process may die and *)
(* be started again, and a snapshot may be analysed once more.             *)
(***************************************************************************)
EXTENDS Naturals, FiniteSets

CONSTANTS
    Snaps,       \* the snapshots
    Previous,    \* the snapshot before each on its branch, or itself
    Contents,    \* the evidence hashes of the symbol
    Histories,   \* which of them it may have in which snapshot
    Concurrency, \* runs at once, WORKER_CONCURRENCY
    DepthSets,   \* the depths the snapshots may be analysed at
    MaxAgain     \* deaths and second analyses

VARIABLES
    evidence,    \* evidenceHashForSymbol, by snapshot
    depth,       \* the depth of a snapshot's analysis
    rows,        \* semantic_records, by row: its status
    reviewed,    \* a verdict was given on what is written there
    hands,       \* the snapshots whose runs wrote or reviewed the row
    mapped,      \* snapshot_semantic_records: the row of the symbol, or None
    at,          \* where the run of a snapshot is
    held,        \* the record a run has in hand
    prior,       \* priorSymbolRecords
    tries,       \* regenerations of the rejected record
    read,        \* what a reviewer read, and whether it is still what the row says
    again        \* deaths and second analyses so far

vars == <<evidence, depth, rows, reviewed, hands, mapped, at, held, prior, tries, read, again>>

Prompts == {"symbol", "refinement"}
Depths  == {"standard", "full"}
Row(e, p, d) == [evidence |-> e, prompt |-> p, depth |-> d]
Rows == {Row(e, p, d) : e \in Contents, p \in Prompts, d \in Depths}
None == Row(0, "none", "none")
Nothing == [row |-> None, same |-> FALSE]
Live(r) == r \in Rows /\ rows[r] \notin {"none", "superseded"}

Idle   == {"idle", "dead", "done"}
Places == {"idle", "dead", "symbols", "supersede", "write", "map", "refine", "review", "judged", "done"}

TypeOK ==
    /\ evidence \in [Snaps -> Contents] /\ depth \in [Snaps -> Depths]
    /\ rows \in [Rows -> {"none", "pending", "usable", "rejected", "superseded"}]
    /\ reviewed \in [Rows -> BOOLEAN] /\ hands \in [Rows -> SUBSET Snaps]
    /\ mapped \in [Snaps -> Rows \cup {None}] /\ held \in [Snaps -> Rows \cup {None}]
    /\ prior \in [Snaps -> Rows \cup {None}] /\ at \in [Snaps -> Places]
    /\ tries \in [Snaps -> 0 .. 1] /\ again \in 0 .. MaxAgain
    /\ read \in [Snaps -> [row : Rows \cup {None}, same : BOOLEAN]]

Init ==
    /\ evidence \in Histories /\ depth \in DepthSets
    /\ rows = [r \in Rows |-> "none"] /\ reviewed = [r \in Rows |-> FALSE]
    /\ hands = [r \in Rows |-> {}]
    /\ mapped = [s \in Snaps |-> None] /\ held = mapped /\ prior = mapped
    /\ at = [s \in Snaps |-> "idle"] /\ tries = [s \in Snaps |-> 0]
    /\ read = [s \in Snaps |-> Nothing] /\ again = 0

\* The depths a run accepts.
Accepted(d) == IF d = "full" THEN {"full"} ELSE {"full", "standard"}

\* The row a lookup returns: one that was not superseded, of the best depth.
Found(s, e, p) ==
    LET live == {d \in Accepted(depth[s]) : Live(Row(e, p, d))}
    IN  IF live = {} THEN None ELSE Row(e, p, IF "full" \in live THEN "full" ELSE "standard")

\* Plausible bug: whatever the snapshot had is carried on.
isCarriedAnyway(s) == prior[s] # None /\ prior[s].prompt = "symbol" /\ prior[s].depth \in Accepted(depth[s])

\* The gate of a carried record; its status is the one at the time of the capture.
isCarryForwardEligible(s) ==
    /\ prior[s] # None /\ prior[s].evidence = evidence[s]
    /\ prior[s].prompt = "symbol" /\ prior[s].depth \in Accepted(depth[s])

\* Plausible bug: another prompt is taken for another version.
SupersedesPrompts(r, other) == other.depth = r.depth /\ (other.evidence # r.evidence \/ other.prompt # r.prompt)

\* What the writing of row r supersedes: what the same prompt at the same depth
\* made of other evidence.
Supersedes(r, other) == other.prompt = r.prompt /\ other.depth = r.depth /\ other.evidence # r.evidence

------------------------------------------------------------------------------
\* A run starts, for the first time, once more or after a death.  The records
\* its snapshot had, or else those of a complete snapshot before it, are taken
\* down before the mapping is cleared.
Start(s) ==
    /\ at[s] \in {"idle", "dead"} \/ (at[s] = "done" /\ again < MaxAgain)
    /\ Cardinality({q \in Snaps : at[q] \notin Idle}) < Concurrency
    /\ again' = IF at[s] = "done" THEN again + 1 ELSE again
    /\ prior' = [prior EXCEPT ![s] =
           IF Live(mapped[s]) THEN mapped[s]
           ELSE IF at[Previous[s]] = "done" /\ Live(mapped[Previous[s]]) THEN mapped[Previous[s]] ELSE None]
    /\ mapped' = [mapped EXCEPT ![s] = None]
    /\ at' = [at EXCEPT ![s] = "symbols"]
    /\ UNCHANGED <<evidence, depth, rows, reviewed, hands, held, tries, read>>

\* Carry forward, else look up, else ask the model.
Resolve(s) ==
    LET hit == IF isCarryForwardEligible(s) THEN prior[s] ELSE Found(s, evidence[s], "symbol")
    IN  /\ at[s] = "symbols"
        /\ held' = [held EXCEPT ![s] = IF hit # None THEN hit ELSE Row(evidence[s], "symbol", depth[s])]
        /\ at' = [at EXCEPT ![s] = IF hit # None THEN "map" ELSE "supersede"]
        /\ UNCHANGED <<evidence, depth, rows, reviewed, hands, mapped, prior, tries, read, again>>

\* The model answered: insertRecord's two statements.
Supersede(s) ==
    /\ at[s] = "supersede"
    /\ rows' = [r \in Rows |-> IF Live(r) /\ Supersedes(held[s], r) THEN "superseded" ELSE rows[r]]
    /\ at' = [at EXCEPT ![s] = "write"]
    /\ UNCHANGED <<evidence, depth, reviewed, hands, mapped, held, prior, tries, read, again>>

Write(s) ==
    /\ at[s] = "write"
    /\ rows' = [rows EXCEPT ![held[s]] = "pending"]
    /\ reviewed' = [reviewed EXCEPT ![held[s]] = FALSE]
    /\ read' = [q \in Snaps |-> IF read[q].row = held[s] THEN [read[q] EXCEPT !.same = FALSE] ELSE read[q]]
    /\ hands' = [hands EXCEPT ![held[s]] = @ \cup {s}]
    /\ at' = [at EXCEPT ![s] = "map"]
    /\ UNCHANGED <<evidence, depth, mapped, held, prior, tries, again>>

\* The record replaces what the snapshot had for the symbol.  A regenerated one
\* goes back to its reviewer, who reads what it was given.
Map(s) ==
    /\ at[s] = "map" /\ mapped' = [mapped EXCEPT ![s] = held[s]]
    /\ read' = IF tries[s] = 1 THEN [read EXCEPT ![s] = [row |-> held[s], same |-> TRUE]] ELSE read
    /\ at' = [at EXCEPT ![s] = IF tries[s] = 1 THEN "judged"
                               ELSE IF held[s].prompt = "symbol" THEN "refine" ELSE "review"]
    /\ UNCHANGED <<evidence, depth, rows, reviewed, hands, held, prior, tries, again>>

\* The symbol may be among those refined: same evidence, another prompt.
Refine(s) ==
    LET hit == Found(s, held[s].evidence, "refinement")
    IN  /\ at[s] = "refine"
        /\ \/ at' = [at EXCEPT ![s] = "review"] /\ UNCHANGED <<mapped, held>>
           \/ /\ hit # None /\ mapped' = [mapped EXCEPT ![s] = hit]
              /\ at' = [at EXCEPT ![s] = "review"] /\ UNCHANGED held
           \/ /\ hit = None /\ held' = [held EXCEPT ![s] = Row(held[s].evidence, "refinement", depth[s])]
              /\ at' = [at EXCEPT ![s] = "supersede"] /\ UNCHANGED mapped
        /\ UNCHANGED <<evidence, depth, rows, reviewed, hands, prior, tries, read, again>>

\* The run is over, and has nothing in hand.
Leave(s, to) ==
    /\ at' = [at EXCEPT ![s] = to] /\ held' = [held EXCEPT ![s] = None]
    /\ prior' = [prior EXCEPT ![s] = None] /\ tries' = [tries EXCEPT ![s] = 0]
    /\ read' = [read EXCEPT ![s] = Nothing]

\* runCritiquePass reads the pending records of the snapshot.
Review(s) ==
    /\ at[s] = "review"
    /\ IF rows[mapped[s]] = "pending"
       THEN /\ read' = [read EXCEPT ![s] = [row |-> mapped[s], same |-> TRUE]]
            /\ hands' = [hands EXCEPT ![mapped[s]] = @ \cup {s}]
            /\ at' = [at EXCEPT ![s] = "judged"] /\ UNCHANGED <<held, prior, tries>>
       ELSE Leave(s, "done") /\ UNCHANGED hands
    /\ UNCHANGED <<evidence, depth, rows, reviewed, mapped, again>>

\* The verdict, or none at all, which lets the record pass.
Settle(s, verdict) ==
    /\ rows' = [rows EXCEPT ![read[s].row] = verdict]
    /\ reviewed' = [reviewed EXCEPT ![read[s].row] = read[s].same]
    /\ Leave(s, "done") /\ UNCHANGED <<evidence, depth, hands, mapped, again>>

Approve(s) == at[s] = "judged" /\ Settle(s, "usable")
\* Rejected a second time, or the regeneration failed.
Reject(s) == at[s] = "judged" /\ Settle(s, "rejected")
\* Rejected for the first time: asked for once more, with the critique.
Regenerate(s) ==
    /\ at[s] = "judged" /\ tries[s] = 0 /\ tries' = [tries EXCEPT ![s] = 1]
    /\ held' = [held EXCEPT ![s] = Row(evidence[s], "symbol", depth[s])]
    /\ at' = [at EXCEPT ![s] = "supersede"]
    /\ UNCHANGED <<evidence, depth, rows, reviewed, hands, mapped, prior, read, again>>

\* The process dies, and another claims the run and starts it over.
Die(s) ==
    /\ at[s] \notin Idle /\ again < MaxAgain /\ again' = again + 1
    /\ Leave(s, "dead") /\ UNCHANGED <<evidence, depth, rows, reviewed, hands, mapped>>

StoreNext == \E s \in Snaps :
    \/ Start(s) \/ Resolve(s) \/ Supersede(s) \/ Write(s) \/ Map(s) \/ Refine(s)
    \/ Review(s) \/ Approve(s) \/ Reject(s) \/ Regenerate(s) \/ Die(s)
Spec == Init /\ [][StoreNext]_vars

------------------------------------------------------------------------------
\* A complete snapshot has a record for the symbol, made of the evidence the
\* symbol has in it, and as deep as the snapshot asked for.
OwnEvidence == \A s \in Snaps : at[s] = "done" =>
    mapped[s] # None /\ mapped[s].evidence = evidence[s] /\ mapped[s].depth \in Accepted(depth[s])

\* Nothing is used before a verdict on what is written there, unless two runs
\* had the row in hand.
ReviewedFirst == \A r \in Rows :
    rows[r] = "usable" => reviewed[r] \/ Cardinality(hands[r]) > 1

\* A symbol whose evidence is what it was in the analysis before is not paid
\* for again, while it is the same in every snapshot that is analysed.
UnchangedIsFree == \A s \in Snaps :
    /\ at[s] = "supersede" /\ held[s].prompt = "symbol" /\ tries[s] = 0 /\ prior[s] # None
    /\ prior[s].evidence = evidence[s] /\ prior[s].depth \in Accepted(depth[s])
    => \E q \in Snaps : at[q] # "idle" /\ evidence[q] # evidence[s]

RecordsCorrect == TypeOK /\ OwnEvidence /\ ReviewedFirst /\ UnchangedIsFree
==============================================================================
