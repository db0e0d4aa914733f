--------------------------- MODULE SemanticPhases ---------------------------
(***************************************************************************)
(* runSemanticPipeline: the seven semantic phases of a run and the row of  *)
(* snapshot_phases each of them has.  Five run in order, the last two side *)
(* by side.  A budget that says "degrade" ends the work and skips the      *)
(* rest; any other error marks the phase and is thrown.  A run that threw  *)
(* or died is started again, from the first phase.                         *)
(***************************************************************************)
EXTENDS Naturals, Sequences, FiniteSets, SequencesExt

CONSTANTS MaxRuns, MaxFaults   \* bounds: runs of the pipeline, statements that fail

InOrder == <<"semantic_symbols", "synthesis", "capabilities", "refinement", "critique">>
Tail2   == {"semantic_ranking", "embeddings"}
Phases  == ToSet(InOrder) \cup Tail2
NP      == Len(InOrder)

VARIABLES
    row,      \* snapshot_phases: the status of each phase
    place,       \* the phase of InOrder the run is in; NP + 1 is the pair
    step,     \* the next statement of it: "mark", "run", "done", "flush"
    pair,     \* the same for the two of the pair; "ok", "degrade", "hard" at the end
    symbolsDegraded,
    outcome,  \* "running", "complete", "degraded", "threw"
    fault,    \* history: a pass or a statement of this run failed for good
    runs, faults

phaseVars == <<row, place, step, pair, symbolsDegraded, outcome, fault, runs, faults>>

Statuses == {"none", "running", "complete", "skipped", "paused", "failed"}
PhasesTypeOK ==
    /\ row \in [Phases -> Statuses] /\ place \in 1 .. NP + 1
    /\ step \in {"mark", "run", "done", "flush", "settled"}
    /\ pair \in [Tail2 -> {"mark", "run", "done", "ok", "degrade", "hard"}]
    /\ symbolsDegraded \in BOOLEAN /\ fault \in BOOLEAN
    /\ outcome \in {"running", "complete", "degraded", "threw"}
    /\ runs \in 1 .. MaxRuns /\ faults \in 0 .. MaxFaults

PhasesInit == /\ row = [p \in Phases |-> "none"] /\ place = 1 /\ step = "mark"
        /\ pair = [p \in Tail2 |-> "mark"] /\ symbolsDegraded = FALSE
        /\ outcome = "running" /\ fault = FALSE /\ runs = 1 /\ faults = 0

Later(i) == {InOrder[k] : k \in i .. NP} \cup Tail2
Skipped(ps) == [p \in Phases |-> IF p \in ps THEN "skipped" ELSE row[p]]

\* markPhaseForError: a pause keeps the phase resumable.
ForError == {"paused", "failed"}

------------------------------------------------------------------------------
\* markPhase(..., 'running').
Enter ==
    /\ outcome = "running" /\ place <= NP /\ step = "mark"
    /\ row' = [row EXCEPT ![InOrder[place]] = "running"] /\ step' = "run"
    /\ UNCHANGED <<place, pair, symbolsDegraded, outcome, fault, runs, faults>>

\* The pass of the phase returns; the symbol pass may have degraded inside.
PassReturns ==
    /\ outcome = "running" /\ place <= NP /\ step = "run" /\ step' = "done"
    /\ symbolsDegraded' \in IF place = 1 THEN BOOLEAN ELSE {symbolsDegraded}
    /\ UNCHANGED <<row, place, pair, outcome, fault, runs, faults>>

MarkComplete ==
    /\ outcome = "running" /\ place <= NP /\ step = "done"
    /\ row' = [row EXCEPT ![InOrder[place]] = "complete"] /\ step' = "flush"
    /\ UNCHANGED <<place, pair, symbolsDegraded, outcome, fault, runs, faults>>

\* The counters land, and the run goes on, unless the symbol pass degraded.
Flush ==
    /\ outcome = "running" /\ place <= NP /\ step = "flush"
    /\ IF place = 1 /\ symbolsDegraded
       THEN /\ row' = Skipped(Later(2)) /\ outcome' = "degraded" /\ UNCHANGED <<place, step>>
       ELSE /\ place' = place + 1 /\ step' = "mark" /\ UNCHANGED <<row, outcome>>
    /\ UNCHANGED <<pair, symbolsDegraded, fault, runs, faults>>

\* A pass other than the first runs out of a budget that degrades.
PassDegrades ==
    /\ outcome = "running" /\ place \in 2 .. NP /\ step = "run"
    /\ row' = Skipped(Later(place)) /\ outcome' = "degraded"
    /\ UNCHANGED <<place, step, pair, symbolsDegraded, fault, runs, faults>>

\* A pass throws a pause, a kill switch or an error; or, inside the try, the
\* statement that marks the phase complete or flushes the counters fails.
PassThrows ==
    /\ outcome = "running" /\ place <= NP
    /\ \/ step = "run" /\ UNCHANGED faults
       \/ place > 1 /\ step \in {"done", "flush"} /\ faults < MaxFaults /\ faults' = faults + 1
    /\ \E s \in ForError : row' = [row EXCEPT ![InOrder[place]] = s]
    /\ outcome' = "threw" /\ fault' = TRUE
    /\ UNCHANGED <<place, step, pair, symbolsDegraded, runs>>

\* A statement outside a try fails: the row stays as it is.
StatementFails ==
    /\ outcome = "running" /\ place <= NP /\ faults < MaxFaults
    /\ step = "mark" \/ (place = 1 /\ step \in {"done", "flush"})
    /\ outcome' = "threw" /\ fault' = TRUE /\ faults' = faults + 1
    /\ UNCHANGED <<row, place, step, pair, symbolsDegraded, runs>>

------------------------------------------------------------------------------
(* The pair.                                                                *)

TailEnter(p) ==
    /\ outcome = "running" /\ place = NP + 1 /\ step = "mark" /\ pair[p] = "mark"
    /\ row' = [row EXCEPT ![p] = "running"] /\ pair' = [pair EXCEPT ![p] = "run"]
    /\ UNCHANGED <<place, step, symbolsDegraded, outcome, fault, runs, faults>>

TailReturns(p) ==
    /\ outcome = "running" /\ place = NP + 1 /\ step = "mark" /\ pair[p] = "run"
    /\ pair' = [pair EXCEPT ![p] = "done"]
    /\ UNCHANGED <<row, place, step, symbolsDegraded, outcome, fault, runs, faults>>

TailComplete(p) ==
    /\ outcome = "running" /\ place = NP + 1 /\ step = "mark" /\ pair[p] = "done"
    /\ row' = [row EXCEPT ![p] = "complete"] /\ pair' = [pair EXCEPT ![p] = "ok"]
    /\ UNCHANGED <<place, step, symbolsDegraded, outcome, fault, runs, faults>>

TailThrows(p) ==
    /\ outcome = "running" /\ place = NP + 1 /\ step = "mark"
    /\ \/ pair[p] = "run" /\ \E e \in {"degrade", "hard"} : pair' = [pair EXCEPT ![p] = e]
                          /\ UNCHANGED faults
       \/ pair[p] \in {"mark", "done"} /\ faults < MaxFaults /\ faults' = faults + 1
          /\ pair' = [pair EXCEPT ![p] = "hard"]
    /\ fault' = (fault \/ pair'[p] = "hard")
    /\ UNCHANGED <<row, place, step, symbolsDegraded, outcome, runs>>

\* allSettled: both have ended, and the counters were flushed.
Settled == outcome = "running" /\ place = NP + 1 /\ \A p \in Tail2 : pair[p] \in {"ok", "degrade", "hard"}

TailClean ==
    /\ Settled /\ \A p \in Tail2 : pair[p] = "ok"
    /\ \/ outcome' = "complete" /\ UNCHANGED <<fault, faults>>
       \/ /\ faults < MaxFaults /\ faults' = faults + 1     \* the flush fails
          /\ outcome' = "threw" /\ fault' = TRUE
    /\ UNCHANGED <<row, place, step, pair, symbolsDegraded, runs>>

\* The first rejection decides, whatever the second was.
TailFirst ==
    /\ Settled /\ \E p \in Tail2 : pair[p] # "ok"
    /\ LET cut == {p \in Tail2 : pair[p] = "degrade"}
           hard == {p \in Tail2 : pair[p] = "hard"}
       IN IF cut # {} THEN row' = Skipped(cut) /\ outcome' = "degraded"
          ELSE \E p \in hard, s \in ForError : row' = [row EXCEPT ![p] = s] /\ outcome' = "threw"
    /\ UNCHANGED <<place, step, pair, symbolsDegraded, fault, runs, faults>>

\* Every phase the budget stopped is skipped; the first that failed for good,
\* in the order of the list, is marked and its error thrown.
TailRejected ==
    /\ Settled /\ \E p \in Tail2 : pair[p] # "ok"
    /\ LET cut == {p \in Tail2 : pair[p] = "degrade"}
           hard == {p \in Tail2 : pair[p] = "hard"}
           loud == IF "semantic_ranking" \in hard THEN "semantic_ranking" ELSE "embeddings"
       IN IF hard = {} THEN row' = Skipped(cut) /\ outcome' = "degraded"
          ELSE \E s \in ForError : /\ row' = [Skipped(cut) EXCEPT ![loud] = s]
                                   /\ outcome' = "threw"
    /\ UNCHANGED <<place, step, pair, symbolsDegraded, fault, runs, faults>>

------------------------------------------------------------------------------
\* The worker dies and another delivery, or a resume, runs the pipeline again.
Again ==
    /\ outcome \in {"running", "threw"} /\ runs < MaxRuns
    /\ place' = 1 /\ step' = "mark" /\ pair' = [p \in Tail2 |-> "mark"]
    /\ symbolsDegraded' = FALSE /\ outcome' = "running" /\ fault' = FALSE
    /\ runs' = runs + 1 /\ UNCHANGED <<row, faults>>

PhasesNext == \/ Enter \/ PassReturns \/ MarkComplete \/ Flush \/ PassDegrades \/ PassThrows
              \/ StatementFails \/ TailClean \/ TailRejected \/ Again
              \/ \E p \in Tail2 : TailEnter(p) \/ TailReturns(p) \/ TailComplete(p) \/ TailThrows(p)
PhasesSpec == PhasesInit /\ [][PhasesNext]_phaseVars

------------------------------------------------------------------------------
\* "A real fault is never reported as a budget degrade", and what a run that
\* ended without a throw reports is on the rows, those of a run before it
\* included: complete means every phase, degraded a phase skipped, and none
\* is left running or marked by an older failure.  Skipped work is the last
\* work: nothing strong runs once the cheap tier has degraded.
MarksHonest ==
    /\ outcome = "complete" => \A p \in Phases : row[p] = "complete"
    /\ outcome = "degraded" => /\ ~fault /\ \A p \in Phases : row[p] \in {"complete", "skipped"}
                               /\ \E p \in Phases : row[p] = "skipped"
    /\ outcome = "running" /\ symbolsDegraded => place = 1
=============================================================================
