------------------------------ MODULE MCBudget ------------------------------
(* What a run may spend and what it spends it on, for TLC: the budget of a  *)
(* job; how the symbols of a run are packed into calls; and the symbol      *)
(* pass, which a budget may stop.  A behaviour is one of one part; the      *)
(* others stay in their initial state.                                      *)
EXTENDS RunBudget, BatchPlan, SymbolPass

VARIABLES part
allVars == <<part, vars, planVars, passVars>>

TwoAndOne == <<{1, 2}, {3}>>

PartInit ==
    /\ part \in {"budget", "plan", "symbols"}
    /\ \/ part = "plan" /\ PlanInit
       \/ /\ part # "plan" /\ parent = [n \in Nodes |-> 0]
          /\ inWindow = [n \in Nodes |-> FALSE] /\ cost = [n \in Nodes |-> 1]
          /\ families = <<>> /\ half = FALSE /\ batches = <<>> /\ current = <<>>
          /\ currentTokens = Overhead
    /\ Init /\ PassInit

StepBudget  == part = "budget" /\ Next /\ UNCHANGED <<part, planVars, passVars>>
StepPlan    == part = "plan" /\ PlanNext /\ UNCHANGED <<part, vars, passVars>>
StepSymbols == part = "symbols" /\ PassNext /\ UNCHANGED <<part, vars, planVars>>

PartNext == StepBudget \/ StepPlan \/ StepSymbols

\* The fairness of the budget, whose executors are off in the other parts, and
\* that of the pass, for the behaviours that are its own.
PartFairness ==
    /\ Fairness
    /\ WF_passVars(/\ part = "symbols"
                   /\ Launch \/ BatchesEnd \/ Degrade \/ Part \/ \E b \in Batches : SettleBatch(b))

PartSpec == PartInit /\ [][PartNext]_allVars /\ PartFairness

------------------------------------------------------------------------------
\* The calls planned for a run hold every symbol once, within both caps unless
\* one symbol alone breaks them, at the price that was estimated, a family that
\* fits one call in one.  A symbol pass that completed, degraded or not, has a
\* result for every symbol; a symbol is never asked about by two live parts of
\* its batch but the two copies of a hedge.
SymbolsKept ==
    /\ part = "plan" => EachOnce /\ WithinCaps /\ EstimateExact /\ FamiliesWhole
    /\ part = "symbols" => EverySymbolRecorded /\ PartsDisjoint /\ TwiceOnlyWhenHedged

\* A symbol pass ends, whatever fails, is halved, hedged or stopped.
PassEnds == part = "symbols" ~> phase \in {"complete", "threw"}
==============================================================================
