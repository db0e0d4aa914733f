----------------------------- MODULE MCSemantic -----------------------------
(* What a run makes of the code, for TLC: the algorithms of the engine, of  *)
(* the tutorials and of what a new version makes stale, the phases as a     *)
(* whole, the records of a symbol that runs share, and the rows of a        *)
(* tutorial.  A behaviour is one of one part; the others stay in their      *)
(* initial state.                                                           *)
EXTENDS RecordStore, SemanticPhases, TutorialCache, ChangeInputs, MapLevels

CONSTANTS MaxDepth, MaxSteps, Caps, CheapShare, MaxMembers, MaxWriters,
          PhaseBudget, MaxVisible, MaxFolded, WindowLines, WindowMax, main1, main2

VARIABLES part

G == INSTANCE EngineInputs
Q == INSTANCE ReadingInputs

allVars == <<part, inputVars, phaseVars, cacheVars, vars>>

ThreeCaps == [cheap |-> 2, standard |-> 4, full |-> 9]

\* Two snapshots of a branch, of which one is analysed at depth "full".
BeforeIt  == [s \in Snaps |-> main1]
SymbolWas == {[s \in Snaps |-> IF s = main1 THEN 1 ELSE e] : e \in Contents}
OneIsFull == {[s \in Snaps |-> IF s = full THEN "full" ELSE "standard"] : full \in Snaps}

PartInit ==
    /\ part \in {"inputs", "phases", "tutorials", "records"}
    /\ IF part = "inputs" THEN G!Init \/ Q!Init \/ ChangeInit \/ DrawInit ELSE task = "none" /\ in = <<>> /\ done = FALSE
    /\ PhasesInit /\ CacheInit /\ Init
    /\ part # "records" => /\ evidence = [s \in Snaps |-> 1] /\ depth[main1] = "full"

StepInputs    == part = "inputs" /\ (G!Next \/ Q!Next \/ ChangeNext \/ DrawNext)
                 /\ UNCHANGED <<part, phaseVars, cacheVars, vars>>
StepPhases    == part = "phases" /\ PhasesNext
                 /\ UNCHANGED <<part, inputVars, cacheVars, vars>>
StepTutorials == part = "tutorials" /\ CacheNext
                 /\ UNCHANGED <<part, inputVars, phaseVars, vars>>
StepRecords   == part = "records" /\ StoreNext
                 /\ UNCHANGED <<part, inputVars, phaseVars, cacheVars>>

PartNext == StepInputs \/ StepPhases \/ StepTutorials \/ StepRecords
PartSpec == PartInit /\ [][PartNext]_allVars

------------------------------------------------------------------------------
\* The graph of a snapshot guesses nothing and does not depend on the order of
\* its files.  The flows of a snapshot keep a reserve for what arrives at an effect, leave
\* out near duplicates only and tell of what they cut; nothing is read before
\* what does more; a flow is in one journey at most, joined by what the code
\* shows; a flow is a tutorial or has a reason why not; and a reading goes over
\* every leg that was traced.  A guide leaves nothing changed behind it and marks
\* a line its trigger reaches.
FlowsCorrect ==
    /\ G!GraphCorrect /\ G!FlowsCorrect /\ G!RankingCorrect /\ G!JourneysCorrect
    /\ Q!ChoiceCorrect /\ Q!ReadingsCorrect /\ Q!GuidesCorrect
==============================================================================
