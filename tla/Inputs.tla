------------------------------- MODULE Inputs -------------------------------
(* A behaviour is one input of one algorithm: it is drawn at the start, and *)
(* one step computes its result, which is then judged.                      *)
VARIABLES
    task,   \* the algorithm
    in,     \* its input
    done    \* it has returned

inputVars == <<task, in, done>>

Judge(t) == task = t /\ ~done /\ done' = TRUE /\ UNCHANGED <<task, in>>
=============================================================================
