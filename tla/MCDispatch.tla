----------------------------- MODULE MCDispatch -----------------------------
(* What a worker process waits for, for TLC: two calls of one job that      *)
(* compete for its slots, of the two jobs of a process; and the embedding   *)
(* phase.  A behaviour is one of one part; the other stays in its initial   *)
(* state.                                                                   *)
EXTENDS AiDispatch, EmbeddingPass

CONSTANTS c1, c2, c3, k1, k2

MCClientOf == [c \in Calls |-> IF c = c3 THEN k2 ELSE k1]

VARIABLES part
allVars == <<part, vars, vectorVars>>

PartInit == part \in {"calls", "embeddings"} /\ Init /\ VectorsInit

StepCalls      == part = "calls" /\ Next /\ UNCHANGED <<part, vectorVars>>
StepEmbeddings == part = "embeddings" /\ VectorsNext /\ UNCHANGED <<part, vars>>
PartNext == StepCalls \/ StepEmbeddings

\* The fairness of the calls; and the embedding phase goes on while one of its
\* promises can be settled.
PartFairness ==
    /\ \A c \in Calls : WF_vars(part = "calls" /\ Progress(c)) /\ WF_vars(part = "calls" /\ Answer(c))
    /\ WF_vars(part = "calls" /\ Tick)
    /\ WF_vectorVars(/\ part = "embeddings"
                     /\ \/ \E p \in Producers : ProducerStep(p)
                        \/ \E w \in Writers : WriterStep(w)
                        \/ ProducersEnd \/ Finish)

PartSpec == PartInit /\ [][PartNext]_allVars /\ PartFairness

------------------------------------------------------------------------------
\* An embedding phase that returned has stored what the API answered, its queue
\* stays within its bound, and no vector is in two hands; and once a writer has
\* stopped, no vector is paid for.
VectorsKept == [](part = "embeddings" => ReturnedIsStored /\ QueueBounded /\ HeldOnce)
               /\ NothingPaidAfterStop

\* Every call that starts settles, and an embedding phase ends, whatever fails
\* and whoever waits for a hand-off.
CallsEnd == CallsSettle /\ (part = "embeddings" /\ result = "running" ~> result # "running")
==============================================================================
