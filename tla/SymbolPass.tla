------------------------------ MODULE SymbolPass ------------------------------
(***************************************************************************)
(* The symbol pass of one run: the symbols the caches did not answer, in   *)
(* batches, each one call to the model.  A slow batch is asked again and   *)
(* the faster copy kept; a batch with missing answers is halved, down to   *)
(* single calls and records of facts only; a budget that says "degrade"    *)
(* drops what is left to facts.  What a call returns is written in four    *)
(* statements: upsert, receipts, and the two of the snapshot's mapping.    *)
(***************************************************************************)
EXTENDS Integers, Sequences, FiniteSets, FiniteSetsExt

CONSTANTS
    Plan,        \* the batches planBatches made: a sequence of sets of symbols
    Leaf,        \* RETRY_LEAF_SIZE
    InFlight,    \* batches in flight
    HedgeMax     \* SYMBOL_HEDGE_MAX

NB      == Len(Plan)
Batches == 1 .. NB
Symbols == UNION {Plan[b] : b \in Batches}

\* What planBatches makes: a symbol, a number in the order of the sort, is in one call.
IsPlan(plan) ==
    /\ plan \in Seq(SUBSET Nat)
    /\ \A b \in 1 .. Len(plan) : IsFiniteSet(plan[b]) /\ plan[b] # {}
    /\ \A b, c \in 1 .. Len(plan) : b # c => plan[b] \cap plan[c] = {}

ASSUME PassAssumption ==
    /\ IsPlan(Plan)
    /\ Leaf \in Nat \ {0} /\ InFlight \in Nat \ {0} /\ HedgeMax \in Nat

VARIABLES
    phase,      \* "batches", "degrading", "complete" or "threw"
    next,       \* batches started
    work,       \* the calls and fallbacks under way
    settled,    \* batches whose runBatchWithSplitting ended
    threw,      \* batches of which a part threw a control error, and which
    stop,       \* mapLimit's firstError: "none", "degrade" or "pause"
    fired,      \* hedges sent
    produced,   \* symbols a part of their batch has produced, and how
    results,    \* result.records, by symbol
    receipts,   \* sets of source_receipts written for a symbol's record
    mapping     \* the symbol's rows of snapshot_semantic_records

passVars == <<phase, next, work, settled, threw, stop, fired, produced, results,
          receipts, mapping>>

Kinds == {"whole", "hedge", "half", "leaf", "facts"}
Steps == {"ask", "receipts", "unmap", "map"}
Item(b, ts, k, st) == [b |-> b, ts |-> ts, kind |-> k, st |-> st, got |-> {}, lost |-> FALSE]

PassTypeOK ==
    /\ phase \in {"batches", "degrading", "complete", "threw"}
    /\ next \in 0 .. NB /\ settled \subseteq Batches
    /\ \A i \in work : /\ i.b \in 0 .. NB /\ i.ts \subseteq Symbols /\ i.got \subseteq i.ts
                       /\ i.kind \in Kinds /\ i.st \in Steps /\ i.lost \in BOOLEAN
    /\ threw \in [Batches -> {"none", "degrade", "pause"}]
    /\ stop \in {"none", "degrade", "pause"} /\ fired \in 0 .. HedgeMax
    /\ {produced, results} \subseteq [Symbols -> {"none", "llm", "facts"}]
    /\ receipts \in [Symbols -> Nat]
    /\ mapping \in [Symbols -> SUBSET {"llm", "facts"}]

PassInit ==
    /\ phase = "batches" /\ next = 0 /\ work = {} /\ settled = {} /\ fired = 0
    /\ threw = [b \in Batches |-> "none"] /\ stop = "none"
    /\ produced = [s \in Symbols |-> "none"] /\ results = produced
    /\ receipts = [s \in Symbols |-> 0] /\ mapping = [s \in Symbols |-> {}]

\* The copy of the same batch a hedge races with.
Rivals(i) == {j \in work : j # i /\ j.b = i.b /\ ~j.lost /\ ~i.lost
                           /\ {i.kind, j.kind} = {"whole", "hedge"}}
\* Whichever copy answers first, the other is aborted and runs on unheard.
Without(i) == (work \ ({i} \cup Rivals(i))) \cup {[j EXCEPT !.lost = TRUE] : j \in Rivals(i)}

FirstHalf(ts) == CHOOSE h \in SUBSET ts :
    Cardinality(h) = (Cardinality(ts) + 1) \div 2 /\ \A x \in h, y \in ts \ h : x < y

\* What becomes of the symbols a part did not produce: halves, or single calls.
Again(b, missing) ==
    IF missing = {} THEN {}
    ELSE IF Cardinality(missing) > Leaf
         THEN {Item(b, FirstHalf(missing), "half", "ask"),
               Item(b, missing \ FirstHalf(missing), "half", "ask")}
         ELSE {Item(b, missing, "leaf", "ask")}

\* A leaf asks for its symbols one at a time.
Asks(i) == IF i.kind = "leaf" THEN {Min(i.ts)} ELSE i.ts

\* A leaf that failed is asked again as a batch, for ever.
OverForever(i, got) ==
    CASE i.lost -> work \ {i}
      [] ~i.lost /\ i.kind = "leaf" /\ got = {} ->
           (work \ {i}) \cup {[i EXCEPT !.kind = "half", !.st = "ask"]}
      [] ~i.lost /\ i.kind = "leaf" /\ got # {} -> (work \ {i}) \cup Again(i.b, i.ts \ got)
      [] OTHER -> Without(i) \cup Again(i.b, i.ts \ got)

\* Part i is over and got this; a leaf goes on with its next symbol, after a
\* record of facts for the one that failed twice.
Over(i, got) ==
    CASE i.lost -> work \ {i}
      [] ~i.lost /\ i.kind = "leaf" /\ got = {} ->
           (work \ {i}) \cup {[i EXCEPT !.kind = "facts", !.st = "unmap", !.got = {Min(i.ts)}]}
      [] ~i.lost /\ i.kind = "leaf" /\ got # {} -> (work \ {i}) \cup Again(i.b, i.ts \ got)
      [] OTHER -> Without(i) \cup Again(i.b, i.ts \ got)
Yields(i, got, what) == IF i.lost THEN produced
    ELSE [s \in Symbols |-> IF s \in got THEN what ELSE produced[s]]

------------------------------------------------------------------------------
\* mapLimit starts the next batch while none has thrown.
Launch ==
    /\ phase = "batches" /\ stop = "none" /\ next < NB /\ next - Cardinality(settled) < InFlight
    /\ next' = next + 1
    /\ work' = work \cup {Item(next + 1, Plan[next + 1], "whole", "ask")}
    /\ UNCHANGED <<phase, settled, threw, stop, fired, produced, results, receipts, mapping>>

\* The first attempt at a whole batch is late: ask once more.
Hedge(b) ==
    /\ \E i \in work : i.b = b /\ i.kind = "whole" /\ ~i.lost /\ Rivals(i) = {}
    /\ fired < HedgeMax /\ fired' = fired + 1
    /\ work' = work \cup {Item(b, Plan[b], "hedge", "ask")}
    /\ UNCHANGED <<phase, next, settled, threw, stop, produced, results, receipts, mapping>>

\* The model answers some of the symbols.  An aborted copy that answers writes
\* nothing; else the records are upserted (and their status is 'pending').
Answer(i) ==
    /\ i \in work /\ i.kind # "facts" /\ i.st = "ask"
    /\ \E got \in SUBSET Asks(i) :
        IF i.lost \/ got = {}
        THEN /\ work' = Over(i, {}) /\ UNCHANGED produced
        ELSE /\ work' = (work \ {i}) \cup {[i EXCEPT !.st = "receipts", !.got = got]}
             /\ UNCHANGED produced
    /\ UNCHANGED <<phase, next, settled, threw, stop, fired, results, receipts, mapping>>

\* A pause, a kill switch or the budget: this part of the batch throws.  A
\* rival copy that already answered is aborted too, and still writes.
Control(i, why) ==
    /\ i \in work /\ i.kind # "facts" /\ i.st = "ask"
    /\ work' = IF i.lost THEN work \ {i} ELSE Without(i)
    /\ threw' = IF i.lost \/ threw[i.b] # "none" THEN threw ELSE [threw EXCEPT ![i.b] = why]
    /\ UNCHANGED <<phase, next, settled, stop, fired, produced, results, receipts, mapping>>

\* source_receipts has no conflict key: every copy that gets here adds a set.
Receipts(i) ==
    /\ i \in work /\ i.st = "receipts"
    /\ receipts' = [s \in Symbols |-> IF s \in i.got THEN receipts[s] + 1 ELSE receipts[s]]
    /\ work' = (work \ {i}) \cup {[i EXCEPT !.st = "unmap"]}
    /\ UNCHANGED <<phase, next, settled, threw, stop, fired, produced, results, mapping>>

Unmap(i) ==
    /\ i \in work /\ i.st = "unmap"
    /\ mapping' = [s \in Symbols |-> IF s \in i.got THEN {} ELSE mapping[s]]
    /\ work' = (work \ {i}) \cup {[i EXCEPT !.st = "map"]}
    /\ UNCHANGED <<phase, next, settled, threw, stop, fired, produced, results, receipts>>

\* The last statement of a part: its promise resolves.
Map(i) ==
    /\ i \in work /\ i.st = "map"
    /\ LET what == IF i.kind = "facts" THEN "facts" ELSE "llm" IN
       /\ mapping' = [s \in Symbols |-> IF s \in i.got THEN mapping[s] \cup {what} ELSE mapping[s]]
       /\ IF i.kind = "facts"
          THEN /\ work' = (work \ {i}) \cup Again(i.b, i.ts \ i.got)
               /\ IF i.b = 0 THEN /\ results' = [s \in Symbols |-> IF s \in i.got THEN what ELSE results[s]]
                                  /\ UNCHANGED produced
                             ELSE /\ produced' = Yields(i, i.got, what) /\ UNCHANGED results
          ELSE /\ work' = Over(i, i.got) /\ produced' = Yields(i, i.got, what)
               /\ UNCHANGED results
    /\ UNCHANGED <<phase, next, settled, threw, stop, fired, receipts>>

\* All parts of a batch have settled: it returns its records, or throws.
SettleBatch(b) ==
    /\ b \in 1 .. next \ settled /\ ~\E i \in work : i.b = b /\ ~i.lost
    /\ settled' = settled \cup {b}
    /\ stop' = IF stop = "none" THEN threw[b] ELSE stop
    /\ results' = IF threw[b] # "none" THEN results
                  ELSE [s \in Symbols |-> IF s \in Plan[b] THEN produced[s] ELSE results[s]]
    /\ UNCHANGED <<phase, next, work, threw, fired, produced, receipts, mapping>>

\* Plausible bug: a stopped mapLimit waits for the batches it never started.
BatchesWait ==
    /\ phase = "batches" /\ settled = Batches
    /\ phase' = CASE stop = "none" -> "complete" [] stop = "pause" -> "threw"
                  [] stop = "degrade" -> "degrading"
    /\ UNCHANGED <<next, work, settled, threw, stop, fired, produced, results, receipts, mapping>>

\* mapLimit is over.
BatchesEnd ==
    /\ phase = "batches" /\ settled = 1 .. next /\ (next = NB \/ stop # "none")
    /\ phase' = CASE stop = "none" -> "complete" [] stop = "pause" -> "threw"
                  [] stop = "degrade" -> "degrading"
    /\ UNCHANGED <<next, work, settled, threw, stop, fired, produced, results, receipts, mapping>>

\* A batch that threw leaves its symbols to nobody.
DegradeForgets ==
    /\ phase = "degrading" /\ ~\E i \in work : i.b = 0
    /\ phase' = "complete" /\ UNCHANGED work
    /\ UNCHANGED <<next, settled, threw, stop, fired, produced, results, receipts, mapping>>

\* The budget degraded: every symbol without a result gets a record of facts.
Degrade ==
    /\ phase = "degrading" /\ ~\E i \in work : i.b = 0
    /\ LET rest == {s \in Symbols : results[s] = "none"} IN
       IF rest = {} THEN phase' = "complete" /\ UNCHANGED work
       ELSE /\ work' = work \cup {[Item(0, {Min(rest)}, "facts", "unmap") EXCEPT !.got = {Min(rest)}]}
            /\ UNCHANGED phase
    /\ UNCHANGED <<next, settled, threw, stop, fired, produced, results, receipts, mapping>>

PassNext == \/ Launch \/ BatchesEnd \/ Degrade
        \/ \E b \in Batches : Hedge(b) \/ SettleBatch(b)
        \/ \E i \in work : \/ Answer(i) \/ Receipts(i) \/ Unmap(i) \/ Map(i)
                           \/ \E why \in {"degrade", "pause"} : Control(i, why)

\* Every call and every statement ends, if only at a timeout.
Part == \E i \in work : \/ Answer(i) \/ Receipts(i) \/ Unmap(i) \/ Map(i)
                        \/ \E why \in {"degrade", "pause"} : Control(i, why)
PassFairness == WF_passVars(Launch) /\ WF_passVars(BatchesEnd) /\ WF_passVars(Degrade) /\ WF_passVars(Part)
            /\ \A b \in Batches : WF_passVars(SettleBatch(b))
PassSpec == PassInit /\ [][PassNext]_passVars /\ PassFairness

------------------------------------------------------------------------------
Quiet == work = {}

\* Never silently dropped: a pass that completed, degraded or not, has for
\* every symbol a result, and once all copies are done a row in the snapshot.
EverySymbolRecorded ==
    phase = "complete" => \A s \in Symbols : results[s] # "none" /\ (Quiet => mapping[s] # {})

\* A record has two sets of receipts only where a batch was asked twice.
TwiceOnlyWhenHedged == \A s \in Symbols : receipts[s] > 1 => fired > 0

\* No two live parts of the pass work on one symbol, but for the two copies
\* of a hedged batch: nothing is paid for three times.
PartsDisjoint == \A i, j \in work : i # j /\ ~i.lost /\ ~j.lost /\ i.ts \cap j.ts # {} =>
    {i.kind, j.kind} = {"whole", "hedge"}

\* "One active record per (snapshot, stable_key, level)", once all is quiet.
OneMapping == Quiet => \A s \in Symbols : Cardinality(mapping[s]) <= 1

\* A record read by its id has its receipts once: the copy that lost the race
\* writes no second set.
ReceiptsOnce == \A s \in Symbols : receipts[s] <= 1

\* A budget that degrades keeps what exists: the record a call paid for and
\* mapped stays in the snapshot.
DegradeKeeps == [][stop = "degrade" => \A s \in Symbols :
                     "llm" \in mapping[s] => "llm" \in mapping'[s]]_passVars

==============================================================================
