---------------------------- MODULE EmbeddingPass ----------------------------
(***************************************************************************)
(* The embedding phase of one analysis run: producers ask the embedding    *)
(* API for the vectors of a batch and hand chunks of them, through a       *)
(* bounded queue, to a fixed set of writers that insert them.  All of them *)
(* are async functions of one thread, so an action is what one of them     *)
(* does between two awaits.  A run that threw is followed by another (a    *)
(* resume), which skips the vectors already stored.                        *)
(***************************************************************************)
EXTENDS Integers, Sequences, FiniteSets

CONSTANTS
    NItems,       \* vectors the snapshot needs, one per (record, view)
    BatchSize,    \* EMBED_BATCH_SIZE
    ChunkSize,    \* EMBED_INSERT_CHUNK
    QueueMax,     \* EMBED_INSERT_QUEUE_MAX_CHUNKS
    NProducers,   \* EMBED_REQUEST_CONCURRENCY
    NWriters,     \* EMBED_WRITE_CONCURRENCY
    ReportEvery,  \* PROGRESS_EVERY_CHUNKS
    MaxRuns,      \* bound: runs of the pass over one snapshot
    MaxFaults     \* bound: API calls, inserts and reports that fail

ASSUME VectorsAssumption ==
    /\ NItems \in Nat /\ MaxRuns \in Nat /\ MaxFaults \in Nat
    /\ {BatchSize, ChunkSize, QueueMax, NProducers, NWriters, ReportEvery} \subseteq Nat \ {0}

Items     == 1 .. NItems
Producers == 1 .. NProducers
Writers   == 1 .. NWriters

VARIABLES
    pending,        \* the vectors this run still has to get, in order
    nextBatch,      \* mapLimit's next index into the batches
    prod,           \* prod[p]: where a producer is, and the vectors it holds
    queue,          \* chunks handed over and not yet taken
    writ,           \* writ[w]: where a writer is, and the chunk it writes
    producersDone,
    apiFailed,      \* mapLimit's firstError is set
    phaseFailure,   \* the error the phase throws, "none" while there is none
    writerStopped,
    chunksWritten,
    embeddings,     \* the rows of the table, for this snapshot and model
    withheld,       \* vectors the API left out of an answer of this run
    result,         \* "running", "returned" or "threw"
    runs, faults

vectorVars == <<pending, nextBatch, prod, queue, writ, producersDone, apiFailed,
          phaseFailure, writerStopped, chunksWritten, embeddings, withheld,
          result, runs, faults>>

Idle == [st |-> "fetch", tuples |-> <<>>]
Free == [st |-> "take", chunk |-> <<>>]

\* Array.slice: at most size elements, after the first few.
Slice(s, after, size) ==
    [j \in 1 .. (IF size < Len(s) - after THEN size ELSE Len(s) - after) |-> s[after + j]]

\* The batches pending is cut into, and whether mapLimit took them all.
BatchAt(i) == Slice(pending, (i - 1) * BatchSize, BatchSize)
NoneLeft   == (nextBatch - 1) * BatchSize >= Len(pending)

\* A set of numbers, in order: the i-th has i - 1 before it.
Ordered(S) ==
    [i \in 1 .. Cardinality(S) |-> CHOOSE x \in S : Cardinality({y \in S : y < x}) = i - 1]

\* What is left to store when a run begins: loadExisting is skipped.
Missing(stored) == Ordered(Items \ stored)

\* The elements of s that are in got.
Among(s, got) ==
    LET places == {i \in DOMAIN s : s[i] \in got}
    IN  [k \in 1 .. Cardinality(places) |-> s[Ordered(places)[k]]]
Set(s) == {s[i] : i \in DOMAIN s}

VectorsTypeOK ==
    /\ pending \in Seq(Items) /\ nextBatch \in Nat \ {0}
    /\ prod \in [Producers -> [st : {"fetch", "asking", "hand", "parked", "done"},
                               tuples : Seq(Items)]]
    /\ queue \in Seq(Seq(Items))
    /\ writ \in [Writers -> [st : {"take", "parked", "write", "report", "done"},
                             chunk : Seq(Items)]]
    /\ {producersDone, apiFailed, writerStopped} \subseteq BOOLEAN
    /\ phaseFailure \in {"none", "api", "insert", "stopped"}
    /\ chunksWritten \in Nat /\ embeddings \subseteq Items /\ withheld \subseteq Items
    /\ result \in {"running", "returned", "threw"}
    /\ runs \in 0 .. MaxRuns /\ faults \in 0 .. MaxFaults

PhaseStart(stored) ==
    /\ pending = Missing(stored) /\ nextBatch = 1 /\ queue = <<>>
    /\ prod = [p \in Producers |-> Idle] /\ writ = [w \in Writers |-> Free]
    /\ producersDone = FALSE /\ apiFailed = FALSE /\ phaseFailure = "none"
    /\ writerStopped = FALSE /\ chunksWritten = 0 /\ withheld = {}
    /\ result = "threw"

VectorsInit == embeddings = {} /\ PhaseStart({}) /\ runs = 0 /\ faults = 0

\* A failing writer wakes the producers and forgets the sibling writers.
WakeNobody(ws) == ws

\* wake(workWaiters) and wake(spaceWaiters): every waiter runs again, later.
WakeWriters(ws) == [w \in Writers |->
    IF ws[w].st = "parked" THEN [ws[w] EXCEPT !.st = "take"] ELSE ws[w]]
WakeProducers(ps) == [p \in Producers |->
    IF ps[p].st = "parked" THEN [ps[p] EXCEPT !.st = "hand"] ELSE ps[p]]

\* fail(err): the first error of either side is the one thrown.
FirstError(err) == IF phaseFailure = "none" THEN err ELSE phaseFailure

------------------------------------------------------------------------------
(* Producers: mapLimit over the batches.                                    *)

\* The check of writerStopped before a call is forgotten.
FetchPays(p) ==
    /\ result = "running" /\ prod[p].st = "fetch"
    /\ IF apiFailed \/ NoneLeft
       THEN /\ prod' = [prod EXCEPT ![p].st = "done"] /\ UNCHANGED nextBatch
       ELSE /\ nextBatch' = nextBatch + 1
            /\ prod' = [prod EXCEPT ![p] = [st |-> "asking", tuples |-> BatchAt(nextBatch)]]
    /\ UNCHANGED <<pending, queue, writ, producersDone, apiFailed, phaseFailure,
                   writerStopped, chunksWritten, embeddings, withheld, result,
                   runs, faults>>

\* A worker of mapLimit takes the next batch and asks the API for it, unless
\* a writer has stopped: vectors nothing will store are not paid for.
Fetch(p) ==
    /\ result = "running" /\ prod[p].st = "fetch"
    /\ IF apiFailed \/ NoneLeft
       THEN /\ prod' = [prod EXCEPT ![p].st = "done"] /\ UNCHANGED nextBatch
       ELSE /\ nextBatch' = nextBatch + 1
            /\ prod' = IF writerStopped THEN prod
                       ELSE [prod EXCEPT ![p] = [st |-> "asking",
                                                 tuples |-> BatchAt(nextBatch)]]
    /\ UNCHANGED <<pending, queue, writ, producersDone, apiFailed, phaseFailure,
                   writerStopped, chunksWritten, embeddings, withheld, result,
                   runs, faults>>

\* The API answers, perhaps without some of the vectors.
Embedded(p) ==
    /\ result = "running" /\ prod[p].st = "asking"
    /\ \E got \in {Set(prod[p].tuples), {}} \cup
                  {Set(prod[p].tuples) \ {x} : x \in Set(prod[p].tuples)} :
        /\ prod' = [prod EXCEPT ![p] =
             [st |-> "hand", tuples |-> Among(prod[p].tuples, got)]]
        /\ withheld' = withheld \cup (Set(prod[p].tuples) \ got)
    /\ UNCHANGED <<pending, nextBatch, queue, writ, producersDone, apiFailed,
                   phaseFailure, writerStopped, chunksWritten, embeddings,
                   result, runs, faults>>

\* The call fails (rate limit, kill switch, budget): mapLimit starts no new
\* batch, and this worker returns.
EmbedFails(p) ==
    /\ result = "running" /\ prod[p].st = "asking" /\ faults < MaxFaults
    /\ prod' = [prod EXCEPT ![p] = [st |-> "done", tuples |-> <<>>]]
    /\ apiFailed' = TRUE /\ faults' = faults + 1
    /\ UNCHANGED <<pending, nextBatch, queue, writ, producersDone, phaseFailure,
                   writerStopped, chunksWritten, embeddings, withheld, result, runs>>

\* The chunks a producer can hand over before the queue is full.
ChunksOf(s)   == (Len(s) + ChunkSize - 1) \div ChunkSize
Room          == IF Len(queue) < QueueMax THEN QueueMax - Len(queue) ELSE 0
CutInto(s, k) == [i \in 1 .. k |-> Slice(s, (i - 1) * ChunkSize, ChunkSize)]

\* Without an await in between, a producer queues chunks until it has no
\* more, or the queue is full and it parks; a stopped writer sends it away.
Hand(p) ==
    /\ result = "running" /\ prod[p].st = "hand"
    /\ LET held == prod[p].tuples
           k == IF writerStopped THEN 0
                ELSE IF ChunksOf(held) < Room THEN ChunksOf(held) ELSE Room
           left == IF writerStopped THEN <<>> ELSE Slice(held, k * ChunkSize, Len(held))
       IN /\ queue' = queue \o CutInto(held, k)
          /\ prod' = [prod EXCEPT ![p] =
               [st |-> IF left = <<>> THEN "fetch" ELSE "parked", tuples |-> left]]
          /\ writ' = IF k > 0 THEN WakeWriters(writ) ELSE writ
    /\ UNCHANGED <<pending, nextBatch, producersDone, apiFailed, phaseFailure,
                   writerStopped, chunksWritten, embeddings, withheld, result,
                   runs, faults>>

\* The finally of the producers: it releases the writers whatever happened.
ProducersEnd ==
    /\ result = "running" /\ ~producersDone
    /\ \A p \in Producers : prod[p].st = "done"
    /\ producersDone' = TRUE
    /\ writ' = WakeWriters(writ)
    /\ phaseFailure' = IF apiFailed THEN FirstError("api") ELSE phaseFailure
    /\ UNCHANGED <<pending, nextBatch, prod, queue, apiFailed, writerStopped,
                   chunksWritten, embeddings, withheld, result, runs, faults>>

------------------------------------------------------------------------------
(* Writers.                                                                 *)

\* A writer leaves as soon as the producers are done, whatever is queued.
TakeLeaves(w) ==
    /\ result = "running" /\ writ[w].st = "take"
    /\ CASE writerStopped \/ producersDone ->
              /\ writ' = [writ EXCEPT ![w] = [st |-> "done", chunk |-> <<>>]]
              /\ UNCHANGED <<queue, prod>>
         [] ~writerStopped /\ ~producersDone /\ queue = <<>> ->
              /\ writ' = [writ EXCEPT ![w].st = "parked"] /\ UNCHANGED <<queue, prod>>
         [] ~writerStopped /\ ~producersDone /\ queue # <<>> ->
              /\ writ' = [writ EXCEPT ![w] = [st |-> "write", chunk |-> Head(queue)]]
              /\ queue' = Tail(queue) /\ prod' = WakeProducers(prod)
    /\ UNCHANGED <<pending, nextBatch, producersDone, apiFailed, phaseFailure,
                   writerStopped, chunksWritten, embeddings, withheld, result,
                   runs, faults>>

Take(w) ==
    /\ result = "running" /\ writ[w].st = "take"
    /\ CASE writerStopped \/ (queue = <<>> /\ producersDone) ->
              /\ writ' = [writ EXCEPT ![w] = [st |-> "done", chunk |-> <<>>]]
              /\ UNCHANGED <<queue, prod>>
         [] ~writerStopped /\ queue = <<>> /\ ~producersDone ->
              /\ writ' = [writ EXCEPT ![w].st = "parked"] /\ UNCHANGED <<queue, prod>>
         [] ~writerStopped /\ queue # <<>> ->
              /\ writ' = [writ EXCEPT ![w] = [st |-> "write", chunk |-> Head(queue)]]
              /\ queue' = Tail(queue) /\ prod' = WakeProducers(prod)
    /\ UNCHANGED <<pending, nextBatch, producersDone, apiFailed, phaseFailure,
                   writerStopped, chunksWritten, embeddings, withheld, result,
                   runs, faults>>

\* INSERT ... ON CONFLICT DO NOTHING, and every ReportEvery-th chunk a report.
Insert(w) ==
    /\ result = "running" /\ writ[w].st = "write"
    /\ embeddings' = embeddings \cup Set(writ[w].chunk)
    /\ chunksWritten' = chunksWritten + 1
    /\ writ' = [writ EXCEPT ![w] =
         [st |-> IF (chunksWritten + 1) % ReportEvery = 0 THEN "report" ELSE "take",
          chunk |-> <<>>]]
    /\ UNCHANGED <<pending, nextBatch, prod, queue, producersDone, apiFailed,
                   phaseFailure, writerStopped, withheld, result, runs, faults>>

ReportDone(w) ==
    /\ result = "running" /\ writ[w].st = "report"
    /\ writ' = [writ EXCEPT ![w].st = "take"]
    /\ UNCHANGED <<pending, nextBatch, prod, queue, producersDone, apiFailed,
                   phaseFailure, writerStopped, chunksWritten, embeddings,
                   withheld, result, runs, faults>>

\* The catch of a writer: it fails the phase and wakes whoever waits on a
\* hand-off that will not come.  Its error is the insert's, which may have
\* been committed before the connection broke, or the stop a report found.
WriterFails(w) ==
    /\ result = "running" /\ writ[w].st \in {"write", "report"} /\ faults < MaxFaults
    /\ phaseFailure' = FirstError(IF writ[w].st = "write" THEN "insert" ELSE "stopped")
    /\ writerStopped' = TRUE /\ faults' = faults + 1
    /\ prod' = WakeProducers(prod)
    /\ writ' = WakeWriters([writ EXCEPT ![w] = [st |-> "done", chunk |-> <<>>]])
    /\ embeddings' \in {embeddings, embeddings \cup Set(writ[w].chunk)}
    /\ UNCHANGED <<pending, nextBatch, queue, producersDone, apiFailed,
                   chunksWritten, withheld, result, runs>>

------------------------------------------------------------------------------
\* Both sides have settled.  The last report, due when the writers ended
\* between two, can still find a stop.
Finish ==
    /\ result = "running" /\ producersDone
    /\ \A w \in Writers : writ[w].st = "done"
    /\ \/ /\ result' = IF phaseFailure = "none" THEN "returned" ELSE "threw"
          /\ UNCHANGED faults
       \/ /\ phaseFailure = "none" /\ chunksWritten % ReportEvery # 0
          /\ faults < MaxFaults
          /\ result' = "threw" /\ faults' = faults + 1
    /\ UNCHANGED <<pending, nextBatch, prod, queue, writ, producersDone, apiFailed,
                   phaseFailure, writerStopped, chunksWritten, embeddings,
                   withheld, runs>>

\* A run of the phase starts over what is not stored: at first that may be
\* anything earlier runs over the same records left, later what this one did.
Resume ==
    /\ result = "threw" /\ runs < MaxRuns
    /\ IF runs = 0 THEN embeddings' \in SUBSET Items ELSE UNCHANGED embeddings
    /\ pending' = Missing(embeddings') /\ nextBatch' = 1 /\ queue' = <<>>
    /\ prod' = [p \in Producers |-> Idle] /\ writ' = [w \in Writers |-> Free]
    /\ producersDone' = FALSE /\ apiFailed' = FALSE /\ phaseFailure' = "none"
    /\ writerStopped' = FALSE /\ chunksWritten' = 0 /\ withheld' = {}
    /\ result' = "running" /\ runs' = runs + 1
    /\ UNCHANGED faults

ProducerStep(p) == Fetch(p) \/ Embedded(p) \/ EmbedFails(p) \/ Hand(p)
WriterStep(w)   == Take(w) \/ Insert(w) \/ ReportDone(w) \/ WriterFails(w)

VectorsNext == \/ \E p \in Producers : Fetch(p) \/ Embedded(p) \/ EmbedFails(p) \/ Hand(p)
        \/ \E w \in Writers : Take(w) \/ Insert(w) \/ ReportDone(w) \/ WriterFails(w)
        \/ ProducersEnd \/ Finish \/ Resume

\* The event loop runs every settled promise; the API and the database
\* answer or fail, both have timeouts.
VectorsFairness == /\ \A p \in Producers : WF_vectorVars(ProducerStep(p))
            /\ \A w \in Writers : WF_vectorVars(WriterStep(w))
            /\ WF_vectorVars(ProducersEnd) /\ WF_vectorVars(Finish)

VectorsSpec == VectorsInit /\ [][VectorsNext]_vectorVars /\ VectorsFairness

------------------------------------------------------------------------------
(* Properties.                                                              *)

\* Vectors on the heap: the queue never outgrows its bound, however many
\* producers were woken together by one free slot.
QueueBounded == Len(queue) <= QueueMax

\* A phase that returned left nothing behind: what the API answered is
\* stored, nothing stays in the queue or in the hands of a producer.
ReturnedIsStored == result = "returned" => Items \ withheld \subseteq embeddings

\* No vector is in two hands: a chunk taken is not queued, and a batch is
\* asked for by one producer only.
Hands ==
    (UNION {{<<"producer", p, j>> : j \in 1 .. Len(prod[p].tuples)} : p \in Producers})
    \cup (UNION {{<<"queue", i, j>> : j \in 1 .. Len(queue[i])} : i \in 1 .. Len(queue)})
    \cup (UNION {{<<"writer", w, j>> : j \in 1 .. Len(writ[w].chunk)} : w \in Writers})
Held(h) == CASE h[1] = "producer" -> prod[h[2]].tuples[h[3]]
             [] h[1] = "queue"    -> queue[h[2]][h[3]]
             [] h[1] = "writer"   -> writ[h[2]].chunk[h[3]]
HeldOnce == \A h, k \in Hands : Held(h) = Held(k) => h = k

\* Once a writer has stopped no vector is asked for: it would be paid for
\* and thrown away.
NothingPaidAfterStop ==
    [][writerStopped /\ result = "running" =>
         \A p \in Producers : prod'[p].st = "asking" => prod[p].st = "asking"]_vectorVars

\* Nobody waits for a hand-off that never comes: every run of the phase ends.
PhaseEnds == [](result = "running" => <>(result # "running"))

\* The error the phase throws is the first one.
FirstErrorKept ==
    [][phaseFailure # "none" /\ runs' = runs => phaseFailure' = phaseFailure]_vectorVars

==============================================================================
