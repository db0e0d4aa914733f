---------------------------- MODULE RunLifecycle ----------------------------
(***************************************************************************)
(* The life of the analysis_jobs rows that analyse one commit of one       *)
(* scope: the API inserts, pauses, stops and resumes them; BullMQ delivers *)
(* queue entries for them; workers execute the deliveries against the      *)
(* shared snapshot row; the recovery sweep of every worker replica         *)
(* re-queues runs whose heartbeat died and fails rows the queue never saw. *)
(*                                                                         *)
(* Each action is one database statement or one queue operation, because   *)
(* every process may be interleaved (or killed) between two of them.       *)
(***************************************************************************)
EXTENDS Integers, FiniteSets

CONSTANTS
  NumRows,       \* rows are 1..NumRows, in created_at order
  Entries,       \* BullMQ entries that can exist at the same time
  Sweepers,      \* worker replicas running reconcileOrphanedJobs
  Requests,      \* API requests that can be in flight at the same time
  MaxRecovery,   \* MAX_RECOVERY_ATTEMPTS
  MaxRateLimit,  \* MAX_RATE_LIMIT_RESUMES
  MaxStalled,    \* BullMQ's maxStalledCount
  MaxClicks,     \* bound: run, pause, stop and resume clicks
  MaxCrashes,    \* bound: processes killed and requests lost
  MaxThrows      \* bound: errors thrown, by the analysis or by the queue

ASSUME RowsAssumption    == NumRows \in Nat
ASSUME LimitsAssumption  == /\ MaxRecovery  \in Nat
                            /\ MaxRateLimit \in Nat
                            /\ MaxStalled   \in Nat
ASSUME BoundsAssumption  == /\ MaxClicks  \in Nat
                            /\ MaxCrashes \in Nat
                            /\ MaxThrows  \in Nat

Rows  == 1..NumRows
NoRow == 0
None  == "none"

VARIABLES
  job,      \* the analysis_jobs rows
  snapshot, \* the analysis_snapshots row of the commit, and what it holds
  entry,    \* the BullMQ entries, each with the executor that holds it
  sweeper,  \* reconcileOrphanedJobs in each replica
  request,  \* API requests between two of their statements
  spent     \* what the bounds have been used for

vars == <<job, snapshot, entry, sweeper, request, spent>>

-----------------------------------------------------------------------------
(* State *)

Status == {"absent", "queued", "running", "paused", "failed", "complete"}

\* silent: COALESCE(last_heartbeat_at, started_at, created_at) is older than the
\* sweep allows the status, STALE_AFTER_SECONDS for a running row and
\* STRANDED_QUEUED_AFTER_SECONDS for a queued one. named: commit_hash is on the
\* row. recov and rate are the durable counters checkpoint.recovery.attempts
\* and checkpoint.rateLimitResumes; handed is history, the losses after which
\* the sweep put the row back on the queue. linked: snapshot_id is on the row.
\* chained and runs are history too: a package generation was queued for the
\* run, and how many deliveries began to execute it.
JobRow == [status : Status, silent : BOOLEAN, named : BOOLEAN, linked : BOOLEAN,
           recov : Nat, rate : 0..MaxRateLimit, handed : SUBSET Nat,
           chained : BOOLEAN, runs : Nat]

\* graphBy: whose transaction wrote the graph it holds. full: a run took
\* that graph through the semantic phases to phase 13. torn: since that
\* transaction the delivery lost its hold on what it wrote (see Interrupts).
Snapshot == [status : {None, "complete", "paused", "failed"},
             graphBy : Entries \union {None}, full : BOOLEAN, torn : BOOLEAN]

Beating   == {"began", "fetching", "stamped", "reuse", "reusing", "reused",
              "scanning", "persist", "linking", "phases", "requeue", "pausing", "finished",
              "threw", "refused", "threwOwning", "recorded"}
Executing == {"thrown", "ending"} \union Beating
Place     == {"free", "waiting", "dead"} \union Executing

\* left: deliveries BullMQ still owes (opts.attempts - attemptsMade).
FreeEntry == [at |-> "free", row |-> NoRow, left |-> 0, stalls |-> 0, force |-> FALSE]

Entry == {FreeEntry} \union
         [at : Place \ {"free"}, row : Rows, left : 1..2, stalls : 0..MaxStalled, force : BOOLEAN]

\* held: claims returned by claimOrphans and not handled yet. doomed: orphans
\* failed whose snapshot is still to be marked. cand: stranded candidates.
Sweeper == [at : {"idle", "handling", "asking", "judging"},
            held : SUBSET (Rows \X Nat), doomed : SUBSET Rows, cand : SUBSET Rows]

IdleRequest == [at |-> "idle", row |-> NoRow, force |-> FALSE]

Request == {IdleRequest} \union [at : {"checked", "submit"}, row : Rows, force : BOOLEAN]

Spent == [clicks : 0..MaxClicks, crashes : 0..MaxCrashes, throws : 0..MaxThrows]

TypeOK ==
  /\ job      \in [Rows -> JobRow]
  /\ snapshot \in Snapshot
  /\ entry    \in [Entries -> Entry]
  /\ sweeper  \in [Sweepers -> Sweeper]
  /\ request  \in [Requests -> Request]
  /\ spent    \in Spent

Init ==
  /\ job = [r \in Rows |-> [status |-> "absent", silent |-> FALSE, named |-> FALSE,
                            linked |-> FALSE, recov |-> 0, rate |-> 0, handed |-> {},
                            chained |-> FALSE, runs |-> 0]]
  /\ snapshot = [status |-> None, graphBy |-> None, full |-> FALSE, torn |-> FALSE]
  /\ entry   = [e \in Entries |-> FreeEntry]
  /\ sweeper = [s \in Sweepers |-> [at |-> "idle", held |-> {}, doomed |-> {}, cand |-> {}]]
  /\ request = [q \in Requests |-> IdleRequest]
  /\ spent   = [clicks |-> 0, crashes |-> 0, throws |-> 0]

-----------------------------------------------------------------------------
(* Shared vocabulary *)

Active(r) == job[r].status \in {"queued", "running"}
Halted(r) == job[r].status \in {"paused", "failed"}
Row(e)    == entry[e].row

MayClick == spent.clicks  < MaxClicks
MayCrash == spent.crashes < MaxCrashes
MayThrow == spent.throws  < MaxThrows
Click    == spent' = [spent EXCEPT !.clicks  = @ + 1]
Lose     == spent' = [spent EXCEPT !.crashes = @ + 1]
Fault    == spent' = [spent EXCEPT !.throws  = @ + 1]

\* Queue.add: the entry exists in Redis when this returns.
Added(e, r, attempts, f) ==
  [entry EXCEPT ![e] = [at |-> "waiting", row |-> r, left |-> attempts,
                        stalls |-> 0, force |-> f]]

Go(e, place) == entry' = [entry EXCEPT ![e].at = place]

SetStatus(r, s) == job' = [job EXCEPT ![r].status = s]

\* updateStep and the row state it writes when its guard lets it through.
Stepped(r) == [job[r] EXCEPT !.status = "running", !.silent = FALSE]

\* The graph is there and its snapshot says 'complete', phases short of the truth.
Half == snapshot.status = "complete" /\ ~snapshot.full

\* What takes the next chance to correct an optimistic 'complete' away from the
\* delivery that wrote it: an interruption, a second executor, or a hand-back to
\* a queue that holds an unforced delivery of the same commit.
Interrupts(yes) == snapshot' = [snapshot EXCEPT !.torn = @ \/ (yes /\ Half)]

\* Another delivery executes the commit.
Company(e) == \E f \in Entries \ {e} : entry[f].at \in Beating

\* The guard of POST /analyze and of POST /resume: an active run of the same
\* target. A head run compares as its branch until its commit is on the row.
ActiveTwin(r, named) ==
  \E t \in Rows \ {r} : Active(t) /\ job[t].named = named

-----------------------------------------------------------------------------
(* The API *)

\* POST /analyze, or a push webhook: guard and insert in one transaction
\* under the project lock. The submission to the queue follows the commit.
StartRun(q, r, named, f) ==
  /\ MayClick /\ Click
  /\ request[q].at = "idle"
  /\ job[r].status = "absent"
  /\ \A t \in 1..(r - 1) : job[t].status # "absent"
  /\ ~ActiveTwin(r, named)
  /\ job' = [job EXCEPT ![r] = [@ EXCEPT !.status = "queued", !.named = named]]
  /\ request' = [request EXCEPT ![q] = [at |-> "submit", row |-> r, force |-> f]]
  /\ UNCHANGED <<snapshot, entry, sweeper>>

PauseClick(r) ==
  /\ MayClick /\ Click
  /\ Active(r)
  /\ SetStatus(r, "paused")
  /\ Interrupts(TRUE)
  /\ UNCHANGED <<entry, sweeper, request>>

StopClick(r) ==
  /\ MayClick /\ Click
  /\ Active(r) \/ job[r].status = "paused"
  /\ SetStatus(r, "failed")
  /\ Interrupts(TRUE)
  /\ UNCHANGED <<entry, sweeper, request>>

\* POST /resume reads the row and looks for an identical active run ...
ResumeCheck(q, r) ==
  /\ MayClick /\ Click
  /\ request[q].at = "idle"
  /\ Halted(r)
  /\ ~ActiveTwin(r, job[r].named)
  /\ request' = [request EXCEPT ![q] = [at |-> "checked", row |-> r, force |-> TRUE]]
  /\ UNCHANGED <<job, snapshot, entry, sweeper>>

\* ... and only then writes, without a lock and without re-testing either.
\* last_heartbeat_at becomes NULL, so the row is as old as its started_at.
ResumeWrite(q) ==
  /\ request[q].at = "checked"
  /\ \E old \in BOOLEAN :
       job' = [job EXCEPT ![request[q].row] = [@ EXCEPT !.status = "queued", !.silent = old]]
  /\ request' = [request EXCEPT ![q].at = "submit"]
  /\ UNCHANGED <<snapshot, entry, sweeper, spent>>

Submit(q) ==
  /\ request[q].at = "submit"
  /\ \E e \in Entries :
       /\ entry[e].at = "free"
       /\ entry' = Added(e, request[q].row, 2, request[q].force)
  /\ request' = [request EXCEPT ![q] = IdleRequest]
  /\ UNCHANGED <<job, snapshot, sweeper, spent>>

\* failUnsubmittedJob: the add threw, whether or not the entry landed.
SubmitThrows(q) ==
  /\ MayThrow /\ Fault
  /\ request[q].at = "submit"
  /\ LET r == request[q].row IN
       /\ job' = IF job[r].status = "queued" THEN [job EXCEPT ![r].status = "failed"] ELSE job
       /\ \/ UNCHANGED entry
          \/ \E e \in Entries : /\ entry[e].at = "free"
                                /\ entry' = Added(e, r, 2, request[q].force)
  /\ request' = [request EXCEPT ![q] = IdleRequest]
  /\ Interrupts(job[request[q].row].status = "queued")
  /\ UNCHANGED sweeper

\* The API process dies between the row's commit and the submission.
RequestLost(q) ==
  /\ MayCrash /\ Lose
  /\ request[q].at # "idle"
  /\ request' = [request EXCEPT ![q] = IdleRequest]
  /\ UNCHANGED <<job, snapshot, entry, sweeper>>

API ==
  \/ \E q \in Requests, r \in Rows, n, f \in BOOLEAN : StartRun(q, r, n, f)
  \/ \E r \in Rows : PauseClick(r) \/ StopClick(r)
  \/ \E q \in Requests, r \in Rows : ResumeCheck(q, r)
  \/ \E q \in Requests : ResumeWrite(q) \/ Submit(q) \/ SubmitThrows(q) \/ RequestLost(q)

-----------------------------------------------------------------------------
(* BullMQ, as the workers use it *)

\* The processor returned: the entry is complete and removed.
EndEntry(e) ==
  /\ entry[e].at \in {"ending", "finished", "reused"}
  /\ entry' = [entry EXCEPT ![e] = FreeEntry]
  /\ UNCHANGED <<job, snapshot, sweeper, request, spent>>

Redelivered(e) == [entry[e] EXCEPT !.at = "waiting", !.left   = @ - 1]
Recovered(e)   == [entry[e] EXCEPT !.at = "waiting", !.stalls = @ + 1]

\* The processor threw: redelivered while attempts remain, whatever was thrown.
FailEntry(e) ==
  /\ entry[e].at = "thrown"
  /\ entry' = IF entry[e].left > 1
              THEN [entry EXCEPT ![e] = Redelivered(e)]
              ELSE [entry EXCEPT ![e] = FreeEntry]
  /\ UNCHANGED <<job, snapshot, sweeper, request, spent>>

\* The lock of a dead worker expired: redelivered MaxStalled times, then failed.
Stalled(e) ==
  /\ entry[e].at = "dead"
  /\ entry' = IF entry[e].stalls < MaxStalled
              THEN [entry EXCEPT ![e] = Recovered(e)]
              ELSE [entry EXCEPT ![e] = FreeEntry]
  /\ UNCHANGED <<job, snapshot, sweeper, request, spent>>

Deliver(e) == EndEntry(e) \/ FailEntry(e) \/ Stalled(e)

BullMQ == \E e \in Entries : Deliver(e)

-----------------------------------------------------------------------------
(* processAnalysisJob *)

\* A worker takes a waiting or delayed entry, in any order: entries are delayed
\* and several workers take them. The first updateStep is outside the try block.
\* Refused by its guard, it throws: the row is not touched, and BullMQ sees a
\* failed delivery.
Begin(e) ==
  /\ entry[e].at = "waiting"
  /\ IF Halted(Row(e))
     THEN Go(e, "thrown") /\ UNCHANGED job
     ELSE Go(e, "began")  /\ job' = [job EXCEPT ![Row(e)] = [Stepped(Row(e)) EXCEPT !.runs = @ + 1]]
  /\ Interrupts(Company(e))
  /\ UNCHANGED <<sweeper, request, spent>>

\* loadProject or resolveScope throws, still outside the try block: the row
\* is left 'running' and nothing beats for it.
ThrowEarly(e) ==
  /\ MayThrow /\ Fault
  /\ entry[e].at = "began"
  /\ Go(e, "thrown")
  /\ Interrupts(TRUE)
  /\ UNCHANGED <<job, sweeper, request>>

\* The zipball names the commit, which goes on the row.
StampCommit(e) ==
  /\ entry[e].at = "fetching"
  /\ Go(e, "stamped")
  /\ job' = [job EXCEPT ![Row(e)].named = TRUE]
  /\ UNCHANGED <<snapshot, sweeper, request, spent>>

\* The concurrent-duplicate guard: an older active run of the same commit wins.
\* Then snapshot reuse, unless the run is forced.
ResolveRun(e) ==
  /\ entry[e].at = "stamped"
  /\ IF \E t \in 1..(Row(e) - 1) : Active(t) /\ job[t].named
     THEN Go(e, "ending") /\ SetStatus(Row(e), "failed")
     ELSE /\ Go(e, IF ~entry[e].force /\ snapshot.status = "complete" THEN "reuse" ELSE "scanning")
          /\ UNCHANGED job
  /\ UNCHANGED <<snapshot, sweeper, request, spent>>

\* What a step that was let through leads to.
AfterStep == [began |-> "fetching", reuse |-> "reusing", scanning |-> "persist",
              phases |-> "phases"]

\* updateStep inside the try block: a paused or failed row ends the delivery
\* quietly, as a completed entry.
Step(e) ==
  /\ entry[e].at \in DOMAIN AfterStep
  /\ IF Halted(Row(e))
     THEN Go(e, "ending") /\ UNCHANGED job
     ELSE Go(e, AfterStep[entry[e].at]) /\ job' = [job EXCEPT ![Row(e)] = Stepped(Row(e))]
  /\ UNCHANGED <<snapshot, sweeper, request, spent>>

ReuseComplete(e) ==
  /\ entry[e].at = "reusing"
  /\ job' = [job EXCEPT ![Row(e)] = [@ EXCEPT !.status = "complete", !.linked = TRUE]]
  /\ Go(e, "reused")
  /\ UNCHANGED <<snapshot, sweeper, request, spent>>

\* One transaction replaces the graph of the commit and marks the snapshot
\* 'complete', six phases before the run is.
Persist(e) ==
  /\ entry[e].at = "persist"
  /\ snapshot' = [status |-> "complete", graphBy |-> e, full |-> FALSE, torn |-> Company(e) \/ Halted(Row(e))]
  /\ Go(e, "linking")
  /\ UNCHANGED <<job, sweeper, request, spent>>

\* Only the next statement puts snapshot_id on the row.
LinkSnapshot(e) ==
  /\ entry[e].at = "linking"
  /\ job' = [job EXCEPT ![Row(e)].linked = TRUE]
  /\ Go(e, "phases")
  /\ UNCHANGED <<snapshot, sweeper, request, spent>>

\* Phase 13: the row is complete, whatever its status has become.
Finish(e) ==
  /\ entry[e].at = "phases"
  /\ SetStatus(Row(e), "complete")
  /\ snapshot' = [snapshot EXCEPT !.full = @ \/ snapshot.graphBy = e]
  /\ Go(e, "finished")
  /\ UNCHANGED <<sweeper, request, spent>>

\* enqueueSummaryGeneration. A run may also end without it: incremental
\* updates and webhook reuses do not pay for a package.
ChainGeneration(e) ==
  /\ entry[e].at \in {"finished", "reused"}
  /\ Go(e, "ending")
  /\ job' = [job EXCEPT ![Row(e)].chained = TRUE]
  /\ UNCHANGED <<snapshot, sweeper, request, spent>>

MayResume(r)         == job[r].status = "running" /\ job[r].rate < MaxRateLimit

Postponed(r) == [job[r] EXCEPT !.status = "queued", !.silent = FALSE, !.rate = @ + 1]

\* An unforced delivery of this run or of an older one is still to come: it may
\* resolve to this commit and reuse whatever it finds marked 'complete'.
ReuserDue(e) ==
  \/ \E f \in Entries \ {e} : entry[f].at # "free" /\ ~entry[f].force /\ Row(f) <= Row(e)
  \/ \E q \in Requests :
       request[q].at = "submit" /\ ~request[q].force /\ request[q].row <= Row(e)

\* A pause the provider's rate limiter caused: claimRateLimitResume moves the
\* row back to 'queued' if it is still running and the cap is not spent. The
\* snapshot goes on saying 'complete' while the delayed entry waits.
RateLimited(e) ==
  /\ entry[e].at = "phases"
  /\ IF MayResume(Row(e))
     THEN /\ job' = [job EXCEPT ![Row(e)] = Postponed(Row(e))]
          /\ Go(e, "requeue")
          /\ Interrupts(ReuserDue(e))
     ELSE /\ snapshot' = [snapshot EXCEPT !.status = "paused"]
          /\ Go(e, "pausing")
          /\ UNCHANGED job
  /\ UNCHANGED <<sweeper, request, spent>>

\* Mutant: the re-submission forgets `force`.
ResubmittedUnforced(e, r) == Added(e, r, 1, FALSE)

\* RECOVERY_ENQUEUE_OPTS: one delivery, forced to run the whole pipeline.
Resubmitted(e, r) == Added(e, r, 1, TRUE)

EnqueueResume(e) ==
  /\ entry[e].at = "requeue"
  /\ \E n \in Entries :
       /\ entry[n].at = "free"
       /\ entry' = [Resubmitted(n, Row(e)) EXCEPT ![e].at = "ending"]
  /\ UNCHANGED <<job, snapshot, sweeper, request, spent>>

\* Any other AI pause, or a budget that stops by pausing. The row write that
\* follows has no guard.
AiPause(e) ==
  /\ MayThrow /\ Fault
  /\ entry[e].at = "phases"
  /\ snapshot' = [snapshot EXCEPT !.status = "paused"]
  /\ Go(e, "pausing")
  /\ UNCHANGED <<job, sweeper, request>>

PauseRow(e) ==
  /\ entry[e].at = "pausing"
  /\ SetStatus(Row(e), "paused")
  /\ Go(e, "ending")
  /\ UNCHANGED <<snapshot, sweeper, request, spent>>

\* Mutant: the borrowed snapshot of the reuse path counts as the run's own.
OwningOrBorrowing == {"linking", "phases", "requeue", "pausing", "finished", "reusing", "reused"}

\* Where persistedSnapshotId is set.
Owning == {"linking", "phases", "requeue", "pausing", "finished"}

\* An error reaches the catch block. The permanent ones, for which no retry is
\* worth it, come before the graph is persisted.
Throw(e) ==
  /\ MayThrow /\ Fault
  /\ entry[e].at \in {"fetching", "stamped", "scanning", "persist", "reusing", "reused"} \union Owning
  /\ Go(e, IF entry[e].at \in Owning THEN "threwOwning" ELSE "threw")
  /\ UNCHANGED <<job, snapshot, sweeper, request>>

Refuse(e) ==
  /\ MayThrow /\ Fault
  /\ entry[e].at = "fetching"
  /\ Go(e, "refused")
  /\ UNCHANGED <<job, snapshot, sweeper, request>>

\* A scope with nothing to parse, or a budget that stops by failing.
FailSnapshot(e) ==
  /\ MayThrow /\ Fault
  /\ \/ entry[e].at = "persist" /\ Go(e, "refused")
     \/ entry[e].at = "phases"  /\ Go(e, "threwOwning")
  /\ snapshot' = [snapshot EXCEPT !.status = "failed"]
  /\ UNCHANGED <<job, sweeper, request>>

\* recordJobFailure: 'queued' while BullMQ will redeliver, else 'failed'.
Retrying(e) == entry[e].at # "refused" /\ entry[e].left > 1

RecordFailure(e) ==
  /\ entry[e].at \in {"threw", "refused", "threwOwning"}
  /\ job' = IF ~Retrying(e) THEN [job EXCEPT ![Row(e)].status = "failed"]
            ELSE IF job[Row(e)].status \in {"paused", "complete"} THEN job
            ELSE [job EXCEPT ![Row(e)] = [@ EXCEPT !.status = "queued", !.silent = FALSE]]
  /\ Go(e, IF entry[e].at = "threwOwning" THEN "recorded" ELSE "thrown")
  /\ Interrupts(entry[e].at # "threwOwning")
  /\ UNCHANGED <<sweeper, request, spent>>

\* Mutant: the optimistic 'complete' stands after a failure.
SnapshotLeftAlone == UNCHANGED snapshot

\* markSnapshotFailed, then the error is thrown on to BullMQ.
SnapshotFailed ==
  snapshot' = IF snapshot.status = "paused" THEN snapshot
              ELSE [snapshot EXCEPT !.status = "failed"]

MarkSnapshot(e) ==
  /\ entry[e].at = "recorded"
  /\ SnapshotFailed
  /\ Go(e, "thrown")
  /\ UNCHANGED <<job, sweeper, request, spent>>

Work(e) ==
  \/ Begin(e) \/ StampCommit(e) \/ ResolveRun(e) \/ Step(e) \/ ReuseComplete(e)
  \/ Persist(e) \/ LinkSnapshot(e) \/ Finish(e) \/ ChainGeneration(e)
  \/ RateLimited(e) \/ EnqueueResume(e) \/ PauseRow(e)
  \/ RecordFailure(e) \/ MarkSnapshot(e)

Worker == \E e \in Entries : \/ Work(e)
                             \/ ThrowEarly(e) \/ Throw(e) \/ Refuse(e) \/ FailSnapshot(e) \/ AiPause(e)

-----------------------------------------------------------------------------
(* Heartbeats and the death of processes *)

BeatsFor(e, r) == entry[e].at \in Beating /\ Row(e) = r

\* The 15s timer of an executor, which stamps only a running row.
Beat(e) ==
  /\ entry[e].at \in Beating
  /\ job[Row(e)].status = "running"
  /\ job' = [job EXCEPT ![Row(e)].silent = FALSE]
  /\ UNCHANGED <<snapshot, entry, sweeper, request, spent>>

\* Time passes over a row for which nobody beats.
FallSilent(r) ==
  /\ Active(r)
  /\ ~(job[r].status = "running" /\ \E e \in Entries : BeatsFor(e, r))
  /\ job' = [job EXCEPT ![r].silent = TRUE]
  /\ UNCHANGED <<snapshot, entry, sweeper, request, spent>>

\* A worker process is killed, and the executor of e with it, perhaps before
\* its first statement.
Crash(e) ==
  /\ MayCrash /\ Lose
  /\ entry[e].at \in Executing \union {"waiting"}
  /\ Go(e, "dead")
  /\ Interrupts(TRUE)
  /\ UNCHANGED <<job, sweeper, request>>

\* A drain that ran out of grace hands its rows to the sweep and exits
\* (markInFlightJobsAbandoned).
Abandon(e) ==
  /\ MayCrash /\ Lose
  /\ entry[e].at \in Executing
  /\ Go(e, "dead")
  /\ job' = IF job[Row(e)].status = "running"
            THEN [job EXCEPT ![Row(e)].silent = TRUE] ELSE job
  /\ Interrupts(TRUE)
  /\ UNCHANGED <<sweeper, request>>

CrashSweeper(s) ==
  /\ MayCrash /\ Lose
  /\ sweeper[s].at # "idle"
  /\ sweeper' = [sweeper EXCEPT ![s] = [at |-> "idle", held |-> {}, doomed |-> {}, cand |-> {}]]
  /\ UNCHANGED <<job, snapshot, entry, request>>

Environment ==
  \/ \E e \in Entries : Beat(e) \/ Crash(e) \/ Abandon(e)
  \/ \E r \in Rows : FallSilent(r)
  \/ \E s \in Sweepers : CrashSweeper(s)

-----------------------------------------------------------------------------
(* reconcileOrphanedJobs, in every replica at boot and every 120 s *)

Orphans == {r \in Rows : job[r].status = "running" /\ job[r].silent}

\* Mutant: the loss is not counted by the claim.
ClaimedUncounted(r) == [job[r] EXCEPT !.status = "queued", !.silent = FALSE]
Claimed(r) == [job[r] EXCEPT !.status = "queued", !.silent = FALSE, !.recov = @ + 1]

\* claimOrphans: one statement moves every dead run back to 'queued' and
\* counts the loss, before anything is decided about it.
ClaimOrphans(s) ==
  /\ sweeper[s].at = "idle"
  /\ Orphans # {}
  /\ job' = [r \in Rows |-> IF r \in Orphans THEN Claimed(r) ELSE job[r]]
  /\ sweeper' = [sweeper EXCEPT ![s] =
                   [@ EXCEPT !.at = "handling",
                             !.held = {<<r, job[r].recov + 1>> : r \in Orphans}]]
  /\ UNCHANGED <<snapshot, entry, request, spent>>

\* Mutant: the cap is off by one.
isRecoverableOnceMore(attempts) == attempts <= MaxRecovery + 1
isRecoverable(attempts) == attempts <= MaxRecovery

Requeue(s, r, n) ==
  /\ <<r, n>> \in sweeper[s].held
  /\ isRecoverable(n)
  /\ \E e \in Entries : entry[e].at = "free" /\ entry' = Resubmitted(e, r)
  /\ job' = [job EXCEPT ![r].handed = @ \union {n}]
  /\ sweeper' = [sweeper EXCEPT ![s].held = @ \ {<<r, n>>}]
  /\ UNCHANGED <<snapshot, request, spent>>

Doomed(s, r, n) == [sweeper[s] EXCEPT !.held = @ \ {<<r, n>>}, !.doomed = @ \union {r}]

\* failOrphan: the row is failed only if it is still 'queued', its snapshot
\* is marked in a second statement either way.
FailOrphanRow(s, r, n) ==
  /\ job' = IF job[r].status = "queued" THEN [job EXCEPT ![r].status = "failed"] ELSE job
  /\ sweeper' = [sweeper EXCEPT ![s] = Doomed(s, r, n)]
  /\ Interrupts(job[r].status = "queued")

GiveUp(s, r, n) ==
  /\ <<r, n>> \in sweeper[s].held
  /\ ~isRecoverable(n)
  /\ FailOrphanRow(s, r, n)
  /\ UNCHANGED <<entry, request, spent>>

RequeueThrows(s, r, n) ==
  /\ MayThrow /\ Fault
  /\ <<r, n>> \in sweeper[s].held
  /\ isRecoverable(n)
  /\ \/ UNCHANGED entry
     \/ \E e \in Entries : entry[e].at = "free" /\ entry' = Resubmitted(e, r)
  /\ FailOrphanRow(s, r, n)
  /\ UNCHANGED request

\* A row that was not linked to a snapshot when it was claimed has none to mark.
MarkOrphanSnapshot(s, r) ==
  /\ r \in sweeper[s].doomed
  /\ IF job[r].linked THEN SnapshotFailed ELSE UNCHANGED snapshot
  /\ sweeper' = [sweeper EXCEPT ![s].doomed = @ \ {r}]
  /\ UNCHANGED <<job, entry, request, spent>>

\* Mutant: only rows that never started are looked at.
StrandedUnstarted == {r \in Rows : job[r].status = "queued" /\ job[r].silent /\ job[r].runs = 0}
Stranded          == {r \in Rows : job[r].status = "queued" /\ job[r].silent}

\* failStrandedQueued: silent 'queued' rows are read first ...
SelectStranded(s) ==
  /\ sweeper[s].at = "handling" \/ (sweeper[s].at = "idle" /\ Orphans = {})
  /\ sweeper[s].held = {} /\ sweeper[s].doomed = {}
  /\ sweeper' = [sweeper EXCEPT ![s] =
                   [@ EXCEPT !.at = IF Stranded = {} THEN "idle" ELSE "asking", !.cand = Stranded]]
  /\ UNCHANGED <<job, snapshot, entry, request, spent>>

\* ... Redis is asked which rows still have an entry ...
Known(r) == \E e \in Entries : entry[e].at # "free" /\ Row(e) = r

AskLive(s) ==
  /\ sweeper[s].at = "asking"
  /\ sweeper' = [sweeper EXCEPT ![s] =
                   [@ EXCEPT !.at = "judging", !.cand = {r \in sweeper[s].cand : ~Known(r)}]]
  /\ UNCHANGED <<job, snapshot, entry, request, spent>>

\* ... and each of the others is failed if it is still 'queued'.
FailStranded(s, r) ==
  /\ sweeper[s].at = "judging"
  /\ r \in sweeper[s].cand
  /\ job' = IF job[r].status = "queued" THEN [job EXCEPT ![r].status = "failed"] ELSE job
  /\ Interrupts(job[r].status = "queued")
  /\ sweeper' = [sweeper EXCEPT ![s].cand = @ \ {r}]
  /\ UNCHANGED <<entry, request, spent>>

EndSweep(s) ==
  /\ sweeper[s].at = "judging"
  /\ sweeper[s].cand = {}
  /\ sweeper' = [sweeper EXCEPT ![s].at = "idle"]
  /\ UNCHANGED <<job, snapshot, entry, request, spent>>

SweepStep(s) ==
  \/ ClaimOrphans(s) \/ SelectStranded(s) \/ AskLive(s) \/ EndSweep(s)
  \/ \E c \in sweeper[s].held : Requeue(s, c[1], c[2]) \/ GiveUp(s, c[1], c[2])
  \/ \E r \in Rows : MarkOrphanSnapshot(s, r) \/ FailStranded(s, r)

Sweep == \E s \in Sweepers :
           SweepStep(s) \/ \E c \in sweeper[s].held : RequeueThrows(s, c[1], c[2])

-----------------------------------------------------------------------------
Next == API \/ BullMQ \/ Worker \/ Environment \/ Sweep

Spec == Init /\ [][Next]_vars

\* Workers take entries and run them on, BullMQ settles what they leave, the
\* sweeps recur on their timer, time passes, and a request goes through.
\* Clicks, crashes and errors are not fair: nothing makes them happen.
Fairness ==
  /\ \A e \in Entries  : WF_vars(Work(e)) /\ WF_vars(Deliver(e))
  /\ \A s \in Sweepers : WF_vars(SweepStep(s))
  /\ \A r \in Rows     : WF_vars(FallSilent(r))
  /\ \A q \in Requests : WF_vars(ResumeWrite(q)) /\ WF_vars(Submit(q))

FairSpec == Spec /\ Fairness

-----------------------------------------------------------------------------
(* Properties that hold *)

\* Every delivery is gone, no row is active, no orphan's snapshot is unmarked.
Quiet ==
  /\ \A e \in Entries : entry[e].at = "free"
  /\ \A r \in Rows : ~Active(r)
  /\ \A s \in Sweepers : sweeper[s].doomed = {}

\* Bug #75 stays fixed: the snapshot is marked 'complete' six phases early, and
\* whatever throws after that, once everything is quiet a snapshot that still
\* says 'complete' went through every phase. The catch block, markSnapshotFailed
\* and failOrphan see to it, unless the delivery that wrote it was interrupted
\* from outside (stop, pause, crash), had company, or left the commit to an
\* unforced delivery (see Interrupts).
SnapshotHonest == Quiet /\ Half => snapshot.torn

\* A package is generated only from a graph that went through every phase: the
\* reuse path of a forced resume must not see the optimistic 'complete' and
\* declare the run done.
GenerationHonest ==
  [][\A r \in Rows : ~job[r].chained /\ job'[r].chained => snapshot.full \/ snapshot.torn]_vars

\* The failure path of a delivery changes only the snapshot its own transaction
\* wrote: a good one borrowed by a failing run is never stomped.
BorrowedKept ==
  [][\A e \in Entries : entry[e].at = "recorded" /\ entry'[e].at = "thrown" =>
       snapshot.graphBy = e \/ snapshot.torn \/ snapshot' = snapshot]_vars

\* The claim is exclusive: of any number of replicas sweeping at once, one holds
\* a given loss of a given run, and a loss that was handed back is not held.
ExclusiveClaims ==
  \A s \in Sweepers : \A c \in sweeper[s].held :
    /\ c[2] \notin job[c[1]].handed
    /\ \A t \in Sweepers \ {s} : c \notin sweeper[t].held

\* The sweep hands a row back to the queue at most MAX_RECOVERY_ATTEMPTS times,
\* whatever is resumed, stopped, lost or redelivered in between.
RecoveryCap == \A r \in Rows : Cardinality(job[r].handed) <= MaxRecovery

\* A job that kills every worker it meets does not run forever: each of its
\* 1 + MaxRecovery entries is delivered at most 1 + MaxStalled times. This bounds
\* rows that are not resumed, rate limited or retried after an error.
PoisonBound == \A r \in Rows : job[r].runs <= (1 + MaxRecovery) * (1 + MaxStalled)

\* No submission, crash, lost request or dead sweep leaves a row 'queued' or
\* 'running' forever: a user can always act on it again.
RunSettles == \A r \in Rows : Active(r) ~> ~Active(r)

-----------------------------------------------------------------------------
(* What the comments of the code promise and the code does not keep *)

\* index.ts: "A run that did not reach phase 13 leaves 'failed' behind, never the
\* 'complete' the persistence step wrote at 46%."
NeverHalfComplete == Quiet => ~Half

\* index.ts, on the forced re-submission: "without force the snapshot-reuse
\* short-circuit sees the optimistic 'complete' written at 46% and declares the run
\* done with the semantic phases never executed". An older run of the branch head,
\* unresolved until it is delivered and not forced, does just that: while a newer
\* run of the commit is in its phases, or waits out a rate limit.
GeneratedWhole ==
  [][\A r \in Rows : ~job[r].chained /\ job'[r].chained => snapshot.full]_vars

\* projects.ts, on Pause and Stop: "the worker exits without stomping the user's
\* choice". A paused or failed row is not completed or paused by a worker.
UserChoiceKept ==
  [][\A e \in Entries : Work(e) /\ Halted(Row(e)) =>
       job'[Row(e)].status \in {job[Row(e)].status, "queued"}]_vars

\* The same promise, and rateLimitResume.ts, "A user pressing Stop is likewise
\* final": only a resume moves a failed row back to 'queued'.
StopIsFinal ==
  [][\A e \in Entries : Work(e) /\ job[Row(e)].status = "failed" =>
       job'[Row(e)].status # "queued"]_vars

\* index.ts, on two runs that resolve to one commit: "The older one wins; this one
\* bows out before touching the shared snapshot row."
TwinBowsOut ==
  \A e, f \in Entries : e # f /\ entry[e].at = "phases" /\ entry[f].at = "phases" =>
    Row(e) = Row(f)

\* jobRecovery.ts: "a job runs at most three times (the original delivery plus two
\* recoveries)", with MAX_RECOVERY_ATTEMPTS = 2.
RunsAtMost == \A r \in Rows : job[r].runs <= 1 + MaxRecovery

\* jobRecovery.ts: "Two conditions, both required: aged past strandedAfterSeconds
\* AND absent from the live queue."
StrandedIsAbsent ==
  [][\A s \in Sweepers, r \in Rows :
       FailStranded(s, r) /\ job[r].status = "queued" => ~Known(r)]_vars

-----------------------------------------------------------------------------
(* What the recovery promises, whatever the rest of the system does *)

\* The sweeps of all replicas together hold the claims that are open.
Contract ==
  INSTANCE RecoveryContract WITH
    Runs    <- Rows,
    lost    <- [r \in Rows |-> job[r].recov],
    handed  <- [r \in Rows |-> job[r].handed],
    open    <- UNION {sweeper[s].held : s \in Sweepers}

\* reconcileOrphanedJobs, in any number of replicas that may die at any point,
\* implements the bounded exactly-once hand-back of RecoveryContract.
ImplementsContract == Contract!Spec
=============================================================================
