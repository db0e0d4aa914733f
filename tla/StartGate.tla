----------------------------- MODULE StartGate -----------------------------
(* Who may start a run. POST /analyze and the push webhook insert rows of   *)
(* analysis_jobs inside a transaction that locks the project, and the user  *)
(* for /analyze; resumes and generations check and write without a lock.    *)
(* All of them, the workers and the sweep read and write the same rows and  *)
(* the project's status, which every writer recomputes from the rows in one *)
(* statement: it reads its snapshot first and may wait for the row lock.    *)
(*                                                                          *)
(* What a run does between its first and its last statement, and deliveries *)
(* beyond one for each row, are RunLifecycle's subject.                     *)
EXTENDS Naturals, FiniteSets

CONSTANTS
  Projects, Users,
  Owner,         \* projects.user_id, whom webhook runs are charged to
  Commits,       \* (scope, commit) tuples a run can name
  Heads,         \* (scope, 'head:<branch>') tuples, a commit only once fetched
  NumRows,       \* bound: rows of analysis_jobs, in the order of insertion
  Requests,      \* requests and sweeps that can be under way at a time
  PoolMax,       \* PG_POOL_MAX of the API process
  MaxConcurrent, \* tierLimits().maxConcurrent
  MaxClicks,     \* bound: requests, pushes and sweeps
  MaxFaults      \* bound: errors of a run, a statement or the queue, and deaths

Targets == Commits \union Heads
Rows    == 1..NumRows
NoRow   == 0
None    == "none"

ASSUME OwnerAssumption  == Owner \in [Projects -> Users]
ASSUME TargetAssumption == Commits \intersect Heads = {}
ASSUME LimitAssumption  == MaxConcurrent \in Nat
ASSUME BoundsAssumption == {NumRows, PoolMax, MaxClicks, MaxFaults} \subseteq Nat
ASSUME NoneAssumption   == None \notin Requests

VARIABLES
  job,     \* analysis_jobs
  project, \* projects: status, and the transaction that holds the row lock
  account, \* the transaction that holds the advisory lock of each user
  request, \* API requests and sweeps between two of their statements
  tally,   \* recomputeProjectStatus, for the request or the run that awaits it
  spent    \* what the bounds have been used for

vars == <<job, project, account, request, tally, spent>>

-----------------------------------------------------------------------------
(* State *)

\* txn: the open transaction that inserted the row. target: what the row names
\* now, asked: what it named when it was inserted. run: its delivery. held is
\* history: the row was started under the project lock and has been active since.
Absent ==
  [status |-> "absent", project |-> None, user |-> None, kind |-> None, via |-> None,
   asked |-> None, target |-> None, txn |-> None, held |-> FALSE, run |-> "none"]

JobRow ==
  [status : {"absent", "queued", "running", "paused", "failed", "complete"},
   project : Projects \union {None}, user : Users \union {None},
   kind : {None, "analysis", "generation"}, via : {None, "analyze", "push", "other"},
   asked : Targets \union {None}, target : Targets \union {None},
   txn : Requests \union {None}, held : BOOLEAN,
   run : {"none", "waiting", "working", "finished", "leaving", "retrying"}]

\* asks: targets a transaction has still to prepare. left: committed rows that
\* are still to be submitted to the queue.
Idle == [at |-> "idle", kind |-> None, user |-> None, project |-> None,
         asks |-> {}, left |-> {}, row |-> NoRow]

Request ==
  {Idle} \union
  [at : {"arrived", "open", "mine", "locked", "preparing", "checked",
         "inserting", "marking", "submitting", "failing", "answering"},
   kind : {"analyze", "push", "click", "resume", "generate", "sweep"},
   user : Users \union {None}, project : Projects, asks : SUBSET Targets,
   left : SUBSET Rows, row : Rows \union {NoRow}]

TypeOK ==
  /\ job     \in [Rows -> JobRow]
  /\ project \in [Projects -> [status : {"analyzing", "settled"}, lock : Requests \union {None}]]
  /\ account \in [Users -> Requests \union {None}]
  /\ request \in [Requests -> Request]
  /\ tally   \in [Requests \union Rows -> {None, "owed", "analyzing", "settled"}]
  /\ spent   \in [clicks : 0..MaxClicks, faults : 0..MaxFaults]

Init ==
  /\ job     = [r \in Rows |-> Absent]
  /\ project = [p \in Projects |-> [status |-> "settled", lock |-> None]]
  /\ account = [u \in Users |-> None]
  /\ request = [q \in Requests |-> Idle]
  /\ tally   = [a \in Requests \union Rows |-> None]
  /\ spent   = [clicks |-> 0, faults |-> 0]

-----------------------------------------------------------------------------
(* Shared vocabulary *)

Click == spent.clicks < MaxClicks /\ spent' = [spent EXCEPT !.clicks = @ + 1]
Fault == spent.faults < MaxFaults /\ spent' = [spent EXCEPT !.faults = @ + 1]

At(q, place) == request[q].at = place
Go(q, place) == request' = [request EXCEPT ![q].at = place]

\* A row as another transaction sees it, and as the one that inserted it does.
Seen(r)      == job[r].status # "absent" /\ job[r].txn = None
SeenBy(q, r) == job[r].status # "absent" /\ job[r].txn \in {None, q}
IsActive(s)  == s \in {"queued", "running"}

Moved(r, s, run) ==
  [job[r] EXCEPT !.status = s, !.run = run, !.held = job[r].held /\ IsActive(s)]

SetStatus(r, s) == job' = [job EXCEPT ![r] = Moved(r, s, job[r].run)]

\* created_at order.
NextRow(r) == job[r].status = "absent" /\ \A x \in Rows : job[x].status = "absent" => r <= x

\* checkCredit, inFlight: the user's queued and running rows of every kind.
InFlight(q, u) == {r \in Rows : SeenBy(q, r) /\ IsActive(job[r].status) /\ job[r].user = u}

HasCredit(q, u) == Cardinality(InFlight(q, u)) < MaxConcurrent

\* An active row of the same kind, project and target.
Twin(q, r, kind, p, t) ==
  SeenBy(q, r) /\ IsActive(job[r].status) /\ job[r].kind = kind
  /\ job[r].project = p /\ job[r].target = t

\* The project's row is free for FOR UPDATE, for UPDATE, and for the key share
\* a foreign key takes on it.
RowFree(p) == project[p].lock = None

\* The connections of the API's pool. /analyze keeps its client until the response
\* is sent, the webhook until its transaction ends; a recompute keeps its own
\* while it waits for the row lock. A sweep has the worker's pool.
HoldsClient(q) == \/ request[q].kind = "analyze" /\ request[q].at \notin {"idle", "arrived"}
                  \/ request[q].kind = "push" /\ request[q].at \in {"open", "preparing"}
Counting(q)    == request[q].kind # "sweep" /\ tally[q] \in {"analyzing", "settled"}
PoolFree       == Cardinality({q \in Requests : HoldsClient(q)})
                    + Cardinality({q \in Requests : Counting(q)}) < PoolMax

\* The request goes on with the next row to submit, or is over.
Onward(q, left) == IF left = {} THEN Idle
                   ELSE [request[q] EXCEPT !.at = "submitting", !.left = left, !.row = NoRow]

Proceeds(q, left) == request' = [request EXCEPT ![q] = Onward(q, left)]

-----------------------------------------------------------------------------
(* POST /analyze and the push webhook *)

\* requireDailyCredit: a first look at the credit, without a lock.
Arrive(q, u, p, t) ==
  /\ Click /\ At(q, "idle") /\ HasCredit(q, u)
  /\ request' = [request EXCEPT ![q] =
       [Idle EXCEPT !.at = "arrived", !.kind = "analyze", !.user = u, !.project = p, !.asks = {t}]]
  /\ UNCHANGED <<job, project, account, tally>>

\* A push names one commit, for every scope somebody generated a package of.
Push(q, p, ts) ==
  /\ Click /\ At(q, "idle")
  /\ request' = [request EXCEPT ![q] =
       [Idle EXCEPT !.at = "arrived", !.kind = "push", !.user = Owner[p], !.project = p, !.asks = ts]]
  /\ UNCHANGED <<job, project, account, tally>>

\* pool.connect(), which gives up after connectionTimeoutMillis.
Connect(q) ==
  /\ At(q, "arrived")
  /\ IF PoolFree THEN Go(q, "open") ELSE Proceeds(q, {})
  /\ UNCHANGED <<job, project, account, tally, spent>>

\* Mutant of LockUser: the requests of one user are not serialised.
LockNobody(q) ==
  /\ At(q, "open") /\ request[q].kind = "analyze"
  /\ Go(q, "mine")
  /\ UNCHANGED <<job, project, account, tally, spent>>

\* pg_advisory_xact_lock on the user.
LockUser(q) ==
  /\ At(q, "open") /\ request[q].kind = "analyze"
  /\ account[request[q].user] = None
  /\ account' = [account EXCEPT ![request[q].user] = q]
  /\ Go(q, "mine")
  /\ UNCHANGED <<job, project, tally, spent>>

\* Mutant of LockProject: the project is read without FOR UPDATE.
ReadProject(q) ==
  /\ IF request[q].kind = "analyze" THEN At(q, "mine") ELSE At(q, "open")
  /\ Go(q, IF request[q].kind = "analyze" THEN "locked" ELSE "preparing")
  /\ UNCHANGED <<job, project, account, tally, spent>>

\* SELECT ... FROM projects ... FOR UPDATE.
LockProject(q) ==
  /\ IF request[q].kind = "analyze" THEN At(q, "mine") ELSE At(q, "open")
  /\ RowFree(request[q].project)
  /\ project' = [project EXCEPT ![request[q].project].lock = q]
  /\ Go(q, IF request[q].kind = "analyze" THEN "locked" ELSE "preparing")
  /\ UNCHANGED <<job, account, tally, spent>>

Released(q, l)   == IF l = q THEN None ELSE l
ReleaseAccount(q) == account' = [u \in Users |-> Released(q, account[u])]

\* Mutant of Rollback: a path that returns the client without ROLLBACK.
Abandon(q) == UNCHANGED <<job, project, account>>

\* ROLLBACK: what the transaction inserted is gone, its locks are free.
Rollback(q) ==
  /\ job'     = [r \in Rows |-> IF job[r].txn = q THEN Absent ELSE job[r]]
  /\ project' = [p \in Projects |-> [project[p] EXCEPT !.lock = Released(q, project[p].lock)]]
  /\ ReleaseAccount(q)

\* The authoritative credit check, under both locks.
Admit(q) ==
  /\ At(q, "locked")
  /\ IF HasCredit(q, request[q].user)
     THEN Go(q, "preparing") /\ UNCHANGED <<job, project, account>>
     ELSE Proceeds(q, {}) /\ Rollback(q)
  /\ UNCHANGED <<tally, spent>>

\* prepareAnalysisRun: the guard of the tuple, and the INSERT. A twin refuses the
\* /analyze request; the webhook goes on with the next scope.
Prepare(q, t) ==
  LET p == request[q].project
  IN /\ At(q, "preparing") /\ t \in request[q].asks
     /\ IF \E r \in Rows : Twin(q, r, "analysis", p, t)
        THEN IF request[q].kind = "analyze"
             THEN Proceeds(q, {}) /\ Rollback(q)
             ELSE /\ request' = [request EXCEPT ![q].asks = request[q].asks \ {t}]
                  /\ UNCHANGED <<job, project, account>>
        ELSE /\ \E r \in Rows :
                  /\ NextRow(r)
                  /\ job' = [job EXCEPT ![r] =
                       [status |-> "queued", project |-> p, user |-> request[q].user,
                        kind |-> "analysis", via |-> request[q].kind, asked |-> t, target |-> t,
                        txn |-> q, held |-> TRUE, run |-> "none"]]
             /\ request' = [request EXCEPT ![q].asks = request[q].asks \ {t}]
             /\ UNCHANGED <<project, account>>
     /\ UNCHANGED <<tally, spent>>

\* An error inside the transaction: catch, ROLLBACK, release.
TxnThrows(q) ==
  /\ request[q].kind \in {"analyze", "push"}
  /\ request[q].at \in {"open", "mine", "locked", "preparing"}
  /\ Proceeds(q, {})
  /\ Rollback(q)
  /\ UNCHANGED tally

\* The INSERT of a request without a transaction fails.
InsertThrows(q) ==
  /\ At(q, "inserting")
  /\ Proceeds(q, {})
  /\ UNCHANGED <<job, project, account, tally>>

\* The bound on rows is an error of the INSERT.
OutOfRows(q) ==
  /\ \A r \in Rows : job[r].status # "absent"
  /\ TxnThrows(q) \/ InsertThrows(q)
  /\ UNCHANGED spent

Own(q) == {r \in Rows : job[r].txn = q}

\* The status goes with the rows. A webhook that inserted none leaves it alone.
Commit(q) ==
  /\ At(q, "preparing") /\ request[q].asks = {}
  /\ job'     = [r \in Rows |-> [job[r] EXCEPT !.txn = Released(q, job[r].txn)]]
  /\ project' = [p \in Projects |->
       [status |-> IF p = request[q].project /\ Own(q) # {} THEN "analyzing" ELSE project[p].status,
        lock   |-> Released(q, project[p].lock)]]
  /\ ReleaseAccount(q)
  /\ Proceeds(q, Own(q))
  /\ UNCHANGED <<tally, spent>>

-----------------------------------------------------------------------------
(* The submission to the queue *)

\* Queue.add. A row that has a delivery keeps that one here.
Delivered(r) == [job EXCEPT ![r].run = IF job[r].run = "none" THEN "waiting" ELSE job[r].run]

Submit(q, r) ==
  /\ At(q, "submitting") /\ r \in request[q].left
  /\ job' = Delivered(r)
  /\ Proceeds(q, request[q].left \ {r})
  /\ UNCHANGED <<project, account, tally, spent>>

\* The add throws, whether or not the entry landed.
SubmitThrows(q, r) ==
  /\ Fault /\ At(q, "submitting") /\ r \in request[q].left
  /\ job' = job \/ job' = Delivered(r)
  /\ request' = [request EXCEPT ![q].at = "failing", ![q].left = request[q].left \ {r}, ![q].row = r]
  /\ UNCHANGED <<project, account, tally>>

\* Mutant of FailRow: the guard on the row's status is missing.
FailAnyRow(q) ==
  /\ At(q, "failing") /\ PoolFree
  /\ SetStatus(request[q].row, "failed")
  /\ tally' = [tally EXCEPT ![q] = "owed"]
  /\ Go(q, "answering")
  /\ UNCHANGED <<project, account, spent>>

\* failUnsubmittedJob, on a connection of its own.
FailRow(q) ==
  /\ At(q, "failing") /\ PoolFree
  /\ IF job[request[q].row].status = "queued" THEN SetStatus(request[q].row, "failed")
                                              ELSE UNCHANGED job
  /\ tally' = [tally EXCEPT ![q] = "owed"]
  /\ Go(q, "answering")
  /\ UNCHANGED <<project, account, spent>>

\* No connection came free in time: the error is logged, the row stays 'queued'.
FailRowTimesOut(q) ==
  /\ At(q, "failing") /\ ~PoolFree
  /\ Proceeds(q, request[q].left)
  /\ UNCHANGED <<job, project, account, tally, spent>>

-----------------------------------------------------------------------------
(* recomputeProjectStatus *)

ProjectOf(a) == IF a \in Requests THEN request[a].project ELSE job[a].project

\* The statement's snapshot: what is committed when it starts.
CountOf(p) ==
  IF \E r \in Rows : Seen(r) /\ job[r].project = p /\ IsActive(job[r].status)
  THEN "analyzing" ELSE "settled"

Count(a) ==
  /\ tally[a] = "owed"
  /\ a \in Requests /\ request[a].kind # "sweep" => PoolFree
  /\ tally' = [tally EXCEPT ![a] = CountOf(ProjectOf(a))]
  /\ UNCHANGED <<job, project, account, request, spent>>

\* The caller of the recompute goes on: a request with its next row, a run to its end.
Resumes(a) ==
  IF a \in Requests
  THEN Proceeds(a, request[a].left) /\ UNCHANGED job
  ELSE /\ job' = [job EXCEPT ![a].run = IF job[a].run = "retrying" THEN "waiting" ELSE "none"]
       /\ UNCHANGED request

\* Its UPDATE, once no transaction holds the row. READ COMMITTED fetches the new
\* version of the locked row but evaluates the EXISTS of the snapshot.
CountWrite(a) ==
  /\ tally[a] \in {"analyzing", "settled"}
  /\ RowFree(ProjectOf(a))
  /\ project' = [project EXCEPT ![ProjectOf(a)].status = tally[a]]
  /\ tally'   = [tally EXCEPT ![a] = None]
  /\ Resumes(a)
  /\ UNCHANGED <<account, spent>>

CountTimesOut(q) ==
  /\ tally[q] = "owed" /\ request[q].kind # "sweep" /\ ~PoolFree
  /\ tally' = [tally EXCEPT ![q] = None]
  /\ Resumes(q)
  /\ UNCHANGED <<project, account, spent>>

-----------------------------------------------------------------------------
(* Requests that take no lock *)

\* Pause and Stop: one guarded statement, then the recompute.
Halt(q, r, s) ==
  /\ Click /\ At(q, "idle") /\ Seen(r)
  /\ IsActive(job[r].status) \/ (s = "failed" /\ job[r].status = "paused")
  /\ SetStatus(r, s)
  /\ tally' = [tally EXCEPT ![q] = "owed"]
  /\ request' = [request EXCEPT ![q] =
       [Idle EXCEPT !.at = "answering", !.kind = "click", !.project = job[r].project]]
  /\ UNCHANGED <<project, account>>

\* POST /resume: the credit, the row and its twins are read ...
ResumeCheck(q, u, r) ==
  /\ Click /\ At(q, "idle") /\ HasCredit(q, u)
  /\ Seen(r) /\ job[r].status \in {"paused", "failed"}
  /\ ~\E x \in Rows \ {r} : Twin(q, x, job[r].kind, job[r].project, job[r].target)
  /\ request' = [request EXCEPT ![q] =
       [Idle EXCEPT !.at = "checked", !.kind = "resume", !.user = u,
                    !.project = job[r].project, !.row = r]]
  /\ UNCHANGED <<job, project, account, tally>>

\* ... then the row is written, whatever it has become ...
ResumeWrite(q) ==
  /\ At(q, "checked")
  /\ SetStatus(request[q].row, "queued")
  /\ IF job[request[q].row].kind = "analysis" THEN Go(q, "marking")
                                              ELSE Proceeds(q, {request[q].row})
  /\ UNCHANGED <<project, account, tally, spent>>

\* ... and, for an analysis, the project, whatever the row has become.
ResumeMark(q) ==
  /\ At(q, "marking") /\ RowFree(request[q].project)
  /\ project' = [project EXCEPT ![request[q].project].status = "analyzing"]
  /\ Proceeds(q, {request[q].row})
  /\ UNCHANGED <<job, account, tally, spent>>

\* POST /summarize and POST /generate: an analysed target and no twin ...
GenerateCheck(q, u, p, t) ==
  /\ Click /\ At(q, "idle") /\ HasCredit(q, u)
  /\ \E r \in Rows : Seen(r) /\ job[r].project = p /\ job[r].target = t
                     /\ job[r].kind = "analysis" /\ job[r].status = "complete"
  /\ ~\E r \in Rows : Twin(q, r, "generation", p, t)
  /\ request' = [request EXCEPT ![q] =
       [Idle EXCEPT !.at = "inserting", !.kind = "generate", !.user = u,
                    !.project = p, !.asks = {t}]]
  /\ UNCHANGED <<job, project, account, tally>>

Generation(u, p, t, s, run) ==
  [status |-> s, project |-> p, user |-> u, kind |-> "generation", via |-> "other",
   asked |-> t, target |-> t, txn |-> None, held |-> FALSE, run |-> run]

\* ... then the INSERT, in a statement of its own.
GenerateInsert(q, r) ==
  /\ At(q, "inserting") /\ RowFree(request[q].project) /\ NextRow(r)
  /\ \E t \in request[q].asks :
       job' = [job EXCEPT ![r] = Generation(request[q].user, request[q].project, t, "queued", "none")]
  /\ Proceeds(q, {r})
  /\ UNCHANGED <<project, account, tally, spent>>

-----------------------------------------------------------------------------
(* The workers: the first and the last statements of a run *)

\* An executor that is not waiting for a recompute.
Working(r) == job[r].run = "working" /\ tally[r] = None

Begin(r) ==
  /\ job[r].run = "waiting"
  /\ job' = [job EXCEPT ![r] = IF job[r].status \in {"paused", "failed"}
                               THEN Moved(r, job[r].status, "none")
                               ELSE Moved(r, "running", "working")]
  /\ UNCHANGED <<project, account, request, tally, spent>>

\* A head run learns its commit.
Stamp(r, c) ==
  /\ Working(r) /\ job[r].target \in Heads
  /\ job' = [job EXCEPT ![r].target = c]
  /\ UNCHANGED <<project, account, request, tally, spent>>

\* The last write of a run, and the recompute that follows it.
Ends(r, s, run) ==
  /\ job'   = [job EXCEPT ![r] = Moved(r, s, run)]
  /\ tally' = [tally EXCEPT ![r] = "owed"]

\* The duplicate guard, against an active run of the commit. created_at is the start
\* of the inserting transaction, so either of two rows may be the older.
BowOut(r) ==
  /\ Working(r) /\ job[r].kind = "analysis" /\ job[r].target \in Commits
  /\ \E x \in Rows \ {r} : Twin(None, x, "analysis", job[r].project, job[r].target)
  /\ Ends(r, "failed", "leaving")
  /\ UNCHANGED <<project, account, request, spent>>

\* The terminal write has no guard. An analysis may chain a generation.
Complete(r) ==
  /\ Working(r) /\ job[r].target \in Commits
  /\ \/ Ends(r, "complete", "leaving")
     \/ /\ job[r].kind = "analysis"
        /\ job' = [job EXCEPT ![r] = Moved(r, "complete", "finished")]
        /\ UNCHANGED tally
  /\ UNCHANGED <<project, account, request, spent>>

\* enqueueSummaryGeneration: the row is inserted and submitted, or failed when the
\* queue refuses it. Either way the recompute follows.
Chain(r, g) ==
  /\ job[r].run = "finished" /\ RowFree(job[r].project) /\ NextRow(g)
  /\ \E new \in {<<"queued", "waiting">>, <<"failed", "none">>} :
       /\ job' = [job EXCEPT ![r].run = "leaving",
            ![g] = Generation(job[r].user, job[r].project, job[r].target, new[1], new[2])]
       /\ IF new[1] = "failed" THEN Fault ELSE UNCHANGED spent
  /\ tally' = [tally EXCEPT ![r] = "owed"]
  /\ UNCHANGED <<project, account, request>>

\* recordJobFailure, while a redelivery is left. A generation that will be retried
\* leaves the project alone.
Retry(r) ==
  LET s == IF job[r].status \in {"paused", "complete"} THEN job[r].status ELSE "queued"
  IN /\ Fault /\ Working(r)
     /\ IF job[r].kind = "analysis"
        THEN Ends(r, s, "retrying")
        ELSE job' = [job EXCEPT ![r] = Moved(r, s, "waiting")] /\ UNCHANGED tally
     /\ UNCHANGED <<project, account, request>>

\* recordJobFailure, on the last attempt.
Fail(r) ==
  /\ Fault /\ Working(r)
  /\ Ends(r, "failed", "leaving")
  /\ UNCHANGED <<project, account, request>>

\* The AI budget or a provider pauses the run. A generation recomputes the
\* project's status, the pause branch of an analysis does not.
Park(r) ==
  /\ Fault /\ Working(r)
  /\ IF job[r].kind = "analysis"
     THEN job' = [job EXCEPT ![r] = Moved(r, "paused", "none")] /\ UNCHANGED tally
     ELSE Ends(r, "paused", "leaving")
  /\ UNCHANGED <<project, account, request>>

\* The kill switch: the route that halted the row recomputed the status.
Quit(r) ==
  /\ Working(r) /\ job[r].status \in {"paused", "failed"}
  /\ job' = [job EXCEPT ![r].run = "none"]
  /\ UNCHANGED <<project, account, request, tally, spent>>

\* The executor dies, wherever it is. BullMQ may deliver the entry again.
Crash(r) ==
  /\ Fault /\ job[r].run \in {"working", "finished", "leaving", "retrying"}
  /\ \E run \in {"none", "waiting"} : job' = [job EXCEPT ![r].run = run]
  /\ tally' = [tally EXCEPT ![r] = None]
  /\ UNCHANGED <<project, account, request>>

-----------------------------------------------------------------------------
(* The recovery sweep, and requests that die *)

\* reconcileOrphanedJobs: a running row nobody works on is re-queued or failed,
\* a queued row the queue does not know is failed. Then the recompute.
Sweep(q, r) ==
  /\ Click /\ At(q, "idle") /\ Seen(r)
  /\ \/ job[r].status = "running" /\ job[r].run \in {"none", "waiting"}
        /\ \/ job' = [job EXCEPT ![r] = Moved(r, "queued", "waiting")]
           \/ SetStatus(r, "failed")
     \/ job[r].status = "queued" /\ job[r].run = "none" /\ SetStatus(r, "failed")
  /\ tally' = [tally EXCEPT ![q] = "owed"]
  /\ request' = [request EXCEPT ![q] =
       [Idle EXCEPT !.at = "answering", !.kind = "sweep", !.project = job[r].project]]
  /\ UNCHANGED <<project, account>>

\* The process dies: its transaction rolls back, a committed row stays as it is.
Die(q) ==
  /\ Fault /\ request[q].at # "idle"
  /\ Proceeds(q, {})
  /\ tally' = [tally EXCEPT ![q] = None]
  /\ Rollback(q)

-----------------------------------------------------------------------------
(* The specification *)

Starting(q) ==
  \/ Connect(q) \/ LockUser(q) \/ LockProject(q) \/ Admit(q)
  \/ \E t \in Targets : Prepare(q, t)
  \/ Commit(q) \/ OutOfRows(q)

Submitting(q) ==
  \/ \E r \in Rows : Submit(q, r)
  \/ FailRow(q) \/ FailRowTimesOut(q)

Unlocked(q) ==
  \/ ResumeWrite(q) \/ ResumeMark(q)
  \/ \E r \in Rows : GenerateInsert(q, r)

Counts(a) == Count(a) \/ CountWrite(a)

\* What a request that is under way does next, by itself.
Serve(q) == Starting(q) \/ Submitting(q) \/ Unlocked(q) \/ Counts(q) \/ CountTimesOut(q)

Happens(q) ==
  \/ \E u \in Users, p \in Projects, t \in Targets : Arrive(q, u, p, t) \/ GenerateCheck(q, u, p, t)
  \/ \E p \in Projects, ts \in SUBSET Commits \ {{}} : Push(q, p, ts)
  \/ \E r \in Rows, s \in {"paused", "failed"} : Halt(q, r, s)
  \/ \E u \in Users, r \in Rows : ResumeCheck(q, u, r)
  \/ \E r \in Rows : Sweep(q, r) \/ SubmitThrows(q, r)
  \/ Fault /\ (TxnThrows(q) \/ InsertThrows(q))
  \/ Die(q)

Work(r) ==
  \/ Begin(r) \/ BowOut(r) \/ Complete(r) \/ Retry(r) \/ Fail(r) \/ Park(r) \/ Quit(r) \/ Crash(r)
  \/ \E c \in Commits : Stamp(r, c)
  \/ \E g \in Rows : Chain(r, g)
  \/ Counts(r)

Next == (\E q \in Requests : Serve(q) \/ Happens(q)) \/ (\E r \in Rows : Work(r))

Spec == Init /\ [][Next]_vars

FairSpec == Spec /\ \A q \in Requests : WF_vars(Serve(q))

-----------------------------------------------------------------------------
(* Properties *)

\* A row still names the target it was inserted with.
Unmoved(r) == job[r].asked = job[r].target

\* prepareAnalysisRun, "The caller's FOR UPDATE project lock serializes racing
\* requests": of two runs of one project and target that were started by /analyze
\* or a push and have been active since, there is only one. Clicks, redelivered
\* pushes, retries and recoveries included.
TuplesExclusive ==
  \A r, x \in Rows :
    r # x /\ job[r].held /\ job[x].held /\ Unmoved(r) /\ Unmoved(x)
    /\ job[r].project = job[x].project => job[r].target # job[x].target

\* POST /analyze, "a burst of concurrent starts cannot slip past the budget": a
\* user's runs started by /analyze that have been active since stay within
\* maxConcurrent, over all projects.
Started(u) == {r \in Rows : job[r].held /\ job[r].via = "analyze" /\ job[r].user = u}

CreditKept == \A u \in Users : Cardinality(Started(u)) <= MaxConcurrent

\* failUnsubmittedJob, "so a worker that DID pick the job up despite the error is
\* never stomped mid-run".
NeverStomped ==
  [][\A q \in Requests : \A r \in Rows :
       At(q, "failing") /\ request'[q].at # "failing" /\ request[q].row = r
       /\ job[r].status = "running" => job'[r].status = "running"]_vars

\* Locks and connections are given back on every path: no request waits for ever.
RequestsEnd == \A q \in Requests : request[q].at # "idle" ~> At(q, "idle")

-----------------------------------------------------------------------------
(* What the comments of the code promise and the code does not keep *)

\* lib/db.ts: "no code path holds a client while awaiting another acquisition, so
\* there is nothing to deadlock on." The pool is never taken up by requests that
\* all wait for a second connection.
WaitsForMore(q) == HoldsClient(q) /\ (At(q, "failing") \/ tally[q] = "owed")

PoolNeverWedged == PoolMax > 0 => Cardinality({q \in Requests : WaitsForMore(q)}) < PoolMax

\* projectStatus.ts: "any active job => analyzing; else anything ever completed =>
\* complete", once nobody is about to change anything.
Quiet(p) ==
  /\ \A q \in Requests : request[q].at # "idle" => request[q].project # p
  /\ \A r \in Rows : Seen(r) /\ job[r].project = p =>
       tally[r] = None /\ ~IsActive(job[r].status) /\ job[r].run = "none"

StatusAgrees == \A p \in Projects : Quiet(p) => project[p].status = "settled"

\* POST /resume, "Per-tuple guard, mirroring POST /analyze: only an identical active
\* run blocks the resume".
NoTwins ==
  \A r, x \in Rows : r # x /\ Seen(x) /\ Unmoved(r) /\ Unmoved(x) /\ job[r].kind = job[x].kind =>
    ~(IsActive(job[x].status) /\ Twin(None, r, job[x].kind, job[x].project, job[x].target))
=============================================================================
