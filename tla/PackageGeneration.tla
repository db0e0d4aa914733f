------------------------- MODULE PackageGeneration -------------------------
(* How an onboarding package is written: full generations, repairs of its   *)
(* stale sections and regenerations of one section, each a row of           *)
(* analysis_jobs delivered by the summary queue and run by processSummaryJob *)
(* (worker/summaryWorker.ts), while users pause, stop, resume and review,    *)
(* newer analyses flag sections stale, and processes die.                   *)
(* One action is one database statement, or a run of statements that no     *)
(* other actor's statement can tell apart. The tutorials of a package are   *)
(* left out. The package has the identity of commit 0, and an analysis of   *)
(* commit 1 may finish.                                                     *)
EXTENDS Naturals, FiniteSets

CONSTANTS
  Jobs,         \* rows of analysis_jobs
  Kind,         \* what each row asks for: "full", "stale" or "section"
  Entries,      \* deliveries the summary queue can hold
  Sections,     \* SECTION_TYPES
  Built,        \* the package exists already, every section current
  StopBehavior, \* budget_stop_behavior: "pause", "degrade" or "fail"
  Concurrency,  \* SUMMARY_CONCURRENCY over all replicas
  MaxRecovery,  \* MAX_RECOVERY_ATTEMPTS
  MaxRateLimit, \* MAX_RATE_LIMIT_RESUMES
  MaxStalled,   \* BullMQ's maxStalledCount
  MaxClicks,    \* bound: pause, stop and resume clicks
  MaxReviews,   \* bound: reviews of a section
  MaxCrashes,   \* bound: executors killed
  MaxFaults,    \* bound: errors thrown, and analyses that fail
  MaxLost,      \* bound: submissions that do not reach the queue
  MaxCommits    \* bound: analyses of the newer commit

ASSUME KindAssumption   == Kind \in [Jobs -> {"full", "stale", "section"}]
ASSUME LimitsAssumption == {Concurrency, MaxRecovery, MaxRateLimit, MaxStalled} \subseteq Nat
ASSUME BoundsAssumption == {MaxClicks, MaxReviews, MaxCrashes, MaxFaults, MaxLost} \subseteq Nat
ASSUME OptionAssumption == /\ Built \in BOOLEAN
                           /\ StopBehavior \in {"pause", "degrade", "fail"}
                           /\ MaxCommits \in 0..1

None == "none"

VARIABLES
  job,      \* analysis_jobs: status and checkpoint
  entry,    \* the queue's deliveries
  run,      \* processSummaryJob, for each delivery being executed
  package,  \* onboarding_packages.status
  rows,     \* package_sections
  snapshot, \* analysis_snapshots.status of commit 0
  gaps,     \* the kinds of analysis_snapshots.unknowns a generation records
  code,     \* the newer commit: what it changed and how far it is flagged
  spent     \* what the bounds have been used for

vars == <<job, entry, run, package, rows, snapshot, gaps, code, spent>>

-----------------------------------------------------------------------------
(* State *)

\* recov and rate are checkpoint.recovery.attempts and .rateLimitResumes; done is
\* checkpoint.completedSections; onlyStale is checkpoint.onlyStale.
JobRow ==
  [status : {"absent", "queued", "running", "paused", "failed", "complete"},
   done : SUBSET Sections, onlyStale : BOOLEAN, about : Sections \union {None},
   commit : 0..1, recov : 0..(MaxRecovery + 1), rate : 0..MaxRateLimit]

FreeEntry == [at |-> "free", job |-> None, onlyStale |-> FALSE, left |-> 0, stalls |-> 0]
Entry == {FreeEntry} \union
  [at : {"waiting", "running", "dead"}, job : Jobs, onlyStale : BOOLEAN,
   left : 1..2, stalls : 0..MaxStalled]

\* lane: how far each section is. cursor: the checkpoint a lane is about to save.
\* held: failedPackageId is set. have and missing: completedSections, failedSections.
NoRun == [pc |-> "off", flow |-> None, held |-> FALSE, lane |-> [s \in Sections |-> "over"],
          cursor |-> [s \in Sections |-> {}], have |-> {}, missing |-> {}, err |-> None]
Running ==
  [pc : {"open", "sections", "settle", "ship", "validate", "finish", "late",
         "caught", "parked", "lost"},
   flow : {"full", "stale", "section"}, held : BOOLEAN,
   lane : [Sections -> {"asking", "ready", "bare", "told", "saving", "over"}],
   cursor : [Sections -> SUBSET Sections],
   have : SUBSET Sections, missing : SUBSET Sections,
   err : {None, "rate", "budget", "kill", "hard"}]

\* good: not the placeholder of a section that could not be generated. by: the
\* delivery that inserted the row. commit: the snapshot its content was made from.
SectionRow ==
  [sec : Sections, by : Entries \union {None}, good : BOOLEAN, commit : 0..1,
   review : {"draft", "approved", "stale", "regenerate_requested"}]

TypeOK ==
  /\ job      \in [Jobs -> JobRow]
  /\ entry    \in [Entries -> Entry]
  /\ run      \in [Entries -> {NoRun} \union Running]
  /\ package  \in {"absent", "generating", "draft", "stale", "failed", "approved"}
  /\ rows     \subseteq SectionRow
  /\ snapshot \in {"complete", "paused", "failed"}
  /\ gaps     \subseteq {"sections_failed", "budget_degraded"}
  /\ code     \in [latest : 0..1, changed : SUBSET Sections,
                   mark : {"no", "sections", "package", "done"}]
  /\ spent    \in [clicks : 0..MaxClicks, reviews : 0..MaxReviews,
                   crashes : 0..MaxCrashes, faults : 0..MaxFaults, lost : 0..MaxLost]

Init ==
  /\ job      = [j \in Jobs |-> [status |-> "absent", done |-> {}, onlyStale |-> FALSE,
                                 about |-> None, commit |-> 0, recov |-> 0, rate |-> 0]]
  /\ entry    = [e \in Entries |-> FreeEntry]
  /\ run      = [e \in Entries |-> NoRun]
  /\ package  = IF Built THEN "draft" ELSE "absent"
  /\ rows     = IF Built THEN [sec : Sections, by : {None}, good : {TRUE}, commit : {0},
                               review : {"draft"}] ELSE {}
  /\ snapshot = "complete"
  /\ gaps     = {}
  /\ code     = [latest |-> 0, changed |-> {}, mark |-> "no"]
  /\ spent    = [clicks |-> 0, reviews |-> 0, crashes |-> 0, faults |-> 0, lost |-> 0]

Click  == spent.clicks  < MaxClicks  /\ spent' = [spent EXCEPT !.clicks  = @ + 1]
Grade  == spent.reviews < MaxReviews /\ spent' = [spent EXCEPT !.reviews = @ + 1]
Perish == spent.crashes < MaxCrashes /\ spent' = [spent EXCEPT !.crashes = @ + 1]
Fault  == spent.faults  < MaxFaults  /\ spent' = [spent EXCEPT !.faults  = @ + 1]
Lose   == spent.lost    < MaxLost    /\ spent' = [spent EXCEPT !.lost    = @ + 1]

Active(j) == job[j].status \in {"queued", "running"}
Halted(j) == job[j].status \in {"paused", "failed"}
SomeStale == \E r \in rows : r.review = "stale"

\* Queue.add with the data of row j.
Added(e, j, onlyStale, attempts) ==
  [entry EXCEPT ![e] = [at |-> "waiting", job |-> j, onlyStale |-> onlyStale,
                        left |-> attempts, stalls |-> 0]]

IsFree(e) == entry[e].at = "free"

-----------------------------------------------------------------------------
(* API *)

\* The row is committed, then submitted. A submission that throws fails the row
\* (failUnsubmittedJob); a process that dies in between leaves it queued.
Submit(e, j, row) ==
  \/ /\ job'   = [job EXCEPT ![j] = row]
     /\ entry' = Added(e, j, row.onlyStale, 2)
     /\ UNCHANGED spent
  \/ /\ Lose
     /\ \E status \in {"queued", "failed"} : job' = [job EXCEPT ![j] = [row EXCEPT !.status = status]]
     /\ UNCHANGED entry

\* An active generation of the same snapshot, role and branch.
Twin(j) == \E k \in Jobs \ {j} :
  Kind[k] # "section" /\ Active(k) /\ job[k].commit = job[j].commit

\* POST /onboarding/generate. The snapshot of a repair is the newest of its branch,
\* and a repair is refused when nothing is stale.
Generate(j, e) ==
  LET asked == [job[j] EXCEPT !.status = "queued", !.onlyStale = Kind[j] = "stale",
                              !.commit = IF Kind[j] = "stale" THEN code.latest ELSE 0]
  IN /\ Kind[j] # "section" /\ job[j].status = "absent" /\ IsFree(e)
     /\ Kind[j] = "stale" => SomeStale
     /\ ~\E k \in Jobs : Kind[k] # "section" /\ Active(k) /\ job[k].commit = asked.commit
     /\ Submit(e, j, asked)
     /\ UNCHANGED <<run, package, rows, snapshot, gaps, code>>

\* POST /onboarding/sections/:sectionId/regenerate: a stale section is rebuilt from
\* the newest snapshot, another from its own.
Request(j, r, e) ==
  /\ Kind[j] = "section" /\ job[j].status = "absent" /\ IsFree(e)
  /\ rows' = (rows \ {r}) \union {[r EXCEPT !.review = "regenerate_requested"]}
  /\ Submit(e, j, [job[j] EXCEPT !.status = "queued", !.about = r.sec,
                     !.commit = IF r.review = "stale" THEN code.latest ELSE r.commit])
  /\ UNCHANGED <<run, package, snapshot, gaps, code>>

Pause(j) ==
  /\ Click /\ Active(j)
  /\ job' = [job EXCEPT ![j].status = "paused"]
  /\ UNCHANGED <<entry, run, package, rows, snapshot, gaps, code>>

Stop(j) ==
  /\ Click /\ (Active(j) \/ job[j].status = "paused")
  /\ job' = [job EXCEPT ![j].status = "failed"]
  /\ UNCHANGED <<entry, run, package, rows, snapshot, gaps, code>>

\* POST /:id/analysis-jobs/:jobId/resume: the payload is rebuilt from the row, and
\* holds neither onlyStale nor packageId.
Resume(j, e) ==
  /\ Click /\ Halted(j) /\ Kind[j] # "section" /\ ~Twin(j) /\ IsFree(e)
  /\ job'   = [job EXCEPT ![j].status = "queued"]
  /\ entry' = Added(e, j, FALSE, 2)
  /\ UNCHANGED <<run, package, rows, snapshot, gaps, code>>

\* PATCH /sections/:sectionId/review: the section, then the package.
Review(r, verdict) ==
  /\ Grade
  /\ rows'    = (rows \ {r}) \union {[r EXCEPT !.review = verdict]}
  /\ package' = IF \A x \in rows' : x.review = "approved" THEN "approved" ELSE "draft"
  /\ UNCHANGED <<job, entry, run, snapshot, gaps, code>>

API ==
  \/ \E j \in Jobs, e \in Entries : Generate(j, e) \/ Resume(j, e)
  \/ \E j \in Jobs, r \in rows, e \in Entries : Request(j, r, e)
  \/ \E j \in Jobs : Pause(j) \/ Stop(j)
  \/ \E r \in rows, verdict \in {"approved", "draft"} : Review(r, verdict)

-----------------------------------------------------------------------------
(* Analyses of the project *)

\* The analysis of the newer commit persists its snapshot.
NewCommit(changed) ==
  /\ code.latest < MaxCommits
  /\ code' = [latest |-> 1, changed |-> changed, mark |-> "sections"]
  /\ UNCHANGED <<job, entry, run, package, rows, snapshot, gaps, spent>>

Cites(r) == r.good /\ r.sec \in code.changed

\* flagStaleArtifacts: the sections that cite what changed.
MarkSections ==
  LET hit == {r \in rows : Cites(r) /\ r.review # "stale"}
  IN /\ code.mark = "sections"
     /\ rows' = (rows \ hit) \union {[r EXCEPT !.review = "stale"] : r \in hit}
     /\ code' = [code EXCEPT !.mark = IF hit = {} THEN "done" ELSE "package"]
     /\ UNCHANGED <<job, entry, run, package, snapshot, gaps, spent>>

\* flagStaleArtifacts: then their package.
MarkPackage ==
  /\ code.mark = "package"
  /\ package' = "stale"
  /\ code'    = [code EXCEPT !.mark = "done"]
  /\ UNCHANGED <<job, entry, run, rows, snapshot, gaps, spent>>

\* markSnapshotFailed: an analysis of commit 0 fails after its persistence step.
AnalysisFails ==
  /\ Fault /\ snapshot = "complete"
  /\ snapshot' = "failed"
  /\ UNCHANGED <<job, entry, run, package, rows, gaps, code>>

Analyses ==
  \/ \E changed \in SUBSET Sections \ {{}} : NewCommit(changed)
  \/ MarkSections \/ MarkPackage \/ AnalysisFails

-----------------------------------------------------------------------------
(* processSummaryJob *)

Row(e)   == entry[e].job
Flow(e)  == run[e].flow
At(e, p) == entry[e].at = "running" /\ run[e].pc = p
Go(e, p) == run' = [run EXCEPT ![e].pc = p]

\* The delivery ends.
Forget(e) == entry' = [entry EXCEPT ![e] = FreeEntry] /\ run' = [run EXCEPT ![e] = NoRun]

\* updateJob('running') of a row that is not halted; it is unguarded otherwise.
Progress(e) == job' = [job EXCEPT ![Row(e)].status = "running"]

\* Mutant of Repairs: the flag is looked for in the payload only.
RepairsPayload(e) == entry[e].onlyStale

\* The flag of a repair, from the payload or from the row's checkpoint.
Repairs(e) == entry[e].onlyStale \/ job[Row(e)].onlyStale

\* The first throw of a run decides what the catch sees (mapLimit).
Thrown(e, err) == IF run[e].err = None THEN err ELSE run[e].err

\* Mutant of Unrequested: the section is left as it was requested.
KeptRequested(e) == rows

\* catch: the section of a regeneration goes back to 'stale'.
Unrequested(e) ==
  IF Kind[Row(e)] # "section" THEN rows
  ELSE {IF r.sec = job[Row(e)].about /\ r.review = "regenerate_requested"
        THEN [r EXCEPT !.review = "stale"] ELSE r : r \in rows}

\* A worker takes a delivery of a row nobody halted.
Begin(e) ==
  /\ entry[e].at = "waiting" /\ ~Halted(Row(e))
  /\ Cardinality({x \in Entries : entry[x].at = "running"}) < Concurrency
  /\ entry' = [entry EXCEPT ![e].at = "running"]
  /\ run' = [run EXCEPT ![e] =
       [NoRun EXCEPT !.pc = "open", !.have = job[Row(e)].done,
          !.flow = IF Repairs(e) THEN "stale"
                   ELSE IF Kind[Row(e)] = "section" THEN "section" ELSE "full"]]
  /\ Progress(e)
  /\ UNCHANGED <<package, rows, snapshot, gaps, code, spent>>

\* A delivery of a halted row ends at its first updateJob: no package is known yet.
Refuse(e) ==
  /\ entry[e].at = "waiting" /\ Halted(Row(e))
  /\ rows' = Unrequested(e)
  /\ Forget(e)
  /\ UNCHANGED <<job, package, snapshot, gaps, code, spent>>

Wanted(e) ==
  CASE Flow(e) = "full"    -> Sections \ run[e].have
    [] Flow(e) = "stale"   -> {r.sec : r \in {x \in rows : x.review = "stale"}}
    [] Flow(e) = "section" -> {job[Row(e)].about}

\* A resumed generation with nothing pending writes no progress here.
Reports(e) == Flow(e) # "full" \/ Wanted(e) # {}

\* The package row, the work list and the progress write before it. A full
\* generation upserts its package as 'generating'.
Open(e) ==
  /\ At(e, "open")
  /\ package' = IF Flow(e) = "full" THEN "generating" ELSE package
  /\ IF Halted(Row(e)) /\ Reports(e)
     THEN /\ run' = [run EXCEPT ![e].pc = "caught", ![e].err = "kill", ![e].held = TRUE]
          /\ UNCHANGED job
     ELSE /\ run' = [run EXCEPT ![e].pc = "sections", ![e].held = TRUE,
                       ![e].lane = [s \in Sections |->
                          IF s \in Wanted(e) THEN "asking" ELSE "over"]]
          /\ IF Reports(e) THEN Progress(e) ELSE UNCHANGED job
  /\ UNCHANGED <<entry, rows, snapshot, gaps, code, spent>>

Lane(e, s, p)    == At(e, "sections") /\ run[e].lane[s] = p
Move(e, s, p)    == run' = [run EXCEPT ![e].lane[s] = p]
Abort(e, s, err) == run' = [run EXCEPT ![e].lane[s] = "over", ![e].err = Thrown(e, err)]

\* generateSection: the model answered, and the content passed its checks.
Answer(e, s) ==
  /\ Lane(e, s, "asking")
  /\ Move(e, s, "ready")
  /\ UNCHANGED <<job, entry, package, rows, snapshot, gaps, code, spent>>

\* generateSection failed for this section. A full generation records the gap and
\* goes on; the other flows throw.
Miss(e, s) ==
  /\ Fault /\ Lane(e, s, "asking")
  /\ IF Flow(e) = "full"
     THEN run' = [run EXCEPT ![e].lane[s] = "ready", ![e].missing = @ \union {s}]
     ELSE Abort(e, s, "hard")
  /\ UNCHANGED <<job, entry, package, rows, snapshot, gaps, code>>

\* A run-control error: the limiter gave up, the budget is spent, or the batch check
\* of the budget found the row halted.
Control(e, s) ==
  /\ Lane(e, s, "asking")
  /\ \/ Fault /\ \E err \in {"rate", "budget"} : Abort(e, s, err)
     \/ Halted(Row(e)) /\ Abort(e, s, "kill") /\ UNCHANGED spent
  /\ UNCHANGED <<job, entry, package, rows, snapshot, gaps, code>>

\* The two statements that replace a section, or put a placeholder in its stead.
Delete(e, s) ==
  /\ Lane(e, s, "ready")
  /\ rows' = {r \in rows : r.sec # s}
  /\ Move(e, s, "bare")
  /\ UNCHANGED <<job, entry, package, snapshot, gaps, code, spent>>

Insert(e, s) ==
  /\ Lane(e, s, "bare")
  /\ rows' = rows \union {[sec |-> s, by |-> e, good |-> s \notin run[e].missing,
                           commit |-> job[Row(e)].commit, review |-> "draft"]}
  /\ Move(e, s, "told")
  /\ UNCHANGED <<job, entry, package, snapshot, gaps, code, spent>>

\* Mutant of Counted: a section that failed counts as completed.
CountedAnyway(e, s) == run[e].have \union {s}

\* completedSections after the section: failed ones are kept out of it.
Counted(e, s) == IF s \in run[e].missing THEN run[e].have ELSE run[e].have \union {s}

\* The section counts, and the progress write after it: the section of a
\* regeneration has none. The checkpoint to save is read off the set here.
Tell(e, s) ==
  /\ Lane(e, s, "told")
  /\ \/ /\ Flow(e) = "section"
        /\ Move(e, s, "over")
        /\ UNCHANGED job
     \/ /\ Flow(e) # "section" /\ ~Halted(Row(e))
        /\ run' = [run EXCEPT ![e].have = Counted(e, s), ![e].cursor[s] = Counted(e, s),
             ![e].lane[s] = IF Flow(e) = "full" /\ s \notin run[e].missing
                            THEN "saving" ELSE "over"]
        /\ Progress(e)
     \/ /\ Flow(e) # "section" /\ Halted(Row(e))
        /\ run' = [run EXCEPT ![e].have = Counted(e, s), ![e].lane[s] = "over",
                              ![e].err = Thrown(e, "kill")]
        /\ UNCHANGED job
  /\ UNCHANGED <<entry, package, rows, snapshot, gaps, code, spent>>

\* saveCheckpoint: the writes of two lanes land in any order.
Save(e, s) ==
  /\ Lane(e, s, "saving")
  /\ job' = [job EXCEPT ![Row(e)].done = run[e].cursor[s]]
  /\ Move(e, s, "over")
  /\ UNCHANGED <<entry, package, rows, snapshot, gaps, code, spent>>

Degrades(e) == run[e].err = "budget" /\ StopBehavior = "degrade" /\ Flow(e) = "full"

\* mapLimit settles: a full generation whose budget degrades keeps what exists.
Join(e) ==
  /\ At(e, "sections") /\ \A s \in Sections : run[e].lane[s] = "over"
  /\ Go(e, IF run[e].err # None /\ ~Degrades(e) THEN "caught"
           ELSE IF Flow(e) = "full" THEN "ship" ELSE "settle")
  /\ UNCHANGED <<job, entry, package, rows, snapshot, gaps, code, spent>>

\* settlePackageStaleness
Settle(e) ==
  /\ At(e, "settle")
  /\ package' = IF SomeStale THEN "stale" ELSE "draft"
  /\ Go(e, "finish")
  /\ UNCHANGED <<job, entry, rows, snapshot, gaps, code, spent>>

\* Mutant of Recorded: only failed sections are recorded.
RecordedFailures(e) == IF run[e].missing = {} THEN {} ELSE {"sections_failed"}

\* The gaps of the package: what the budget cut off, and what failed.
Recorded(e) == (IF Degrades(e) THEN {"budget_degraded"} ELSE {}) \union
               (IF run[e].missing # {} THEN {"sections_failed"} ELSE {})

\* The package ships as 'draft' whatever its status is, and the snapshot of the
\* generation leaves 'paused' (restoreSnapshotAfterGeneration).
Ship(e) ==
  /\ At(e, "ship")
  /\ gaps'     = gaps \union Recorded(e)
  /\ package'  = "draft"
  /\ snapshot' = IF snapshot = "paused" THEN "complete" ELSE snapshot
  /\ Go(e, "validate")
  /\ UNCHANGED <<job, entry, rows, code, spent>>

\* The progress write of the validation phase.
Validate(e) ==
  /\ At(e, "validate")
  /\ IF Halted(Row(e))
     THEN run' = [run EXCEPT ![e].pc = "caught", ![e].err = "kill"] /\ UNCHANGED job
     ELSE Go(e, "finish") /\ Progress(e)
  /\ UNCHANGED <<entry, package, rows, snapshot, gaps, code, spent>>

\* updateJob('complete') is unguarded: a run finishing beats a just-clicked pause.
Finish(e) ==
  /\ At(e, "finish")
  /\ job' = [job EXCEPT ![Row(e)].status = "complete"]
  /\ Go(e, "late")
  /\ UNCHANGED <<entry, package, rows, snapshot, gaps, code, spent>>

\* recomputeProjectStatus returned; had it thrown, Break would send the complete
\* row to the catch.
Return(e) ==
  /\ At(e, "late")
  /\ Forget(e)
  /\ UNCHANGED <<job, package, rows, snapshot, gaps, code, spent>>

\* Any other statement throws: a lost connection, a missing row.
Break(e) ==
  /\ Fault /\ \E p \in {"open", "settle", "ship", "validate", "finish", "late"} : At(e, p)
  /\ run' = [run EXCEPT ![e].pc = "caught", ![e].err = "hard"]
  /\ UNCHANGED <<job, entry, package, rows, snapshot, gaps, code>>

\* Mutant of Settled: a paused generation leaves its package as it is.
LeftGenerating(e) == package

\* settleStoppedPackage: what survived decides what a generation leaves behind.
Settled(e) ==
  IF ~run[e].held \/ package # "generating" THEN package
  ELSE IF rows = {} THEN "failed" ELSE "draft"

\* catch, a kill switch: the status was set by the API.
CatchKill(e) ==
  /\ At(e, "caught") /\ run[e].err = "kill"
  /\ rows'    = Unrequested(e)
  /\ package' = Settled(e)
  /\ Forget(e)
  /\ UNCHANGED <<job, snapshot, gaps, code, spent>>

Claimable(e) ==
  run[e].err = "rate" /\ job[Row(e)].status = "running" /\ job[Row(e)].rate < MaxRateLimit

\* catch, a rate limit: claimRateLimitResume, and a delayed delivery with the same
\* data and one attempt. The package stays 'generating' until the run comes back.
CatchRate(e) ==
  /\ At(e, "caught") /\ Claimable(e)
  /\ rows'  = Unrequested(e)
  /\ job'   = [job EXCEPT ![Row(e)].status = "queued", ![Row(e)].rate = @ + 1]
  /\ entry' = Added(e, Row(e), entry[e].onlyStale, 1)
  /\ run'   = [run EXCEPT ![e] = NoRun]
  /\ UNCHANGED <<package, snapshot, gaps, code, spent>>

Pauses(e) ==
  \/ run[e].err = "rate" /\ ~Claimable(e)
  \/ run[e].err = "budget" /\ StopBehavior = "pause"

\* catch, any other pause: the snapshot and the package first, then the row.
Park(e) ==
  /\ At(e, "caught") /\ Pauses(e)
  /\ rows'     = Unrequested(e)
  /\ snapshot' = "paused"
  /\ package'  = Settled(e)
  /\ Go(e, "parked")
  /\ UNCHANGED <<job, entry, gaps, code, spent>>

Parked(e) ==
  /\ At(e, "parked")
  /\ job' = [job EXCEPT ![Row(e)].status = "paused"]
  /\ Forget(e)
  /\ UNCHANGED <<package, rows, snapshot, gaps, code, spent>>

Fails(e) == At(e, "caught") /\ run[e].err \in {"hard", "budget"} /\ ~Pauses(e)

Condemned(e) == IF run[e].err = "budget" /\ StopBehavior = "fail" THEN "failed" ELSE snapshot

\* recordJobFailure, attempts left: the row is queued unless it is paused or
\* complete, and BullMQ redelivers.
Retry(e) ==
  /\ Fails(e) /\ entry[e].left > 1
  /\ rows'     = Unrequested(e)
  /\ snapshot' = Condemned(e)
  /\ job'      = [job EXCEPT ![Row(e)].status = IF @ \in {"paused", "complete"} THEN @ ELSE "queued"]
  /\ entry'    = [entry EXCEPT ![e].at = "waiting", ![e].left = 1]
  /\ run'      = [run EXCEPT ![e] = NoRun]
  /\ UNCHANGED <<package, gaps, code, spent>>

\* recordJobFailure, the last attempt: whatever the row is, it fails.
Fail(e) ==
  /\ Fails(e) /\ entry[e].left = 1
  /\ rows'     = Unrequested(e)
  /\ snapshot' = Condemned(e)
  /\ job'      = [job EXCEPT ![Row(e)].status = "failed"]
  /\ Go(e, "lost")
  /\ UNCHANGED <<entry, package, gaps, code, spent>>

\* Then its package.
FailPackage(e) ==
  /\ At(e, "lost")
  /\ package' = IF run[e].held THEN "failed" ELSE package
  /\ Forget(e)
  /\ UNCHANGED <<job, rows, snapshot, gaps, code, spent>>

Section(e, s) ==
  \/ Answer(e, s) \/ Control(e, s) \/ Delete(e, s) \/ Insert(e, s) \/ Tell(e, s) \/ Save(e, s)

Catch(e) ==
  \/ CatchKill(e) \/ CatchRate(e) \/ Park(e) \/ Parked(e)
  \/ Retry(e) \/ Fail(e) \/ FailPackage(e)

Execute(e) ==
  \/ Begin(e) \/ Refuse(e) \/ Open(e) \/ \E s \in Sections : Section(e, s)
  \/ Join(e) \/ Settle(e) \/ Ship(e) \/ Validate(e) \/ Finish(e) \/ Return(e)
  \/ Catch(e)

-----------------------------------------------------------------------------
(* Processes die, and the queue and the recovery sweep find out *)

Crash(e) ==
  /\ Perish /\ entry[e].at = "running"
  /\ entry' = [entry EXCEPT ![e].at = "dead"]
  /\ run'   = [run EXCEPT ![e] = NoRun]
  /\ UNCHANGED <<job, package, rows, snapshot, gaps, code>>

\* The lock of a dead worker expires: redelivered MaxStalled times, then failed.
Redeliver(e) ==
  /\ entry[e].at = "dead"
  /\ entry' = IF entry[e].stalls < MaxStalled
              THEN [entry EXCEPT ![e].at = "waiting", ![e].stalls = @ + 1]
              ELSE [entry EXCEPT ![e] = FreeEntry]
  /\ UNCHANGED <<job, run, package, rows, snapshot, gaps, code, spent>>

Beats(j) == \E e \in Entries : entry[e].at = "running" /\ entry[e].job = j

\* claimOrphans finds no heartbeat. requeueGeneration rebuilds the payload from the
\* row; a regeneration of a section, or a row lost too often, fails (failOrphan).
\* Neither touches the package.
Reclaim(j, e) ==
  /\ job[j].status = "running" /\ ~Beats(j)
  /\ LET again == Kind[j] # "section" /\ job[j].recov < MaxRecovery
     IN /\ job' = [job EXCEPT ![j].status = IF again THEN "queued" ELSE "failed",
                              ![j].recov  = IF @ > MaxRecovery THEN @ ELSE @ + 1]
        /\ IF again THEN IsFree(e) /\ entry' = Added(e, j, FALSE, 1) ELSE UNCHANGED entry
  /\ UNCHANGED <<run, package, rows, snapshot, gaps, code, spent>>

\* failStrandedQueued: the queue never heard of the row.
Strand(j) ==
  /\ job[j].status = "queued" /\ \A e \in Entries : entry[e].job # j
  /\ job' = [job EXCEPT ![j].status = "failed"]
  /\ UNCHANGED <<entry, run, package, rows, snapshot, gaps, code, spent>>

Sweep == \E j \in Jobs : Strand(j) \/ \E e \in Entries : Reclaim(j, e)

Chance == \E e \in Entries : Crash(e) \/ Break(e) \/ \E s \in Sections : Miss(e, s)

Next ==
  \/ API \/ Analyses \/ Chance \/ Sweep
  \/ \E e \in Entries : Execute(e) \/ Redeliver(e)

Spec == Init /\ [][Next]_vars

\* Workers go on, locks expire and the sweep runs every two minutes. Nobody has to
\* click, no analysis has to run, and nothing has to go wrong.
Fairness ==
  /\ \A e \in Entries : WF_vars(Execute(e)) /\ WF_vars(Redeliver(e))
  /\ WF_vars(Sweep)

FairSpec == Spec /\ Fairness

-----------------------------------------------------------------------------
(* Properties *)

Quiet == /\ \A e \in Entries : IsFree(e)
         /\ \A j \in Jobs : ~Active(j)

\* A section the checkpoint of a generation counts as completed is there, with
\* content: the resumed run will not make it again. (saveCheckpoint, and the
\* completedSections a resumed run skips)
CheckpointHonest ==
  \A j \in Jobs : \A s \in job[j].done : \E r \in rows : r.sec = s /\ r.good

\* A complete generation accounts for every section: it has content, or there is a
\* placeholder and a recorded gap, or the budget's cut is recorded.
\* (recordMissingSection, recordFailedSectionGap, budget_degraded)
GapsAreRecorded ==
  \A j \in Jobs : Kind[j] = "full" /\ job[j].status = "complete" =>
    \A s \in Sections :
      \/ "budget_degraded" \in gaps
      \/ \E r \in rows : r.sec = s /\ (r.good \/ "sections_failed" \in gaps)

\* A repair of the stale sections stays one over crashes, recoveries and resumes,
\* although the payload they rebuild has lost the flag. (checkpoint.onlyStale)
ScopeKept ==
  \A e \in Entries : entry[e].at = "running" /\ Kind[entry[e].job] = "stale" => Flow(e) = "stale"

Requested == \E r \in rows : r.review = "regenerate_requested"

\* A requested section gets its answer, be it new content or the Regenerate button
\* back, even when the worker dies or the run is stopped: it holds as long as the
\* submission reaches the queue. (the catch of processSummaryJob, and the
\* redelivery it depends on: "the Regenerate button comes back")
RequestIsAnswered == Requested ~> ~Requested

Undisturbed == spent.crashes + spent.faults + spent.lost = 0

\* A package does not stay 'generating' when its runs are paused, stopped and
\* resumed at any moment. (settleStoppedPackage; NotWedged shows that it may
\* when something fails as well)
GenerationSettles ==
  package = "generating" /\ Undisturbed ~> package # "generating" \/ ~Undisturbed

\* A package is 'generating' only while a run of it is alive. (summaryWorker.ts:
\* "'draft', never 'generating' -- the run is over either way")
NotWedged == Quiet => package # "generating"

\* A package holds one version of each section. (sectionGenerator.ts: "Replace the
\* previous version of this section")
OneRowEach == \A r1, r2 \in rows : r1.sec = r2.sec => r1 = r2

\* A section of a finished package is never simply absent. (runStatus.ts: "a NAMED
\* GAP instead of a hole")
NoHole == Quiet /\ Built => \A s \in Sections : \E r \in rows : r.sec = s

\* Content that cites what a newer analysis changed is stale when the analysis has
\* flagged its artifacts. (flagStaleArtifacts)
OldContentIsFlagged ==
  Quiet /\ code.mark = "done" =>
    \A r \in rows : Cites(r) /\ r.commit = 0 => r.review = "stale"

\* A package with stale content is 'stale'. (settlePackageStaleness: "the package
\* leaves 'stale' once no stale content remains")
StaleIsShown == Quiet /\ code.mark # "package" /\ SomeStale => package \in {"stale", "failed"}

\* A snapshot whose analysis failed is not made 'complete' by a generation.
\* (restoreSnapshotAfterGeneration: "that verdict belongs to the analysis")
VerdictStands == [](snapshot = "failed" => [](snapshot # "complete"))
=============================================================================
