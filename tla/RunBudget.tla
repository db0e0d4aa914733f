----------------------------- MODULE RunBudget -----------------------------
(***************************************************************************)
(* The call budget of worker/ai/budgetEnforcer.ts. A snapshot row keeps    *)
(* the lifetime counter; every run on it loads the counter, claims a       *)
(* baseline on its job row once, counts its calls in memory and writes the *)
(* absolute total back every few calls. The cap is enforced on the         *)
(* difference, before each call is dispatched. Jobs on one snapshot, or    *)
(* two executors of one job, each hold a copy of the counter; the writes   *)
(* of one executor go out over a connection pool and may pass each other.  *)
(*                                                                         *)
(* Only calls are counted; tokens go through the same counters. When a row *)
(* is queued, delivered and recovered is RunLifecycle's subject: here an   *)
(* executor may take any queued row, and any orphan is put back.           *)
(***************************************************************************)
EXTENDS Integers, FiniteSets

CONSTANTS
  Jobs,       \* analysis_jobs rows that spend on one snapshot
  Executors,  \* enforcers that can exist at the same time
  Cap,        \* budget.maxLlmCalls
  Fanout,     \* calls a phase keeps in flight (mapLimit's limit)
  FlushEvery, \* FLUSH_EVERY_CALLS
  StopBehavior, \* project_settings.budget_stop_behavior
  Prior,      \* bound: what earlier runs left on the counter
  MaxClicks,  \* bound: pause, stop and resume clicks
  MaxCrashes, \* bound: executors killed
  MaxFaults   \* bound: baseline claims the database refuses

ASSUME BudgetAssumption == /\ Cap \in Nat
                           /\ Fanout \in Nat \ {0}
                           /\ FlushEvery \in Nat \ {0}
                           /\ StopBehavior \in {"pause", "fail", "degrade"}
ASSUME BoundsAssumption == /\ Prior \in Nat
                           /\ MaxClicks \in Nat
                           /\ MaxCrashes \in Nat
                           /\ MaxFaults \in Nat

NoJob  == "none"
Unset  == -1

ASSUME JobsAssumption == NoJob \notin Jobs

VARIABLES
  job,     \* the rows: status and checkpoint.budgetBaseline
  stored,  \* analysis_snapshots.budget_usage.llm_calls
  enf,     \* the enforcers and the calls their run has in flight
  made,    \* history: calls each job completed (ai_generation_runs)
  lost,    \* history: completed calls whose count died with a process
  spent    \* what the bounds have been used for

vars == <<job, stored, enf, made, lost, spent>>

-----------------------------------------------------------------------------
(* State *)

Status == {"queued", "running", "paused", "failed", "complete"}
JobRow == [status : Status, baseline : Nat \union {Unset}]

\* phase: mapLimit hands out targets. settling: one of them threw, no new ones
\* start and those in flight finish before the run ends as why says.
\* flights are the calls not yet answered, writes the counter totals on their way
\* to the row: the lane whose answer made a flush due waits for it.
FreeEnf  == [at |-> "off", job |-> NoJob, usage |-> 0, base |-> 0, dirty |-> 0,
             flights |-> 0, writes |-> {}, why |-> "none"]
Running  ==
  [at : {"loading", "claiming", "phase", "settling"}, job : Jobs, usage : Nat, base : Nat,
   dirty : 0..(FlushEvery - 1), flights : 0..Fanout, writes : SUBSET Nat, why : {"none", "tripped", "killed"}]
Enforcer == {FreeEnf} \union Running

TypeOK ==
  /\ job    \in [Jobs -> JobRow]
  /\ stored \in Nat
  /\ enf    \in [Executors -> Enforcer]
  /\ made   \in [Jobs -> Nat]
  /\ lost   \in Nat
  /\ spent  \in [clicks : 0..MaxClicks, crashes : 0..MaxCrashes, faults : 0..MaxFaults]

Init ==
  /\ job    = [j \in Jobs |-> [status |-> "queued", baseline |-> Unset]]
  /\ stored \in 0..Prior
  /\ enf    = [x \in Executors |-> FreeEnf]
  /\ made   = [j \in Jobs |-> 0]
  /\ lost   = 0
  /\ spent  = [clicks |-> 0, crashes |-> 0, faults |-> 0]

In(x, place) == enf[x].at = place

\* usedThisRun: never negative, even when a stale write took the counter back.
usedThisRun(x) == IF enf[x].usage < enf[x].base THEN 0 ELSE enf[x].usage - enf[x].base

-----------------------------------------------------------------------------
(* Starting: new BudgetEnforcer(...).load() *)

Deliver(x, j) ==
  /\ In(x, "off") /\ job[j].status = "queued"
  /\ job' = [job EXCEPT ![j].status = "running"]
  /\ enf' = [enf EXCEPT ![x] = [at |-> "loading", job |-> j, usage |-> 0, base |-> 0,
                                dirty |-> 0, flights |-> 0, writes |-> {},
                                why |-> "none"]]
  /\ UNCHANGED <<stored, made, lost, spent>>

\* SELECT budget_usage: from here on the enforcer counts on its own copy.
Load(x) ==
  /\ In(x, "loading")
  /\ enf' = [enf EXCEPT ![x].at = "claiming", ![x].usage = stored]
  /\ UNCHANGED <<job, stored, made, lost, spent>>

\* The conditional UPDATE and the SELECT after it: the first claim wins.
Baseline(x) ==
  IF job[enf[x].job].baseline = Unset THEN enf[x].usage ELSE job[enf[x].job].baseline

claimBaseline(x) ==
  /\ In(x, "claiming")
  /\ job' = [job EXCEPT ![enf[x].job].baseline = Baseline(x)]
  /\ enf' = [enf EXCEPT ![x].at = "phase", ![x].base = Baseline(x)]
  /\ UNCHANGED <<stored, made, lost, spent>>

\* The database refused: the baseline lives in this attempt's memory only.
ClaimFails(x) ==
  /\ In(x, "claiming") /\ spent.faults < MaxFaults
  /\ enf' = [enf EXCEPT ![x].at = "phase", ![x].base = enf[x].usage]
  /\ spent' = [spent EXCEPT !.faults = spent.faults + 1]
  /\ UNCHANGED <<job, stored, made, lost>>

-----------------------------------------------------------------------------
(* Spending *)

\* Mutants of Trips: the check is off by one, or measures the lifetime total.
TripsLate(x) == usedThisRun(x) > Cap
TripsOnLifetime(x) == enf[x].usage + 1 > Cap

\* trippedLimit(1)
Trips(x) == usedThisRun(x) + 1 > Cap

HasLane(x) == enf[x].flights + Cardinality(enf[x].writes) < Fanout
Idle(x)    == enf[x].flights = 0 /\ enf[x].writes = {}

\* checkBeforeBatch passes (the status is not read again within its TTL) and
\* the call goes out. It is counted when it is answered.
Dispatch(x) ==
  /\ In(x, "phase") /\ HasLane(x) /\ ~Trips(x)
  /\ enf' = [enf EXCEPT ![x].flights = enf[x].flights + 1]
  /\ UNCHANGED <<job, stored, made, lost, spent>>

\* checkBeforeBatch finds the limit reached: recordEvent flushes, then it throws.
Trip(x) ==
  /\ In(x, "phase") /\ HasLane(x) /\ Trips(x)
  /\ stored' = enf[x].usage
  /\ enf' = [enf EXCEPT ![x].at = "settling", ![x].why = "tripped", ![x].dirty = 0]
  /\ UNCHANGED <<job, made, lost, spent>>

\* Mutant of Halts: only a stop is looked for, not a pause.
HaltsOnStop(status) == status = "failed"

\* What the API writes to stop a run.
Halts(status) == status \in {"paused", "failed"}

\* checkBeforeBatch reads the status, its TTL being over: the kill switch.
Killed(x) ==
  /\ In(x, "phase") /\ Halts(job[enf[x].job].status)
  /\ enf' = [enf EXCEPT ![x].at = "settling", ![x].why = "killed"]
  /\ UNCHANGED <<job, stored, made, lost, spent>>

MustFlush(n) == n >= FlushEvery

\* recordUsage: a flush is due after FlushEvery calls or when its interval is over.
\* It resets its count first and only then writes the total.
AnswerOk(x) ==
  /\ enf[x].flights > 0
  /\ made' = [made EXCEPT ![enf[x].job] = made[enf[x].job] + 1]
  /\ \E due \in BOOLEAN :
       /\ MustFlush(enf[x].dirty + 1) => due
       /\ enf' = [enf EXCEPT ![x].flights = enf[x].flights - 1,
                             ![x].usage   = enf[x].usage + 1,
                             ![x].dirty   = IF due THEN 0 ELSE enf[x].dirty + 1,
                             ![x].writes  = IF due THEN enf[x].writes \union {enf[x].usage + 1}
                                            ELSE enf[x].writes]
  /\ UNCHANGED <<job, stored, lost, spent>>

\* One of the writes reaches the row, not necessarily the oldest.
Landed(x, total) ==
  /\ total \in enf[x].writes
  /\ stored' = total
  /\ enf' = [enf EXCEPT ![x].writes = enf[x].writes \ {total}]
  /\ UNCHANGED <<job, made, lost, spent>>

\* A failed call is not counted, and its target is given up or split.
AnswerError(x) ==
  /\ enf[x].flights > 0
  /\ enf' = [enf EXCEPT ![x].flights = enf[x].flights - 1]
  /\ UNCHANGED <<job, stored, made, lost, spent>>

-----------------------------------------------------------------------------
(* Ending *)

\* A phase boundary: semanticPipeline flushes between phases.
Boundary(x) ==
  /\ In(x, "phase") /\ Idle(x)
  /\ stored' = enf[x].usage
  /\ enf' = [enf EXCEPT ![x].dirty = 0]
  /\ UNCHANGED <<job, made, lost, spent>>

\* Mutant of Left: the counter is not flushed when the run stops.
LeftUnflushed(x) == stored

\* The flush of the terminal paths.
Left(x) == enf[x].usage

\* The run ends 'complete', whatever the row says by then.
Finish(x) ==
  /\ In(x, "phase") /\ Idle(x)
  /\ stored' = Left(x)
  /\ enf' = [enf EXCEPT ![x] = FreeEnf]
  /\ job' = [job EXCEPT ![enf[x].job].status = "complete"]
  /\ UNCHANGED <<made, lost, spent>>

\* What a trip makes of the row: a pause or a failure is written whatever the
\* status is, a retry not over a pause, and a degraded run goes on to its end.
AfterTrip(j) ==
  CASE StopBehavior = "pause"   -> {"paused"}
    [] StopBehavior = "fail"    ->
         {"failed", IF job[j].status \in {"paused", "complete"} THEN job[j].status ELSE "queued"}
    [] StopBehavior = "degrade" -> {"complete"}

\* The kill switch leaves the row as the click wrote it.
Settle(x) ==
  /\ In(x, "settling") /\ Idle(x)
  /\ stored' = Left(x)
  /\ enf' = [enf EXCEPT ![x] = FreeEnf]
  /\ \E status \in IF enf[x].why = "tripped" THEN AfterTrip(enf[x].job)
                  ELSE {job[enf[x].job].status} :
       job' = [job EXCEPT ![enf[x].job].status = status]
  /\ UNCHANGED <<made, lost, spent>>

\* The process dies. Its last writes may have got through; what they do not
\* cover is gone.
Crash(x) ==
  /\ ~In(x, "off") /\ spent.crashes < MaxCrashes
  /\ stored' \in {stored} \union enf[x].writes
  /\ lost' = lost + IF enf[x].usage > stored' THEN enf[x].usage - stored' ELSE 0
  /\ enf' = [enf EXCEPT ![x] = FreeEnf]
  /\ spent' = [spent EXCEPT !.crashes = spent.crashes + 1]
  /\ UNCHANGED <<job, made>>

\* The recovery sweep re-queues a running row nobody executes.
Recover(j) ==
  /\ job[j].status = "running" /\ \A x \in Executors : enf[x].job # j
  /\ job' = [job EXCEPT ![j].status = "queued"]
  /\ UNCHANGED <<stored, enf, made, lost, spent>>

Click(j, from, to) ==
  /\ job[j].status \in from /\ spent.clicks < MaxClicks
  /\ job' = [job EXCEPT ![j].status = to]
  /\ spent' = [spent EXCEPT !.clicks = spent.clicks + 1]
  /\ UNCHANGED <<stored, enf, made, lost>>

Pause(j) == Click(j, {"queued", "running"}, "paused")
Stop(j)  == Click(j, {"queued", "running", "paused"}, "failed")

\* The same row goes back on the queue, its checkpoint as it was.
Resume(j) == Click(j, {"paused", "failed"}, "queued")

Work(x) == \/ Load(x) \/ claimBaseline(x) \/ ClaimFails(x)
           \/ Dispatch(x) \/ Trip(x) \/ Killed(x) \/ AnswerOk(x) \/ AnswerError(x)
           \/ (\E total \in enf[x].writes : Landed(x, total))
           \/ Boundary(x) \/ Finish(x) \/ Settle(x)

Next ==
  \/ \E x \in Executors : Work(x) \/ Crash(x) \/ \E j \in Jobs : Deliver(x, j)
  \/ \E j \in Jobs : Recover(j) \/ Pause(j) \/ Stop(j) \/ Resume(j)

Spec == Init /\ [][Next]_vars

\* An executor reads its status again once the TTL is over, its requests are
\* answered and a stopped run is written down. No call need ever be dispatched.
Fairness == \A x \in Executors :
  /\ WF_vars(Load(x)) /\ WF_vars(claimBaseline(x) \/ ClaimFails(x))
  /\ WF_vars(Killed(x)) /\ WF_vars(\E total \in enf[x].writes : Landed(x, total))
  /\ WF_vars(AnswerOk(x) \/ AnswerError(x)) /\ WF_vars(Settle(x))

FairSpec == Spec /\ Fairness

-----------------------------------------------------------------------------
(* Properties *)

\* One run at a time: however often the job is paused, resumed, killed and
\* recovered, it completes at most its cap, the calls that were in flight
\* beside the last one, and what crashes made the counter forget. (A claim that
\* failed leaves it without a zero point of its own.)
AllowanceKept == spent.faults = 0 =>
  \A j \in Jobs : made[j] <= Cap + (Fanout - 1) + lost

\* The lifetime record of a job that has the snapshot to itself: whenever nobody
\* is running, the counter is what the job completed on top of its baseline, less
\* what crashes forgot. A write that lands late does not survive the run.
LifetimeKept ==
  \A j \in Jobs :
    /\ Jobs = {j} /\ Cardinality(Executors) = 1 /\ spent.faults = 0
    /\ job[j].baseline # Unset
    /\ \A x \in Executors : In(x, "off")
    => stored + lost = job[j].baseline + made[j]

\* Alone on its snapshot, a run is never tripped by a cap it has not used up,
\* whatever earlier runs left on the counter.
EarnedTrip == \A x \in Executors :
  enf[x].why # "tripped" /\ enf'[x].why = "tripped" => made[enf[x].job] >= Cap

TripsOnlyWhenSpent == [][EarnedTrip]_vars

\* The kill switch is honoured: an executor of a paused or stopped row ends, or
\* the row is resumed under it.
KillSwitchHonoured ==
  \A x \in Executors, j \in Jobs :
    enf[x].job = j /\ job[j].status \in {"paused", "failed"}
      ~> enf[x].job # j \/ job[j].status \notin {"paused", "failed"}

\* budgetEnforcer.ts:293: a resumed job "inherits its original zero point, so
\* its allowance can never be doubled by restarting it".
AllowanceNotDoubled == \A j \in Jobs : lost = 0 => made[j] < 2 * Cap

\* budgetEnforcer.ts:14: "Every limit is now enforced on the DELTA this run added".
OwnDelta == \A x \in Executors : In(x, "phase") => usedThisRun(x) <= made[enf[x].job]
=============================================================================
