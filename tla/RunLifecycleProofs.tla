------------------------- MODULE RunLifecycleProofs -------------------------
(***************************************************************************)
(* What holds of RunLifecycle for every number of rows, queue entries,     *)
(* replicas and requests, and for every setting of the caps.  First its    *)
(* types and the claims of the recovery; then what the optimistic          *)
(* 'complete' of the snapshot may lead to: it is corrected before          *)
(* everything is quiet, no package is generated from a graph without its   *)
(* semantic phases, and a failing run does not touch a snapshot it only    *)
(* borrowed.  Last, how often a run may be executed.                       *)
(***************************************************************************)
EXTENDS RunLifecycle, FiniteSetTheorems, TLAPS

(* Typing of the helpers the actions are built from *)

\* The bounds only grow while there is room.
LEMMA SpentTyped ==
  ASSUME TypeOK,
         \/ MayClick /\ Click
         \/ MayCrash /\ Lose
         \/ MayThrow /\ Fault
  PROVE  spent' \in Spent
  BY BoundsAssumption
  DEF TypeOK, Spent, MayClick, MayCrash, MayThrow, Click, Lose, Fault

\* An entry in use belongs to a row, and BullMQ still owes a delivery.
LEMMA InUseTyped ==
  ASSUME TypeOK, NEW e \in Entries, entry[e].at # "free"
  PROVE  /\ entry[e] \in [at : Place \ {"free"}, row : Rows, left : 1..2,
                          stalls : 0..MaxStalled, force : BOOLEAN]
         /\ Row(e) \in Rows
  BY DEF TypeOK, Entry, Row, FreeEntry

\* An entry in use may go to any place but "free".
LEMMA GoTyped ==
  ASSUME TypeOK, NEW e \in Entries, entry[e].at # "free",
         NEW place \in Place \ {"free"}, Go(e, place)
  PROVE  entry' \in [Entries -> Entry]
<1>1. [entry[e] EXCEPT !.at = place] \in Entry
  BY InUseTyped DEF Entry
<1> QED
  BY <1>1 DEF TypeOK, Go

LEMMA AddedTyped ==
  ASSUME TypeOK, NEW e \in Entries, NEW r \in Rows, NEW n \in 1..2, NEW f \in BOOLEAN
  PROVE  Added(e, r, n, f) \in [Entries -> Entry]
  BY LimitsAssumption DEF TypeOK, Entry, Added, Place

LEMMA ResubmittedTyped ==
  ASSUME TypeOK, NEW e \in Entries, NEW r \in Rows
  PROVE  Resubmitted(e, r) \in [Entries -> Entry]
<1>1. 1 \in 1..2 /\ TRUE \in BOOLEAN
  OBVIOUS
<1> QED
  BY <1>1, AddedTyped DEF Resubmitted

LEMMA FreedTyped ==
  ASSUME TypeOK, NEW e \in Entries
  PROVE  [entry EXCEPT ![e] = FreeEntry] \in [Entries -> Entry]
  BY DEF TypeOK, Entry

\* A request in flight is for a row.
LEMMA InFlightTyped ==
  ASSUME TypeOK, NEW q \in Requests, request[q].at # "idle"
  PROVE  request[q] \in [at : {"checked", "submit"}, row : Rows, force : BOOLEAN]
  BY DEF TypeOK, Request, IdleRequest

\* One row of the table is written.
LEMMA RowTyped ==
  ASSUME TypeOK, NEW r \in Rows, NEW row \in JobRow
  PROVE  [job EXCEPT ![r] = row] \in [Rows -> JobRow]
  BY DEF TypeOK

\* A row moves to a status, with a heartbeat of any age.
LEMMA MovedTyped ==
  ASSUME TypeOK, NEW r \in Rows, NEW s \in Status, NEW b \in BOOLEAN
  PROVE  [job[r] EXCEPT !.status = s, !.silent = b] \in JobRow
  BY DEF TypeOK, JobRow

LEMMA SetStatusTyped ==
  ASSUME TypeOK, NEW r, NEW s \in Status, SetStatus(r, s)
  PROVE  job' \in [Rows -> JobRow]
  BY ZenonT(40) DEF TypeOK, JobRow, SetStatus

LEMMA InterruptsTyped ==
  ASSUME TypeOK, NEW yes \in BOOLEAN, Interrupts(yes)
  PROVE  snapshot' \in Snapshot
  BY DEF TypeOK, Snapshot, Interrupts, Half

LEMMA SnapshotFailedTyped ==
  ASSUME TypeOK, SnapshotFailed
  PROVE  snapshot' \in Snapshot
  BY DEF TypeOK, Snapshot, SnapshotFailed

-----------------------------------------------------------------------------
(* Type correctness *)

LEMMA InitTyped == Init => TypeOK
  BY RowsAssumption, LimitsAssumption, BoundsAssumption
  DEF Init, TypeOK, JobRow, Status, Snapshot, Entry, Sweeper, Request, Spent

LEMMA APITyped == TypeOK /\ API => TypeOK'
<1> SUFFICES ASSUME TypeOK, API PROVE TypeOK'
  OBVIOUS
<1>1. ASSUME NEW q \in Requests, NEW r \in Rows, NEW n \in BOOLEAN, NEW f \in BOOLEAN,
             StartRun(q, r, n, f)
      PROVE  TypeOK'
  <2>1. job' \in [Rows -> JobRow]
    BY <1>1, ZenonT(40) DEF StartRun, TypeOK, JobRow, Status
  <2>2. request' \in [Requests -> Request]
    BY <1>1 DEF StartRun, TypeOK, Request
  <2> QED
    BY <1>1, <2>1, <2>2, SpentTyped DEF StartRun, TypeOK
<1>2. ASSUME NEW r \in Rows, PauseClick(r) PROVE TypeOK'
  BY <1>2, SpentTyped, SetStatusTyped, InterruptsTyped DEF PauseClick, TypeOK, Status
<1>3. ASSUME NEW r \in Rows, StopClick(r) PROVE TypeOK'
  BY <1>3, SpentTyped, SetStatusTyped, InterruptsTyped DEF StopClick, TypeOK, Status
<1>4. ASSUME NEW q \in Requests, NEW r \in Rows, ResumeCheck(q, r) PROVE TypeOK'
  <2>1. request' \in [Requests -> Request]
    BY <1>4 DEF ResumeCheck, TypeOK, Request
  <2> QED
    BY <1>4, <2>1, SpentTyped DEF ResumeCheck, TypeOK
<1>5. ASSUME NEW q \in Requests, ResumeWrite(q) PROVE TypeOK'
  <2>1. job' \in [Rows -> JobRow]
    <3>1. PICK old \in BOOLEAN :
            job' = [job EXCEPT ![request[q].row] = [@ EXCEPT !.status = "queued", !.silent = old]]
      BY <1>5 DEF ResumeWrite
    <3>2. request[q].row \in Rows
      BY <1>5, InFlightTyped DEF ResumeWrite
    <3> QED
      BY <3>1, <3>2, RowTyped, MovedTyped DEF Status
  <2>2. [request[q] EXCEPT !.at = "submit"] \in Request
    BY <1>5, InFlightTyped DEF ResumeWrite, Request
  <2>3. request' \in [Requests -> Request]
    BY <1>5, <2>2 DEF ResumeWrite, TypeOK
  <2> QED
    BY <1>5, <2>1, <2>3 DEF ResumeWrite, TypeOK
<1>6. ASSUME NEW q \in Requests, Submit(q) PROVE TypeOK'
  <2>1. entry' \in [Entries -> Entry]
    BY <1>6, InFlightTyped, AddedTyped DEF Submit
  <2>2. request' \in [Requests -> Request]
    BY <1>6 DEF Submit, TypeOK, Request
  <2> QED
    BY <1>6, <2>1, <2>2 DEF Submit, TypeOK
<1>7. ASSUME NEW q \in Requests, SubmitThrows(q) PROVE TypeOK'
  <2>1. entry' \in [Entries -> Entry]
    BY <1>7, InFlightTyped, AddedTyped DEF SubmitThrows, TypeOK
  <2>2. request' \in [Requests -> Request]
    BY <1>7 DEF SubmitThrows, TypeOK, Request
  <2>3. job' \in [Rows -> JobRow]
    <3>1. SetStatus(request[q].row, "failed") \/ UNCHANGED job
      BY <1>7 DEF SubmitThrows, SetStatus
    <3> QED
      BY <3>1, SetStatusTyped DEF TypeOK, Status
  <2>4. snapshot' \in Snapshot
    BY <1>7, InterruptsTyped DEF SubmitThrows
  <2>5. spent' \in Spent
    BY <1>7, SpentTyped DEF SubmitThrows
  <2> QED
    BY <1>7, <2>1, <2>2, <2>3, <2>4, <2>5 DEF SubmitThrows, TypeOK
<1>8. ASSUME NEW q \in Requests, RequestLost(q) PROVE TypeOK'
  BY <1>8, SpentTyped DEF RequestLost, TypeOK, Request
<1> QED
  BY <1>1, <1>2, <1>3, <1>4, <1>5, <1>6, <1>7, <1>8 DEF API

LEMMA BullMQTyped == TypeOK /\ BullMQ => TypeOK'
<1> SUFFICES ASSUME TypeOK, NEW e \in Entries, Deliver(e) PROVE TypeOK'
  BY DEF BullMQ
<1>1. CASE EndEntry(e)
  BY <1>1, FreedTyped DEF EndEntry, TypeOK
<1>2. CASE FailEntry(e)
  <2>1. CASE entry[e].left > 1
    <3>1. entry[e] \in [at : Place \ {"free"}, row : Rows, left : 1..2,
                        stalls : 0..MaxStalled, force : BOOLEAN]
      BY <1>2, InUseTyped DEF FailEntry
    <3>2. entry[e].left - 1 \in 1..2
      BY <3>1, <2>1
    <3>3. Redelivered(e) \in Entry
      BY <3>1, <3>2 DEF Redelivered, Entry, Place
    <3>4. entry' = [entry EXCEPT ![e] = Redelivered(e)]
      BY <1>2, <2>1 DEF FailEntry
    <3>5. entry' \in [Entries -> Entry]
      BY <3>3, <3>4 DEF TypeOK
    <3> QED
      BY <1>2, <3>5 DEF FailEntry, TypeOK
  <2>2. CASE ~(entry[e].left > 1)
    BY <1>2, <2>2, FreedTyped DEF FailEntry, TypeOK
  <2> QED
    BY <2>1, <2>2
<1>3. CASE Stalled(e)
  <2>1. CASE entry[e].stalls < MaxStalled
    <3>1. entry[e] \in [at : Place \ {"free"}, row : Rows, left : 1..2,
                        stalls : 0..MaxStalled, force : BOOLEAN]
      BY <1>3, InUseTyped DEF Stalled
    <3>2. entry[e].stalls + 1 \in 0..MaxStalled
      BY <3>1, <2>1, LimitsAssumption
    <3>3. Recovered(e) \in Entry
      BY <3>1, <3>2 DEF Recovered, Entry, Place
    <3>4. entry' = [entry EXCEPT ![e] = Recovered(e)]
      BY <1>3, <2>1 DEF Stalled
    <3>5. entry' \in [Entries -> Entry]
      BY <3>3, <3>4 DEF TypeOK
    <3> QED
      BY <1>3, <3>5 DEF Stalled, TypeOK
  <2>2. CASE ~(entry[e].stalls < MaxStalled)
    BY <1>3, <2>2, FreedTyped DEF Stalled, TypeOK
  <2> QED
    BY <2>1, <2>2
<1> QED
  BY <1>1, <1>2, <1>3 DEF Deliver

LEMMA WorkTyped ==
  ASSUME TypeOK, NEW e \in Entries, Work(e)
  PROVE  TypeOK'
<1> USE DEF Place, Executing, Beating
<1>1. CASE Begin(e)
  <2>1. snapshot' \in Snapshot
    BY <1>1, InterruptsTyped DEF Begin, Company
  <2>2. entry' \in [Entries -> Entry]
    BY <1>1, GoTyped DEF Begin
  <2>3. job' \in [Rows -> JobRow]
    <3>1. Row(e) \in Rows
      BY <1>1, InUseTyped DEF Begin
    <3>2. Stepped(Row(e)) \in JobRow
      BY <3>1, MovedTyped DEF Stepped, Status
    <3>3. [Stepped(Row(e)) EXCEPT !.runs = @ + 1] \in JobRow
      BY <3>2 DEF JobRow
    <3> QED
      BY <1>1, <3>1, <3>3, RowTyped DEF Begin, TypeOK
  <2> QED
    BY <1>1, <2>1, <2>2, <2>3 DEF Begin, TypeOK
<1>2. CASE StampCommit(e)
  <2>1. job' \in [Rows -> JobRow]
    BY <1>2, ZenonT(40) DEF StampCommit, TypeOK, JobRow
  <2> QED
    BY <1>2, <2>1, GoTyped DEF StampCommit, TypeOK
<1>3. CASE ResolveRun(e)
  <2>1. entry' \in [Entries -> Entry]
    BY <1>3, GoTyped DEF ResolveRun
  <2>2. job' \in [Rows -> JobRow]
    BY <1>3, SetStatusTyped DEF ResolveRun, TypeOK, Status
  <2> QED
    BY <1>3, <2>1, <2>2 DEF ResolveRun, TypeOK
<1>4. CASE Step(e)
  <2>1. entry' \in [Entries -> Entry]
    BY <1>4, GoTyped DEF Step, AfterStep
  <2>2. job' \in [Rows -> JobRow]
    <3>1. Row(e) \in Rows
      BY <1>4, InUseTyped DEF Step, AfterStep
    <3>2. Stepped(Row(e)) \in JobRow
      BY <3>1, MovedTyped DEF Stepped, Status
    <3> QED
      BY <1>4, <3>1, <3>2, RowTyped DEF Step, TypeOK
  <2> QED
    BY <1>4, <2>1, <2>2 DEF Step, TypeOK
<1>5. CASE ReuseComplete(e)
  <2>1. job' \in [Rows -> JobRow]
    <3>1. Row(e) \in Rows
      BY <1>5, InUseTyped DEF ReuseComplete
    <3>2. [job[Row(e)] EXCEPT !.status = "complete", !.linked = TRUE] \in JobRow
      BY <3>1 DEF TypeOK, JobRow, Status
    <3> QED
      BY <1>5, <3>1, <3>2, RowTyped DEF ReuseComplete
  <2> QED
    BY <1>5, <2>1, GoTyped DEF ReuseComplete, TypeOK
<1>6. CASE Persist(e)
  <2>1. snapshot' \in Snapshot
    BY <1>6 DEF Persist, Snapshot, Company, Halted
  <2> QED
    BY <1>6, <2>1, GoTyped DEF Persist, TypeOK
<1>7. CASE LinkSnapshot(e)
  <2>1. job' \in [Rows -> JobRow]
    BY <1>7, ZenonT(40) DEF LinkSnapshot, TypeOK, JobRow
  <2> QED
    BY <1>7, <2>1, GoTyped DEF LinkSnapshot, TypeOK
<1>8. CASE Finish(e)
  <2>1. snapshot' \in Snapshot
    BY <1>8 DEF Finish, TypeOK, Snapshot
  <2> QED
    BY <1>8, <2>1, GoTyped, SetStatusTyped DEF Finish, TypeOK, Status
<1>9. CASE ChainGeneration(e)
  <2>1. job' \in [Rows -> JobRow]
    BY <1>9, ZenonT(40) DEF ChainGeneration, TypeOK, JobRow
  <2> QED
    BY <1>9, <2>1, GoTyped DEF ChainGeneration, TypeOK
<1>10. CASE RateLimited(e)
  <2>1. entry' \in [Entries -> Entry]
    BY <1>10, GoTyped DEF RateLimited
  <2>2. snapshot' \in Snapshot
    BY <1>10, InterruptsTyped DEF RateLimited, ReuserDue, TypeOK, Snapshot
  <2>3. job' \in [Rows -> JobRow]
    <3>1. CASE MayResume(Row(e))
      <4>1. Row(e) \in Rows
        BY <1>10, InUseTyped DEF RateLimited
      <4>2. job[Row(e)] \in JobRow /\ job[Row(e)].rate + 1 \in 0..MaxRateLimit
        BY <3>1, <4>1, LimitsAssumption DEF MayResume, TypeOK, JobRow
      <4>3. Postponed(Row(e)) \in JobRow
        BY <4>2 DEF Postponed, JobRow, Status
      <4> QED
        BY <1>10, <3>1, <4>1, <4>3, RowTyped DEF RateLimited
    <3>2. CASE ~MayResume(Row(e))
      BY <1>10, <3>2 DEF RateLimited, TypeOK
    <3> QED
      BY <3>1, <3>2
  <2> QED
    BY <1>10, <2>1, <2>2, <2>3 DEF RateLimited, TypeOK
<1>11. CASE EnqueueResume(e)
  <2>1. PICK n \in Entries : /\ entry[n].at = "free"
                             /\ entry' = [Resubmitted(n, Row(e)) EXCEPT ![e].at = "ending"]
    BY <1>11 DEF EnqueueResume
  <2>2. Resubmitted(n, Row(e)) \in [Entries -> Entry]
    BY <1>11, InUseTyped, ResubmittedTyped DEF EnqueueResume
  <2>3. Resubmitted(n, Row(e))[e] = entry[e]
    BY <1>11, <2>1 DEF EnqueueResume, Resubmitted, Added, TypeOK
  <2>4. [entry[e] EXCEPT !.at = "ending"] \in Entry
    BY <1>11, InUseTyped DEF EnqueueResume, Entry
  <2>5. entry' \in [Entries -> Entry]
    BY <2>1, <2>2, <2>3, <2>4
  <2> QED
    BY <1>11, <2>5 DEF EnqueueResume, TypeOK
<1>12. CASE PauseRow(e)
  BY <1>12, GoTyped, SetStatusTyped DEF PauseRow, TypeOK, Status
<1>13. CASE RecordFailure(e)
  <2>1. entry' \in [Entries -> Entry]
    BY <1>13, GoTyped DEF RecordFailure
  <2>2. snapshot' \in Snapshot
    BY <1>13, InterruptsTyped DEF RecordFailure
  <2>3. job' \in [Rows -> JobRow]
    <3>1. Row(e) \in Rows
      BY <1>13, InUseTyped DEF RecordFailure
    <3>2. \/ SetStatus(Row(e), "failed")
          \/ job' = [job EXCEPT ![Row(e)] = [@ EXCEPT !.status = "queued", !.silent = FALSE]]
          \/ UNCHANGED job
      BY <1>13 DEF RecordFailure, SetStatus
    <3> QED
      BY <3>1, <3>2, SetStatusTyped, RowTyped, MovedTyped DEF TypeOK, Status
  <2> QED
    BY <1>13, <2>1, <2>2, <2>3 DEF RecordFailure, TypeOK
<1>14. CASE MarkSnapshot(e)
  BY <1>14, GoTyped, SnapshotFailedTyped DEF MarkSnapshot, TypeOK
<1> QED
  BY <1>1, <1>2, <1>3, <1>4, <1>5, <1>6, <1>7, <1>8, <1>9, <1>10, <1>11, <1>12,
     <1>13, <1>14 DEF Work

LEMMA WorkerTyped == TypeOK /\ Worker => TypeOK'
<1> SUFFICES ASSUME TypeOK, Worker PROVE TypeOK'
  OBVIOUS
<1> USE DEF Place, Executing, Beating
<1>1. ASSUME NEW e \in Entries, Work(e) PROVE TypeOK'
  BY <1>1, WorkTyped
<1>2. ASSUME NEW e \in Entries, ThrowEarly(e) PROVE TypeOK'
  BY <1>2, GoTyped, SpentTyped, InterruptsTyped DEF ThrowEarly, TypeOK
<1>3. ASSUME NEW e \in Entries, Throw(e) PROVE TypeOK'
  BY <1>3, GoTyped, SpentTyped DEF Throw, TypeOK, Owning
<1>4. ASSUME NEW e \in Entries, Refuse(e) PROVE TypeOK'
  BY <1>4, GoTyped, SpentTyped DEF Refuse, TypeOK
<1>5. ASSUME NEW e \in Entries, FailSnapshot(e) PROVE TypeOK'
  <2>1. snapshot' \in Snapshot
    BY <1>5 DEF FailSnapshot, TypeOK, Snapshot
  <2> QED
    BY <1>5, <2>1, GoTyped, SpentTyped DEF FailSnapshot, TypeOK
<1>6. ASSUME NEW e \in Entries, AiPause(e) PROVE TypeOK'
  <2>1. snapshot' \in Snapshot
    BY <1>6 DEF AiPause, TypeOK, Snapshot
  <2> QED
    BY <1>6, <2>1, GoTyped, SpentTyped DEF AiPause, TypeOK
<1> QED
  BY <1>1, <1>2, <1>3, <1>4, <1>5, <1>6 DEF Worker

\* The age of a row's last heartbeat changes.
LEMMA SilentTyped ==
  ASSUME TypeOK, NEW r, NEW b \in BOOLEAN, job' = [job EXCEPT ![r].silent = b]
  PROVE  job' \in [Rows -> JobRow]
  BY ZenonT(40) DEF TypeOK, JobRow

\* One replica's sweep moves on.
LEMMA SweeperTyped ==
  ASSUME TypeOK, NEW s \in Sweepers, NEW w \in Sweeper, sweeper' = [sweeper EXCEPT ![s] = w]
  PROVE  sweeper' \in [Sweepers -> Sweeper]
  BY DEF TypeOK

LEMMA EnvironmentTyped == TypeOK /\ Environment => TypeOK'
<1> SUFFICES ASSUME TypeOK, Environment PROVE TypeOK'
  OBVIOUS
<1> USE DEF Place, Executing, Beating
<1>1. ASSUME NEW e \in Entries, Beat(e) PROVE TypeOK'
  BY <1>1, SilentTyped DEF Beat, TypeOK
<1>2. ASSUME NEW e \in Entries, Crash(e) PROVE TypeOK'
  BY <1>2, GoTyped, SpentTyped, InterruptsTyped DEF Crash, TypeOK
<1>3. ASSUME NEW e \in Entries, Abandon(e) PROVE TypeOK'
  <2>1. job' \in [Rows -> JobRow]
    BY <1>3, SilentTyped DEF Abandon, TypeOK
  <2> QED
    BY <1>3, <2>1, GoTyped, SpentTyped, InterruptsTyped DEF Abandon, TypeOK
<1>4. ASSUME NEW r \in Rows, FallSilent(r) PROVE TypeOK'
  BY <1>4, SilentTyped DEF FallSilent, TypeOK
<1>5. ASSUME NEW s \in Sweepers, CrashSweeper(s) PROVE TypeOK'
  <2>1. [at |-> "idle", held |-> {}, doomed |-> {}, cand |-> {}] \in Sweeper
    BY DEF Sweeper
  <2> QED
    BY <1>5, <2>1, SweeperTyped, SpentTyped DEF CrashSweeper, TypeOK
<1> QED
  BY <1>1, <1>2, <1>3, <1>4, <1>5 DEF Environment

\* A claim that is held names a row.
LEMMA HeldTyped ==
  ASSUME TypeOK, NEW s \in Sweepers, NEW c \in sweeper[s].held
  PROVE  c[1] \in Rows /\ c[2] \in Nat /\ c = <<c[1], c[2]>>
  BY DEF TypeOK, Sweeper

LEMMA FailOrphanRowTyped ==
  ASSUME TypeOK, NEW s \in Sweepers, NEW r \in Rows, NEW n, FailOrphanRow(s, r, n)
  PROVE  /\ job' \in [Rows -> JobRow]
         /\ sweeper' \in [Sweepers -> Sweeper]
         /\ snapshot' \in Snapshot
<1>1. job' \in [Rows -> JobRow]
  <2>1. SetStatus(r, "failed") \/ UNCHANGED job
    BY DEF FailOrphanRow, SetStatus
  <2> QED
    BY <2>1, SetStatusTyped DEF TypeOK, Status
<1>2. Doomed(s, r, n) \in Sweeper
  BY DEF Doomed, TypeOK, Sweeper
<1> QED
  BY <1>1, <1>2, SweeperTyped, InterruptsTyped DEF FailOrphanRow

LEMMA SweepTyped == TypeOK /\ Sweep => TypeOK'
<1> SUFFICES ASSUME TypeOK, Sweep PROVE TypeOK'
  OBVIOUS
<1>1. ASSUME NEW s \in Sweepers, ClaimOrphans(s) PROVE TypeOK'
  <2>1. ASSUME NEW r \in Rows PROVE Claimed(r) \in JobRow /\ <<r, job[r].recov + 1>> \in Rows \X Nat
    <3>1. job[r] \in JobRow /\ job[r].recov + 1 \in Nat
      BY DEF TypeOK, JobRow
    <3>2. Claimed(r) \in JobRow
      BY <3>1 DEF Claimed, JobRow, Status
    <3> QED
      BY <3>1, <3>2
  <2>2. job' \in [Rows -> JobRow]
    BY <1>1, <2>1 DEF ClaimOrphans, TypeOK
  <2>3. {<<r, job[r].recov + 1>> : r \in Orphans} \subseteq Rows \X Nat
    BY <2>1 DEF Orphans
  <2>4. [sweeper[s] EXCEPT !.at = "handling",
                           !.held = {<<r, job[r].recov + 1>> : r \in Orphans}] \in Sweeper
    BY <2>3 DEF TypeOK, Sweeper
  <2>5. sweeper' \in [Sweepers -> Sweeper]
    BY <1>1, <2>4, SweeperTyped DEF ClaimOrphans
  <2> QED
    BY <1>1, <2>2, <2>5 DEF ClaimOrphans, TypeOK
<1>2. ASSUME NEW s \in Sweepers, SelectStranded(s) PROVE TypeOK'
  <2>1. [sweeper[s] EXCEPT !.at = IF Stranded = {} THEN "idle" ELSE "asking",
                           !.cand = Stranded] \in Sweeper
    BY DEF TypeOK, Sweeper, Stranded
  <2> QED
    BY <1>2, <2>1, SweeperTyped DEF SelectStranded, TypeOK
<1>3. ASSUME NEW s \in Sweepers, AskLive(s) PROVE TypeOK'
  <2>1. [sweeper[s] EXCEPT !.at = "judging",
                           !.cand = {r \in sweeper[s].cand : ~Known(r)}] \in Sweeper
    BY DEF TypeOK, Sweeper
  <2> QED
    BY <1>3, <2>1, SweeperTyped DEF AskLive, TypeOK
<1>4. ASSUME NEW s \in Sweepers, EndSweep(s) PROVE TypeOK'
  BY <1>4 DEF EndSweep, TypeOK, Sweeper
<1>5. ASSUME NEW s \in Sweepers, NEW c \in sweeper[s].held, Requeue(s, c[1], c[2]) PROVE TypeOK'
  <2>1. c[1] \in Rows /\ c[2] \in Nat
    BY HeldTyped
  <2>2. entry' \in [Entries -> Entry]
    BY <1>5, <2>1, ResubmittedTyped DEF Requeue
  <2>3. job' \in [Rows -> JobRow]
    BY <1>5, <2>1, SMTT(30) DEF Requeue, TypeOK, JobRow
  <2>4. sweeper' \in [Sweepers -> Sweeper]
    BY <1>5, SMTT(30) DEF Requeue, TypeOK, Sweeper
  <2> QED
    BY <1>5, <2>2, <2>3, <2>4 DEF Requeue, TypeOK
<1>6. ASSUME NEW s \in Sweepers, NEW c \in sweeper[s].held, GiveUp(s, c[1], c[2]) PROVE TypeOK'
  BY <1>6, HeldTyped, FailOrphanRowTyped DEF GiveUp, TypeOK
<1>7. ASSUME NEW s \in Sweepers, NEW c \in sweeper[s].held, RequeueThrows(s, c[1], c[2])
      PROVE  TypeOK'
  <2>1. c[1] \in Rows
    BY HeldTyped
  <2>2. entry' \in [Entries -> Entry]
    BY <1>7, <2>1, ResubmittedTyped DEF RequeueThrows, TypeOK
  <2> QED
    BY <1>7, <2>1, <2>2, FailOrphanRowTyped, SpentTyped DEF RequeueThrows, TypeOK
<1>8. ASSUME NEW s \in Sweepers, NEW r \in Rows, MarkOrphanSnapshot(s, r) PROVE TypeOK'
  <2>1. snapshot' \in Snapshot
    BY <1>8, SnapshotFailedTyped DEF MarkOrphanSnapshot, TypeOK
  <2>2. sweeper' \in [Sweepers -> Sweeper]
    BY <1>8 DEF MarkOrphanSnapshot, TypeOK, Sweeper
  <2> QED
    BY <1>8, <2>1, <2>2 DEF MarkOrphanSnapshot, TypeOK
<1>9. ASSUME NEW s \in Sweepers, NEW r \in Rows, FailStranded(s, r) PROVE TypeOK'
  <2>1. job' \in [Rows -> JobRow]
    <3>1. SetStatus(r, "failed") \/ UNCHANGED job
      BY <1>9 DEF FailStranded, SetStatus
    <3> QED
      BY <3>1, SetStatusTyped DEF TypeOK, Status
  <2>2. sweeper' \in [Sweepers -> Sweeper]
    BY <1>9, ZenonT(40) DEF FailStranded, TypeOK, Sweeper
  <2> QED
    BY <1>9, <2>1, <2>2, InterruptsTyped DEF FailStranded, TypeOK
<1> QED
  BY <1>1, <1>2, <1>3, <1>4, <1>5, <1>6, <1>7, <1>8, <1>9 DEF Sweep, SweepStep

\* Every table, queue entry, sweep and request keeps its type in every
\* behaviour; among others, a row is resumed after a rate limit at most
\* MAX_RATE_LIMIT_RESUMES times (claimRateLimitResume), and BullMQ never owes a
\* delivery more than it was asked for.
THEOREM TypeCorrect == Spec => []TypeOK
<1>1. TypeOK /\ UNCHANGED vars => TypeOK'
  BY DEF TypeOK, vars
<1>2. TypeOK /\ [Next]_vars => TypeOK'
  BY <1>1, APITyped, BullMQTyped, WorkerTyped, EnvironmentTyped, SweepTyped DEF Next
<1> QED
  BY <1>2, InitTyped, PTL DEF Spec

-----------------------------------------------------------------------------
(* The claims of the recovery sweep *)

\* A loss is in one of three states, and only moves forward: not yet counted,
\* held by one sweep, or settled, perhaps by handing the row back.
ClaimInv ==
  /\ \A r \in Rows : job[r].handed \subseteq {n \in 1..job[r].recov : n <= MaxRecovery}
  /\ \A s \in Sweepers : sweeper[s].at # "handling" => sweeper[s].held = {}
  /\ \A s \in Sweepers : \A c \in sweeper[s].held :
       c[2] \in 1..job[c[1]].recov /\ c[2] \notin job[c[1]].handed
  /\ \A s, t \in Sweepers : s # t => sweeper[s].held \intersect sweeper[t].held = {}

\* What every step but a claim and a hand-back does to the claims: it leaves the
\* counters and the history of all rows alone, and at most drops claims.
KeepsClaims ==
  /\ \A r \in Rows : job'[r].recov = job[r].recov /\ job'[r].handed = job[r].handed
  /\ \A s \in Sweepers : sweeper'[s].held \subseteq sweeper[s].held
  /\ \A s \in Sweepers : sweeper'[s].at # "handling" => sweeper'[s].held = {}

\* Steps that write no row and move no sweep.
LEMMA StillKeeps ==
  ASSUME ClaimInv, UNCHANGED <<job, sweeper>>
  PROVE  KeepsClaims
  BY DEF ClaimInv, KeepsClaims

\* A change of a row's status is such a write.
LEMMA StatusKeeps ==
  ASSUME TypeOK, ClaimInv, UNCHANGED sweeper, NEW r, NEW s, SetStatus(r, s)
  PROVE  KeepsClaims
  BY DEF TypeOK, JobRow, ClaimInv, KeepsClaims, SetStatus

\* So is updateStep, whether or not it begins a delivery.
LEMMA StepKeeps ==
  ASSUME TypeOK, ClaimInv, UNCHANGED sweeper, NEW r,
         \/ job' = [job EXCEPT ![r] = Stepped(r)]
         \/ job' = [job EXCEPT ![r] = [Stepped(r) EXCEPT !.runs = @ + 1]]
  PROVE  KeepsClaims
<1>1. ASSUME r \in Rows
      PROVE  /\ Stepped(r).recov = job[r].recov
             /\ Stepped(r).handed = job[r].handed
             /\ [Stepped(r) EXCEPT !.runs = @ + 1].recov = job[r].recov
             /\ [Stepped(r) EXCEPT !.runs = @ + 1].handed = job[r].handed
  BY <1>1 DEF Stepped, TypeOK, JobRow
<1> QED
  BY <1>1 DEF TypeOK, ClaimInv, KeepsClaims

LEMMA APIKeeps == TypeOK /\ ClaimInv /\ API => KeepsClaims
<1> SUFFICES ASSUME TypeOK, ClaimInv, API PROVE KeepsClaims
  OBVIOUS
<1>1. ASSUME NEW q \in Requests, NEW r \in Rows, NEW n \in BOOLEAN, NEW f \in BOOLEAN,
             StartRun(q, r, n, f)
      PROVE  KeepsClaims
  BY <1>1 DEF StartRun, TypeOK, JobRow, ClaimInv, KeepsClaims
<1>2. ASSUME NEW r \in Rows, PauseClick(r) \/ StopClick(r) PROVE KeepsClaims
  BY <1>2, StatusKeeps DEF PauseClick, StopClick
<1>3. ASSUME NEW q \in Requests, NEW r \in Rows, ResumeCheck(q, r) PROVE KeepsClaims
  BY <1>3, StillKeeps DEF ResumeCheck
<1>4. ASSUME NEW q \in Requests, ResumeWrite(q) PROVE KeepsClaims
  BY <1>4 DEF ResumeWrite, TypeOK, JobRow, ClaimInv, KeepsClaims
<1>5. ASSUME NEW q \in Requests, Submit(q) \/ RequestLost(q) PROVE KeepsClaims
  BY <1>5, StillKeeps DEF Submit, RequestLost
<1>6. ASSUME NEW q \in Requests, SubmitThrows(q) PROVE KeepsClaims
  <2>1. SetStatus(request[q].row, "failed") \/ UNCHANGED job
    BY <1>6 DEF SubmitThrows, SetStatus
  <2> QED
    BY <1>6, <2>1, StatusKeeps, StillKeeps DEF SubmitThrows
<1> QED
  BY <1>1, <1>2, <1>3, <1>4, <1>5, <1>6 DEF API

LEMMA BullMQKeeps == ClaimInv /\ BullMQ => KeepsClaims
  BY StillKeeps DEF BullMQ, Deliver, EndEntry, FailEntry, Stalled

LEMMA WorkKeeps ==
  ASSUME TypeOK, ClaimInv, NEW e \in Entries, Work(e)
  PROVE  KeepsClaims
<1>1. CASE Begin(e)
  BY <1>1, StepKeeps, StillKeeps DEF Begin
<1>2. CASE StampCommit(e)
  BY <1>2 DEF StampCommit, TypeOK, JobRow, ClaimInv, KeepsClaims
<1>3. CASE ResolveRun(e)
  BY <1>3, StatusKeeps, StillKeeps DEF ResolveRun
<1>4. CASE Step(e)
  BY <1>4, StepKeeps, StillKeeps DEF Step
<1>5. CASE ReuseComplete(e)
  BY <1>5 DEF ReuseComplete, TypeOK, JobRow, ClaimInv, KeepsClaims
<1>6. CASE Persist(e) \/ EnqueueResume(e) \/ MarkSnapshot(e)
  BY <1>6, StillKeeps DEF Persist, EnqueueResume, MarkSnapshot
<1>7. CASE LinkSnapshot(e)
  BY <1>7 DEF LinkSnapshot, TypeOK, JobRow, ClaimInv, KeepsClaims
<1>8. CASE Finish(e) \/ PauseRow(e)
  BY <1>8, StatusKeeps DEF Finish, PauseRow
<1>9. CASE ChainGeneration(e)
  BY <1>9 DEF ChainGeneration, TypeOK, JobRow, ClaimInv, KeepsClaims
<1>10. CASE RateLimited(e)
  <2>1. ASSUME Row(e) \in Rows
        PROVE  /\ Postponed(Row(e)).recov = job[Row(e)].recov
               /\ Postponed(Row(e)).handed = job[Row(e)].handed
    BY <2>1 DEF Postponed, TypeOK, JobRow
  <2>2. \/ job' = [job EXCEPT ![Row(e)] = Postponed(Row(e))]
        \/ UNCHANGED job
    BY <1>10 DEF RateLimited
  <2> QED
    BY <1>10, <2>1, <2>2 DEF RateLimited, TypeOK, ClaimInv, KeepsClaims
<1>11. CASE RecordFailure(e)
  BY <1>11 DEF RecordFailure, TypeOK, JobRow, ClaimInv, KeepsClaims
<1> QED
  BY <1>1, <1>2, <1>3, <1>4, <1>5, <1>6, <1>7, <1>8, <1>9, <1>10, <1>11 DEF Work

LEMMA WorkerKeeps == TypeOK /\ ClaimInv /\ Worker => KeepsClaims
<1> SUFFICES ASSUME TypeOK, ClaimInv, NEW e \in Entries,
                    \/ Work(e)
                    \/ ThrowEarly(e) \/ Throw(e) \/ Refuse(e) \/ FailSnapshot(e) \/ AiPause(e)
             PROVE  KeepsClaims
  BY DEF Worker
<1>1. CASE Work(e)
  BY <1>1, WorkKeeps
<1>2. CASE ~Work(e)
  BY <1>2, StillKeeps DEF ThrowEarly, Throw, Refuse, FailSnapshot, AiPause
<1> QED
  BY <1>1, <1>2

LEMMA EnvironmentKeeps == TypeOK /\ ClaimInv /\ Environment => KeepsClaims
<1> SUFFICES ASSUME TypeOK, ClaimInv, Environment PROVE KeepsClaims
  OBVIOUS
<1>1. ASSUME NEW e \in Entries, Beat(e) \/ Abandon(e) PROVE KeepsClaims
  <2>1. \/ \E b \in BOOLEAN : job' = [job EXCEPT ![Row(e)].silent = b]
        \/ UNCHANGED job
    BY <1>1 DEF Beat, Abandon
  <2>2. UNCHANGED sweeper
    BY <1>1 DEF Beat, Abandon
  <2> QED
    BY <2>1, <2>2 DEF TypeOK, JobRow, ClaimInv, KeepsClaims
<1>2. ASSUME NEW e \in Entries, Crash(e) PROVE KeepsClaims
  BY <1>2, StillKeeps DEF Crash
<1>3. ASSUME NEW r \in Rows, FallSilent(r) PROVE KeepsClaims
  BY <1>3 DEF FallSilent, TypeOK, JobRow, ClaimInv, KeepsClaims
<1>4. ASSUME NEW s \in Sweepers, CrashSweeper(s) PROVE KeepsClaims
  BY <1>4 DEF CrashSweeper, TypeOK, Sweeper, ClaimInv, KeepsClaims
<1> QED
  BY <1>1, <1>2, <1>3, <1>4 DEF Environment

\* The steps of a sweep that neither claim nor hand back.
SettlesClaims(s) ==
  \/ SelectStranded(s) \/ AskLive(s) \/ EndSweep(s)
  \/ \E c \in sweeper[s].held : GiveUp(s, c[1], c[2]) \/ RequeueThrows(s, c[1], c[2])
  \/ \E r \in Rows : MarkOrphanSnapshot(s, r) \/ FailStranded(s, r)

LEMMA FailOrphanRowKeeps ==
  ASSUME TypeOK, ClaimInv, NEW s \in Sweepers, NEW r, NEW n,
         <<r, n>> \in sweeper[s].held, FailOrphanRow(s, r, n)
  PROVE  KeepsClaims
  BY DEF FailOrphanRow, Doomed, TypeOK, JobRow, Sweeper, ClaimInv, KeepsClaims

LEMMA SettlesKeeps ==
  ASSUME TypeOK, ClaimInv, NEW s \in Sweepers, SettlesClaims(s)
  PROVE  KeepsClaims
<1>1. CASE SelectStranded(s)
  BY <1>1 DEF SelectStranded, TypeOK, Sweeper, ClaimInv, KeepsClaims
<1>2. CASE AskLive(s)
  BY <1>2 DEF AskLive, TypeOK, Sweeper, ClaimInv, KeepsClaims
<1>3. CASE EndSweep(s)
  BY <1>3 DEF EndSweep, TypeOK, Sweeper, ClaimInv, KeepsClaims
<1>4. ASSUME NEW c \in sweeper[s].held, GiveUp(s, c[1], c[2]) \/ RequeueThrows(s, c[1], c[2])
      PROVE  KeepsClaims
  BY <1>4, FailOrphanRowKeeps DEF GiveUp, RequeueThrows
<1>5. ASSUME NEW r \in Rows, MarkOrphanSnapshot(s, r) PROVE KeepsClaims
  BY <1>5 DEF MarkOrphanSnapshot, TypeOK, Sweeper, ClaimInv, KeepsClaims
<1>6. ASSUME NEW r \in Rows, FailStranded(s, r) PROVE KeepsClaims
  BY <1>6 DEF FailStranded, TypeOK, JobRow, Sweeper, ClaimInv, KeepsClaims
<1> QED
  BY <1>1, <1>2, <1>3, <1>4, <1>5, <1>6 DEF SettlesClaims

\* A step is a claim, a hand-back, or keeps the claims.
LEMMA StepCases ==
  ASSUME TypeOK, ClaimInv, Next
  PROVE  \/ \E s \in Sweepers : ClaimOrphans(s)
         \/ \E s \in Sweepers : \E c \in sweeper[s].held : Requeue(s, c[1], c[2])
         \/ KeepsClaims
<1>1. CASE API \/ BullMQ \/ Worker \/ Environment
  BY <1>1, APIKeeps, BullMQKeeps, WorkerKeeps, EnvironmentKeeps
<1>2. CASE Sweep
  <2>1. PICK s \in Sweepers :
          \/ ClaimOrphans(s)
          \/ \E c \in sweeper[s].held : Requeue(s, c[1], c[2])
          \/ SettlesClaims(s)
    BY <1>2 DEF Sweep, SweepStep, SettlesClaims
  <2> QED
    BY <2>1, SettlesKeeps
<1> QED
  BY <1>1, <1>2 DEF Next

\* The numbering of a claim is what makes it exclusive: a loss is counted in the
\* statement that claims it, so no later claim can carry its number.
LEMMA ClaimStep ==
  ASSUME TypeOK, ClaimInv, NEW s \in Sweepers, ClaimOrphans(s)
  PROVE  ClaimInv'
<1> DEFINE claims == {<<r, job[r].recov + 1>> : r \in Orphans}
<1>1. \A r \in Rows : /\ job'[r].handed = job[r].handed
                      /\ job'[r].recov = IF r \in Orphans THEN job[r].recov + 1 ELSE job[r].recov
                      /\ job[r].recov \in Nat
  BY DEF ClaimOrphans, Claimed, TypeOK, JobRow
<1>2. /\ sweeper'[s].held = claims
      /\ sweeper'[s].at = "handling"
      /\ \A t \in Sweepers \ {s} : sweeper'[t] = sweeper[t]
  BY DEF ClaimOrphans, TypeOK, Sweeper
<1>3. \A t \in Sweepers : \A c \in sweeper[t].held :
        c[1] \in Rows /\ c[2] \in Nat /\ c[2] <= job[c[1]].recov
  BY <1>1, HeldTyped DEF ClaimInv
<1>4. \A r \in Rows : job'[r].handed \subseteq {n \in 1..job'[r].recov : n <= MaxRecovery}
  BY <1>1 DEF ClaimInv
<1>5. \A t \in Sweepers : sweeper'[t].at # "handling" => sweeper'[t].held = {}
  BY <1>2 DEF ClaimInv
<1>6. ASSUME NEW t \in Sweepers, NEW c \in sweeper'[t].held
      PROVE  c[2] \in 1..job'[c[1]].recov /\ c[2] \notin job'[c[1]].handed
  <2>1. CASE t = s
    <3>1. PICK r \in Orphans : c = <<r, job[r].recov + 1>>
      BY <1>2, <1>6, <2>1
    <3>2. r \in Rows /\ c[1] = r /\ c[2] = job[r].recov + 1
      BY <3>1 DEF Orphans
    <3>3. job[r].recov + 1 \notin job[r].handed
      BY <1>1, <3>2 DEF ClaimInv
    <3> QED
      BY <1>1, <3>1, <3>2, <3>3
  <2>2. CASE t # s
    <3>1. c \in sweeper[t].held
      BY <1>2, <1>6, <2>2
    <3> QED
      BY <1>1, <1>3, <3>1 DEF ClaimInv
  <2> QED
    BY <2>1, <2>2
<1>7. ASSUME NEW t \in Sweepers \ {s} PROVE claims \intersect sweeper[t].held = {}
  <2>1. ASSUME NEW r \in Orphans PROVE <<r, job[r].recov + 1>> \notin sweeper[t].held
    <3>1. r \in Rows
      BY DEF Orphans
    <3>2. ~(job[r].recov + 1 <= job[r].recov)
      BY <1>1, <3>1
    <3> QED
      BY <1>3, <3>2
  <2> QED
    BY <2>1
<1>8. \A t, u \in Sweepers : t # u => sweeper'[t].held \intersect sweeper'[u].held = {}
  BY <1>2, <1>7 DEF ClaimInv
<1> QED
  BY <1>4, <1>5, <1>6, <1>8 DEF ClaimInv

LEMMA HandBackStep ==
  ASSUME TypeOK, ClaimInv, NEW s \in Sweepers, NEW c \in sweeper[s].held, Requeue(s, c[1], c[2])
  PROVE  ClaimInv'
<1>1. c[1] \in Rows /\ c[2] \in Nat /\ c = <<c[1], c[2]>> /\ c[2] <= MaxRecovery
  BY HeldTyped DEF Requeue, isRecoverable
<1>2. \A r \in Rows : /\ job'[r].recov = job[r].recov
                      /\ job'[r].handed = IF r = c[1] THEN job[r].handed \union {c[2]}
                                                      ELSE job[r].handed
  BY <1>1 DEF Requeue, TypeOK, JobRow
<1>3. /\ sweeper'[s].held = sweeper[s].held \ {c}
      /\ \A t \in Sweepers \ {s} : sweeper'[t].held = sweeper[t].held
      /\ \A t \in Sweepers : sweeper'[t].at = sweeper[t].at
  BY <1>1 DEF Requeue, TypeOK, Sweeper
<1>4. \A r \in Rows : job'[r].handed \subseteq {n \in 1..job'[r].recov : n <= MaxRecovery}
  <2>1. c[2] \in {n \in 1..job[c[1]].recov : n <= MaxRecovery}
    BY <1>1 DEF ClaimInv
  <2>2. \A r \in Rows : job[r].handed \subseteq {n \in 1..job[r].recov : n <= MaxRecovery}
    BY DEF ClaimInv
  <2>3. ASSUME NEW r \in Rows
        PROVE  job'[r].handed \subseteq {n \in 1..job'[r].recov : n <= MaxRecovery}
    <3>1. CASE r = c[1]
      <4>1. job'[r].handed = job[r].handed \union {c[2]} /\ job'[r].recov = job[r].recov
        BY <1>2, <3>1
      <4>2. c[2] \in {n \in 1..job[r].recov : n <= MaxRecovery}
        BY <2>1, <3>1
      <4>3. job[r].handed \subseteq {n \in 1..job[r].recov : n <= MaxRecovery}
        BY <2>2
      <4> QED
        BY <4>1, <4>2, <4>3
    <3>2. CASE r # c[1]
      BY <1>2, <2>2, <3>2
    <3> QED
      BY <3>1, <3>2
  <2> QED
    BY <2>3
<1>5. \A t \in Sweepers : sweeper'[t].at # "handling" => sweeper'[t].held = {}
  BY <1>3 DEF ClaimInv
<1>6. ASSUME NEW t \in Sweepers, NEW d \in sweeper'[t].held
      PROVE  d[2] \in 1..job'[d[1]].recov /\ d[2] \notin job'[d[1]].handed
  <2>1. d \in sweeper[t].held /\ d # c
    BY <1>3, <1>6 DEF ClaimInv
  <2>2. d[1] \in Rows /\ d = <<d[1], d[2]>>
    BY <2>1, HeldTyped
  <2>3. d[2] \in 1..job[d[1]].recov /\ d[2] \notin job[d[1]].handed
    BY <2>1 DEF ClaimInv
  <2> QED
    BY <1>1, <1>2, <2>1, <2>2, <2>3, ZenonT(40)
<1>7. \A t, u \in Sweepers : t # u => sweeper'[t].held \intersect sweeper'[u].held = {}
  BY <1>3 DEF ClaimInv
<1> QED
  BY <1>4, <1>5, <1>6, <1>7 DEF ClaimInv

LEMMA KeptStep ==
  ASSUME TypeOK, ClaimInv, KeepsClaims
  PROVE  ClaimInv'
<1>1. \A r \in Rows : job'[r].handed \subseteq {n \in 1..job'[r].recov : n <= MaxRecovery}
  BY DEF ClaimInv, KeepsClaims
<1>2. ASSUME NEW s \in Sweepers, NEW c \in sweeper'[s].held
      PROVE  c[2] \in 1..job'[c[1]].recov /\ c[2] \notin job'[c[1]].handed
  <2>1. c \in sweeper[s].held
    BY <1>2 DEF KeepsClaims
  <2> QED
    BY <2>1, HeldTyped DEF ClaimInv, KeepsClaims
<1>3. \A s, t \in Sweepers : s # t => sweeper'[s].held \intersect sweeper'[t].held = {}
  BY DEF ClaimInv, KeepsClaims
<1> QED
  BY <1>1, <1>2, <1>3 DEF ClaimInv, KeepsClaims

LEMMA ClaimInvStep == TypeOK /\ ClaimInv /\ [Next]_vars => ClaimInv'
<1> SUFFICES ASSUME TypeOK, ClaimInv, [Next]_vars PROVE ClaimInv'
  OBVIOUS
<1>1. CASE Next
  BY <1>1, StepCases, ClaimStep, HandBackStep, KeptStep
<1>2. CASE UNCHANGED vars
  BY <1>2 DEF ClaimInv, vars
<1> QED
  BY <1>1, <1>2

LEMMA ClaimInvInit == Init => ClaimInv
  BY DEF Init, ClaimInv

\* Type correctness and the claims, together inductive.
THEOREM ClaimsHold == Spec => [](TypeOK /\ ClaimInv)
<1>1. TypeOK /\ ClaimInv /\ [Next]_vars => ClaimInv'
  BY ClaimInvStep
<1> QED
  BY <1>1, ClaimInvInit, TypeCorrect, PTL DEF Spec

\* Of any number of replicas sweeping at once, and dying at any point, one holds
\* a given loss of a given run, and none holds a loss after which the row was
\* handed back (claimOrphans' single UPDATE ... RETURNING).
THEOREM ClaimsAreExclusive == Spec => []ExclusiveClaims
<1>1. ClaimInv => ExclusiveClaims
  BY DEF ClaimInv, ExclusiveClaims
<1> QED
  BY <1>1, ClaimsHold, PTL

\* The sweep hands a row back to the queue at most MAX_RECOVERY_ATTEMPTS times
\* in its life, whatever clicks, crashes and errors come in between.
THEOREM RecoveryIsCapped == Spec => []RecoveryCap
<1>1. ASSUME ClaimInv, NEW r \in Rows PROVE Cardinality(job[r].handed) <= MaxRecovery
  <2>1. job[r].handed \subseteq 1..MaxRecovery
    BY <1>1, LimitsAssumption DEF ClaimInv
  <2>2. IsFiniteSet(1..MaxRecovery) /\ Cardinality(1..MaxRecovery) = MaxRecovery
    BY LimitsAssumption, FS_Interval
  <2> QED
    BY <2>1, <2>2, FS_Subset
<1>2. ClaimInv => RecoveryCap
  BY <1>1 DEF RecoveryCap
<1> QED
  BY <1>2, ClaimsHold, PTL

-----------------------------------------------------------------------------
(* Recovery implements its contract *)

\* The claims that are open, as the contract sees them.
Open == UNION {sweeper[s].held : s \in Sweepers}

LEMMA ContractInit == Init => Contract!Init
  BY DEF Init, Contract!Init

LEMMA ClaimIsLose ==
  ASSUME TypeOK, ClaimInv, NEW s \in Sweepers, ClaimOrphans(s)
  PROVE  Contract!Next
<1>1. Orphans \in SUBSET Rows
  BY DEF Orphans
<1>2. \A r \in Rows : /\ job'[r].handed = job[r].handed
                      /\ job'[r].recov = IF r \in Orphans THEN job[r].recov + 1 ELSE job[r].recov
  BY DEF ClaimOrphans, Claimed, TypeOK, JobRow
<1>3. /\ sweeper[s].held = {}
      /\ sweeper'[s].held = {<<r, job[r].recov + 1>> : r \in Orphans}
      /\ \A t \in Sweepers \ {s} : sweeper'[t].held = sweeper[t].held
  BY DEF ClaimOrphans, TypeOK, Sweeper, ClaimInv
<1>4. Open' = Open \union {<<r, job[r].recov + 1>> : r \in Orphans}
  BY <1>3 DEF Open
<1>5. PICK R \in SUBSET Rows : R = Orphans
  BY <1>1
<1>6. Open' = Open \union {<<r, [q \in Rows |-> job[q].recov][r] + 1>> : r \in R}
  BY <1>1, <1>4, <1>5
<1>7. Contract!Lose(R)
  BY <1>2, <1>5, <1>6 DEF Contract!Lose, Open
<1> QED
  BY <1>7 DEF Contract!Next

LEMMA RequeueIsHandBack ==
  ASSUME TypeOK, ClaimInv, NEW s \in Sweepers, NEW c \in sweeper[s].held, Requeue(s, c[1], c[2])
  PROVE  Contract!Next
<1>1. c[1] \in Rows /\ c = <<c[1], c[2]>> /\ c[2] <= MaxRecovery
  BY HeldTyped DEF Requeue, isRecoverable
<1>2. \A r \in Rows : /\ job'[r].recov = job[r].recov
                      /\ job'[r].handed = IF r = c[1] THEN job[r].handed \union {c[2]}
                                                      ELSE job[r].handed
  BY <1>1 DEF Requeue, TypeOK, JobRow
<1>3. /\ sweeper'[s].held = sweeper[s].held \ {c}
      /\ \A t \in Sweepers \ {s} : sweeper'[t].held = sweeper[t].held
  BY <1>1 DEF Requeue, TypeOK, Sweeper
<1>4. c \in Open /\ \A t \in Sweepers \ {s} : c \notin sweeper[t].held
  BY DEF Open, ClaimInv
<1>5. Open' = Open \ {c}
  BY <1>3, <1>4 DEF Open
<1>6. Contract!HandBack(c[1], c[2])
  BY <1>1, <1>2, <1>4, <1>5 DEF Contract!HandBack, Open
<1> QED
  BY <1>4, <1>6 DEF Contract!Next, Open

LEMMA KeptIsDrop ==
  ASSUME TypeOK, KeepsClaims
  PROVE  Contract!Next
<1>1. Open' \subseteq Open
  BY DEF KeepsClaims, Open
<1>2. PICK C \in SUBSET Open : C = Open \ Open'
  OBVIOUS
<1>3. Open' = Open \ C
  BY <1>1, <1>2
<1>4. Contract!Drop(C)
  BY <1>3 DEF Contract!Drop, KeepsClaims, Open
<1> QED
  BY <1>4 DEF Contract!Next, Open

\* reconcileOrphanedJobs, run by any number of replicas that may die between any
\* two statements, hands every noticed loss back at most once and none beyond the
\* cap: every step of the system claims, hands back or drops claims.
THEOREM RecoveryImplementsContract == Spec => ImplementsContract
<1>1. TypeOK /\ ClaimInv /\ [Next]_vars => [Contract!Next]_(Contract!cvars)
  <2> SUFFICES ASSUME TypeOK, ClaimInv, [Next]_vars PROVE [Contract!Next]_(Contract!cvars)
    OBVIOUS
  <2>1. CASE Next
    BY <2>1, StepCases, ClaimIsLose, RequeueIsHandBack, KeptIsDrop
  <2>2. CASE UNCHANGED vars
    BY <2>2 DEF vars, Contract!cvars
  <2> QED
    BY <2>1, <2>2
<1> QED
  BY <1>1, ContractInit, ClaimsHold, PTL DEF Spec, ImplementsContract, Contract!Spec

-----------------------------------------------------------------------------
(* The invariant behind the three properties *)

\* The delivery has put the commit on its row.
Stamped == {"stamped", "reuse", "reusing", "reused", "scanning", "persist"} \union Owning

\* Places of a delivery that wrote the graph and still answers for the
\* snapshot; with a hand-back under way, or on its way out, it wrote it.
Holding == {"linking", "phases", "requeue", "threwOwning", "recorded"}
Wrote   == Holding \union {"pausing", "finished"}

\* A delivery that may reuse what it finds, and one that is still to be submitted.
Unforced(f)     == entry[f].at # "free" /\ ~entry[f].force
UnforcedDue(q)  == request[q].at = "submit" /\ ~request[q].force

\* Rows are inserted in order, entries and requests belong to inserted rows, and
\* a resume is forced.
RowsInOrder ==
  /\ \A r \in Rows : job[r].status # "absent" => \A t \in 1..r : job[t].status # "absent"
  /\ \A e \in Entries : entry[e].at # "free" => job[Row(e)].status # "absent"
  /\ \A q \in Requests : request[q].at # "idle" => job[request[q].row].status # "absent"
  /\ \A q \in Requests : request[q].at = "checked" => request[q].force
  /\ \A s \in Sweepers : \A c \in sweeper[s].held : job[c[1]].status # "absent"

CommitNamed == \A e \in Entries : entry[e].at \in Stamped => job[Row(e)].named

\* Who is past the transaction wrote the graph, unless there was company.
WroteIt == \A e \in Entries : entry[e].at \in Wrote => snapshot.graphBy = e \/ snapshot.torn

\* Who declares a run done, or reuses the snapshot, has a whole graph before it.
SeenWhole ==
  \A e \in Entries : entry[e].at \in {"finished", "reuse", "reusing", "reused"} =>
    snapshot.full \/ snapshot.torn

ParkedIsPaused ==
  \A e \in Entries : entry[e].at = "pausing" => snapshot.status # "complete" \/ snapshot.torn

\* No delivery executes beside the one that answers for the snapshot.
HolderAlone == \A e \in Entries : entry[e].at \in Holding => ~Company(e)

\* The delivery that wrote the graph will finish the phases or mark the snapshot.
Held ==
  \E e \in Entries : \/ entry[e].at \in {"threwOwning", "recorded"}
                     \/ entry[e].at \in {"linking", "phases"} /\ ~Halted(Row(e))

\* It handed the run back to the queue: a run that is older than every unforced
\* delivery is active on the commit, so each of them bows out.
HandedTo(r) ==
  /\ Active(r) /\ job[r].named
  /\ \A f \in Entries : Unforced(f) =>
       Row(f) > r \/ (f = snapshot.graphBy /\ entry[f].at \in {"requeue", "ending"})
  /\ \A q \in Requests : UnforcedDue(q) => request[q].row > r

HandedBack == \E r \in Rows : HandedTo(r)

\* Nobody lost hold of an optimistic 'complete'.
HalfHeld == Half /\ ~snapshot.torn => HolderAlone /\ (Held \/ HandedBack)

SnapInv == RowsInOrder /\ CommitNamed /\ WroteIt /\ SeenWhole /\ ParkedIsPaused /\ HalfHeld

-----------------------------------------------------------------------------
(* How a step changes rows, entries and requests *)

\* A row that is there stays there and keeps its commit; a row is inserted after
\* all rows before it.
RowsGrow ==
  /\ \A r \in Rows : job[r].status # "absent" =>
       job'[r].status # "absent" /\ (job[r].named => job'[r].named)
  /\ \A r \in Rows : job[r].status = "absent" /\ job'[r].status # "absent" =>
       \A t \in 1..(r - 1) : job[t].status # "absent"

\* Only rows that are there are written, and none loses its status or its commit.
WritesTo(r) ==
  /\ \A t \in Rows \ {r} : job'[t] = job[t]
  /\ r \in Rows =>
       /\ job[r].status # "absent" /\ job'[r].status # "absent"
       /\ job[r].named => job'[r].named

LEMMA WriteGrows == ASSUME NEW r, WritesTo(r) PROVE RowsGrow
  BY DEF RowsGrow, WritesTo

LEMMA SameGrows == ASSUME UNCHANGED job PROVE RowsGrow
  BY DEF RowsGrow

LEMMA StatusWrites ==
  ASSUME TypeOK, NEW r, NEW s \in Status \ {"absent"}, SetStatus(r, s),
         r \in Rows => job[r].status # "absent"
  PROVE  WritesTo(r)
  BY DEF WritesTo, TypeOK, SetStatus, JobRow

LEMMA APIGrows == TypeOK /\ RowsInOrder /\ API => RowsGrow
<1> SUFFICES ASSUME TypeOK, RowsInOrder, API PROVE RowsGrow
  OBVIOUS
<1>1. ASSUME NEW q \in Requests, NEW r \in Rows, NEW n \in BOOLEAN, NEW f \in BOOLEAN,
             StartRun(q, r, n, f)
      PROVE  RowsGrow
  BY <1>1 DEF StartRun, RowsGrow, TypeOK
<1>2. ASSUME NEW r \in Rows, PauseClick(r) \/ StopClick(r) PROVE RowsGrow
  BY <1>2, StatusWrites, WriteGrows DEF PauseClick, StopClick, Status, Active
<1>3. ASSUME NEW q \in Requests, ResumeWrite(q) PROVE RowsGrow
  <2>1. WritesTo(request[q].row)
    BY <1>3 DEF ResumeWrite, WritesTo, RowsInOrder, TypeOK, JobRow
  <2> QED
    BY <2>1, WriteGrows
<1>4. ASSUME NEW q \in Requests, SubmitThrows(q) PROVE RowsGrow
  <2>1. UNCHANGED job \/ WritesTo(request[q].row)
    BY <1>4 DEF SubmitThrows, WritesTo, TypeOK, JobRow
  <2> QED
    BY <2>1, WriteGrows, SameGrows
<1> QED
  BY <1>1, <1>2, <1>3, <1>4, SameGrows DEF API, ResumeCheck, Submit, RequestLost

LEMMA WorkerGrows == TypeOK /\ RowsInOrder /\ Worker => RowsGrow
<1> SUFFICES ASSUME TypeOK, RowsInOrder, NEW e \in Entries,
                    Work(e) \/ ThrowEarly(e) \/ Throw(e) \/ Refuse(e) \/ FailSnapshot(e) \/ AiPause(e),
                    ~UNCHANGED job
             PROVE  WritesTo(Row(e))
  BY SameGrows, WriteGrows DEF Worker
<1>1. entry[e].at # "free"
  BY DEF Work, Begin, StampCommit, ResolveRun, Step, AfterStep, ReuseComplete,
         Persist, LinkSnapshot, Finish, ChainGeneration, RateLimited, EnqueueResume, PauseRow,
         RecordFailure, MarkSnapshot, ThrowEarly, Throw, Refuse, FailSnapshot, AiPause, Owning
<1> job[Row(e)].status # "absent" /\ Row(e) \in Rows /\ job[Row(e)] \in JobRow
  BY <1>1, InUseTyped DEF RowsInOrder, TypeOK
<1>2. CASE Begin(e) \/ Step(e)
  <2>1. \/ job' = [job EXCEPT ![Row(e)] = [Stepped(Row(e)) EXCEPT !.runs = @ + 1]]
        \/ job' = [job EXCEPT ![Row(e)] = Stepped(Row(e))]
    BY <1>2 DEF Begin, Step
  <2>2. CASE job' = [job EXCEPT ![Row(e)] = [Stepped(Row(e)) EXCEPT !.runs = @ + 1]]
    BY <2>2 DEF Stepped, WritesTo, TypeOK, JobRow
  <2>3. CASE job' = [job EXCEPT ![Row(e)] = Stepped(Row(e))]
    BY <2>3 DEF Stepped, WritesTo, TypeOK, JobRow
  <2> QED
    BY <2>1, <2>2, <2>3
<1>3. CASE StampCommit(e) \/ LinkSnapshot(e) \/ ChainGeneration(e)
  BY <1>3 DEF StampCommit, LinkSnapshot, ChainGeneration, WritesTo, TypeOK, JobRow
<1>4. CASE ResolveRun(e) \/ Finish(e) \/ PauseRow(e)
  BY <1>4, StatusWrites DEF ResolveRun, Finish, PauseRow, Status
<1>5. CASE ReuseComplete(e)
  BY <1>5 DEF ReuseComplete, WritesTo, TypeOK, JobRow
<1>6. CASE RateLimited(e)
  BY <1>6 DEF RateLimited, Postponed, WritesTo, TypeOK, JobRow
<1>7. CASE RecordFailure(e)
  BY <1>7 DEF RecordFailure, WritesTo, TypeOK, JobRow
<1> QED
  BY <1>2, <1>3, <1>4, <1>5, <1>6, <1>7
  DEF Work, Persist, EnqueueResume, MarkSnapshot, ThrowEarly, Throw, Refuse, FailSnapshot, AiPause

LEMMA EnvironmentGrows == TypeOK /\ Environment => RowsGrow
<1>1. ASSUME TypeOK, NEW r, NEW b \in BOOLEAN, job' = [job EXCEPT ![r].silent = b]
      PROVE  RowsGrow
  BY <1>1 DEF RowsGrow, TypeOK, JobRow
<1> QED
  BY <1>1, SameGrows DEF Environment, Beat, FallSilent, Crash, Abandon, CrashSweeper

LEMMA SweepGrows == TypeOK /\ RowsInOrder /\ Sweep => RowsGrow
<1> SUFFICES ASSUME TypeOK, RowsInOrder, NEW s \in Sweepers,
                    SweepStep(s) \/ \E c \in sweeper[s].held : RequeueThrows(s, c[1], c[2])
             PROVE  RowsGrow
  BY DEF Sweep
<1>1. ASSUME ClaimOrphans(s) PROVE RowsGrow
  BY <1>1 DEF ClaimOrphans, Claimed, Orphans, RowsGrow, TypeOK, JobRow
<1>2. ASSUME NEW c \in sweeper[s].held, Requeue(s, c[1], c[2]) PROVE RowsGrow
  <2>1. c[1] \in Rows /\ job[c[1]].status # "absent"
    BY HeldTyped DEF RowsInOrder
  <2>2. WritesTo(c[1])
    BY <1>2, <2>1 DEF Requeue, WritesTo, TypeOK, JobRow
  <2> QED
    BY <2>2, WriteGrows
<1>3. ASSUME NEW r, NEW n, FailOrphanRow(s, r, n) PROVE RowsGrow
  <2>1. UNCHANGED job \/ WritesTo(r)
    BY <1>3 DEF FailOrphanRow, WritesTo, TypeOK, JobRow
  <2> QED
    BY <2>1, WriteGrows, SameGrows
<1>4. ASSUME NEW r \in Rows, FailStranded(s, r) PROVE RowsGrow
  <2>1. UNCHANGED job \/ WritesTo(r)
    BY <1>4 DEF FailStranded, WritesTo, TypeOK, JobRow
  <2> QED
    BY <2>1, WriteGrows, SameGrows
<1> QED
  BY <1>1, <1>2, <1>3, <1>4, SameGrows
  DEF SweepStep, GiveUp, RequeueThrows, MarkOrphanSnapshot, SelectStranded, AskLive, EndSweep

LEMMA RowsOnlyGrow == TypeOK /\ RowsInOrder /\ [Next]_vars => RowsGrow
<1>1. BullMQ => UNCHANGED job
  BY DEF BullMQ, Deliver, EndEntry, FailEntry, Stalled
<1> QED
  BY <1>1, SameGrows, APIGrows, WorkerGrows, EnvironmentGrows, SweepGrows DEF Next, vars

LEMMA TypeStep == TypeOK /\ [Next]_vars => TypeOK'
<1>1. TypeOK /\ UNCHANGED vars => TypeOK'
  BY DEF TypeOK, vars
<1> QED
  BY <1>1, APITyped, BullMQTyped, WorkerTyped, EnvironmentTyped, SweepTyped DEF Next

\* The worker steps of one delivery.
Worked(e) ==
  Work(e) \/ ThrowEarly(e) \/ Throw(e) \/ Refuse(e) \/ FailSnapshot(e) \/ AiPause(e)

\* An entry is added for a request as it was submitted, or, forced, for a row.
Arrives(f) ==
  /\ entry[f].at = "free" /\ entry'[f].at = "waiting"
  /\ \/ \E q \in Requests : /\ request[q].at = "submit"
                            /\ entry'[f].row = request[q].row
                            /\ entry'[f].force = request[q].force
     \/ entry'[f].force /\ job[entry'[f].row].status # "absent"

\* An entry in use belongs to its row, forced or not, until it is freed.
Advances(f) ==
  /\ entry[f].at # "free"
  /\ entry'[f].row = entry[f].row /\ entry'[f].force = entry[f].force
  /\ entry'[f].at \in {"waiting", "dead"} \/ Worked(f)

EntryMoves ==
  \A f \in Entries : entry'[f] = entry[f] \/ entry'[f].at = "free" \/ Arrives(f) \/ Advances(f)

LEMMA AddedMoves ==
  ASSUME TypeOK, NEW e \in Entries, NEW q \in Requests, NEW n,
         request[q].at = "submit", entry[e].at = "free",
         entry' = Added(e, request[q].row, n, request[q].force)
  PROVE  EntryMoves
  BY DEF EntryMoves, Arrives, Added, TypeOK

LEMMA ResubmittedMoves ==
  ASSUME TypeOK, NEW e \in Entries, NEW r, entry[e].at = "free",
         job[r].status # "absent", entry' = Resubmitted(e, r)
  PROVE  EntryMoves
  BY DEF EntryMoves, Arrives, Resubmitted, Added, TypeOK

\* Go moves one entry and changes only its place.
LEMMA GoMoves ==
  ASSUME TypeOK, NEW e \in Entries, entry[e].at # "free", NEW p, Go(e, p)
  PROVE  /\ entry'[e].at = p /\ entry'[e].row = entry[e].row
         /\ entry'[e].force = entry[e].force
         /\ \A f \in Entries \ {e} : entry'[f] = entry[f]
<1>1. entry[e] = [entry[e] EXCEPT !.at = entry[e].at] /\ "at" \in DOMAIN entry[e]
  BY InUseTyped
<1> QED
  BY <1>1, InUseTyped DEF Go, TypeOK

LEMMA WorkedMoves ==
  ASSUME TypeOK, RowsInOrder, NEW e \in Entries, Worked(e)
  PROVE  EntryMoves
<1>1. entry[e].at # "free"
  BY DEF Worked, Work, Begin, StampCommit, ResolveRun, Step, AfterStep, ReuseComplete,
         Persist, LinkSnapshot, Finish, ChainGeneration, RateLimited, EnqueueResume, PauseRow,
         RecordFailure, MarkSnapshot, ThrowEarly, Throw, Refuse, FailSnapshot, AiPause, Owning
<1>2. ASSUME NEW p, Go(e, p) PROVE EntryMoves
  BY <1>1, <1>2, GoMoves DEF EntryMoves, Advances
<1>3. CASE EnqueueResume(e)
  <2>1. PICK n \in Entries : /\ entry[n].at = "free"
                             /\ entry' = [Resubmitted(n, Row(e)) EXCEPT ![e].at = "ending"]
    BY <1>3 DEF EnqueueResume
  <2>2. Resubmitted(n, Row(e))[e] = entry[e]
    BY <1>1, <2>1 DEF Resubmitted, Added, TypeOK
  <2>3. Advances(e)
    <3>1. entry'[e] = [entry[e] EXCEPT !.at = "ending"]
      BY <2>1, <2>2 DEF Resubmitted, Added, TypeOK
    <3> QED
      BY <1>1, <1>3, <3>1, InUseTyped DEF Advances, Worked, Work
  <2>4. Arrives(n)
    <3>1. entry'[n] = [at |-> "waiting", row |-> Row(e), left |-> 1, stalls |-> 0, force |-> TRUE]
      BY <1>1, <2>1 DEF Resubmitted, Added, TypeOK
    <3>2. job[Row(e)].status # "absent"
      BY <1>1 DEF RowsInOrder
    <3> QED
      BY <2>1, <3>1, <3>2 DEF Arrives
  <2>5. \A f \in Entries \ {e, n} : entry'[f] = entry[f]
    BY <2>1 DEF Resubmitted, Added, TypeOK
  <2> QED
    BY <2>3, <2>4, <2>5 DEF EntryMoves
<1>4. CASE ~EnqueueResume(e)
  <2>1. \E p : Go(e, p)
    BY <1>4 DEF Worked, Work, Begin, StampCommit, ResolveRun, Step, ReuseComplete, Persist,
                LinkSnapshot, Finish, ChainGeneration, RateLimited, PauseRow, RecordFailure,
                MarkSnapshot, ThrowEarly, Throw, Refuse, FailSnapshot, AiPause
  <2> QED
    BY <1>2, <2>1
<1> QED
  BY <1>3, <1>4

LEMMA EntriesMove == TypeOK /\ RowsInOrder /\ [Next]_vars => EntryMoves
<1> SUFFICES ASSUME TypeOK, RowsInOrder, [Next]_vars PROVE EntryMoves
  OBVIOUS
<1>1. ASSUME UNCHANGED entry PROVE EntryMoves
  BY <1>1 DEF EntryMoves
<1>2. CASE API
  <2>1. ASSUME NEW q \in Requests, Submit(q) \/ SubmitThrows(q) PROVE EntryMoves
    BY <1>1, <2>1, AddedMoves DEF Submit, SubmitThrows
  <2> QED
    BY <1>1, <1>2, <2>1
    DEF API, StartRun, PauseClick, StopClick, ResumeCheck, ResumeWrite, RequestLost
<1>3. ASSUME NEW e \in Entries, Deliver(e) PROVE EntryMoves
  <2>1. CASE entry' = [entry EXCEPT ![e] = FreeEntry]
    BY <2>1 DEF EntryMoves, FreeEntry, TypeOK
  <2>2. ASSUME entry[e].at # "free", entry' = [entry EXCEPT ![e] = Redelivered(e)]
        PROVE  EntryMoves
    BY <2>2, InUseTyped DEF EntryMoves, Advances, Redelivered, TypeOK
  <2>3. ASSUME entry[e].at # "free", entry' = [entry EXCEPT ![e] = Recovered(e)]
        PROVE  EntryMoves
    BY <2>3, InUseTyped DEF EntryMoves, Advances, Recovered, TypeOK
  <2> QED
    BY <1>3, <2>1, <2>2, <2>3 DEF Deliver, EndEntry, FailEntry, Stalled
<1>4. CASE Worker
  BY <1>4, WorkedMoves DEF Worker, Worked
<1>5. CASE Environment
  <2>1. ASSUME NEW e \in Entries, Crash(e) \/ Abandon(e) PROVE EntryMoves
    <3>1. entry[e].at # "free" /\ Go(e, "dead")
      BY <2>1 DEF Crash, Abandon, Executing, Beating
    <3> QED
      BY <3>1, GoMoves DEF EntryMoves, Advances
  <2> QED
    BY <1>1, <1>5, <2>1 DEF Environment, Beat, FallSilent, CrashSweeper
<1>6. CASE Sweep
  <2>1. ASSUME NEW s \in Sweepers, NEW c \in sweeper[s].held,
               Requeue(s, c[1], c[2]) \/ RequeueThrows(s, c[1], c[2])
        PROVE  EntryMoves
    BY <1>1, <2>1, ResubmittedMoves DEF Requeue, RequeueThrows, RowsInOrder
  <2> QED
    BY <1>1, <1>6, <2>1
    DEF Sweep, SweepStep, ClaimOrphans, GiveUp, MarkOrphanSnapshot, SelectStranded, AskLive,
        FailStranded, EndSweep
<1> QED
  BY <1>1, <1>2, <1>3, <1>4, <1>5, <1>6 DEF Next, BullMQ, vars
\* A request keeps its row and its force until it is idle again; a new one is
\* for an inserted row, or for a row it inserts, and a check of a resume is forced.
RequestMoves ==
  \A q \in Requests :
    \/ request'[q].at = "idle"
    \/ /\ request[q].at # "idle"
       /\ request'[q].row = request[q].row /\ request'[q].force = request[q].force
       /\ request'[q].at = request[q].at \/ request[q].at = "checked"
    \/ /\ request'[q].at = "checked" /\ request'[q].force
       /\ job[request'[q].row].status # "absent"
    \/ /\ request'[q].at = "submit" /\ request'[q].row \in Rows
       /\ job[request'[q].row].status = "absent"
       /\ job'[request'[q].row].status # "absent"

LEMMA RequestsMove == TypeOK /\ [Next]_vars => RequestMoves
<1> SUFFICES ASSUME TypeOK, [Next]_vars PROVE RequestMoves
  OBVIOUS
<1>1. ASSUME UNCHANGED request PROVE RequestMoves
  BY <1>1, InFlightTyped DEF RequestMoves
<1>2. CASE API
  <2>1. ASSUME NEW q \in Requests, NEW r \in Rows, NEW n \in BOOLEAN, NEW f \in BOOLEAN,
               StartRun(q, r, n, f)
        PROVE  RequestMoves
    BY <2>1 DEF StartRun, RequestMoves, TypeOK
  <2>2. ASSUME NEW q \in Requests, NEW r \in Rows, ResumeCheck(q, r) PROVE RequestMoves
    BY <2>2 DEF ResumeCheck, Halted, RequestMoves, TypeOK
  <2>3. ASSUME NEW q \in Requests, ResumeWrite(q) PROVE RequestMoves
    BY <2>3, InFlightTyped DEF ResumeWrite, RequestMoves, TypeOK
  <2>4. ASSUME NEW q \in Requests, request' = [request EXCEPT ![q] = IdleRequest]
        PROVE  RequestMoves
    BY <2>4 DEF RequestMoves, IdleRequest, TypeOK
  <2> QED
    BY <1>1, <1>2, <2>1, <2>2, <2>3, <2>4
    DEF API, PauseClick, StopClick, Submit, SubmitThrows, RequestLost
<1>3. CASE BullMQ \/ Worker \/ Environment \/ Sweep
  <2>1. UNCHANGED request
    BY <1>3
    DEF BullMQ, Deliver, EndEntry, FailEntry, Stalled, Worker, Work, Begin, StampCommit, ResolveRun,
        Step, ReuseComplete, Persist, LinkSnapshot, Finish, ChainGeneration, RateLimited,
        EnqueueResume, PauseRow, RecordFailure, MarkSnapshot, ThrowEarly, Throw, Refuse,
        FailSnapshot, AiPause, Environment, Beat, FallSilent, Crash, Abandon, CrashSweeper,
        Sweep, SweepStep, ClaimOrphans, Requeue, GiveUp, RequeueThrows, FailOrphanRow,
        MarkOrphanSnapshot, SelectStranded, AskLive, FailStranded, EndSweep
  <2> QED
    BY <1>1, <2>1
<1> QED
  BY <1>1, <1>2, <1>3 DEF Next, vars

\* The claims a sweep holds are for rows that are there.
LEMMA HeldRows ==
  TypeOK /\ RowsInOrder /\ [Next]_vars =>
    \A s \in Sweepers : \A c \in sweeper'[s].held : job[c[1]].status # "absent"
<1> SUFFICES ASSUME TypeOK, RowsInOrder, [Next]_vars, NEW t \in Sweepers, NEW d \in sweeper'[t].held
             PROVE  job[d[1]].status # "absent"
  OBVIOUS
<1>1. ASSUME sweeper'[t].held \subseteq sweeper[t].held PROVE job[d[1]].status # "absent"
  BY <1>1 DEF RowsInOrder
<1>2. ASSUME NEW s \in Sweepers, ClaimOrphans(s) PROVE job[d[1]].status # "absent"
  <2>1. CASE t = s
    <3>1. d \in {<<r, job[r].recov + 1>> : r \in Orphans}
      BY <1>2, <2>1 DEF ClaimOrphans, TypeOK
    <3> QED
      BY <3>1 DEF Orphans
  <2>2. CASE t # s
    BY <1>1, <1>2, <2>2 DEF ClaimOrphans, TypeOK
  <2> QED
    BY <2>1, <2>2
<1>3. ASSUME NEW s \in Sweepers, CrashSweeper(s) PROVE job[d[1]].status # "absent"
  BY <1>1, <1>3 DEF CrashSweeper, TypeOK
<1>4. ASSUME NEW s \in Sweepers, NEW w, sweeper' = [sweeper EXCEPT ![s] = w],
             w.held \subseteq sweeper[s].held
      PROVE  job[d[1]].status # "absent"
  BY <1>1, <1>4 DEF TypeOK
<1>5. ASSUME NEW s \in Sweepers, NEW r, NEW n,
             \/ Requeue(s, r, n) \/ FailOrphanRow(s, r, n) \/ SelectStranded(s) \/ AskLive(s)
             \/ MarkOrphanSnapshot(s, r) \/ FailStranded(s, r) \/ EndSweep(s)
      PROVE  job[d[1]].status # "absent"
  <2>1. sweeper[s] \in Sweeper
    BY DEF TypeOK
  <2>2. CASE Requeue(s, r, n)
    BY <1>4, <2>1, <2>2 DEF Requeue, Sweeper
  <2>3. CASE FailOrphanRow(s, r, n)
    BY <1>4, <2>1, <2>3 DEF FailOrphanRow, Doomed, Sweeper
  <2>4. CASE SelectStranded(s)
    BY <1>4, <2>1, <2>4 DEF SelectStranded, Sweeper
  <2>5. CASE AskLive(s)
    BY <1>4, <2>1, <2>5 DEF AskLive, Sweeper
  <2>6. CASE MarkOrphanSnapshot(s, r)
    BY <1>4, <2>1, <2>6 DEF MarkOrphanSnapshot, Sweeper
  <2>7. CASE FailStranded(s, r)
    BY <1>4, <2>1, <2>7 DEF FailStranded, Sweeper
  <2>8. CASE EndSweep(s)
    BY <1>4, <2>1, <2>8 DEF EndSweep, Sweeper
  <2> QED
    BY <1>5, <2>2, <2>3, <2>4, <2>5, <2>6, <2>7, <2>8
<1>6. ASSUME UNCHANGED sweeper PROVE job[d[1]].status # "absent"
  BY <1>6 DEF RowsInOrder
<1>7. CASE Sweep
  <2>1. PICK s \in Sweepers : SweepStep(s) \/ \E c \in sweeper[s].held : RequeueThrows(s, c[1], c[2])
    BY <1>7 DEF Sweep
  <2> QED
    BY <1>2, <1>5, <2>1 DEF SweepStep, GiveUp, RequeueThrows
<1>8. CASE API \/ BullMQ \/ Worker \/ Environment
  <2>1. UNCHANGED sweeper \/ \E s \in Sweepers : CrashSweeper(s)
    BY <1>8
    DEF API, StartRun, PauseClick, StopClick, ResumeCheck, ResumeWrite, Submit, SubmitThrows,
        RequestLost, BullMQ, Deliver, EndEntry, FailEntry, Stalled, Worker, Work, Begin,
        StampCommit, ResolveRun, Step, ReuseComplete, Persist, LinkSnapshot, Finish,
        ChainGeneration, RateLimited, EnqueueResume, PauseRow, RecordFailure, MarkSnapshot,
        ThrowEarly, Throw, Refuse, FailSnapshot, AiPause, Environment, Beat, FallSilent, Crash,
        Abandon
  <2> QED
    BY <1>3, <1>6, <2>1
<1> QED
  BY <1>6, <1>7, <1>8 DEF Next, vars
LEMMA RowsInOrderStep == TypeOK /\ RowsInOrder /\ [Next]_vars => RowsInOrder'
<1> SUFFICES ASSUME TypeOK, RowsInOrder, [Next]_vars PROVE RowsInOrder'
  OBVIOUS
<1>1. RowsGrow /\ EntryMoves /\ RequestMoves
  BY RowsOnlyGrow, EntriesMove, RequestsMove
<1>2. TypeOK'
  BY TypeStep
<1>3. ASSUME NEW r \in Rows, job'[r].status # "absent", NEW t \in 1..r
      PROVE  job'[t].status # "absent"
  <2>1. t \in Rows
    BY RowsAssumption DEF Rows
  <2>2. CASE job[r].status # "absent"
    BY <1>1, <2>1, <2>2 DEF RowsInOrder, RowsGrow
  <2>3. CASE job[r].status = "absent"
    <3>2. \A u \in 1..(r - 1) : job[u].status # "absent"
      BY <1>1, <1>3, <2>3 DEF RowsGrow
    <3>3. t \in 1..(r - 1) \/ t = r
      BY DEF Rows
    <3> QED
      BY <1>1, <1>3, <2>1, <3>2, <3>3 DEF RowsGrow
  <2> QED
    BY <2>2, <2>3
<1>4. ASSUME NEW f \in Entries, entry'[f].at # "free"
      PROVE  job'[entry'[f].row].status # "absent"
  <2>1. entry'[f].row \in Rows
    BY <1>2, <1>4 DEF TypeOK, Entry, FreeEntry
  <2>2. job[entry'[f].row].status # "absent"
    BY <1>1, <1>4 DEF EntryMoves, Arrives, Advances, RowsInOrder, Row
  <2> QED
    BY <1>1, <2>1, <2>2 DEF RowsGrow
<1>5. ASSUME NEW q \in Requests, request'[q].at # "idle"
      PROVE  job'[request'[q].row].status # "absent"
  <2>1. request'[q].row \in Rows
    BY <1>2, <1>5 DEF TypeOK, Request, IdleRequest
  <2> QED
    BY <1>1, <1>5, <2>1 DEF RequestMoves, RowsGrow, RowsInOrder
<1>6. ASSUME NEW q \in Requests, request'[q].at = "checked" PROVE request'[q].force
  BY <1>1, <1>6 DEF RequestMoves, RowsInOrder
<1>7. ASSUME NEW s \in Sweepers, NEW c \in sweeper'[s].held PROVE job'[c[1]].status # "absent"
  <2>1. c[1] \in Rows
    BY <1>2 DEF TypeOK, Sweeper
  <2> QED
    BY <1>1, <2>1, HeldRows DEF RowsGrow
<1> QED
  BY <1>3, <1>4, <1>5, <1>6, <1>7 DEF RowsInOrder, Row
-----------------------------------------------------------------------------
(* How a step changes the snapshot, and where a delivery goes *)

\* Only the persisting transaction renews the snapshot; any other step keeps its
\* author and what is known of it, and none marks it 'complete'.
SnapshotAges ==
  /\ snapshot'.graphBy = snapshot.graphBy
  /\ snapshot.torn => snapshot'.torn
  /\ snapshot.full => snapshot'.full
  /\ snapshot'.status = "complete" => snapshot.status = "complete"

LEMMA InterruptsAges ==
  ASSUME TypeOK, NEW yes \in BOOLEAN, Interrupts(yes)
  PROVE  SnapshotAges
  BY DEF SnapshotAges, TypeOK, Snapshot, Interrupts, Half

LEMMA FailedAges ==
  ASSUME TypeOK, SnapshotFailed
  PROVE  SnapshotAges
  BY DEF SnapshotAges, TypeOK, Snapshot, SnapshotFailed

LEMMA SnapshotMoves ==
  ASSUME TypeOK, [Next]_vars, \A e \in Entries : ~Persist(e)
  PROVE  SnapshotAges
<1>1. ASSUME UNCHANGED snapshot PROVE SnapshotAges
  BY <1>1 DEF SnapshotAges
<1>2. CASE API
  <2>1. ASSUME NEW r \in Rows, PauseClick(r) \/ StopClick(r) PROVE SnapshotAges
    BY <2>1, InterruptsAges DEF PauseClick, StopClick
  <2>2. ASSUME NEW q \in Requests, SubmitThrows(q) PROVE SnapshotAges
    BY <2>2, InterruptsAges DEF SubmitThrows
  <2> QED
    BY <1>1, <1>2, <2>1, <2>2
    DEF API, StartRun, ResumeCheck, ResumeWrite, Submit, RequestLost
<1>3. CASE BullMQ
  BY <1>1, <1>3 DEF BullMQ, Deliver, EndEntry, FailEntry, Stalled
<1>4. ASSUME NEW e \in Entries, Worked(e) PROVE SnapshotAges
  <2>1. CASE Begin(e)
    BY <2>1, InterruptsAges DEF Begin, Company
  <2>2. CASE RateLimited(e)
    <3>1. CASE MayResume(Row(e))
      BY <2>2, <3>1, InterruptsAges DEF RateLimited, ReuserDue
    <3>2. CASE ~MayResume(Row(e))
      BY <2>2, <3>2 DEF RateLimited, SnapshotAges, TypeOK, Snapshot
    <3> QED
      BY <3>1, <3>2
  <2>3. CASE Finish(e) \/ AiPause(e) \/ FailSnapshot(e)
    BY <2>3 DEF Finish, AiPause, FailSnapshot, SnapshotAges, TypeOK, Snapshot
  <2>4. CASE RecordFailure(e) \/ ThrowEarly(e)
    BY <2>4, InterruptsAges DEF RecordFailure, ThrowEarly
  <2>5. CASE MarkSnapshot(e)
    BY <2>5, FailedAges DEF MarkSnapshot
  <2> QED
    BY <1>1, <1>4, <2>1, <2>2, <2>3, <2>4, <2>5
    DEF Worked, Work, StampCommit, ResolveRun, Step, ReuseComplete, LinkSnapshot, ChainGeneration,
        EnqueueResume, PauseRow, Throw, Refuse
<1>5. CASE Environment
  BY <1>1, <1>5, InterruptsAges DEF Environment, Beat, FallSilent, Crash, Abandon, CrashSweeper
<1>6. CASE Sweep
  <2>1. ASSUME NEW s \in Sweepers, NEW r, NEW n, FailOrphanRow(s, r, n) PROVE SnapshotAges
    BY <2>1, InterruptsAges DEF FailOrphanRow
  <2>2. ASSUME NEW s \in Sweepers, NEW r \in Rows, MarkOrphanSnapshot(s, r) PROVE SnapshotAges
    BY <1>1, <2>2, FailedAges DEF MarkOrphanSnapshot
  <2>3. ASSUME NEW s \in Sweepers, NEW r \in Rows, FailStranded(s, r) PROVE SnapshotAges
    BY <2>3, InterruptsAges DEF FailStranded
  <2> QED
    BY <1>1, <1>6, <2>1, <2>2, <2>3
    DEF Sweep, SweepStep, ClaimOrphans, Requeue, GiveUp, RequeueThrows, SelectStranded, AskLive,
        EndSweep
<1> QED
  BY <1>1, <1>2, <1>3, <1>4, <1>5, <1>6 DEF Next, Worker, Worked, vars

\* Where a worker step can take its delivery.
LEMMA WorkedPlaces ==
  ASSUME TypeOK, NEW e \in Entries, Worked(e)
  PROVE  /\ entry'[e].at \in Stamped => entry[e].at \in Stamped \/ StampCommit(e)
         /\ entry'[e].at \in Wrote => entry[e].at \in Wrote \/ Persist(e)
         /\ entry'[e].at = "finished" => Finish(e)
         /\ entry'[e].at \in {"reuse", "reusing", "reused"} =>
              entry[e].at \in {"reuse", "reusing", "reused"} \/ ResolveRun(e)
         /\ entry'[e].at = "pausing" => snapshot'.status = "paused"
<1> USE DEF Stamped, Wrote, Holding, Owning
<1>1. ASSUME NEW p, Go(e, p), entry[e].at # "free" PROVE entry'[e].at = p
  BY <1>1, GoMoves
<1>2. CASE Begin(e) \/ ThrowEarly(e)
  BY <1>1, <1>2 DEF Begin, ThrowEarly
<1>3. CASE StampCommit(e)
  BY <1>1, <1>3 DEF StampCommit
<1>4. CASE ResolveRun(e)
  BY <1>1, <1>4 DEF ResolveRun
<1>5. CASE Step(e)
  BY <1>1, <1>5 DEF Step, AfterStep
<1>6. CASE ReuseComplete(e) \/ ChainGeneration(e)
  BY <1>1, <1>6 DEF ReuseComplete, ChainGeneration
<1>7. CASE Persist(e) \/ LinkSnapshot(e) \/ Finish(e)
  BY <1>1, <1>7 DEF Persist, LinkSnapshot, Finish
<1>8. CASE RateLimited(e) \/ AiPause(e) \/ FailSnapshot(e)
  BY <1>1, <1>8 DEF RateLimited, AiPause, FailSnapshot, TypeOK, Snapshot
<1>9. CASE EnqueueResume(e)
  <2>1. entry'[e].at = "ending"
    <3>1. PICK n \in Entries : /\ entry[n].at = "free"
                               /\ entry' = [Resubmitted(n, Row(e)) EXCEPT ![e].at = "ending"]
      BY <1>9 DEF EnqueueResume
    <3>2. Resubmitted(n, Row(e))[e] = entry[e]
      BY <1>9, <3>1 DEF EnqueueResume, Resubmitted, Added, TypeOK
    <3>3. entry'[e] = [entry[e] EXCEPT !.at = "ending"]
      BY <3>1, <3>2 DEF Resubmitted, Added, TypeOK
    <3> QED
      BY <1>9, <3>3, InUseTyped DEF EnqueueResume
  <2> QED
    BY <2>1
<1>10. CASE PauseRow(e) \/ MarkSnapshot(e) \/ RecordFailure(e)
  BY <1>1, <1>10 DEF PauseRow, MarkSnapshot, RecordFailure
<1>11. CASE Throw(e) \/ Refuse(e)
  BY <1>1, <1>11 DEF Throw, Refuse
<1> QED
  BY <1>2, <1>3, <1>4, <1>5, <1>6, <1>7, <1>8, <1>9, <1>10, <1>11 DEF Worked, Work

\* An entry is in one of those places after a step only because it was there, or
\* because a worker step took it there.
LEMMA Places ==
  ASSUME EntryMoves, NEW f \in Entries, entry'[f].at \in Stamped \union Wrote
  PROVE  entry'[f] = entry[f] \/ Worked(f)
  BY DEF EntryMoves, Arrives, Advances, Stamped, Wrote, Holding, Owning

LEMMA CommitNamedStep == TypeOK /\ RowsInOrder /\ CommitNamed /\ [Next]_vars => CommitNamed'
<1> SUFFICES ASSUME TypeOK, RowsInOrder, CommitNamed, [Next]_vars,
                    NEW f \in Entries, entry'[f].at \in Stamped
             PROVE  job'[entry'[f].row].named
  BY DEF CommitNamed, Row
<1>1. EntryMoves /\ RowsGrow
  BY EntriesMove, RowsOnlyGrow
<1>2. entry'[f] = entry[f] \/ Worked(f)
  BY <1>1, Places
<1>3. entry'[f].row = Row(f)
  BY <1>1, <1>2 DEF EntryMoves, Arrives, Advances, Stamped, Owning, Row
<1>4. entry[f].at \in Stamped \/ StampCommit(f)
  BY <1>2, WorkedPlaces
<1>5. entry[f].at # "free" /\ Row(f) \in Rows
  BY <1>4, InUseTyped DEF Stamped, Owning, StampCommit
<1>6. CASE entry[f].at \in Stamped
  BY <1>1, <1>3, <1>5, <1>6 DEF CommitNamed, RowsGrow, RowsInOrder
<1>7. CASE StampCommit(f)
  BY <1>3, <1>5, <1>7 DEF StampCommit, TypeOK, JobRow
<1> QED
  BY <1>4, <1>6, <1>7
\* Persist moves its own delivery to "linking", and notes any company.
LEMMA Persisted ==
  ASSUME TypeOK, NEW e \in Entries, Persist(e)
  PROVE  /\ snapshot'.graphBy = e /\ entry'[e].at = "linking"
         /\ \A f \in Entries \ {e} : entry'[f] = entry[f]
         /\ \A f \in Entries \ {e} : entry[f].at \in Beating => snapshot'.torn
  BY GoMoves DEF Persist, Company

LEMMA WroteItStep == TypeOK /\ RowsInOrder /\ WroteIt /\ [Next]_vars => WroteIt'
<1> SUFFICES ASSUME TypeOK, RowsInOrder, WroteIt, [Next]_vars,
                    NEW f \in Entries, entry'[f].at \in Wrote
             PROVE  snapshot'.graphBy = f \/ snapshot'.torn
  BY DEF WroteIt
<1>1. ASSUME NEW e \in Entries, Persist(e) PROVE snapshot'.graphBy = f \/ snapshot'.torn
  BY <1>1, Persisted DEF Wrote, Holding, Beating
<1>2. CASE \A e \in Entries : ~Persist(e)
  <2>1. entry'[f] = entry[f] \/ Worked(f)
    BY EntriesMove, Places
  <2>2. entry[f].at \in Wrote
    BY <1>2, <2>1, WorkedPlaces
  <2> QED
    BY <1>2, <2>2, SnapshotMoves DEF WroteIt, SnapshotAges
<1> QED
  BY <1>1, <1>2

\* With an optimistic 'complete' still held, an unforced delivery that asks which
\* run it is finds an older one: it does not get as far as the reuse.
LEMMA ReuserBowsOut ==
  ASSUME TypeOK, HalfHeld, Half, ~snapshot.torn, NEW f \in Entries, entry[f].at = "stamped",
         ~entry[f].force
  PROVE  \E t \in 1..(Row(f) - 1) : Active(t) /\ job[t].named
<1>1. ~Held
  BY DEF Held, HalfHeld, HolderAlone, Company, Holding, Beating
<1>2. PICK r \in Rows : /\ Active(r) /\ job[r].named
                        /\ Unforced(f) => Row(f) > r \/ entry[f].at \in {"requeue", "ending"}
  BY <1>1 DEF HalfHeld, HandedBack, HandedTo
<1>3. Row(f) \in Rows /\ Row(f) > r
  BY <1>2, InUseTyped DEF Unforced
<1> QED
  BY <1>2, <1>3, RowsAssumption DEF Rows

LEMMA SeenWholeStep ==
  TypeOK /\ RowsInOrder /\ WroteIt /\ SeenWhole /\ HalfHeld /\ [Next]_vars => SeenWhole'
<1> SUFFICES ASSUME TypeOK, RowsInOrder, WroteIt, SeenWhole, HalfHeld, [Next]_vars, NEW f \in Entries,
                    entry'[f].at \in {"finished", "reuse", "reusing", "reused"}
             PROVE  snapshot'.full \/ snapshot'.torn
  BY DEF SeenWhole
<1>1. ASSUME NEW e \in Entries, Persist(e) PROVE snapshot'.full \/ snapshot'.torn
  BY <1>1, Persisted DEF Beating
<1>2. CASE \A e \in Entries : ~Persist(e)
  <2>1. SnapshotAges
    BY <1>2, SnapshotMoves
  <2>2. entry'[f] = entry[f] \/ Worked(f)
    BY EntriesMove, Places DEF Stamped, Wrote, Owning
  <2>3. CASE entry[f].at \in {"finished", "reuse", "reusing", "reused"}
    BY <2>1, <2>3 DEF SeenWhole, SnapshotAges
  <2>4. CASE Finish(f)
    <3>1. snapshot.graphBy = f \/ snapshot.torn
      BY <2>4 DEF Finish, WroteIt, Wrote, Holding
    <3> QED
      BY <2>1, <2>4, <3>1 DEF Finish, SnapshotAges, TypeOK, Snapshot
  <2>5. CASE ResolveRun(f)
    <3>1. snapshot' = snapshot /\ entry[f].at = "stamped"
      BY <2>5 DEF ResolveRun
    <3>2. entry'[f].at = "reuse" => /\ ~entry[f].force /\ snapshot.status = "complete"
                                    /\ ~\E t \in 1..(Row(f) - 1) : Active(t) /\ job[t].named
      BY <2>5, GoMoves DEF ResolveRun
    <3>3. entry'[f].at = "reuse"
      BY <2>5, GoMoves DEF ResolveRun
    <3> QED
      BY <3>1, <3>2, <3>3, ReuserBowsOut DEF Half
  <2> QED
    BY <2>2, <2>3, <2>4, <2>5, WorkedPlaces
<1> QED
  BY <1>1, <1>2

LEMMA ParkedStep == TypeOK /\ RowsInOrder /\ ParkedIsPaused /\ [Next]_vars => ParkedIsPaused'
<1> SUFFICES ASSUME TypeOK, RowsInOrder, ParkedIsPaused, [Next]_vars,
                    NEW f \in Entries, entry'[f].at = "pausing"
             PROVE  snapshot'.status # "complete" \/ snapshot'.torn
  BY DEF ParkedIsPaused
<1>1. ASSUME NEW e \in Entries, Persist(e) PROVE snapshot'.torn
  BY <1>1, Persisted DEF Beating
<1>2. CASE \A e \in Entries : ~Persist(e)
  <2>1. entry'[f] = entry[f] \/ Worked(f)
    BY EntriesMove, Places DEF Wrote
  <2> QED
    BY <1>2, <2>1, WorkedPlaces, SnapshotMoves DEF ParkedIsPaused, SnapshotAges
<1> QED
  BY <1>1, <1>2
-----------------------------------------------------------------------------
(* Who holds an optimistic 'complete' after a step *)

\* What the steps of API, queue, environment and sweeps that interrupt nobody do
\* to the entries and to the statuses of the rows.
Calm ==
  \A f \in Entries :
    \/ entry'[f] = entry[f]
    \/ /\ entry[f].at \notin Beating /\ entry'[f].at \notin Beating
       /\ entry[f].at = "ending" => entry'[f].at = "free"

StatusKept ==
  \A r \in Rows : (Active(r) => Active(r)') /\ (~Halted(r) => ~Halted(r)')

\* A step that leaves an optimistic, untorn 'complete' interrupted nobody.
LEMMA NotInterrupted ==
  ASSUME TypeOK, NEW yes, Interrupts(yes), Half', ~snapshot'.torn
  PROVE  /\ Half /\ ~snapshot.torn /\ ~yes
         /\ snapshot'.graphBy = snapshot.graphBy
  BY DEF Interrupts, Half, TypeOK, Snapshot

LEMMA HalfBefore ==
  ASSUME TypeOK, SnapshotAges, Half', ~snapshot'.torn
  PROVE  Half /\ ~snapshot.torn
  BY DEF SnapshotAges, Half, TypeOK, Snapshot

\* The run the graph was handed back to stays the one that unforced deliveries
\* bow out to.
LEMMA HandedStays ==
  ASSUME TypeOK, RowsInOrder, EntryMoves, RequestMoves, RowsGrow,
         snapshot'.graphBy = snapshot.graphBy,
         \A f \in Entries : f = snapshot.graphBy /\ entry[f].at \in {"requeue", "ending"} =>
                              entry'[f].at \in {"requeue", "ending", "free"},
         NEW r \in Rows, HandedTo(r), Active(r)'
  PROVE  HandedBack'
<1>1. job'[r].named
  BY DEF HandedTo, Active, RowsGrow
<1>2. ASSUME NEW f \in Entries, Unforced(f)'
      PROVE  entry'[f].row > r \/ (f = snapshot.graphBy /\ entry'[f].at \in {"requeue", "ending"})
  <2>1. CASE entry'[f] = entry[f]
    BY <1>2, <2>1 DEF HandedTo, Unforced, Row
  <2>2. CASE Arrives(f)
    BY <1>2, <2>2 DEF Arrives, HandedTo, Unforced, UnforcedDue
  <2>3. CASE Advances(f)
    BY <1>2, <2>3 DEF Advances, HandedTo, Unforced, Row
  <2> QED
    BY <1>2, <2>1, <2>2, <2>3 DEF EntryMoves, Unforced
<1>3. ASSUME NEW q \in Requests, UnforcedDue(q)' PROVE request'[q].row > r
  <2>1. CASE request[q].at # "idle" /\ request'[q].row = request[q].row
                /\ request'[q].force = request[q].force
                /\ (request'[q].at = request[q].at \/ request[q].at = "checked")
    BY <1>3, <2>1 DEF HandedTo, UnforcedDue, RowsInOrder
  <2>2. CASE request'[q].row \in Rows /\ job[request'[q].row].status = "absent"
    <3>1. request'[q].row \notin 1..r
      BY <2>2 DEF HandedTo, Active, RowsInOrder
    <3> QED
      BY <2>2, <3>1, RowsAssumption DEF Rows
  <2> QED
    BY <1>3, <2>1, <2>2 DEF RequestMoves, UnforcedDue
<1>4. HandedTo(r)'
  BY <1>1, <1>2, <1>3 DEF HandedTo, Row
<1> QED
  BY <1>4 DEF HandedBack

LEMMA CalmHolds ==
  ASSUME TypeOK, RowsInOrder, HalfHeld, EntryMoves, RequestMoves, RowsGrow, Calm, StatusKept,
         snapshot'.graphBy = snapshot.graphBy, Half, ~snapshot.torn
  PROVE  HolderAlone' /\ (Held' \/ HandedBack')
<1>1. HolderAlone'
  BY DEF HolderAlone, HalfHeld, Company, Calm, Holding, Beating
<1>2. CASE Held
  <2>1. PICK e \in Entries : \/ entry[e].at \in {"threwOwning", "recorded"}
                             \/ entry[e].at \in {"linking", "phases"} /\ ~Halted(Row(e))
    BY <1>2 DEF Held
  <2>2. entry'[e] = entry[e] /\ Row(e) \in Rows
    BY <2>1, InUseTyped DEF Calm, Beating
  <2>3. Row(e)' = Row(e)
    BY <2>2 DEF Row
  <2> QED
    BY <1>1, <2>1, <2>2, <2>3 DEF Held, StatusKept, Halted, Row
<1>3. CASE HandedBack
  <2>1. PICK r \in Rows : HandedTo(r)
    BY <1>3 DEF HandedBack
  <2>2. Active(r)'
    BY <2>1 DEF HandedTo, StatusKept
  <2>3. \A f \in Entries : entry[f].at \in {"requeue", "ending"} =>
                             entry'[f].at \in {"requeue", "ending", "free"}
    BY DEF Calm, Beating
  <2> QED
    BY <1>1, <2>1, <2>2, <2>3, HandedStays
<1> QED
  BY <1>2, <1>3 DEF HalfHeld
\* What the calm steps come down to.
CalmStep ==
  /\ Calm /\ StatusKept
  /\ snapshot'.graphBy = snapshot.graphBy /\ Half /\ ~snapshot.torn

LEMMA SameStatus == ASSUME UNCHANGED job PROVE StatusKept
  BY DEF StatusKept, Active, Halted

LEMMA SameCalm == ASSUME UNCHANGED entry PROVE Calm
  BY DEF Calm

\* A new entry waits: no delivery moves.
LEMMA AddedCalm ==
  ASSUME TypeOK, NEW e \in Entries, entry[e].at = "free", NEW r, NEW n, NEW f,
         entry' = Added(e, r, n, f)
  PROVE  Calm
  BY DEF Calm, Added, Beating, TypeOK

LEMMA APICalm ==
  ASSUME TypeOK, API, Half', ~snapshot'.torn
  PROVE  CalmStep
<1>1. ASSUME NEW q \in Requests, NEW r \in Rows, NEW n \in BOOLEAN, NEW f \in BOOLEAN,
             StartRun(q, r, n, f)
      PROVE  CalmStep
  <2>1. StatusKept
    BY <1>1 DEF StartRun, StatusKept, Active, Halted, TypeOK
  <2> QED
    BY <1>1, <2>1, SameCalm DEF StartRun, CalmStep, Half
<1>2. ASSUME NEW r \in Rows, PauseClick(r) \/ StopClick(r) PROVE FALSE
  BY <1>2, NotInterrupted DEF PauseClick, StopClick
<1>3. ASSUME NEW q \in Requests, ResumeWrite(q) PROVE CalmStep
  <2>1. StatusKept
    BY <1>3 DEF ResumeWrite, StatusKept, Active, Halted, TypeOK, JobRow
  <2> QED
    BY <1>3, <2>1, SameCalm DEF ResumeWrite, CalmStep, Half
<1>4. ASSUME NEW q \in Requests, SubmitThrows(q) PROVE CalmStep
  <2>1. /\ Half /\ ~snapshot.torn /\ snapshot'.graphBy = snapshot.graphBy
        /\ job[request[q].row].status # "queued"
    BY <1>4, NotInterrupted DEF SubmitThrows
  <2>2. UNCHANGED job
    BY <1>4, <2>1 DEF SubmitThrows
  <2>3. Calm
    BY <1>4, SameCalm, AddedCalm DEF SubmitThrows
  <2> QED
    BY <2>1, <2>2, <2>3, SameStatus DEF CalmStep
<1>5. ASSUME NEW q \in Requests, NEW r, Submit(q) \/ ResumeCheck(q, r) \/ RequestLost(q)
      PROVE  CalmStep
  BY <1>5, SameStatus, SameCalm, AddedCalm DEF Submit, ResumeCheck, RequestLost, CalmStep, Half
<1> QED
  BY <1>1, <1>2, <1>3, <1>4, <1>5 DEF API

LEMMA BullMQCalm ==
  ASSUME TypeOK, BullMQ, SeenWhole, Half', ~snapshot'.torn
  PROVE  CalmStep
<1>1. PICK e \in Entries : Deliver(e)
  BY DEF BullMQ
<1>2. UNCHANGED <<job, snapshot>> /\ Half /\ ~snapshot.torn
  BY <1>1 DEF Deliver, EndEntry, FailEntry, Stalled, Half
<1>3. Calm
  <2>1. CASE EndEntry(e)
    <3>1. entry[e].at = "ending"
      BY <1>2, <2>1 DEF EndEntry, SeenWhole, Half
    <3> QED
      BY <2>1, <3>1 DEF EndEntry, Calm, FreeEntry, Beating, TypeOK
  <2>2. CASE FailEntry(e)
    <3>1. \A f \in Entries \ {e} : entry'[f] = entry[f]
      BY <2>2 DEF FailEntry, TypeOK
    <3>2. entry'[e].at \in {"waiting", "free"}
      BY <2>2, InUseTyped DEF FailEntry, Redelivered, FreeEntry, TypeOK
    <3> QED
      BY <2>2, <3>1, <3>2 DEF Calm, FailEntry, Beating
  <2>3. CASE Stalled(e)
    <3>1. \A f \in Entries \ {e} : entry'[f] = entry[f]
      BY <2>3 DEF Stalled, TypeOK
    <3>2. entry'[e].at \in {"waiting", "free"}
      BY <2>3, InUseTyped DEF Stalled, Recovered, FreeEntry, TypeOK
    <3> QED
      BY <2>3, <3>1, <3>2 DEF Calm, Stalled, Beating
  <2> QED
    BY <1>1, <2>1, <2>2, <2>3 DEF Deliver
<1> QED
  BY <1>2, <1>3, SameStatus DEF CalmStep

LEMMA EnvironmentCalm ==
  ASSUME TypeOK, Environment, Half', ~snapshot'.torn
  PROVE  CalmStep
<1>1. ASSUME NEW e \in Entries, Crash(e) \/ Abandon(e) PROVE FALSE
  BY <1>1, NotInterrupted DEF Crash, Abandon
<1>2. ASSUME NEW r, NEW b \in BOOLEAN, job' = [job EXCEPT ![r].silent = b] PROVE StatusKept
  BY <1>2 DEF StatusKept, Active, Halted, TypeOK, JobRow
<1> QED
  BY <1>1, <1>2, SameStatus, SameCalm DEF Environment, Beat, FallSilent, CrashSweeper, CalmStep, Half

LEMMA SweepCalm ==
  ASSUME TypeOK, Sweep, Half', ~snapshot'.torn
  PROVE  CalmStep
<1>1. PICK s \in Sweepers : SweepStep(s) \/ \E c \in sweeper[s].held : RequeueThrows(s, c[1], c[2])
  BY DEF Sweep
<1>2. ASSUME ClaimOrphans(s) PROVE CalmStep
  <2>1. StatusKept
    BY <1>2 DEF ClaimOrphans, Claimed, Orphans, StatusKept, Active, Halted, TypeOK, JobRow
  <2> QED
    BY <1>2, <2>1, SameCalm DEF ClaimOrphans, CalmStep, Half
<1>3. ASSUME NEW r, NEW n, Requeue(s, r, n) PROVE CalmStep
  <2>1. StatusKept
    BY <1>3 DEF Requeue, StatusKept, Active, Halted, TypeOK, JobRow
  <2> QED
    BY <1>3, <2>1, AddedCalm DEF Requeue, Resubmitted, CalmStep, Half
<1>4. ASSUME NEW r, NEW n, FailOrphanRow(s, r, n)
      PROVE  /\ UNCHANGED job
             /\ snapshot'.graphBy = snapshot.graphBy /\ Half /\ ~snapshot.torn
  BY <1>4, NotInterrupted DEF FailOrphanRow
<1>5. ASSUME NEW r, NEW n, GiveUp(s, r, n) \/ RequeueThrows(s, r, n) PROVE CalmStep
  BY <1>4, <1>5, SameStatus, SameCalm, AddedCalm DEF GiveUp, RequeueThrows, Resubmitted, CalmStep
<1>6. ASSUME NEW r \in Rows, MarkOrphanSnapshot(s, r) PROVE CalmStep
  <2>1. UNCHANGED snapshot
    BY <1>6 DEF MarkOrphanSnapshot, SnapshotFailed, Half, TypeOK, Snapshot
  <2> QED
    BY <1>6, <2>1, SameStatus, SameCalm DEF MarkOrphanSnapshot, CalmStep, Half
<1>7. ASSUME NEW r \in Rows, FailStranded(s, r) PROVE CalmStep
  BY <1>7, NotInterrupted, SameStatus, SameCalm DEF FailStranded, CalmStep
<1>8. ASSUME SelectStranded(s) \/ AskLive(s) \/ EndSweep(s) PROVE CalmStep
  BY <1>8, SameStatus, SameCalm DEF SelectStranded, AskLive, EndSweep, CalmStep, Half
<1> QED
  BY <1>1, <1>2, <1>3, <1>5, <1>6, <1>7, <1>8 DEF SweepStep
\* A delivery that moves on brings no company.
LEMMA AloneStays ==
  ASSUME HolderAlone, NEW e \in Entries, \A f \in Entries \ {e} : entry'[f] = entry[f],
         entry'[e].at \in Holding => entry[e].at \in Holding,
         entry'[e].at \in Beating => entry[e].at \in Beating
  PROVE  HolderAlone'
  BY DEF HolderAlone, Company, Holding, Beating

\* While one delivery executes, only that one can hold the snapshot.
LEMMA OnlyHolder ==
  ASSUME HolderAlone, NEW e \in Entries, entry[e].at \in Beating, Held
  PROVE  \/ entry[e].at \in {"threwOwning", "recorded"}
         \/ entry[e].at \in {"linking", "phases"} /\ ~Halted(Row(e))
  BY DEF HolderAlone, Company, Held, Holding

\* The setting of every case below: a worker step of e that leaves an optimistic,
\* untorn 'complete'.
Setting(e) ==
  /\ TypeOK /\ SnapInv /\ EntryMoves /\ RequestMoves /\ RowsGrow
  /\ Worked(e) /\ ~Persist(e)
  /\ Half' /\ ~snapshot'.torn
  /\ HolderAlone /\ Half /\ ~snapshot.torn /\ snapshot'.graphBy = snapshot.graphBy

\* A delivery short of the transaction, or past a failure short of it, moves on:
\* the run the graph was handed to is the same.
LEMMA PasserBy ==
  ASSUME NEW e \in Entries, Setting(e), NEW p, Go(e, p),
         entry[e].at \in Beating \ Holding, p \notin Holding,
         \A r \in Rows : Active(r) /\ job[r].named => Active(r)'
  PROVE  HolderAlone' /\ (Held' \/ HandedBack')
<1>1. entry[e].at # "free" /\ TypeOK
  BY DEF Setting, Beating
<1>2. /\ entry'[e].at = p
      /\ \A f \in Entries \ {e} : entry'[f] = entry[f]
  BY <1>1, GoMoves
<1>3. HolderAlone'
  BY <1>2, AloneStays DEF Setting
<1>4. ~Held
  BY OnlyHolder DEF Setting, Holding
<1>5. PICK r \in Rows : HandedTo(r)
  BY <1>4 DEF Setting, SnapInv, HalfHeld, HandedBack
<1>6. \A f \in Entries : entry[f].at \in {"requeue", "ending"} => entry'[f] = entry[f]
  BY <1>2 DEF Beating, Holding
<1>7. HandedBack'
  <2>1. Active(r)'
    BY <1>5 DEF HandedTo
  <2> QED
    BY <1>5, <1>6, <2>1, HandedStays DEF Setting, SnapInv
<1> QED
  BY <1>3, <1>7

\* The holder moves on and still holds.
LEMMA HolderGoesOn ==
  ASSUME NEW e \in Entries, Setting(e), NEW p, Go(e, p), entry[e].at \in Holding,
         p \in {"threwOwning", "recorded"} \/ (p = "phases" /\ ~Halted(Row(e))')
  PROVE  HolderAlone' /\ (Held' \/ HandedBack')
<1>1. entry[e].at # "free" /\ TypeOK
  BY DEF Setting, Holding
<1>2. /\ entry'[e].at = p
      /\ \A f \in Entries \ {e} : entry'[f] = entry[f]
  BY <1>1, GoMoves
<1>3. HolderAlone'
  BY <1>2, AloneStays DEF Setting, Holding, Beating
<1>4. Held'
  BY <1>2 DEF Held
<1> QED
  BY <1>3, <1>4

LEMMA BeginHolds ==
  ASSUME NEW e \in Entries, Setting(e), Begin(e)
  PROVE  HolderAlone' /\ (Held' \/ HandedBack')
<1>1. ~Company(e)
  BY NotInterrupted DEF Begin, Setting
<1>2. entry[e].at = "waiting" /\ TypeOK
  BY DEF Begin, Setting
<1>3. /\ entry'[e].at \in {"began", "thrown"}
      /\ \A f \in Entries \ {e} : entry'[f] = entry[f]
  BY <1>2, GoMoves DEF Begin
<1>4. \A f \in Entries : entry[f].at \notin Holding /\ entry'[f].at \notin Holding
  BY <1>1, <1>2, <1>3 DEF Company, Holding, Beating
<1>5. PICK r \in Rows : HandedTo(r)
  BY <1>4 DEF Setting, SnapInv, HalfHeld, HandedBack, Held, Holding
<1>6. Active(r)'
  <2>1. CASE UNCHANGED job
    BY <1>5, <2>1 DEF HandedTo, Active
  <2>2. CASE job' = [job EXCEPT ![Row(e)] = [Stepped(Row(e)) EXCEPT !.runs = @ + 1]]
    <3>1. [Stepped(Row(e)) EXCEPT !.runs = @ + 1].status = "running"
      BY <1>2, InUseTyped DEF Stepped, TypeOK, JobRow
    <3> QED
      BY <1>2, <1>5, <2>2, <3>1 DEF HandedTo, Active, TypeOK
  <2> QED
    BY <2>1, <2>2 DEF Begin
<1>7. HandedBack'
  BY <1>2, <1>3, <1>5, <1>6, HandedStays DEF Setting, SnapInv
<1> QED
  BY <1>4, <1>7 DEF HolderAlone

\* The run that bows out leaves the commit to an older one, which is then the one
\* that unforced deliveries bow out to.
LEMMA ResolveHolds ==
  ASSUME NEW e \in Entries, Setting(e), ResolveRun(e)
  PROVE  HolderAlone' /\ (Held' \/ HandedBack')
<1>1. entry[e].at = "stamped" /\ TypeOK /\ Row(e) \in Rows
  BY InUseTyped DEF ResolveRun, Setting
<1>2. CASE \E t \in 1..(Row(e) - 1) : Active(t) /\ job[t].named
  <2>1. /\ entry'[e].at = "ending"
        /\ \A f \in Entries \ {e} : entry'[f] = entry[f]
        /\ SetStatus(Row(e), "failed")
    BY <1>1, <1>2, GoMoves DEF ResolveRun
  <2>2. HolderAlone'
    BY <1>1, <2>1, AloneStays DEF Setting, Holding, Beating
  <2>3. ~Held
    BY <1>1, OnlyHolder DEF Setting, Beating
  <2>4. PICK r \in Rows : HandedTo(r)
    BY <2>3 DEF Setting, SnapInv, HalfHeld, HandedBack
  <2>5. \A f \in Entries : entry[f].at \in {"requeue", "ending"} => entry'[f] = entry[f]
    BY <1>1, <2>1
  <2>6. ASSUME NEW t \in Rows, HandedTo(t), t # Row(e) PROVE HandedBack'
    <3>1. Active(t)'
      BY <2>1, <2>6 DEF SetStatus, HandedTo, Active, TypeOK
    <3> QED
      BY <2>5, <2>6, <3>1, HandedStays DEF Setting, SnapInv
  <2>7. HandedBack'
    <3>1. CASE r # Row(e)
      BY <2>4, <2>6, <3>1
    <3>2. CASE r = Row(e)
      <4>1. PICK t \in 1..(Row(e) - 1) : Active(t) /\ job[t].named
        BY <1>2
      <4>2. t \in Rows /\ t # Row(e) /\ HandedTo(t)
        <5>1. t \in Rows /\ t < r
          BY <1>1, <3>2, <4>1, RowsAssumption DEF Rows
        <5>2. \A f \in Entries : Unforced(f) => Row(f) \in Rows
          BY <1>1, InUseTyped DEF Unforced
        <5>3. \A q \in Requests : UnforcedDue(q) => request[q].row \in Rows
          BY <1>1, InFlightTyped DEF UnforcedDue
        <5> QED
          BY <2>4, <3>2, <4>1, <5>1, <5>2, <5>3, RowsAssumption DEF HandedTo, Rows
      <4> QED
        BY <2>6, <4>2
    <3> QED
      BY <3>1, <3>2
  <2> QED
    BY <2>2, <2>7
<1>3. CASE ~\E t \in 1..(Row(e) - 1) : Active(t) /\ job[t].named
  <2>1. PICK p \in {"reuse", "scanning"} : Go(e, p)
    BY <1>3 DEF ResolveRun
  <2>2. \A r \in Rows : Active(r) /\ job[r].named => Active(r)'
    BY <1>3 DEF ResolveRun, Active
  <2> QED
    BY <1>1, <2>1, <2>2, PasserBy DEF Holding, Beating
<1> QED
  BY <1>2, <1>3

\* A rate-limited run is handed back before any unforced delivery of it or of an
\* older run: its own row is the one they bow out to.
LEMMA RateLimitedHolds ==
  ASSUME NEW e \in Entries, Setting(e), RateLimited(e)
  PROVE  HolderAlone' /\ (Held' \/ HandedBack')
<1>1. entry[e].at = "phases" /\ TypeOK /\ Row(e) \in Rows
  BY InUseTyped DEF RateLimited, Setting
<1>2. CASE ~MayResume(Row(e))
  <2>1. snapshot'.status = "paused"
    BY <1>1, <1>2 DEF RateLimited, TypeOK, Snapshot
  <2> QED
    BY <2>1 DEF Setting, Half
<1>3. CASE MayResume(Row(e))
  <2>1. /\ job' = [job EXCEPT ![Row(e)] = Postponed(Row(e))] /\ Go(e, "requeue")
        /\ Interrupts(ReuserDue(e))
        /\ UNCHANGED request
    BY <1>3 DEF RateLimited
  <2>2. ~ReuserDue(e)
    BY <2>1, NotInterrupted DEF Setting
  <2>3. /\ entry'[e].at = "requeue" /\ entry'[e].row = Row(e) /\ entry'[e].force = entry[e].force
        /\ \A f \in Entries \ {e} : entry'[f] = entry[f]
    BY <1>1, <2>1, GoMoves DEF Row
  <2>4. HolderAlone'
    BY <1>1, <2>3, AloneStays DEF Setting, Holding, Beating
  <2>5. snapshot'.graphBy = e
    BY <1>1 DEF Setting, SnapInv, WroteIt, Wrote, Holding
  <2>6. Active(Row(e))' /\ job'[Row(e)].named
    <3>1. job[Row(e)].named
      BY <1>1 DEF Setting, SnapInv, CommitNamed, Stamped, Owning
    <3>2. job'[Row(e)].status = "queued" /\ job'[Row(e)].named = job[Row(e)].named
      BY <1>1, <2>1 DEF Postponed, TypeOK, JobRow
    <3>3. Row(e)' = Row(e)
      BY <2>3 DEF Row
    <3> QED
      BY <3>1, <3>2, <3>3 DEF Active
  <2>7. \A f \in Entries : Unforced(f)' => entry'[f].row > Row(e) \/ (f = e /\ entry'[f].at = "requeue")
    <3>1. \A f \in Entries \ {e} : Unforced(f) => ~(Row(f) <= Row(e)) /\ Row(f) \in Rows
      BY <1>1, <2>2, InUseTyped DEF ReuserDue, Unforced
    <3> QED
      BY <1>1, <2>3, <3>1, RowsAssumption DEF Unforced, Row, Rows
  <2>8. \A q \in Requests : UnforcedDue(q)' => request'[q].row > Row(e)
    <3>1. \A q \in Requests : UnforcedDue(q) => ~(request[q].row <= Row(e)) /\ request[q].row \in Rows
      BY <1>1, <2>2, InFlightTyped DEF ReuserDue, UnforcedDue
    <3> QED
      BY <1>1, <2>1, <3>1, RowsAssumption DEF UnforcedDue, Rows
  <2>9. \E r \in Rows : /\ Active(r)' /\ job'[r].named
                        /\ \A f \in Entries : Unforced(f)' =>
                             entry'[f].row > r \/ (f = e /\ entry'[f].at = "requeue")
                        /\ \A q \in Requests : UnforcedDue(q)' => request'[q].row > r
    <3>1. job'[Row(e)].status \in {"queued", "running"}
      BY <1>1, <2>1 DEF Postponed, TypeOK, JobRow
    <3> QED
      BY <1>1, <2>6, <2>7, <2>8, <3>1 DEF Active
  <2>10. HandedBack'
    BY <2>5, <2>9 DEF HandedBack, HandedTo, Row
  <2> QED
    BY <2>4, <2>10
<1> QED
  BY <1>2, <1>3
LEMMA EnqueueHolds ==
  ASSUME NEW e \in Entries, Setting(e), EnqueueResume(e)
  PROVE  HolderAlone' /\ (Held' \/ HandedBack')
<1>1. entry[e].at = "requeue" /\ TypeOK
  BY DEF EnqueueResume, Setting
<1>2. PICK n \in Entries : /\ entry[n].at = "free"
                           /\ entry' = [Resubmitted(n, Row(e)) EXCEPT ![e].at = "ending"]
  BY DEF EnqueueResume
<1>3. /\ entry'[n].at = "waiting" /\ entry'[e].at = "ending"
      /\ \A f \in Entries \ {e, n} : entry'[f] = entry[f]
  <2>1. Resubmitted(n, Row(e))[e] = entry[e]
    BY <1>1, <1>2 DEF Resubmitted, Added, TypeOK
  <2>2. entry'[e] = [entry[e] EXCEPT !.at = "ending"]
    BY <1>1, <1>2, <2>1 DEF Resubmitted, Added, TypeOK
  <2> QED
    BY <1>1, <1>2, <2>2, InUseTyped DEF Resubmitted, Added, TypeOK
<1>4. HolderAlone'
  BY <1>1, <1>2, <1>3 DEF Setting, HolderAlone, Company, Holding, Beating
<1>5. ~Held
  BY <1>1, OnlyHolder DEF Setting, Beating
<1>6. PICK r \in Rows : HandedTo(r)
  BY <1>5 DEF Setting, SnapInv, HalfHeld, HandedBack
<1>7. Active(r)'
  BY <1>6 DEF EnqueueResume, HandedTo, Active
<1>8. HandedBack'
  <2>1. \A f \in Entries : entry[f].at \in {"requeue", "ending"} =>
                             entry'[f].at \in {"requeue", "ending", "free"}
    BY <1>2, <1>3
  <2> QED
    BY <1>6, <1>7, <2>1, HandedStays DEF Setting, SnapInv
<1> QED
  BY <1>4, <1>8

LEMMA WorkedHolds ==
  ASSUME NEW e \in Entries, Setting(e)
  PROVE  HolderAlone' /\ (Held' \/ HandedBack')
<1> USE DEF Beating, Holding
<1>1. TypeOK /\ SnapInv /\ HolderAlone /\ Half /\ ~snapshot.torn /\ Half' /\ ~snapshot'.torn
  BY DEF Setting
<1>2. ASSUME UNCHANGED job PROVE \A r \in Rows : Active(r) /\ job[r].named => Active(r)'
  BY <1>2 DEF Active
<1>3. CASE StampCommit(e)
  <2>1. \A r \in Rows : Active(r) /\ job[r].named => Active(r)'
    BY <1>1, <1>3 DEF StampCommit, Active, TypeOK, JobRow
  <2> QED
    BY <1>3, <2>1, PasserBy DEF StampCommit
<1>4. CASE Step(e)
  <2>1. entry[e].at # "free" /\ Row(e) \in Rows
    BY <1>1, <1>4, InUseTyped DEF Step, AfterStep
  <2>2. PICK p : Go(e, p) /\ p \in {"ending"} \union {AfterStep[x] : x \in DOMAIN AfterStep}
    BY <1>4 DEF Step
  <2>3. \A r \in Rows : Active(r) /\ job[r].named => Active(r)'
    BY <1>1, <1>4, <2>1, ZenonT(40) DEF Step, Stepped, Active, TypeOK, JobRow
  <2>4. CASE entry[e].at # "phases"
    <3>1. p \notin Holding
      BY <1>4, <2>2, <2>4, <2>1, <1>1, GoMoves DEF Step, AfterStep
    <3> QED
      BY <1>4, <2>2, <2>3, <2>4, <3>1, PasserBy DEF Step, AfterStep
  <2>5. CASE entry[e].at = "phases"
    <3>1. CASE ~Halted(Row(e))
      <4>1. Go(e, "phases") /\ job' = [job EXCEPT ![Row(e)] = Stepped(Row(e))]
        BY <1>4, <2>5, <3>1 DEF Step, AfterStep
      <4>2. job'[Row(e)].status = "running"
        BY <1>1, <2>1, <4>1 DEF Stepped, TypeOK, JobRow
      <4>3. entry'[e].row = entry[e].row
        BY <1>1, <2>1, <4>1, GoMoves
      <4>4. ~Halted(Row(e))'
        BY <4>2, <4>3 DEF Halted, Row
      <4> QED
        BY <2>5, <4>1, <4>4, HolderGoesOn
    <3>2. CASE Halted(Row(e))
      <4>1. ~Held
        BY <1>1, <2>5, <3>2, OnlyHolder
      <4>2. PICK r \in Rows : HandedTo(r)
        BY <1>1, <4>1 DEF SnapInv, HalfHeld, HandedBack
      <4>3. Go(e, "ending")
        BY <1>4, <3>2 DEF Step
      <4>4. /\ entry'[e].at = "ending"
            /\ \A f \in Entries \ {e} : entry'[f] = entry[f]
        BY <1>1, <2>1, <4>3, GoMoves
      <4>5. HolderAlone'
        BY <1>1, <4>4, AloneStays
      <4>6. HandedBack'
        BY <2>3, <4>2, <4>4, HandedStays DEF Setting, SnapInv, HandedTo
      <4> QED
        BY <4>5, <4>6
    <3> QED
      BY <3>1, <3>2
  <2> QED
    BY <2>4, <2>5
<1>5. CASE ReuseComplete(e) \/ ChainGeneration(e)
  BY <1>1, <1>5 DEF ReuseComplete, ChainGeneration, SnapInv, SeenWhole, Half
<1>6. CASE LinkSnapshot(e)
  <2>1. entry[e].at = "linking" /\ Row(e) \in Rows
    BY <1>1, <1>6, InUseTyped DEF LinkSnapshot
  <2>2. CASE Halted(Row(e))
    <3>1. ~Held
      BY <1>1, <2>1, <2>2, OnlyHolder
    <3>2. PICK r \in Rows : HandedTo(r)
      BY <1>1, <3>1 DEF SnapInv, HalfHeld, HandedBack
    <3>3. /\ entry'[e].at = "phases"
          /\ \A f \in Entries \ {e} : entry'[f] = entry[f]
      BY <1>1, <1>6, <2>1, GoMoves DEF LinkSnapshot
    <3>4. HolderAlone'
      BY <1>1, <2>1, <3>3, AloneStays
    <3>5. Active(r)'
      BY <1>1, <1>6, <3>2 DEF LinkSnapshot, HandedTo, Active, TypeOK, JobRow
    <3>6. HandedBack'
      BY <2>1, <3>2, <3>3, <3>5, HandedStays DEF Setting, SnapInv
    <3> QED
      BY <3>4, <3>6
  <2>3. CASE ~Halted(Row(e))
    <3>1. job'[Row(e)].status = job[Row(e)].status
      BY <1>1, <1>6, <2>1 DEF LinkSnapshot, TypeOK, JobRow
    <3>2. entry'[e].row = entry[e].row
      BY <1>1, <1>6, <2>1, GoMoves DEF LinkSnapshot
    <3>3. ~Halted(Row(e))'
      BY <2>3, <3>1, <3>2 DEF Halted, Row
    <3> QED
      BY <1>6, <2>1, <3>3, HolderGoesOn DEF LinkSnapshot
  <2> QED
    BY <2>2, <2>3
<1>7. CASE Finish(e)
  <2>1. snapshot.graphBy = e
    BY <1>1, <1>7 DEF Finish, SnapInv, WroteIt, Wrote
  <2>2. snapshot'.full
    BY <1>1, <1>7, <2>1 DEF Finish, TypeOK, Snapshot
  <2> QED
    BY <1>1, <2>2 DEF Half
<1>8. CASE AiPause(e) \/ FailSnapshot(e)
  BY <1>1, <1>8 DEF AiPause, FailSnapshot, Half, TypeOK, Snapshot
<1>9. CASE PauseRow(e)
  BY <1>1, <1>9 DEF PauseRow, SnapInv, ParkedIsPaused, Half
<1>10. CASE Throw(e)
  <2>1. CASE entry[e].at \in Owning
    <3>1. entry[e].at \in Holding
      BY <1>1, <2>1 DEF Owning, SnapInv, ParkedIsPaused, SeenWhole, Half
    <3> QED
      BY <1>10, <2>1, <3>1, HolderGoesOn DEF Throw
  <2>2. CASE entry[e].at \notin Owning
    BY <1>2, <1>10, <2>2, PasserBy DEF Throw
  <2> QED
    BY <2>1, <2>2
<1>11. CASE Refuse(e)
  BY <1>2, <1>11, PasserBy DEF Refuse
<1>12. CASE RecordFailure(e)
  <2>1. entry[e].at = "threwOwning"
    BY <1>1, <1>12, NotInterrupted DEF RecordFailure
  <2> QED
    BY <1>12, <2>1, HolderGoesOn DEF RecordFailure
<1>13. CASE MarkSnapshot(e)
  BY <1>1, <1>13 DEF MarkSnapshot, SnapshotFailed, Half, TypeOK, Snapshot
<1>14. CASE ThrowEarly(e)
  BY <1>1, <1>14, NotInterrupted DEF ThrowEarly
<1> QED
  BY <1>3, <1>4, <1>5, <1>6, <1>7, <1>8, <1>9, <1>10, <1>11, <1>12, <1>13, <1>14,
     BeginHolds, ResolveHolds, RateLimitedHolds, EnqueueHolds DEF Setting, Worked, Work
\* The delivery that writes the graph holds it, unless it had company or its row
\* was halted under it.
LEMMA PersistHolds ==
  ASSUME TypeOK, NEW e \in Entries, Persist(e), ~snapshot'.torn
  PROVE  HolderAlone' /\ Held'
<1>1. /\ entry'[e].at = "linking" /\ entry'[e].row = entry[e].row
      /\ \A f \in Entries \ {e} : entry'[f] = entry[f]
  BY GoMoves DEF Persist
<1>2. \A f \in Entries \ {e} : entry[f].at \notin Beating
  BY Persisted
<1>3. HolderAlone'
  BY <1>1, <1>2 DEF HolderAlone, Company, Holding, Beating
<1>4. ~Halted(Row(e)) /\ UNCHANGED job
  BY DEF Persist
<1>5. ~Halted(Row(e))'
  BY <1>1, <1>4 DEF Halted, Row
<1> QED
  BY <1>1, <1>3, <1>5 DEF Held

LEMMA HalfHeldStep == TypeOK /\ SnapInv /\ [Next]_vars => HalfHeld'
<1> SUFFICES ASSUME TypeOK, SnapInv, [Next]_vars, Half', ~snapshot'.torn
             PROVE  HolderAlone' /\ (Held' \/ HandedBack')
  BY DEF HalfHeld
<1>1. EntryMoves /\ RequestMoves /\ RowsGrow
  BY EntriesMove, RequestsMove, RowsOnlyGrow DEF SnapInv
<1>2. ASSUME NEW e \in Entries, Persist(e) PROVE HolderAlone' /\ Held'
  BY <1>2, PersistHolds
<1>3. ASSUME CalmStep PROVE HolderAlone' /\ (Held' \/ HandedBack')
  BY <1>1, <1>3, CalmHolds DEF SnapInv, CalmStep
<1>4. ASSUME NEW e \in Entries, Worked(e), \A f \in Entries : ~Persist(f)
      PROVE  HolderAlone' /\ (Held' \/ HandedBack')
  <2>1. SnapshotAges
    BY <1>4, SnapshotMoves
  <2>2. Half /\ ~snapshot.torn /\ snapshot'.graphBy = snapshot.graphBy
    BY <2>1, HalfBefore DEF SnapshotAges
  <2>3. Setting(e)
    BY <1>1, <1>4, <2>2 DEF Setting, SnapInv, HalfHeld
  <2> QED
    BY <2>3, WorkedHolds
<1>5. CASE UNCHANGED vars
  <2>1. CalmStep
    BY <1>5, SameCalm, SameStatus DEF CalmStep, vars, Half
  <2> QED
    BY <1>3, <2>1
<1>6. CASE Worker
  BY <1>2, <1>4, <1>6 DEF Worker, Worked
<1> QED
  BY <1>3, <1>5, <1>6, APICalm, BullMQCalm, EnvironmentCalm, SweepCalm DEF Next, SnapInv

LEMMA SnapInvInit == Init => SnapInv
<1> SUFFICES ASSUME Init PROVE SnapInv
  OBVIOUS
<1>1. /\ \A r \in Rows : job[r].status = "absent"
      /\ \A e \in Entries : entry[e] = FreeEntry
      /\ \A q \in Requests : request[q] = IdleRequest
      /\ \A s \in Sweepers : sweeper[s].held = {}
      /\ snapshot.status = None
  BY DEF Init
<1>2. RowsInOrder
  BY <1>1 DEF RowsInOrder, FreeEntry, IdleRequest
<1>3. CommitNamed
  BY <1>1 DEF CommitNamed, Stamped, Owning, FreeEntry
<1>4. WroteIt
  BY <1>1 DEF WroteIt, Owning, Wrote, Holding, FreeEntry
<1>5. SeenWhole
  BY <1>1 DEF SeenWhole, FreeEntry
<1>6. ParkedIsPaused
  BY <1>1 DEF ParkedIsPaused, FreeEntry
<1>7. HalfHeld
  BY <1>1 DEF HalfHeld, Half, None
<1> QED
  BY <1>2, <1>3, <1>4, <1>5, <1>6, <1>7 DEF SnapInv

LEMMA SnapInvStep == TypeOK /\ SnapInv /\ [Next]_vars => SnapInv'
  BY RowsInOrderStep, CommitNamedStep, WroteItStep, SeenWholeStep, ParkedStep, HalfHeldStep
  DEF SnapInv

\* Only ChainGeneration writes that a package was queued for a run.
ChainKept == \A r \in Rows : job'[r].chained = job[r].chained

LEMMA StatusKeepsChain == ASSUME TypeOK, NEW r, NEW s, SetStatus(r, s) PROVE ChainKept
  BY DEF SetStatus, ChainKept, TypeOK, JobRow

LEMMA SameKeepsChain == ASSUME UNCHANGED job PROVE ChainKept
  BY DEF ChainKept

LEMMA OnlyChainGeneration ==
  ASSUME TypeOK, [Next]_vars, \A e \in Entries : ~ChainGeneration(e)
  PROVE  ChainKept
<1> USE DEF ChainKept, TypeOK, JobRow
<1>1. CASE API
  <2>1. ASSUME NEW q \in Requests, NEW r \in Rows, NEW n \in BOOLEAN, NEW f \in BOOLEAN,
               StartRun(q, r, n, f)
        PROVE  ChainKept
    BY <2>1 DEF StartRun
  <2>2. ASSUME NEW r \in Rows, PauseClick(r) \/ StopClick(r) PROVE ChainKept
    BY <2>2, StatusKeepsChain DEF PauseClick, StopClick
  <2>3. ASSUME NEW q \in Requests, ResumeWrite(q) PROVE ChainKept
    BY <2>3 DEF ResumeWrite
  <2>4. ASSUME NEW q \in Requests, SubmitThrows(q) PROVE ChainKept
    BY <2>4 DEF SubmitThrows
  <2> QED
    BY <1>1, <2>1, <2>2, <2>3, <2>4, SameKeepsChain DEF API, ResumeCheck, Submit, RequestLost
<1>2. CASE BullMQ
  BY <1>2, SameKeepsChain DEF BullMQ, Deliver, EndEntry, FailEntry, Stalled
<1>3. ASSUME NEW e \in Entries, Worked(e) PROVE ChainKept
  <2>1. CASE Begin(e)
    <3>1. \/ UNCHANGED job
          \/ job' = [job EXCEPT ![Row(e)] = [Stepped(Row(e)) EXCEPT !.runs = @ + 1]]
      BY <2>1 DEF Begin
    <3>2. CASE job' = [job EXCEPT ![Row(e)] = [Stepped(Row(e)) EXCEPT !.runs = @ + 1]]
      BY <3>2 DEF Stepped
    <3> QED
      BY <3>1, <3>2, SameKeepsChain
  <2>2. CASE Step(e)
    <3>1. UNCHANGED job \/ job' = [job EXCEPT ![Row(e)] = Stepped(Row(e))]
      BY <2>2 DEF Step
    <3>2. CASE job' = [job EXCEPT ![Row(e)] = Stepped(Row(e))]
      BY <3>2 DEF Stepped
    <3> QED
      BY <3>1, <3>2, SameKeepsChain
  <2>3. CASE StampCommit(e) \/ LinkSnapshot(e) \/ ReuseComplete(e)
    <3>1. CASE StampCommit(e)
      BY <3>1 DEF StampCommit
    <3>2. CASE LinkSnapshot(e)
      BY <3>2 DEF LinkSnapshot
    <3>3. CASE ReuseComplete(e)
      BY <3>3 DEF ReuseComplete
    <3> QED
      BY <2>3, <3>1, <3>2, <3>3
  <2>4. CASE ResolveRun(e) \/ Finish(e) \/ PauseRow(e)
    BY <2>4, StatusKeepsChain, SameKeepsChain DEF ResolveRun, Finish, PauseRow
  <2>5. CASE RateLimited(e)
    <3>1. UNCHANGED job \/ job' = [job EXCEPT ![Row(e)] = Postponed(Row(e))]
      BY <2>5 DEF RateLimited
    <3>2. CASE job' = [job EXCEPT ![Row(e)] = Postponed(Row(e))]
      BY <3>2 DEF Postponed
    <3> QED
      BY <3>1, <3>2, SameKeepsChain
  <2>6. CASE RecordFailure(e)
    BY <2>6 DEF RecordFailure
  <2> QED
    BY <1>3, <2>1, <2>2, <2>3, <2>4, <2>5, <2>6, SameKeepsChain
    DEF Worked, Work, Persist, EnqueueResume, MarkSnapshot, ThrowEarly, Throw, Refuse, FailSnapshot,
        AiPause
<1>4. CASE Environment
  <2>1. ASSUME NEW r, NEW b \in BOOLEAN, job' = [job EXCEPT ![r].silent = b] PROVE ChainKept
    BY <2>1
  <2> QED
    BY <1>4, <2>1, SameKeepsChain DEF Environment, Beat, FallSilent, Crash, Abandon, CrashSweeper
<1>5. CASE Sweep
  <2>1. ASSUME NEW s \in Sweepers, ClaimOrphans(s) PROVE ChainKept
    BY <2>1 DEF ClaimOrphans, Claimed
  <2>2. ASSUME NEW s, NEW r, NEW n, Requeue(s, r, n) PROVE ChainKept
    BY <2>2 DEF Requeue
  <2>3. ASSUME NEW s, NEW r, NEW n, FailOrphanRow(s, r, n) PROVE ChainKept
    BY <2>3 DEF FailOrphanRow
  <2>4. ASSUME NEW s, NEW r, FailStranded(s, r) PROVE ChainKept
    BY <2>4 DEF FailStranded
  <2> QED
    BY <1>5, <2>1, <2>2, <2>3, <2>4, SameKeepsChain
    DEF Sweep, SweepStep, GiveUp, RequeueThrows, MarkOrphanSnapshot, SelectStranded, AskLive, EndSweep
<1> QED
  BY <1>1, <1>2, <1>3, <1>4, <1>5, SameKeepsChain DEF Next, Worker, Worked, vars

-----------------------------------------------------------------------------
(* The three properties *)

THEOREM SnapInvHolds == Spec => [](TypeOK /\ SnapInv)
<1>1. Init => TypeOK /\ SnapInv
  BY InitTyped, SnapInvInit
<1>2. TypeOK /\ SnapInv /\ [Next]_vars => (TypeOK /\ SnapInv)'
  BY TypeStep, SnapInvStep
<1> QED
  BY <1>1, <1>2, PTL DEF Spec

\* However many runs, deliveries and sweeps work on the commit, once all of them
\* are quiet a snapshot that still says 'complete' without the semantic phases was
\* torn out of the hands of the delivery that wrote it: the catch block,
\* markSnapshotFailed and the forced resume correct it on every other path.
THEOREM SnapshotIsHonest == Spec => []SnapshotHonest
<1>1. TypeOK /\ SnapInv => SnapshotHonest
  <2> SUFFICES ASSUME TypeOK, SnapInv, Quiet, Half, ~snapshot.torn PROVE FALSE
    BY DEF SnapshotHonest
  <2>1. ~Held
    BY DEF Quiet, Held
  <2>2. ~HandedBack
    BY DEF Quiet, HandedBack, HandedTo
  <2> QED
    BY <2>1, <2>2 DEF SnapInv, HalfHeld
<1> QED
  BY <1>1, SnapInvHolds, PTL

\* No package is queued for a run whose graph lacks its semantic phases, unless
\* that graph was torn from the delivery that wrote it: the reuse path of a forced
\* resume never sees the optimistic 'complete', and an unforced one bows out.
THEOREM GenerationIsHonest == Spec => GenerationHonest
<1>1. TypeOK /\ SnapInv /\ [Next]_vars =>
        [\A r \in Rows : ~job[r].chained /\ job'[r].chained => snapshot.full \/ snapshot.torn]_vars
  <2> SUFFICES ASSUME TypeOK, SnapInv, [Next]_vars, NEW r \in Rows, ~job[r].chained, job'[r].chained
               PROVE  snapshot.full \/ snapshot.torn
    OBVIOUS
  <2>1. PICK e \in Entries : ChainGeneration(e)
    BY OnlyChainGeneration DEF ChainKept
  <2> QED
    BY <2>1 DEF ChainGeneration, SnapInv, SeenWhole
<1> QED
  BY <1>1, SnapInvHolds, PTL DEF Spec, GenerationHonest

\* A failing delivery marks only a snapshot its own transaction wrote: a good one
\* that it borrowed from a sibling is never stomped.
THEOREM BorrowedIsKept == Spec => BorrowedKept
<1>1. TypeOK /\ SnapInv /\ [Next]_vars =>
        [\A e \in Entries : entry[e].at = "recorded" /\ entry'[e].at = "thrown" =>
           snapshot.graphBy = e \/ snapshot.torn \/ snapshot' = snapshot]_vars
  BY DEF SnapInv, WroteIt, Wrote, Holding
<1> QED
  BY <1>1, SnapInvHolds, PTL DEF Spec, BorrowedKept

-----------------------------------------------------------------------------
(* What is executed was asked for *)

(* A sum of naturals over a finite set, as the number of pairs below the graph of
   the function. *)
Units(S, c) == {p \in S \X Nat : 1 <= p[2] /\ p[2] <= c[p[1]]}
Total(S, c) == Cardinality(Units(S, c))

\* One element can be taken out of a sum.
LEMMA SumOfOne ==
  ASSUME NEW S, IsFiniteSet(S), NEW L \in Nat, NEW c \in [S -> 0..L], NEW x \in S
  PROVE  /\ Total(S, c) = Total(S \ {x}, c) + c[x]
         /\ Total(S \ {x}, c) \in Nat
<1> DEFINE rest == Units(S \ {x}, c)
           own  == {x} \X (1..c[x])
<1>1. IsFiniteSet(S \X (1..L))
  <2>1. IsFiniteSet(1..L)
    BY FS_Interval
  <2> QED
    BY <2>1, FS_Product
<1>2. rest \subseteq S \X (1..L)
  BY DEF Units
<1>3. IsFiniteSet(rest) /\ Cardinality(rest) \in Nat
  BY <1>1, <1>2, FS_Subset, FS_CardinalityType
<1>4. IsFiniteSet(own) /\ Cardinality(own) = c[x]
  <2>1. IsFiniteSet({x}) /\ Cardinality({x}) = 1
    BY FS_Singleton
  <2>2. IsFiniteSet(1..c[x]) /\ Cardinality(1..c[x]) = c[x]
    BY FS_Interval
  <2> QED
    BY <2>1, <2>2, FS_Product, SMTT(30)
<1>5. Units(S, c) = rest \union own /\ rest \intersect own = {}
  BY DEF Units
<1>6. Cardinality(rest \union own) = Cardinality(rest) + c[x] - Cardinality({})
  BY <1>3, <1>4, <1>5, FS_Union
<1> QED
  BY <1>3, <1>5, <1>6, FS_EmptySet DEF Total

LEMMA TotalTyped ==
  ASSUME NEW S, IsFiniteSet(S), NEW L \in Nat, NEW c \in [S -> 0..L]
  PROVE  Total(S, c) \in Nat
<1>1. IsFiniteSet(S \X (1..L))
  <2>1. IsFiniteSet(1..L)
    BY FS_Interval
  <2> QED
    BY <2>1, FS_Product
<1>2. Units(S, c) \subseteq S \X (1..L)
  BY DEF Units
<1> QED
  BY <1>1, <1>2, FS_Subset, FS_CardinalityType DEF Total

\* What changes at one element changes the sum by as much.
LEMMA ChangedAt ==
  ASSUME NEW S, IsFiniteSet(S), NEW L \in Nat, NEW c \in [S -> 0..L], NEW d \in [S -> 0..L],
         NEW x \in S, \A y \in S \ {x} : d[y] = c[y]
  PROVE  Total(S, d) = Total(S, c) + d[x] - c[x]
<1>1. Units(S \ {x}, d) = Units(S \ {x}, c)
  BY DEF Units
<1>2. /\ Total(S, c) = Total(S \ {x}, c) + c[x]
      /\ Total(S, d) = Total(S \ {x}, d) + d[x]
      /\ Total(S \ {x}, c) \in Nat
  BY SumOfOne
<1> QED
  BY <1>1, <1>2 DEF Total

(* What a row has coming: how often the deliveries that exist may still begin to
   execute it, if no more is asked for. *)
Deliveries == 1 + MaxStalled

\* Places from which the entry will be delivered again without a worker dying,
\* or will be once the delivery has failed.
ToBegin == {"waiting", "thrown", "threw", "refused", "threwOwning", "recorded"}

Ahead(place) == IF place \in ToBegin THEN 1 ELSE IF place = "requeue" THEN Deliveries ELSE 0
Owes(x)      == IF x.at = "free" THEN 0 ELSE MaxStalled - x.stalls + Ahead(x.at)
Due(r)       == [e \in Entries |-> IF Row(e) = r THEN Owes(entry[e]) ELSE 0]
Owed(r)      == Total(Entries, Due(r))

\* What was asked for: clicks, errors, hand-backs and rate-limited resumes, less
\* the requests that have not reached the queue.
Asked(r) == {q \in Requests : request[q].at # "idle" /\ request[q].row = r}
Paid(r)  == spent.clicks + spent.throws + Cardinality(job[r].handed) + job[r].rate
              - Cardinality(Asked(r))

\* Every delivery, past or to come, is one of the 1 + MaxStalled of something
\* that was asked for.
WorkPaid == \A r \in Rows : job[r].runs + Owed(r) <= Deliveries * Paid(r)

LEMMA DueTyped ==
  ASSUME TypeOK, NEW r \in Rows
  PROVE  Due(r) \in [Entries -> 0..(2 * Deliveries)] /\ 2 * Deliveries \in Nat
<1>1. ASSUME NEW e \in Entries PROVE Owes(entry[e]) \in 0..(2 * Deliveries)
  BY LimitsAssumption DEF TypeOK, Entry, FreeEntry, Owes, Ahead, Deliveries
<1> QED
  BY <1>1, LimitsAssumption DEF Due, Deliveries

LEMMA DueTypedAfter ==
  ASSUME TypeOK', NEW r \in Rows
  PROVE  Due(r)' \in [Entries -> 0..(2 * Deliveries)]
<1>1. ASSUME NEW e \in Entries PROVE Owes(entry'[e]) \in 0..(2 * Deliveries)
  BY LimitsAssumption DEF TypeOK, Entry, FreeEntry, Owes, Ahead, Deliveries
<1> QED
  BY <1>1, LimitsAssumption DEF Due, Deliveries

LEMMA OwedTyped ==
  ASSUME TypeOK, TypeOK', IsFiniteSet(Entries), NEW r \in Rows
  PROVE  Owed(r) \in Nat /\ Owed(r)' \in Nat /\ Owed(r)' = Total(Entries, Due(r)')
<1>1. Owed(r)' = Total(Entries, Due(r)')
  BY DEF Owed, Total, Units
<1>2. Total(Entries, Due(r)) \in Nat
  BY DueTyped, TotalTyped
<1>3. Total(Entries, Due(r)') \in Nat
  BY DueTyped, DueTypedAfter, TotalTyped
<1> QED
  BY <1>1, <1>2, <1>3 DEF Owed

\* A step that changes one entry changes the sum by what changes there.
LEMMA OneEntry ==
  ASSUME TypeOK, TypeOK', IsFiniteSet(Entries), NEW r \in Rows, NEW e \in Entries,
         \A f \in Entries \ {e} : entry'[f] = entry[f]
  PROVE  Owed(r)' = Owed(r) + Due(r)'[e] - Due(r)[e]
<1>1. \A f \in Entries \ {e} : Due(r)'[f] = Due(r)[f]
  BY DEF Due, Row
<1>2. Due(r) \in [Entries -> 0..(2 * Deliveries)] /\ 2 * Deliveries \in Nat
  BY DueTyped
<1>3. Due(r)' \in [Entries -> 0..(2 * Deliveries)]
  BY DueTypedAfter
<1> QED
  BY <1>1, <1>2, <1>3, ChangedAt, OwedTyped DEF Owed

LEMMA SameOwed ==
  ASSUME UNCHANGED entry, NEW r
  PROVE  Owed(r)' = Owed(r)
  BY DEF Owed, Total, Units, Due, Row

\* Moving a delivery on changes what is due by whether it will begin again.
LEMMA GoOwed ==
  ASSUME TypeOK, TypeOK', IsFiniteSet(Entries), NEW r \in Rows, NEW e \in Entries,
         entry[e].at # "free", NEW p, p # "free", Go(e, p)
  PROVE  Owed(r)' = Owed(r) + (IF Row(e) = r THEN Ahead(p) - Ahead(entry[e].at) ELSE 0)
<1>1. /\ entry'[e].at = p /\ entry'[e].row = entry[e].row /\ entry'[e].stalls = entry[e].stalls
      /\ \A f \in Entries \ {e} : entry'[f] = entry[f]
  BY InUseTyped DEF Go, TypeOK
<1>2. MaxStalled - entry[e].stalls \in Nat /\ Ahead(p) \in Nat /\ Ahead(entry[e].at) \in Nat
  BY InUseTyped, LimitsAssumption DEF Ahead, Deliveries
<1>3. /\ Due(r)[e]  = (IF Row(e) = r THEN MaxStalled - entry[e].stalls + Ahead(entry[e].at) ELSE 0)
      /\ Due(r)'[e] = (IF Row(e) = r THEN MaxStalled - entry[e].stalls + Ahead(p) ELSE 0)
  BY <1>1 DEF Due, Owes, Row
<1>4. Owed(r)' = Owed(r) + Due(r)'[e] - Due(r)[e] /\ Owed(r) \in Nat
  BY <1>1, OneEntry, OwedTyped
<1> QED
  BY <1>2, <1>3, <1>4

\* A new entry is worth 1 + MaxStalled deliveries.
LEMMA AddedOwed ==
  ASSUME TypeOK, TypeOK', IsFiniteSet(Entries), NEW r \in Rows, NEW e \in Entries,
         entry[e].at = "free", NEW t, NEW n, NEW f, entry' = Added(e, t, n, f)
  PROVE  Owed(r)' = Owed(r) + (IF t = r THEN Deliveries ELSE 0)
<1>1. /\ entry'[e] = [at |-> "waiting", row |-> t, left |-> n, stalls |-> 0, force |-> f]
      /\ \A g \in Entries \ {e} : entry'[g] = entry[g]
  BY DEF Added, TypeOK
<1>2. Due(r)[e] = 0 /\ Due(r)'[e] = (IF t = r THEN Deliveries ELSE 0)
  BY <1>1, LimitsAssumption DEF Due, Owes, Row, Ahead, ToBegin, Deliveries
<1>3. Owed(r)' = Owed(r) + Due(r)'[e] - Due(r)[e] /\ Owed(r) \in Nat
  BY <1>1, OneEntry, OwedTyped
<1> QED
  BY <1>2, <1>3, LimitsAssumption DEF Deliveries

\* What BullMQ does with an entry it settles never adds to what is due.
LEMMA DeliverOwed ==
  ASSUME TypeOK, TypeOK', IsFiniteSet(Entries), NEW r \in Rows, NEW e \in Entries, Deliver(e)
  PROVE  Owed(r)' <= Owed(r)
<1>1. \A f \in Entries \ {e} : entry'[f] = entry[f]
  BY DEF Deliver, EndEntry, FailEntry, Stalled, TypeOK
<1>2. Owed(r)' = Owed(r) + Due(r)'[e] - Due(r)[e] /\ Owed(r) \in Nat
  BY <1>1, OneEntry, OwedTyped
<1>3. Due(r)[e] \in Nat /\ Due(r)'[e] \in Nat
  BY DueTyped, DueTypedAfter, LimitsAssumption DEF Deliveries
<1>4. Due(r)'[e] <= Due(r)[e]
  <2>1. CASE entry' = [entry EXCEPT ![e] = FreeEntry]
    <3>1. Due(r)'[e] = 0
      BY <2>1 DEF Due, Owes, Row, FreeEntry, TypeOK
    <3> QED
      BY <1>3, <3>1
  <2>2. CASE entry[e].at = "thrown" /\ entry' = [entry EXCEPT ![e] = Redelivered(e)]
    <3>1. /\ entry'[e].at = "waiting" /\ entry'[e].row = entry[e].row
          /\ entry'[e].stalls = entry[e].stalls
      BY <2>2, InUseTyped DEF Redelivered, TypeOK
    <3>2. Due(r)'[e] = Due(r)[e]
      BY <2>2, <3>1 DEF Due, Owes, Row, Ahead, ToBegin
    <3> QED
      BY <1>3, <3>2
  <2>3. CASE entry[e].at = "dead" /\ entry' = [entry EXCEPT ![e] = Recovered(e)]
    <3>1. /\ entry'[e].at = "waiting" /\ entry'[e].row = entry[e].row
          /\ entry'[e].stalls = entry[e].stalls + 1
          /\ entry[e].stalls \in Nat
      BY <2>3, InUseTyped, LimitsAssumption DEF Recovered, TypeOK
    <3>2. Due(r)'[e] = Due(r)[e]
      BY <2>3, <3>1, LimitsAssumption DEF Due, Owes, Row, Ahead, ToBegin
    <3> QED
      BY <1>3, <3>2
  <2> QED
    BY <2>1, <2>2, <2>3 DEF Deliver, EndEntry, FailEntry, Stalled
<1> QED
  BY <1>2, <1>3, <1>4

\* Asking for a delivery counts at most once, and is settled when it leaves.
LEMMA AskedTyped ==
  ASSUME IsFiniteSet(Requests), NEW r
  PROVE  IsFiniteSet(Asked(r)) /\ Cardinality(Asked(r)) \in Nat
<1>1. Asked(r) \subseteq Requests
  BY DEF Asked
<1> QED
  BY <1>1, FS_Subset, FS_CardinalityType

LEMMA AskedNew ==
  ASSUME TypeOK, IsFiniteSet(Requests), NEW r, NEW q \in Requests,
         \A p \in Requests \ {q} : request'[p] = request[p]
  PROVE  Cardinality(Asked(r)') <= Cardinality(Asked(r)) + 1 /\ Cardinality(Asked(r)') \in Nat
<1>1. Asked(r)' \subseteq Asked(r) \union {q}
  BY DEF Asked
<1>2. /\ IsFiniteSet(Asked(r) \union {q})
      /\ Cardinality(Asked(r) \union {q}) <= Cardinality(Asked(r)) + 1
      /\ Cardinality(Asked(r) \union {q}) \in Nat
  <2>1. IsFiniteSet(Asked(r)) /\ Cardinality(Asked(r)) \in Nat
    BY AskedTyped
  <2>2. /\ IsFiniteSet(Asked(r) \union {q})
        /\ Cardinality(Asked(r) \union {q}) =
             (IF q \in Asked(r) THEN Cardinality(Asked(r)) ELSE Cardinality(Asked(r)) + 1)
    BY <2>1, FS_AddElement
  <2> QED
    BY <2>1, <2>2
<1>3. IsFiniteSet(Asked(r)') /\ Cardinality(Asked(r)') <= Cardinality(Asked(r) \union {q})
  BY <1>1, <1>2, FS_Subset
<1> QED
  BY <1>2, <1>3, AskedTyped, FS_CardinalityType

LEMMA AskedGone ==
  ASSUME TypeOK, IsFiniteSet(Requests), NEW r, NEW q \in Requests,
         request[q].at # "idle", request' = [request EXCEPT ![q] = IdleRequest]
  PROVE  /\ Cardinality(Asked(r)') =
              Cardinality(Asked(r)) - (IF request[q].row = r THEN 1 ELSE 0)
         /\ Cardinality(Asked(r)') \in Nat
<1>1. Asked(r)' = Asked(r) \ {q} /\ (q \in Asked(r) <=> request[q].row = r)
  BY DEF Asked, IdleRequest, TypeOK
<1>2. /\ Cardinality(Asked(r) \ {q}) =
           (IF q \in Asked(r) THEN Cardinality(Asked(r)) - 1 ELSE Cardinality(Asked(r)))
      /\ Cardinality(Asked(r) \ {q}) \in Nat
  BY AskedTyped, FS_RemoveElement, FS_CardinalityType
<1> QED
  BY <1>1, <1>2, AskedTyped

\* A step is free for a row when it begins no more than is due anyway, and paid for
\* when what it adds was asked for by it.
FreeFor(r) ==
  job'[r].runs + Owed(r)' <= job[r].runs + Owed(r) /\ Paid(r)' >= Paid(r)
PaidFor(r) ==
  job'[r].runs + Owed(r)' <= job[r].runs + Owed(r) + Deliveries /\ Paid(r)' >= Paid(r) + 1
Accounted == \A r \in Rows : FreeFor(r) \/ PaidFor(r)

\* A handed-back loss is one of the first MaxRecovery.
LEMMA HandedTyped ==
  ASSUME TypeOK, ClaimInv, NEW r \in Rows
  PROVE  /\ IsFiniteSet(job[r].handed)
         /\ Cardinality(job[r].handed) \in 0..MaxRecovery
<1>1. job[r].handed \subseteq 1..MaxRecovery
  BY LimitsAssumption DEF ClaimInv, TypeOK, JobRow
<1>2. IsFiniteSet(1..MaxRecovery) /\ Cardinality(1..MaxRecovery) = MaxRecovery
  BY LimitsAssumption, FS_Interval
<1> QED
  BY <1>1, <1>2, LimitsAssumption, FS_Subset, FS_CardinalityType

LEMMA PaidTyped ==
  ASSUME TypeOK, ClaimInv, IsFiniteSet(Requests), NEW r \in Rows
  PROVE  /\ job[r].runs \in Nat /\ job[r].rate \in 0..MaxRateLimit
         /\ Cardinality(job[r].handed) \in Nat
         /\ spent.clicks \in 0..MaxClicks /\ spent.throws \in 0..MaxThrows
         /\ Cardinality(Asked(r)) \in Nat
         /\ Paid(r) \in Int
<1>1. job[r].runs \in Nat /\ job[r].rate \in 0..MaxRateLimit
  BY DEF TypeOK, JobRow
<1>2. spent.clicks \in 0..MaxClicks /\ spent.throws \in 0..MaxThrows
  BY DEF TypeOK, Spent
<1>3. Cardinality(job[r].handed) \in Nat
  BY HandedTyped, LimitsAssumption
<1> QED
  BY <1>1, <1>2, <1>3, AskedTyped, LimitsAssumption, BoundsAssumption DEF Paid

LEMMA Monotone ==
  ASSUME NEW w \in Nat, NEW x \in Int, NEW y \in Int, x <= y
  PROVE  w * x <= w * y /\ w * (x + 1) = w * x + w /\ w * x \in Int /\ w * y \in Int
<1>1. y - x \in Nat /\ w * (y - x) \in Nat /\ w * (y - x) = w * y - w * x
  OBVIOUS
<1> QED
  BY <1>1

LEMMA AccountedStep ==
  ASSUME TypeOK, TypeOK', ClaimInv, ClaimInv', IsFiniteSet(Entries), IsFiniteSet(Requests),
         WorkPaid, Accounted
  PROVE  WorkPaid'
<1> SUFFICES ASSUME NEW r \in Rows
             PROVE  job'[r].runs + Owed(r)' <= Deliveries * Paid(r)'
  BY DEF WorkPaid, Deliveries
<1>1. job[r].runs \in Nat /\ job'[r].runs \in Nat /\ Paid(r) \in Int /\ Paid(r)' \in Int
  <2>1. job'[r].runs \in Nat
    BY DEF TypeOK, JobRow
  <2>2. Paid(r)' \in Int
    <3>1. IsFiniteSet(job'[r].handed) /\ Cardinality(job'[r].handed) \in Nat
      <4>1. job'[r].handed \subseteq 1..MaxRecovery
        BY LimitsAssumption DEF ClaimInv, TypeOK, JobRow
      <4>2. IsFiniteSet(1..MaxRecovery)
        BY LimitsAssumption, FS_Interval
      <4> QED
        BY <4>1, <4>2, FS_Subset, FS_CardinalityType
    <3>2. Asked(r)' \subseteq Requests
      BY DEF Asked
    <3>3. Cardinality(Asked(r)') \in Nat
      BY <3>2, FS_Subset, FS_CardinalityType
    <3>4. spent'.clicks \in Nat /\ spent'.throws \in Nat /\ job'[r].rate \in Nat
      BY LimitsAssumption, BoundsAssumption DEF TypeOK, Spent, JobRow
    <3> QED
      BY <3>1, <3>3, <3>4 DEF Paid
  <2> QED
    BY <2>1, <2>2, PaidTyped
<1>2. Owed(r) \in Nat /\ Owed(r)' \in Nat /\ Deliveries \in Nat
  BY OwedTyped, LimitsAssumption DEF Deliveries
<1>3. job[r].runs + Owed(r) <= Deliveries * Paid(r)
  BY DEF WorkPaid
<1> HIDE DEF Deliveries, Owed, Paid
<1>4. CASE FreeFor(r)
  <2>1. Deliveries * Paid(r) <= Deliveries * Paid(r)' /\ Deliveries * Paid(r) \in Int
          /\ Deliveries * Paid(r)' \in Int
    BY <1>1, <1>2, <1>4, Monotone DEF FreeFor
  <2> QED
    BY <1>1, <1>2, <1>3, <1>4, <2>1 DEF FreeFor
<1>5. CASE PaidFor(r)
  <2>1. Deliveries * (Paid(r) + 1) <= Deliveries * Paid(r)' /\ Deliveries * Paid(r)' \in Int
    BY <1>1, <1>2, <1>5, Monotone DEF PaidFor
  <2>2. Deliveries * (Paid(r) + 1) = Deliveries * Paid(r) + Deliveries
          /\ Deliveries * Paid(r) \in Int
    BY <1>1, <1>2, Monotone
  <2> QED
    BY <1>1, <1>2, <1>3, <1>5, <2>1, <2>2 DEF PaidFor
<1> QED
  BY <1>4, <1>5 DEF Accounted

\* What most steps leave alone, and how the bounds go on.
CountsKept == \A r \in Rows : /\ job'[r].runs = job[r].runs /\ job'[r].rate = job[r].rate
                              /\ job'[r].handed = job[r].handed
Spends == \/ MayClick /\ Click
          \/ MayCrash /\ Lose
          \/ MayThrow /\ Fault
          \/ UNCHANGED spent

LEMMA SpentGrows ==
  ASSUME TypeOK, Spends
  PROVE  /\ spent'.clicks \in Nat /\ spent'.throws \in Nat
         /\ spent'.clicks >= spent.clicks /\ spent'.throws >= spent.throws
         /\ Click => spent'.clicks = spent.clicks + 1
         /\ Fault => spent'.throws = spent.throws + 1
  BY BoundsAssumption DEF TypeOK, Spent, Spends, MayClick, MayCrash, MayThrow, Click, Lose, Fault

\* A step that writes no row counts nothing.
LEMMA SameCounts == ASSUME UNCHANGED job PROVE CountsKept
  BY DEF CountsKept

\* So does a change of a row's status.
LEMMA StatusCounts == ASSUME TypeOK, NEW r, NEW s, SetStatus(r, s) PROVE CountsKept
  BY DEF CountsKept, SetStatus, TypeOK, JobRow

\* What the requests in flight do not pay, the bounds do.
LEMMA PaidGrows ==
  ASSUME TypeOK, ClaimInv, IsFiniteSet(Requests), NEW r \in Rows, CountsKept, Spends
  PROVE  /\ Paid(r)' + Cardinality(Asked(r)') >= Paid(r) + Cardinality(Asked(r))
         /\ Click \/ Fault =>
              Paid(r)' + Cardinality(Asked(r)') >= Paid(r) + Cardinality(Asked(r)) + 1
         /\ Cardinality(Asked(r)) \in Nat /\ Cardinality(Asked(r)') \in Nat
         /\ Paid(r) \in Int /\ Paid(r)' \in Int
<1>1. job'[r].handed = job[r].handed /\ job'[r].rate = job[r].rate
  BY DEF CountsKept
<1>2. Cardinality(Asked(r)') \in Nat
  <2>1. Asked(r)' \subseteq Requests
    BY DEF Asked
  <2> QED
    BY <2>1, FS_Subset, FS_CardinalityType
<1>3. /\ spent'.clicks \in Nat /\ spent'.throws \in Nat
      /\ spent'.clicks >= spent.clicks /\ spent'.throws >= spent.throws
      /\ Click => spent'.clicks = spent.clicks + 1
      /\ Fault => spent'.throws = spent.throws + 1
  BY SpentGrows
<1>4. /\ job[r].rate \in Nat /\ Cardinality(job[r].handed) \in Nat
      /\ spent.clicks \in Nat /\ spent.throws \in Nat
      /\ Cardinality(Asked(r)) \in Nat
      /\ Paid(r) \in Int
  BY PaidTyped, LimitsAssumption, BoundsAssumption
<1>5. Paid(r)' = spent'.clicks + spent'.throws + Cardinality(job[r].handed) + job[r].rate
                   - Cardinality(Asked(r)')
  BY <1>1 DEF Paid
<1>6. Paid(r) = spent.clicks + spent.throws + Cardinality(job[r].handed) + job[r].rate
                  - Cardinality(Asked(r))
  BY DEF Paid
<1> HIDE DEF Paid, Asked, Click, Fault
<1> QED
  BY <1>2, <1>3, <1>4, <1>5, <1>6

\* A step that asks for nothing is free when it adds nothing, and paid for when an
\* error paid for it.
LEMMA Unasked ==
  ASSUME TypeOK, TypeOK', ClaimInv, IsFiniteSet(Entries), IsFiniteSet(Requests), NEW r \in Rows,
         UNCHANGED request, CountsKept, Spends,
         \/ Owed(r)' <= Owed(r)
         \/ Fault /\ Owed(r)' <= Owed(r) + Deliveries
  PROVE  FreeFor(r) \/ PaidFor(r)
<1>1. Asked(r)' = Asked(r)
  BY DEF Asked
<1>2. job'[r].runs = job[r].runs /\ job[r].runs \in Nat
  BY PaidTyped DEF CountsKept
<1>3. /\ Paid(r)' >= Paid(r)
      /\ Fault => Paid(r)' >= Paid(r) + 1
  BY <1>1, PaidGrows
<1>4. Owed(r) \in Nat /\ Owed(r)' \in Nat /\ Deliveries \in Nat
  BY OwedTyped, LimitsAssumption DEF Deliveries
<1> QED
  BY <1>2, <1>3, <1>4 DEF FreeFor, PaidFor

\* The API asks before it submits.
LEMMA APIAccounted ==
  ASSUME TypeOK, TypeOK', ClaimInv, IsFiniteSet(Entries), IsFiniteSet(Requests), API
  PROVE  Accounted
<1> SUFFICES ASSUME NEW r \in Rows PROVE FreeFor(r) \/ PaidFor(r)
  BY DEF Accounted
<1>1. /\ Owed(r) \in Nat /\ Owed(r)' \in Nat /\ Deliveries \in Nat
      /\ job[r].runs \in Nat /\ Paid(r) \in Int
  BY OwedTyped, PaidTyped, LimitsAssumption DEF Deliveries
<1>2. ASSUME NEW q \in Requests, NEW t \in Rows,
             \/ \E n, f \in BOOLEAN : StartRun(q, t, n, f)
             \/ ResumeCheck(q, t)
      PROVE  FreeFor(r)
  <2>1. /\ Spends /\ Click /\ UNCHANGED entry
        /\ \A p \in Requests \ {q} : request'[p] = request[p]
    BY <1>2 DEF StartRun, ResumeCheck, TypeOK, Spends
  <2>2. CountsKept
    <3>1. CASE ResumeCheck(q, t)
      BY <3>1, SameCounts DEF ResumeCheck
    <3>2. ASSUME NEW n \in BOOLEAN, NEW f \in BOOLEAN, StartRun(q, t, n, f) PROVE CountsKept
      BY <3>2 DEF StartRun, CountsKept, TypeOK, JobRow
    <3> QED
      BY <1>2, <3>1, <3>2
  <2>3. Cardinality(Asked(r)') <= Cardinality(Asked(r)) + 1
    BY <2>1, AskedNew
  <2>4. /\ Paid(r)' + Cardinality(Asked(r)') >= Paid(r) + Cardinality(Asked(r)) + 1
        /\ Cardinality(Asked(r)) \in Nat /\ Cardinality(Asked(r)') \in Nat
        /\ Paid(r) \in Int /\ Paid(r)' \in Int
    BY <2>1, <2>2, PaidGrows
  <2>5. Paid(r)' >= Paid(r)
    BY <2>3, <2>4
  <2> QED
    BY <1>1, <2>1, <2>2, <2>5, SameOwed DEF FreeFor, CountsKept
<1>3. ASSUME NEW t \in Rows, PauseClick(t) \/ StopClick(t) PROVE FreeFor(r) \/ PaidFor(r)
  <2>1. Spends /\ UNCHANGED <<entry, request>> /\ \E s : SetStatus(t, s)
    BY <1>3 DEF PauseClick, StopClick, Spends
  <2>2. CountsKept /\ Owed(r)' <= Owed(r)
    BY <1>1, <2>1, StatusCounts, SameOwed
  <2> QED
    BY <2>1, <2>2, Unasked
<1>4. ASSUME NEW q \in Requests, ResumeWrite(q) PROVE FreeFor(r)
  <2>1. Asked(r)' = Asked(r)
    BY <1>4, InFlightTyped DEF ResumeWrite, Asked, TypeOK
  <2>2. CountsKept /\ Spends /\ UNCHANGED entry
    BY <1>4 DEF ResumeWrite, CountsKept, TypeOK, JobRow, Spends
  <2>3. Paid(r)' >= Paid(r)
    BY <2>1, <2>2, PaidGrows
  <2> QED
    BY <1>1, <2>2, <2>3, SameOwed DEF FreeFor, CountsKept
<1>5. ASSUME NEW q \in Requests, Submit(q) \/ SubmitThrows(q) \/ RequestLost(q)
      PROVE  FreeFor(r) \/ PaidFor(r)
  <2>1. request[q].at # "idle" /\ request' = [request EXCEPT ![q] = IdleRequest]
    BY <1>5 DEF Submit, SubmitThrows, RequestLost
  <2>2. Spends
    BY <1>5 DEF Submit, SubmitThrows, RequestLost, Spends
  <2>3. CountsKept
    BY <1>5, SameCounts, StatusCounts DEF Submit, SubmitThrows, RequestLost, SetStatus
  <2>4. Cardinality(Asked(r)') = Cardinality(Asked(r)) - (IF request[q].row = r THEN 1 ELSE 0)
    BY <2>1, AskedGone
  <2>5. Paid(r)' >= Paid(r) + (IF request[q].row = r THEN 1 ELSE 0)
    <3>1. /\ Paid(r)' + Cardinality(Asked(r)') >= Paid(r) + Cardinality(Asked(r))
          /\ Cardinality(Asked(r)) \in Nat /\ Cardinality(Asked(r)') \in Nat
          /\ Paid(r) \in Int /\ Paid(r)' \in Int
      BY <2>2, <2>3, PaidGrows
    <3> QED
      BY <2>4, <3>1
  <2>6. Owed(r)' <= Owed(r) + (IF request[q].row = r THEN Deliveries ELSE 0)
    <3>1. ASSUME NEW e \in Entries, entry[e].at = "free",
                 entry' = Added(e, request[q].row, 2, request[q].force)
          PROVE  Owed(r)' <= Owed(r) + (IF request[q].row = r THEN Deliveries ELSE 0)
      BY <1>1, <3>1, AddedOwed
    <3> QED
      BY <1>1, <1>5, <3>1, SameOwed DEF Submit, SubmitThrows, RequestLost
  <2>7. job'[r].runs = job[r].runs
    BY <2>3 DEF CountsKept
  <2> QED
    <3>1. CASE request[q].row = r
      BY <1>1, <2>5, <2>6, <2>7, <3>1 DEF PaidFor
    <3>2. CASE request[q].row # r
      BY <1>1, <2>5, <2>6, <2>7, <3>2 DEF FreeFor
    <3> QED
      BY <3>1, <3>2
<1> QED
  BY <1>2, <1>3, <1>4, <1>5 DEF API

LEMMA BullMQAccounted ==
  ASSUME TypeOK, TypeOK', ClaimInv, IsFiniteSet(Entries), IsFiniteSet(Requests), BullMQ
  PROVE  Accounted
<1> SUFFICES ASSUME NEW r \in Rows, NEW e \in Entries, Deliver(e) PROVE FreeFor(r)
  BY DEF Accounted, BullMQ
<1>1. UNCHANGED <<job, request, spent>>
  BY DEF Deliver, EndEntry, FailEntry, Stalled
<1>2. Paid(r)' = Paid(r) /\ job'[r].runs = job[r].runs
  BY <1>1 DEF Paid, Asked
<1> QED
  BY <1>2, DeliverOwed, OwedTyped, PaidTyped DEF FreeFor

\* A delivery that goes on, or fails: only an error makes it begin again.
LEMMA MoveAccounted ==
  ASSUME TypeOK, TypeOK', ClaimInv, IsFiniteSet(Entries), IsFiniteSet(Requests), NEW r \in Rows,
         UNCHANGED request, CountsKept, Spends,
         NEW e \in Entries, entry[e].at # "free", NEW p, p # "free", Go(e, p),
         Ahead(p) <= Ahead(entry[e].at) \/ (Fault /\ p \in ToBegin)
  PROVE  FreeFor(r) \/ PaidFor(r)
<1>1. Owed(r)' = Owed(r) + (IF Row(e) = r THEN Ahead(p) - Ahead(entry[e].at) ELSE 0)
  BY GoOwed
<1>2. Owed(r) \in Nat /\ Deliveries \in Nat /\ Deliveries >= 1
  BY OwedTyped, LimitsAssumption DEF Deliveries
<1>3. Ahead(p) \in Nat /\ Ahead(entry[e].at) \in Nat /\ (p \in ToBegin => Ahead(p) = 1)
  BY <1>2 DEF Ahead
<1>4. CASE Ahead(p) <= Ahead(entry[e].at)
  <2>1. Owed(r)' <= Owed(r)
    BY <1>1, <1>2, <1>3, <1>4
  <2> QED
    BY <2>1, Unasked
<1>5. CASE Fault /\ p \in ToBegin
  <2>1. Owed(r)' <= Owed(r) + Deliveries
    BY <1>1, <1>2, <1>3, <1>5
  <2> QED
    BY <1>5, <2>1, Unasked
<1> QED
  BY <1>4, <1>5

\* Beginning to execute uses up one delivery that was due.
LEMMA BeginAccounted ==
  ASSUME TypeOK, TypeOK', ClaimInv, IsFiniteSet(Entries), IsFiniteSet(Requests), NEW r \in Rows,
         NEW e \in Entries, Begin(e)
  PROVE  FreeFor(r) \/ PaidFor(r)
<1>1. entry[e].at = "waiting" /\ entry[e].at # "free" /\ UNCHANGED <<request, spent>>
  BY DEF Begin
<1>2. CASE Halted(Row(e))
  <2>1. Go(e, "thrown") /\ UNCHANGED job
    BY <1>2 DEF Begin
  <2>2. Ahead("thrown") <= Ahead(entry[e].at)
    BY <1>1 DEF Ahead, ToBegin
  <2> QED
    BY <1>1, <2>1, <2>2, SameCounts, MoveAccounted DEF Spends
<1>3. CASE ~Halted(Row(e))
  <2>1. /\ Go(e, "began")
        /\ job' = [job EXCEPT ![Row(e)] = [Stepped(Row(e)) EXCEPT !.runs = @ + 1]]
    BY <1>3 DEF Begin
  <2>2. /\ job'[r].runs = job[r].runs + (IF Row(e) = r THEN 1 ELSE 0)
        /\ job'[r].rate = job[r].rate /\ job'[r].handed = job[r].handed
    BY <2>1 DEF Stepped, TypeOK, JobRow
  <2>3. Paid(r)' = Paid(r)
    BY <1>1, <2>2 DEF Paid, Asked
  <2>4. Ahead("began") = 0 /\ Ahead(entry[e].at) = 1
    BY <1>1 DEF Ahead, ToBegin
  <2>5. Owed(r)' = Owed(r) - (IF Row(e) = r THEN 1 ELSE 0) /\ Owed(r) \in Nat
    BY <1>1, <2>1, <2>4, GoOwed, OwedTyped
  <2> QED
    BY <2>2, <2>3, <2>5, PaidTyped DEF FreeFor
<1> QED
  BY <1>2, <1>3

\* A rate-limited run pays for the entry it will add out of its own cap.
LEMMA RateLimitedAccounted ==
  ASSUME TypeOK, TypeOK', ClaimInv, IsFiniteSet(Entries), IsFiniteSet(Requests), NEW r \in Rows,
         NEW e \in Entries, RateLimited(e)
  PROVE  FreeFor(r) \/ PaidFor(r)
<1>1. entry[e].at = "phases" /\ entry[e].at # "free" /\ UNCHANGED <<request, spent>>
  BY DEF RateLimited
<1>2. CASE MayResume(Row(e))
  <2>1. job' = [job EXCEPT ![Row(e)] = Postponed(Row(e))] /\ Go(e, "requeue")
    BY <1>2 DEF RateLimited
  <2>2. /\ job'[r].runs = job[r].runs /\ job'[r].handed = job[r].handed
        /\ job'[r].rate = job[r].rate + (IF Row(e) = r THEN 1 ELSE 0)
    BY <2>1, LimitsAssumption DEF Postponed, TypeOK, JobRow
  <2>3. Paid(r)' = Paid(r) + (IF Row(e) = r THEN 1 ELSE 0)
    <3>1. Cardinality(Asked(r)') = Cardinality(Asked(r))
      BY <1>1 DEF Asked
    <3>2. /\ spent.clicks \in Nat /\ spent.throws \in Nat /\ job[r].rate \in Nat
          /\ Cardinality(job[r].handed) \in Nat /\ Cardinality(Asked(r)) \in Nat
      BY PaidTyped, LimitsAssumption, BoundsAssumption
    <3> QED
      BY <1>1, <2>2, <3>1, <3>2 DEF Paid
  <2>4. Ahead("requeue") = Deliveries /\ Ahead(entry[e].at) = 0 /\ Deliveries \in Nat
    BY <1>1, LimitsAssumption DEF Ahead, ToBegin, Deliveries
  <2>5. Owed(r)' = Owed(r) + (IF Row(e) = r THEN Deliveries ELSE 0) /\ Owed(r) \in Nat
    BY <1>1, <2>1, <2>4, GoOwed, OwedTyped
  <2>6. job[r].runs \in Nat /\ Paid(r) \in Int
    BY PaidTyped
  <2>7. CASE Row(e) = r
    BY <2>2, <2>3, <2>4, <2>5, <2>6, <2>7 DEF PaidFor
  <2>8. CASE Row(e) # r
    BY <2>2, <2>3, <2>5, <2>6, <2>8 DEF FreeFor
  <2> QED
    BY <2>7, <2>8
<1>3. CASE ~MayResume(Row(e))
  <2>1. UNCHANGED job /\ Go(e, "pausing")
    BY <1>3 DEF RateLimited
  <2>2. Ahead("pausing") <= Ahead(entry[e].at)
    BY <1>1 DEF Ahead, ToBegin
  <2> QED
    BY <1>1, <2>1, <2>2, SameCounts, MoveAccounted DEF Spends
<1> QED
  BY <1>2, <1>3

\* Adding it moves what is due from the delivery that ends to the one that waits.
LEMMA EnqueueAccounted ==
  ASSUME TypeOK, TypeOK', ClaimInv, IsFiniteSet(Entries), IsFiniteSet(Requests), NEW r \in Rows,
         NEW e \in Entries, EnqueueResume(e)
  PROVE  FreeFor(r) \/ PaidFor(r)
<1>1. PICK n \in Entries : /\ entry[n].at = "free"
                           /\ entry' = [Resubmitted(n, Row(e)) EXCEPT ![e].at = "ending"]
  BY DEF EnqueueResume
<1>2. entry[e].at = "requeue" /\ entry[e].at # "free" /\ n # e
  BY <1>1 DEF EnqueueResume
<1>3. /\ entry'[n] = [at |-> "waiting", row |-> Row(e), left |-> 1, stalls |-> 0, force |-> TRUE]
      /\ entry'[e] = [entry[e] EXCEPT !.at = "ending"]
      /\ \A f \in Entries \ {e, n} : entry'[f] = entry[f]
  BY <1>1, <1>2 DEF Resubmitted, Added, TypeOK
<1>4. /\ entry'[e].at = "ending" /\ entry'[e].row = Row(e) /\ entry'[e].stalls = entry[e].stalls
      /\ entry[e].stalls \in 0..MaxStalled
  BY <1>2, <1>3, InUseTyped DEF Row
<1>5. /\ Due(r)[n] = 0 /\ Due(r)'[n] = (IF Row(e) = r THEN Deliveries ELSE 0)
      /\ Due(r)[e]  = (IF Row(e) = r THEN MaxStalled - entry[e].stalls + Deliveries ELSE 0)
      /\ Due(r)'[e] = (IF Row(e) = r THEN MaxStalled - entry[e].stalls ELSE 0)
  BY <1>1, <1>2, <1>3, <1>4, LimitsAssumption DEF Due, Owes, Row, Ahead, ToBegin, Deliveries
<1>6. /\ Due(r) \in [Entries -> 0..(2 * Deliveries)] /\ 2 * Deliveries \in Nat
      /\ Due(r)' \in [Entries -> 0..(2 * Deliveries)]
  BY DueTyped, DueTypedAfter
<1>7. \A f \in Entries \ {e, n} : Due(r)'[f] = Due(r)[f]
  BY <1>3 DEF Due, Row
<1> DEFINE between == [Due(r) EXCEPT ![e] = Due(r)'[e]]
<1>8. /\ between \in [Entries -> 0..(2 * Deliveries)]
      /\ between[e] = Due(r)'[e] /\ between[n] = Due(r)[n]
      /\ \A f \in Entries \ {e} : between[f] = Due(r)[f]
      /\ \A f \in Entries \ {n} : Due(r)'[f] = between[f]
  BY <1>2, <1>6, <1>7
<1> HIDE DEF between
<1>9. Total(Entries, between) = Total(Entries, Due(r)) + between[e] - Due(r)[e]
  BY <1>6, <1>8, ChangedAt
<1>10. Total(Entries, Due(r)') = Total(Entries, between) + Due(r)'[n] - between[n]
  BY <1>6, <1>8, ChangedAt
<1>11. Owed(r)' <= Owed(r)
  <2>1. /\ Owed(r)' = Total(Entries, Due(r)') /\ Owed(r) = Total(Entries, Due(r))
        /\ Owed(r) \in Nat /\ Deliveries \in Nat
    BY OwedTyped, LimitsAssumption DEF Owed, Deliveries
  <2> HIDE DEF Due, Total, Owed, Deliveries
  <2>2. MaxStalled - entry[e].stalls \in Nat
    BY <1>4, LimitsAssumption
  <2> QED
    BY <1>5, <1>8, <1>9, <1>10, <2>1, <2>2
<1>12. UNCHANGED <<job, request, spent>>
  BY DEF EnqueueResume
<1> QED
  BY <1>11, <1>12, SameCounts, Unasked DEF Spends

LEMMA WorkerAccounted ==
  ASSUME TypeOK, TypeOK', ClaimInv, IsFiniteSet(Entries), IsFiniteSet(Requests), Worker
  PROVE  Accounted
<1> SUFFICES ASSUME NEW r \in Rows, NEW e \in Entries,
                    \/ Work(e)
                    \/ ThrowEarly(e) \/ Throw(e) \/ Refuse(e) \/ FailSnapshot(e) \/ AiPause(e)
             PROVE  FreeFor(r) \/ PaidFor(r)
  BY DEF Accounted, Worker
<1>1. CASE Begin(e) \/ RateLimited(e) \/ EnqueueResume(e)
  BY <1>1, BeginAccounted, RateLimitedAccounted, EnqueueAccounted
<1>2. CASE \/ StampCommit(e) \/ ResolveRun(e) \/ Step(e) \/ ReuseComplete(e) \/ Persist(e)
           \/ LinkSnapshot(e) \/ Finish(e) \/ ChainGeneration(e) \/ PauseRow(e)
  <2>1. UNCHANGED <<request, spent>> /\ entry[e].at # "free"
    BY <1>2 DEF StampCommit, ResolveRun, Step, AfterStep, ReuseComplete, Persist, LinkSnapshot,
                Finish, ChainGeneration, PauseRow
  <2>2. \E p : p # "free" /\ Go(e, p) /\ Ahead(p) <= Ahead(entry[e].at)
    BY <1>2, LimitsAssumption
    DEF StampCommit, ResolveRun, Step, AfterStep, ReuseComplete, Persist, LinkSnapshot, Finish,
        ChainGeneration, PauseRow, Ahead, ToBegin, Deliveries
  <2>3. CountsKept
    <3>1. CASE UNCHANGED job \/ \E s : SetStatus(Row(e), s)
      BY <3>1, SameCounts, StatusCounts
    <3>2. CASE StampCommit(e) \/ LinkSnapshot(e) \/ ChainGeneration(e) \/ ReuseComplete(e)
      <4>1. CASE StampCommit(e)
        BY <4>1 DEF StampCommit, CountsKept, TypeOK, JobRow
      <4>2. CASE LinkSnapshot(e)
        BY <4>2 DEF LinkSnapshot, CountsKept, TypeOK, JobRow
      <4>3. CASE ChainGeneration(e)
        BY <4>3 DEF ChainGeneration, CountsKept, TypeOK, JobRow
      <4>4. CASE ReuseComplete(e)
        BY <4>4 DEF ReuseComplete, CountsKept, TypeOK, JobRow
      <4> QED
        BY <3>2, <4>1, <4>2, <4>3, <4>4
    <3>3. ASSUME job' = [job EXCEPT ![Row(e)] = Stepped(Row(e))] PROVE CountsKept
      BY <3>3 DEF Stepped, CountsKept, TypeOK, JobRow
    <3> QED
      BY <1>2, <3>1, <3>2, <3>3 DEF ResolveRun, Step, Persist, Finish, PauseRow
  <2> QED
    BY <2>1, <2>2, <2>3, MoveAccounted DEF Spends
<1>3. CASE RecordFailure(e) \/ MarkSnapshot(e)
  <2>1. UNCHANGED <<request, spent>> /\ entry[e].at # "free"
    BY <1>3 DEF RecordFailure, MarkSnapshot
  <2>2. \E p : p # "free" /\ Go(e, p) /\ Ahead(p) <= Ahead(entry[e].at)
    BY <1>3 DEF RecordFailure, MarkSnapshot, Ahead, ToBegin
  <2>3. CountsKept
    <3>1. \/ UNCHANGED job
          \/ SetStatus(Row(e), "failed")
          \/ job' = [job EXCEPT ![Row(e)] = [@ EXCEPT !.status = "queued", !.silent = FALSE]]
      BY <1>3 DEF RecordFailure, MarkSnapshot, SetStatus
    <3>2. ASSUME job' = [job EXCEPT ![Row(e)] = [@ EXCEPT !.status = "queued", !.silent = FALSE]]
          PROVE  CountsKept
      BY <3>2 DEF CountsKept, TypeOK, JobRow
    <3> QED
      BY <3>1, <3>2, SameCounts, StatusCounts
  <2> QED
    BY <2>1, <2>2, <2>3, MoveAccounted DEF Spends
<1>4. CASE ThrowEarly(e) \/ Throw(e) \/ Refuse(e) \/ FailSnapshot(e) \/ AiPause(e)
  <2>1. UNCHANGED <<job, request>> /\ Spends /\ Fault /\ entry[e].at # "free"
    BY <1>4 DEF ThrowEarly, Throw, Refuse, FailSnapshot, AiPause, Owning, Spends
  <2>2. \E p : /\ p # "free" /\ Go(e, p)
               /\ p \in ToBegin \/ Ahead(p) <= Ahead(entry[e].at)
    <3>1. CASE AiPause(e)
      BY <3>1 DEF AiPause, Ahead, ToBegin
    <3>2. CASE ThrowEarly(e) \/ Throw(e) \/ Refuse(e) \/ FailSnapshot(e)
      <4>1. \E p \in {"thrown", "threw", "refused", "threwOwning"} : Go(e, p)
        BY <3>2 DEF ThrowEarly, Throw, Refuse, FailSnapshot
      <4> QED
        BY <4>1 DEF ToBegin
    <3> QED
      BY <1>4, <3>1, <3>2
  <2> QED
    BY <2>1, <2>2, SameCounts, MoveAccounted
<1> QED
  BY <1>1, <1>2, <1>3, <1>4 DEF Work

LEMMA EnvironmentAccounted ==
  ASSUME TypeOK, TypeOK', ClaimInv, IsFiniteSet(Entries), IsFiniteSet(Requests), Environment
  PROVE  Accounted
<1> SUFFICES ASSUME NEW r \in Rows PROVE FreeFor(r) \/ PaidFor(r)
  BY DEF Accounted
<1>1. ASSUME UNCHANGED <<entry, request>>, CountsKept, Spends PROVE FreeFor(r) \/ PaidFor(r)
  <2>1. Owed(r)' <= Owed(r)
    BY <1>1, SameOwed, OwedTyped
  <2> QED
    BY <1>1, <2>1, Unasked
<1>2. ASSUME NEW e \in Entries, Beat(e) PROVE FreeFor(r) \/ PaidFor(r)
  <2>1. CountsKept
    BY <1>2 DEF Beat, CountsKept, TypeOK, JobRow
  <2> QED
    BY <1>1, <1>2, <2>1 DEF Beat, Spends
<1>3. ASSUME NEW t \in Rows, FallSilent(t) PROVE FreeFor(r) \/ PaidFor(r)
  <2>1. CountsKept
    BY <1>3 DEF FallSilent, CountsKept, TypeOK, JobRow
  <2> QED
    BY <1>1, <1>3, <2>1 DEF FallSilent, Spends
<1>4. ASSUME NEW e \in Entries, Crash(e) \/ Abandon(e) PROVE FreeFor(r) \/ PaidFor(r)
  <2>1. entry[e].at # "free" /\ Go(e, "dead") /\ UNCHANGED request /\ Spends
    BY <1>4 DEF Crash, Abandon, Executing, Beating, Spends
  <2>2. CountsKept
    <3>1. ASSUME job' = [job EXCEPT ![Row(e)].silent = TRUE] PROVE CountsKept
      BY <3>1 DEF CountsKept, TypeOK, JobRow
    <3> QED
      BY <1>4, <3>1, SameCounts DEF Crash, Abandon
  <2>3. Ahead("dead") <= Ahead(entry[e].at)
    BY LimitsAssumption DEF Ahead, ToBegin, Deliveries
  <2> QED
    BY <2>1, <2>2, <2>3, MoveAccounted
<1>5. ASSUME NEW s \in Sweepers, CrashSweeper(s) PROVE FreeFor(r) \/ PaidFor(r)
  BY <1>1, <1>5, SameCounts DEF CrashSweeper, Spends
<1> QED
  BY <1>2, <1>3, <1>4, <1>5 DEF Environment

\* Of the steps of a sweep, the hand-back is paid for by the loss it settles, which
\* was not handed back before.
LEMMA SweepAccounted ==
  ASSUME TypeOK, TypeOK', ClaimInv, IsFiniteSet(Entries), IsFiniteSet(Requests), Sweep
  PROVE  Accounted
<1> SUFFICES ASSUME NEW r \in Rows, NEW s \in Sweepers,
                    SweepStep(s) \/ \E c \in sweeper[s].held : RequeueThrows(s, c[1], c[2])
             PROVE  FreeFor(r) \/ PaidFor(r)
  BY DEF Accounted, Sweep
<1>1. ASSUME UNCHANGED <<entry, request, spent>>, CountsKept PROVE FreeFor(r) \/ PaidFor(r)
  <2>1. Owed(r)' <= Owed(r)
    BY <1>1, SameOwed, OwedTyped
  <2> QED
    BY <1>1, <2>1, Unasked DEF Spends
<1>2. CASE ClaimOrphans(s)
  <2>1. CountsKept
    BY <1>2, ZenonT(40) DEF ClaimOrphans, Claimed, CountsKept, TypeOK, JobRow
  <2> QED
    BY <1>1, <1>2, <2>1 DEF ClaimOrphans
<1>3. CASE \/ SelectStranded(s) \/ AskLive(s) \/ EndSweep(s)
           \/ \E t \in Rows : MarkOrphanSnapshot(s, t)
  BY <1>1, <1>3, SameCounts DEF SelectStranded, AskLive, EndSweep, MarkOrphanSnapshot
<1>4. ASSUME NEW t \in Rows, FailStranded(s, t) PROVE FreeFor(r) \/ PaidFor(r)
  <2>1. CountsKept
    BY <1>4, SameCounts, StatusCounts DEF FailStranded, SetStatus
  <2> QED
    BY <1>1, <1>4, <2>1 DEF FailStranded
<1>5. ASSUME NEW c \in sweeper[s].held, GiveUp(s, c[1], c[2]) PROVE FreeFor(r) \/ PaidFor(r)
  <2>1. CountsKept
    BY <1>5, SameCounts, StatusCounts DEF GiveUp, FailOrphanRow, SetStatus
  <2> QED
    BY <1>1, <1>5, <2>1 DEF GiveUp
<1>6. ASSUME NEW c \in sweeper[s].held, RequeueThrows(s, c[1], c[2]) PROVE FreeFor(r) \/ PaidFor(r)
  <2>1. CountsKept /\ UNCHANGED request /\ Spends /\ Fault
    BY <1>6, SameCounts, StatusCounts DEF RequeueThrows, FailOrphanRow, SetStatus, Spends
  <2>2. Owed(r) \in Nat /\ Deliveries \in Nat
    BY OwedTyped, LimitsAssumption DEF Deliveries
  <2>3. Owed(r)' <= Owed(r) + Deliveries
    <3>1. ASSUME NEW e \in Entries, entry[e].at = "free", entry' = Resubmitted(e, c[1])
          PROVE  Owed(r)' <= Owed(r) + Deliveries
      <4>1. Owed(r)' = Owed(r) + (IF c[1] = r THEN Deliveries ELSE 0)
        BY <3>1, AddedOwed DEF Resubmitted
      <4> QED
        BY <2>2, <4>1
    <3> QED
      BY <1>6, <2>2, <3>1, SameOwed DEF RequeueThrows
  <2> QED
    BY <2>1, <2>3, Unasked
<1>7. ASSUME NEW c \in sweeper[s].held, Requeue(s, c[1], c[2]) PROVE FreeFor(r) \/ PaidFor(r)
  <2>1. PICK e \in Entries : entry[e].at = "free" /\ entry' = Resubmitted(e, c[1])
    BY <1>7 DEF Requeue
  <2>2. UNCHANGED <<request, spent>> /\ job' = [job EXCEPT ![c[1]].handed = @ \union {c[2]}]
    BY <1>7 DEF Requeue
  <2>3. /\ job'[r].runs = job[r].runs /\ job'[r].rate = job[r].rate
        /\ job'[r].handed = (IF c[1] = r THEN job[r].handed \union {c[2]} ELSE job[r].handed)
    BY <2>2 DEF TypeOK, JobRow
  <2>4. c[2] \notin job[c[1]].handed
    BY DEF ClaimInv
  <2>5. Cardinality(job'[r].handed) = Cardinality(job[r].handed) + (IF c[1] = r THEN 1 ELSE 0)
    <3>1. IsFiniteSet(job[r].handed) /\ Cardinality(job[r].handed) \in Nat
      BY HandedTyped, LimitsAssumption
    <3>2. CASE c[1] = r
      <4>1. Cardinality(job[r].handed \union {c[2]}) = Cardinality(job[r].handed) + 1
        BY <2>4, <3>1, <3>2, FS_AddElement
      <4> QED
        BY <2>3, <3>2, <4>1
    <3> QED
      BY <2>3, <3>1, <3>2
  <2>6. Paid(r)' = Paid(r) + (IF c[1] = r THEN 1 ELSE 0)
    <3>1. Cardinality(Asked(r)') = Cardinality(Asked(r))
      BY <2>2 DEF Asked
    <3>2. /\ spent.clicks \in Nat /\ spent.throws \in Nat /\ job[r].rate \in Nat
          /\ Cardinality(job[r].handed) \in Nat /\ Cardinality(Asked(r)) \in Nat
      BY PaidTyped, LimitsAssumption, BoundsAssumption
    <3>3. Paid(r)' = spent.clicks + spent.throws + Cardinality(job'[r].handed) + job[r].rate
                       - Cardinality(Asked(r)')
      BY <2>2, <2>3 DEF Paid
    <3>4. Paid(r) = spent.clicks + spent.throws + Cardinality(job[r].handed) + job[r].rate
                      - Cardinality(Asked(r))
      BY DEF Paid
    <3> HIDE DEF Paid, Asked
    <3> QED
      BY <2>5, <3>1, <3>2, <3>3, <3>4
  <2>7. Owed(r)' = Owed(r) + (IF c[1] = r THEN Deliveries ELSE 0)
    BY <2>1, AddedOwed DEF Resubmitted
  <2>8. Owed(r) \in Nat /\ Deliveries \in Nat /\ job[r].runs \in Nat /\ Paid(r) \in Int
    BY OwedTyped, PaidTyped, LimitsAssumption DEF Deliveries
  <2>9. CASE c[1] = r
    BY <2>3, <2>6, <2>7, <2>8, <2>9 DEF PaidFor
  <2>10. CASE c[1] # r
    BY <2>3, <2>6, <2>7, <2>8, <2>10 DEF FreeFor
  <2> QED
    BY <2>9, <2>10
<1> QED
  BY <1>2, <1>3, <1>4, <1>5, <1>6, <1>7 DEF SweepStep

LEMMA WorkPaidStep ==
  ASSUME TypeOK, TypeOK', ClaimInv, ClaimInv', IsFiniteSet(Entries), IsFiniteSet(Requests),
         WorkPaid, [Next]_vars
  PROVE  WorkPaid'
<1>1. CASE Next
  <2>1. Accounted
    BY <1>1, APIAccounted, BullMQAccounted, WorkerAccounted, EnvironmentAccounted, SweepAccounted
    DEF Next
  <2> QED
    BY <2>1, AccountedStep
<1>2. CASE UNCHANGED vars
  <2>1. \A r \in Rows : Paid(r)' = Paid(r) /\ Owed(r)' = Owed(r) /\ job'[r].runs = job[r].runs
    BY <1>2, SameOwed DEF vars, Paid, Asked
  <2> QED
    BY <2>1 DEF WorkPaid, Deliveries
<1> QED
  BY <1>1, <1>2

LEMMA WorkPaidInit ==
  ASSUME Init, IsFiniteSet(Entries), IsFiniteSet(Requests)
  PROVE  WorkPaid
<1> SUFFICES ASSUME NEW r \in Rows PROVE job[r].runs + Owed(r) <= Deliveries * Paid(r)
  BY DEF WorkPaid
<1>1. /\ job[r].runs = 0 /\ job[r].rate = 0 /\ job[r].handed = {}
      /\ spent.clicks = 0 /\ spent.throws = 0
  BY DEF Init
<1>2. Asked(r) = {}
  BY DEF Init, Asked, IdleRequest
<1>3. Paid(r) = 0
  BY <1>1, <1>2, FS_EmptySet DEF Paid
<1>4. Units(Entries, Due(r)) = {}
  BY DEF Init, Units, Due, Owes, FreeEntry
<1>5. Owed(r) = 0
  BY <1>4, FS_EmptySet DEF Owed, Total
<1> QED
  BY <1>1, <1>3, <1>5, LimitsAssumption DEF Deliveries

LEMMA WorkPaidHolds ==
  ASSUME IsFiniteSet(Entries), IsFiniteSet(Requests)
  PROVE  Spec => [](TypeOK /\ ClaimInv /\ WorkPaid)
<1>1. Init => TypeOK /\ ClaimInv /\ WorkPaid
  BY InitTyped, ClaimInvInit, WorkPaidInit
<1>2. TypeOK /\ ClaimInv /\ WorkPaid /\ [Next]_vars => (TypeOK /\ ClaimInv /\ WorkPaid)'
  BY TypeStep, ClaimInvStep, WorkPaidStep
<1> QED
  BY <1>1, <1>2, PTL DEF Spec

\* What has been executed was due, and what was due was asked for.
LEMMA RunsBounded ==
  ASSUME TypeOK, ClaimInv, WorkPaid, IsFiniteSet(Entries), IsFiniteSet(Requests), NEW r \in Rows
  PROVE  job[r].runs <= (1 + MaxStalled) * (MaxClicks + MaxThrows + MaxRecovery + MaxRateLimit)
<1> DEFINE most == MaxClicks + MaxThrows + MaxRecovery + MaxRateLimit
<1>1. Paid(r) \in Int /\ most \in Int /\ Paid(r) <= most
  <2>1. Cardinality(job[r].handed) \in 0..MaxRecovery
    BY HandedTyped
  <2>2. /\ spent.clicks \in 0..MaxClicks /\ spent.throws \in 0..MaxThrows
        /\ job[r].rate \in 0..MaxRateLimit /\ Cardinality(Asked(r)) \in Nat
    BY PaidTyped
  <2> QED
    BY <2>1, <2>2, LimitsAssumption, BoundsAssumption DEF Paid
<1>2. job[r].runs \in Nat /\ Owed(r) \in Nat /\ Deliveries \in Nat
  <2>1. Owed(r) \in Nat
    BY DueTyped, TotalTyped DEF Owed
  <2> QED
    BY <2>1, PaidTyped, LimitsAssumption DEF Deliveries
<1> HIDE DEF most
<1>3. Deliveries * Paid(r) <= Deliveries * most /\ Deliveries * Paid(r) \in Int
        /\ Deliveries * most \in Int
  BY <1>1, <1>2, Monotone
<1>4. job[r].runs + Owed(r) <= Deliveries * Paid(r)
  BY DEF WorkPaid
<1>5. job[r].runs <= Deliveries * most
  BY <1>2, <1>3, <1>4
<1> QED
  BY <1>5 DEF Deliveries, most

\* Whatever is clicked, lost, killed or thrown, a run executes at most 1 + MaxStalled
\* times for each click, each error, each hand-back of the sweep and each resume after
\* a rate limit: nothing in the queue, the sweep or the retries feeds itself.
THEOREM WorkIsAskedFor ==
  ASSUME IsFiniteSet(Entries), IsFiniteSet(Requests)
  PROVE  Spec => [](\A r \in Rows :
           job[r].runs <= (1 + MaxStalled) * (MaxClicks + MaxThrows + MaxRecovery + MaxRateLimit))
<1>1. TypeOK /\ ClaimInv /\ WorkPaid => \A r \in Rows :
        job[r].runs <= (1 + MaxStalled) * (MaxClicks + MaxThrows + MaxRecovery + MaxRateLimit)
  BY RunsBounded
<1> QED
  BY <1>1, WorkPaidHolds, PTL

\* A job that kills every worker it meets: with a single click, and neither errors nor
\* rate limits, each of the 1 + MaxRecovery entries it can have is delivered at most
\* 1 + MaxStalled times.
THEOREM PoisonIsBounded ==
  ASSUME IsFiniteSet(Entries), IsFiniteSet(Requests),
         MaxClicks <= 1, MaxThrows = 0, MaxRateLimit = 0
  PROVE  Spec => []PoisonBound
<1>1. ASSUME TypeOK, ClaimInv, WorkPaid PROVE PoisonBound
  <2> SUFFICES ASSUME NEW r \in Rows
               PROVE  job[r].runs <= (1 + MaxRecovery) * (1 + MaxStalled)
    BY DEF PoisonBound
  <2> DEFINE most == MaxClicks + MaxThrows + MaxRecovery + MaxRateLimit
  <2>1. job[r].runs <= (1 + MaxStalled) * most
    BY <1>1, RunsBounded
  <2>2. /\ most \in Int /\ most <= 1 + MaxRecovery /\ 1 + MaxRecovery \in Int
        /\ 1 + MaxStalled \in Nat
    BY LimitsAssumption, BoundsAssumption
  <2>3. job[r].runs \in Nat
    BY <1>1 DEF TypeOK, JobRow
  <2> HIDE DEF most
  <2>4. /\ (1 + MaxStalled) * most <= (1 + MaxStalled) * (1 + MaxRecovery)
        /\ (1 + MaxStalled) * most \in Int /\ (1 + MaxStalled) * (1 + MaxRecovery) \in Int
    BY <2>2, Monotone
  <2>5. (1 + MaxStalled) * (1 + MaxRecovery) = (1 + MaxRecovery) * (1 + MaxStalled)
    BY LimitsAssumption
  <2> QED
    BY <2>1, <2>3, <2>4, <2>5
<1> QED
  BY <1>1, WorkPaidHolds, PTL
=============================================================================
