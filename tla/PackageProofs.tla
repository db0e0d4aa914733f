---------------------------- MODULE PackageProofs ----------------------------
(***************************************************************************)
(* PackageGeneration for every number of rows, deliveries and sections: a  *)
(* repair of the stale sections stays one. And for one generation whose    *)
(* deliveries are executed one at a time, whatever pauses, stops, errors,  *)
(* crashes, recoveries and resumes it goes through: what its checkpoint    *)
(* counts is there, and it is complete only when every section has its     *)
(* content or its recorded gap.                                            *)
(***************************************************************************)
EXTENDS PackageGeneration, FiniteSetTheorems, TLAPS

(* Typing *)

\* Row e of a step that leaves the queue's deliveries of other rows alone.
LEMMA AddedTyped ==
  ASSUME TypeOK, NEW e \in Entries, NEW j \in Jobs, NEW o \in BOOLEAN, NEW n \in 1..2
  PROVE  Added(e, j, o, n) \in [Entries -> Entry]
  BY LimitsAssumption DEF TypeOK, Added, Entry, FreeEntry

LEMMA ForgetTyped ==
  ASSUME TypeOK, NEW e \in Entries, Forget(e)
  PROVE  entry' \in [Entries -> Entry] /\ run' \in [Entries -> {NoRun} \union Running]
  BY DEF TypeOK, Forget, Entry

\* The row of a delivery.
LEMMA RowTyped ==
  ASSUME TypeOK, NEW e \in Entries, entry[e].at # "free" PROVE Row(e) \in Jobs
  BY DEF TypeOK, Row, Entry, FreeEntry

\* A delivery somewhere in processSummaryJob.
LEMMA AtTyped ==
  ASSUME TypeOK, NEW e \in Entries, NEW p, At(e, p), p # "off"
  PROVE  run[e] \in Running /\ Row(e) \in Jobs /\ entry[e].at = "running"
  BY RowTyped DEF TypeOK, At, NoRun

LEMMA UnrequestedTyped ==
  ASSUME TypeOK, NEW e \in Entries PROVE Unrequested(e) \subseteq SectionRow
  BY DEF TypeOK, Unrequested, SectionRow

LEMMA SubmitTyped ==
  ASSUME TypeOK, NEW e \in Entries, NEW j \in Jobs, NEW row \in JobRow, Submit(e, j, row)
  PROVE  /\ job' \in [Jobs -> JobRow] /\ entry' \in [Entries -> Entry]
         /\ spent' \in [clicks : 0..MaxClicks, reviews : 0..MaxReviews,
                        crashes : 0..MaxCrashes, faults : 0..MaxFaults, lost : 0..MaxLost]
<1>1. CASE /\ job' = [job EXCEPT ![j] = row] /\ UNCHANGED spent
           /\ entry' = Added(e, j, row.onlyStale, 2)
  BY <1>1, AddedTyped DEF TypeOK, JobRow
<1>2. CASE /\ Lose /\ UNCHANGED entry
           /\ \E status \in {"queued", "failed"} :
                job' = [job EXCEPT ![j] = [row EXCEPT !.status = status]]
  <2>1. PICK status \in {"queued", "failed"} :
          job' = [job EXCEPT ![j] = [row EXCEPT !.status = status]]
    BY <1>2
  <2>2. [row EXCEPT !.status = status] \in JobRow
    BY DEF JobRow
  <2>3. job' \in [Jobs -> JobRow]
    BY <2>1, <2>2 DEF TypeOK
  <2> QED BY <1>2, <2>3, BoundsAssumption DEF TypeOK, Lose
<1> QED BY <1>1, <1>2 DEF Submit

LEMMA TypeAPI == TypeOK /\ API => TypeOK'
<1> SUFFICES ASSUME TypeOK, API PROVE TypeOK'
  OBVIOUS
<1>1. ASSUME NEW j \in Jobs, NEW e \in Entries, Generate(j, e) PROVE TypeOK'
  <2> DEFINE asked == [job[j] EXCEPT !.status = "queued", !.onlyStale = Kind[j] = "stale",
                         !.commit = IF Kind[j] = "stale" THEN code.latest ELSE 0]
  <2>0. job[j] \in JobRow /\ code.latest \in 0..1
    BY DEF TypeOK
  <2>1. asked \in JobRow
    <3> DEFINE c == IF Kind[j] = "stale" THEN code.latest ELSE 0
    <3>1. c \in 0..1 /\ (Kind[j] = "stale") \in BOOLEAN
      BY <2>0
    <3> DEFINE o == Kind[j] = "stale"
    <3>2. asked = [job[j] EXCEPT !.status = "queued", !.onlyStale = o, !.commit = c]
      OBVIOUS
    <3> HIDE DEF c, o, asked
    <3>3. o \in BOOLEAN
      BY DEF o
    <3> QED BY <2>0, <3>1, <3>2, <3>3 DEF JobRow
  <2>2. Submit(e, j, asked)
    BY <1>1 DEF Generate
  <2> HIDE DEF asked
  <2> QED BY <1>1, <2>1, <2>2, SubmitTyped DEF Generate, TypeOK
<1>2. ASSUME NEW j \in Jobs, NEW e \in Entries, Resume(j, e) PROVE TypeOK'
  <2>1. job' \in [Jobs -> JobRow]
    BY <1>2 DEF Resume, TypeOK, JobRow
  <2>2. entry' = Added(e, j, FALSE, 2)
    BY <1>2 DEF Resume
  <2>3. Added(e, j, FALSE, 2) \in [Entries -> Entry]
    <3>1. 2 \in 1..2
      OBVIOUS
    <3> QED BY <3>1, AddedTyped
  <2>4. Click /\ UNCHANGED <<run, package, rows, snapshot, gaps, code>>
    BY <1>2 DEF Resume
  <2>5. spent' \in [clicks : 0..MaxClicks, reviews : 0..MaxReviews,
                    crashes : 0..MaxCrashes, faults : 0..MaxFaults, lost : 0..MaxLost]
    BY <2>4, BoundsAssumption DEF Click, TypeOK
  <2> QED BY <2>1, <2>2, <2>3, <2>4, <2>5 DEF TypeOK
<1>3. ASSUME NEW j \in Jobs, NEW r \in rows, NEW e \in Entries, Request(j, r, e) PROVE TypeOK'
  <2> DEFINE asked == [job[j] EXCEPT !.status = "queued", !.about = r.sec,
                         !.commit = IF r.review = "stale" THEN code.latest ELSE r.commit]
  <2>0. job[j] \in JobRow /\ code.latest \in 0..1 /\ r.commit \in 0..1 /\ r.sec \in Sections
    BY DEF TypeOK, SectionRow
  <2>1. asked \in JobRow
    <3> DEFINE c == IF r.review = "stale" THEN code.latest ELSE r.commit
    <3>1. c \in 0..1
      BY <2>0
    <3> HIDE DEF c
    <3> QED BY <2>0, <3>1 DEF JobRow
  <2>2. Submit(e, j, asked)
    BY <1>3 DEF Request
  <2>3. rows' \subseteq SectionRow
    BY <1>3 DEF Request, TypeOK, SectionRow
  <2> HIDE DEF asked
  <2> QED BY <1>3, <2>1, <2>2, <2>3, SubmitTyped DEF Request, TypeOK
<1>4. ASSUME NEW j \in Jobs, Pause(j) \/ Stop(j) PROVE TypeOK'
  <2>1. job' \in [Jobs -> JobRow]
    BY <1>4 DEF Pause, Stop, TypeOK, JobRow
  <2> QED BY <1>4, <2>1, BoundsAssumption DEF Pause, Stop, Click, TypeOK
<1>5. ASSUME NEW r \in rows, NEW v \in {"approved", "draft"}, Review(r, v) PROVE TypeOK'
  <2>1. rows' \subseteq SectionRow
    BY <1>5 DEF Review, TypeOK, SectionRow
  <2> QED BY <1>5, <2>1, BoundsAssumption DEF Review, Grade, TypeOK
<1> QED BY <1>1, <1>2, <1>3, <1>4, <1>5 DEF API

LEMMA TypeAnalyses == TypeOK /\ Analyses => TypeOK'
<1> SUFFICES ASSUME TypeOK, Analyses PROVE TypeOK'
  OBVIOUS
<1>1. ASSUME NEW c \in SUBSET Sections \ {{}}, NewCommit(c) PROVE TypeOK'
  BY <1>1 DEF NewCommit, TypeOK
<1>2. CASE MarkSections
  <2>1. rows' \subseteq SectionRow
    BY <1>2 DEF MarkSections, TypeOK, SectionRow
  <2>2. code' \in [latest : 0..1, changed : SUBSET Sections,
                   mark : {"no", "sections", "package", "done"}]
    BY <1>2 DEF MarkSections, TypeOK
  <2> QED BY <1>2, <2>1, <2>2 DEF MarkSections, TypeOK
<1>3. CASE MarkPackage
  BY <1>3 DEF MarkPackage, TypeOK
<1>4. CASE AnalysisFails
  BY <1>4, BoundsAssumption DEF AnalysisFails, Fault, TypeOK
<1> QED BY <1>1, <1>2, <1>3, <1>4 DEF Analyses

LEMMA TypeSection ==
  ASSUME TypeOK, NEW e \in Entries, NEW s \in Sections, Section(e, s) \/ Miss(e, s)
  PROVE  TypeOK'
<1>1. run[e] \in Running /\ Row(e) \in Jobs
  BY AtTyped DEF Section, Miss, Answer, Control, Delete, Insert, Tell, Save, Lane
<1>2. CASE Answer(e, s)
  BY <1>1, <1>2 DEF Answer, Move, TypeOK, Running
<1>a. ASSUME NEW err \in {"rate", "budget", "kill", "hard"}, Abort(e, s, err)
      PROVE  run' \in [Entries -> {NoRun} \union Running]
  <2>1. Thrown(e, err) \in {None, "rate", "budget", "kill", "hard"}
    BY <1>1 DEF Thrown, Running
  <2>2. [run[e] EXCEPT !.lane[s] = "over", !.err = Thrown(e, err)] \in Running
    BY <1>1, <2>1 DEF Running
  <2>3. run' = [run EXCEPT ![e] = [run[e] EXCEPT !.lane[s] = "over", !.err = Thrown(e, err)]]
    BY <1>a DEF Abort, TypeOK
  <2> QED BY <2>2, <2>3 DEF TypeOK
<1>3. CASE Control(e, s)
  <2>1. run' \in [Entries -> {NoRun} \union Running]
    BY <1>3, <1>a DEF Control
  <2> QED BY <1>3, <2>1, BoundsAssumption DEF Control, Fault, TypeOK
<1>4. CASE Delete(e, s)
  BY <1>1, <1>4 DEF Delete, Move, TypeOK, Running
<1>5. CASE Insert(e, s)
  <2> DEFINE new == [sec |-> s, by |-> e, good |-> s \notin run[e].missing,
                     commit |-> job[Row(e)].commit, review |-> "draft"]
  <2>1. job[Row(e)].commit \in 0..1
    BY <1>1 DEF TypeOK, JobRow
  <2>2. new \in SectionRow
    BY <2>1 DEF SectionRow
  <2>3. rows' = rows \union {new}
    BY <1>5 DEF Insert
  <2>4. run' \in [Entries -> {NoRun} \union Running]
    BY <1>1, <1>5 DEF Insert, Move, TypeOK, Running
  <2> HIDE DEF new
  <2> QED BY <1>5, <2>2, <2>3, <2>4 DEF Insert, TypeOK
<1>6. CASE Tell(e, s)
  <2> DEFINE c == Counted(e, s)
  <2>1. c \in SUBSET Sections
    BY <1>1 DEF Counted, Running
  <2>2. job' \in [Jobs -> JobRow]
    BY <1>1, <1>6 DEF Tell, Progress, TypeOK, JobRow
  <2>3. run' \in [Entries -> {NoRun} \union Running]
    <3> DEFINE to == IF Flow(e) = "full" /\ s \notin run[e].missing THEN "saving" ELSE "over"
               t  == Thrown(e, "kill")
    <3>1. to \in {"saving", "over"} /\ t \in {None, "rate", "budget", "kill", "hard"}
      BY <1>1 DEF Thrown, Running
    <3>2. \/ run' = [run EXCEPT ![e].lane[s] = "over"]
          \/ run' = [run EXCEPT ![e].have = c, ![e].cursor[s] = c, ![e].lane[s] = to]
          \/ run' = [run EXCEPT ![e].have = c, ![e].lane[s] = "over", ![e].err = t]
      BY <1>6 DEF Tell, Move
    <3> HIDE DEF c, to, t
    <3>3. [run[e] EXCEPT !.lane[s] = "over"] \in Running
      BY <1>1 DEF Running
    <3>4. [run[e] EXCEPT !.have = c, !.cursor[s] = c, !.lane[s] = to] \in Running
      BY <1>1, <2>1, <3>1 DEF Running
    <3>5. [run[e] EXCEPT !.have = c, !.lane[s] = "over", !.err = t] \in Running
      BY <1>1, <2>1, <3>1 DEF Running
    <3>6. \E new \in Running : run' = [run EXCEPT ![e] = new]
      <4>1. CASE run' = [run EXCEPT ![e].lane[s] = "over"]
        BY <3>3, <4>1 DEF TypeOK
      <4>2. CASE run' = [run EXCEPT ![e].have = c, ![e].cursor[s] = c, ![e].lane[s] = to]
        <5>1. run' = [run EXCEPT ![e] = [run[e] EXCEPT !.have = c, !.cursor[s] = c, !.lane[s] = to]]
          <6>1. run \in [Entries -> {NoRun} \union Running] /\ e \in Entries
            BY DEF TypeOK
          <6> QED BY <1>1, <4>2, <6>1 DEF Running
        <5> QED BY <3>4, <5>1
      <4>3. CASE run' = [run EXCEPT ![e].have = c, ![e].lane[s] = "over", ![e].err = t]
        <5>1. run' = [run EXCEPT ![e] = [run[e] EXCEPT !.have = c, !.lane[s] = "over", !.err = t]]
          <6>1. run \in [Entries -> {NoRun} \union Running] /\ e \in Entries
            BY DEF TypeOK
          <6> QED BY <1>1, <4>3, <6>1 DEF Running
        <5> QED BY <3>5, <5>1
      <4> QED BY <3>2, <4>1, <4>2, <4>3
    <3> QED BY <3>6 DEF TypeOK
  <2> QED BY <1>6, <2>2, <2>3 DEF Tell, TypeOK
<1>7. CASE Save(e, s)
  <2>1. job' \in [Jobs -> JobRow]
    <3>1. run[e].cursor[s] \in SUBSET Sections
      BY <1>1 DEF Running
    <3> QED BY <1>1, <1>7, <3>1 DEF Save, TypeOK, JobRow
  <2>2. run' \in [Entries -> {NoRun} \union Running]
    BY <1>1, <1>7 DEF Save, Move, TypeOK, Running
  <2> QED BY <1>7, <2>1, <2>2 DEF Save, TypeOK
<1>8. CASE Miss(e, s)
  <2>1. run' \in [Entries -> {NoRun} \union Running]
    <3>1. [run[e] EXCEPT !.lane[s] = "ready", !.missing = @ \union {s}] \in Running
      BY <1>1 DEF Running
    <3> QED BY <1>8, <1>a, <3>1 DEF Miss, TypeOK
  <2> QED BY <1>8, <2>1, BoundsAssumption DEF Miss, Fault, TypeOK
<1> QED BY <1>2, <1>3, <1>4, <1>5, <1>6, <1>7, <1>8 DEF Section

LEMMA TypeRun ==
  ASSUME TypeOK, NEW e \in Entries,
         \/ Begin(e) \/ Refuse(e) \/ Open(e) \/ Join(e) \/ Settle(e) \/ Ship(e)
         \/ Validate(e) \/ Finish(e) \/ Return(e) \/ Break(e)
  PROVE  TypeOK'
<1>1. CASE Begin(e)
  <2>1. entry[e] \in Entry \ {FreeEntry} /\ Row(e) \in Jobs
    BY <1>1, RowTyped DEF Begin, TypeOK, FreeEntry
  <2>2. entry' \in [Entries -> Entry]
    BY <1>1, <2>1 DEF Begin, TypeOK, Entry
  <2>3. job' \in [Jobs -> JobRow]
    BY <1>1, <2>1 DEF Begin, Progress, TypeOK, JobRow
  <2>4. run' \in [Entries -> {NoRun} \union Running]
    <3> DEFINE flow == IF Repairs(e) THEN "stale"
                       ELSE IF Kind[Row(e)] = "section" THEN "section" ELSE "full"
    <3>1. flow \in {"full", "stale", "section"} /\ job[Row(e)].done \in SUBSET Sections
      BY <2>1 DEF TypeOK, JobRow
    <3>2. run' = [run EXCEPT ![e] = [NoRun EXCEPT !.pc = "open", !.have = job[Row(e)].done,
                                                  !.flow = flow]]
      BY <1>1 DEF Begin
    <3> HIDE DEF flow
    <3>3. [NoRun EXCEPT !.pc = "open", !.have = job[Row(e)].done, !.flow = flow] \in Running
      BY <3>1 DEF NoRun, Running
    <3> QED BY <3>2, <3>3 DEF TypeOK
  <2> QED BY <1>1, <2>2, <2>3, <2>4 DEF Begin, TypeOK
<1>2. CASE Refuse(e)
  BY <1>2, ForgetTyped, UnrequestedTyped DEF Refuse, TypeOK
<1>3. CASE Open(e)
  <2>1. run[e] \in Running /\ Row(e) \in Jobs
    BY <1>3, AtTyped DEF Open
  <2>2. job' \in [Jobs -> JobRow]
    BY <1>3, <2>1 DEF Open, Progress, TypeOK, JobRow
  <2>3. run' \in [Entries -> {NoRun} \union Running]
    <3> DEFINE l == [s \in Sections |-> IF s \in Wanted(e) THEN "asking" ELSE "over"]
    <3>1. l \in [Sections -> {"asking", "ready", "bare", "told", "saving", "over"}]
      OBVIOUS
    <3>2. \/ run' = [run EXCEPT ![e].pc = "caught", ![e].err = "kill", ![e].held = TRUE]
          \/ run' = [run EXCEPT ![e].pc = "sections", ![e].held = TRUE, ![e].lane = l]
      BY <1>3 DEF Open
    <3> HIDE DEF l
    <3>3. [run[e] EXCEPT !.pc = "caught", !.err = "kill", !.held = TRUE] \in Running
      BY <2>1 DEF Running
    <3>4. [run[e] EXCEPT !.pc = "sections", !.held = TRUE, !.lane = l] \in Running
      BY <2>1, <3>1 DEF Running
    <3>5. \/ run' = [run EXCEPT ![e] = [run[e] EXCEPT !.pc = "caught", !.err = "kill", !.held = TRUE]]
          \/ run' = [run EXCEPT ![e] = [run[e] EXCEPT !.pc = "sections", !.held = TRUE, !.lane = l]]
      <4>1. run \in [Entries -> {NoRun} \union Running] /\ e \in Entries
        BY DEF TypeOK
      <4> QED BY <2>1, <3>2, <4>1 DEF Running
    <3> QED BY <3>3, <3>4, <3>5 DEF TypeOK
  <2> QED BY <1>3, <2>2, <2>3 DEF Open, TypeOK
<1>4. CASE Join(e)
  <2>1. run[e] \in Running
    BY <1>4, AtTyped DEF Join
  <2> QED BY <1>4, <2>1 DEF Join, Go, TypeOK, Running
<1>5. CASE Settle(e)
  <2>1. run[e] \in Running
    BY <1>5, AtTyped DEF Settle
  <2> QED BY <1>5, <2>1 DEF Settle, Go, TypeOK, Running
<1>6. CASE Ship(e)
  <2>1. run[e] \in Running
    BY <1>6, AtTyped DEF Ship
  <2>2. run' \in [Entries -> {NoRun} \union Running]
    BY <1>6, <2>1 DEF Ship, Go, TypeOK, Running
  <2>3. gaps' \subseteq {"sections_failed", "budget_degraded"}
    BY <1>6 DEF Ship, Recorded, TypeOK
  <2> QED BY <1>6, <2>2, <2>3 DEF Ship, TypeOK
<1>7. CASE Validate(e)
  <2>1. run[e] \in Running /\ Row(e) \in Jobs
    BY <1>7, AtTyped DEF Validate
  <2>2. job' \in [Jobs -> JobRow]
    BY <1>7, <2>1 DEF Validate, Progress, TypeOK, JobRow
  <2>3. run' \in [Entries -> {NoRun} \union Running]
    BY <1>7, <2>1 DEF Validate, Go, TypeOK, Running
  <2> QED BY <1>7, <2>2, <2>3 DEF Validate, TypeOK
<1>8. CASE Finish(e)
  <2>1. run[e] \in Running /\ Row(e) \in Jobs
    BY <1>8, AtTyped DEF Finish
  <2>2. job' \in [Jobs -> JobRow]
    BY <1>8, <2>1 DEF Finish, TypeOK, JobRow
  <2>3. run' \in [Entries -> {NoRun} \union Running]
    BY <1>8, <2>1 DEF Finish, Go, TypeOK, Running
  <2> QED BY <1>8, <2>2, <2>3 DEF Finish, TypeOK
<1>9. CASE Return(e)
  BY <1>9, ForgetTyped DEF Return, TypeOK
<1>10. CASE Break(e)
  <2>1. run[e] \in Running
    BY <1>10, AtTyped DEF Break
  <2>2. run' \in [Entries -> {NoRun} \union Running]
    BY <1>10, <2>1, ZenonT(40) DEF Break, TypeOK, Running
  <2> QED BY <1>10, <2>2, BoundsAssumption DEF Break, Fault, TypeOK
<1> QED BY <1>1, <1>2, <1>3, <1>4, <1>5, <1>6, <1>7, <1>8, <1>9, <1>10

LEMMA TypeCatch == ASSUME TypeOK, NEW e \in Entries, Catch(e) PROVE TypeOK'
<1>1. run[e] \in Running /\ Row(e) \in Jobs /\ entry[e].at = "running"
  BY AtTyped DEF Catch, CatchKill, CatchRate, Park, Parked, Retry, Fail, FailPackage, Fails
<1>2. entry[e] \in [at : {"waiting", "running", "dead"}, job : Jobs, onlyStale : BOOLEAN,
                    left : 1..2, stalls : 0..MaxStalled]
  BY <1>1 DEF TypeOK, Entry, FreeEntry
<1>3. Settled(e) \in {"absent", "generating", "draft", "stale", "failed", "approved"}
  BY DEF Settled, TypeOK
<1>4. Condemned(e) \in {"complete", "paused", "failed"}
  BY DEF Condemned, TypeOK
<1>5. [run EXCEPT ![e] = NoRun] \in [Entries -> {NoRun} \union Running]
  BY DEF TypeOK
<1>6. \A p \in {"parked", "lost"} : Go(e, p) => run' \in [Entries -> {NoRun} \union Running]
  BY <1>1 DEF Go, TypeOK, Running
<1>7. \A st \in {"queued", "paused", "failed"} :
        [job EXCEPT ![Row(e)].status = st] \in [Jobs -> JobRow]
  BY <1>1 DEF TypeOK, JobRow
<1>8. CASE CatchKill(e)
  BY <1>8, <1>3, ForgetTyped, UnrequestedTyped DEF CatchKill, TypeOK
<1>9. CASE CatchRate(e)
  <2>1. job' \in [Jobs -> JobRow]
    <3>1. job[Row(e)] \in JobRow /\ job[Row(e)].rate + 1 \in 0..MaxRateLimit
      BY <1>1, <1>9, LimitsAssumption DEF CatchRate, Claimable, TypeOK, JobRow
    <3> DEFINE new == [job[Row(e)] EXCEPT !.status = "queued", !.rate = @ + 1]
    <3>2. new \in JobRow
      BY <3>1 DEF JobRow
    <3>3. job' = [job EXCEPT ![Row(e)] = new]
      <4>1. job \in [Jobs -> JobRow]
        BY DEF TypeOK
      <4> QED BY <1>1, <1>9, <4>1 DEF CatchRate, JobRow
    <3> QED BY <1>1, <3>2, <3>3 DEF TypeOK
  <2>2. entry' \in [Entries -> Entry]
    <3>1. 1 \in 1..2 /\ entry[e].onlyStale \in BOOLEAN
      BY <1>2
    <3> QED BY <1>1, <1>9, <3>1, AddedTyped DEF CatchRate
  <2> QED BY <1>9, <1>5, <2>1, <2>2, UnrequestedTyped DEF CatchRate, TypeOK
<1>10. CASE Park(e)
  BY <1>10, <1>3, <1>6, UnrequestedTyped DEF Park, TypeOK
<1>11. CASE Parked(e)
  BY <1>11, <1>7, ForgetTyped DEF Parked, TypeOK
<1>12. CASE Retry(e)
  <2>1. job' \in [Jobs -> JobRow]
    BY <1>1, <1>12 DEF Retry, TypeOK, JobRow
  <2>2. entry' \in [Entries -> Entry]
    BY <1>2, <1>12 DEF Retry, TypeOK, Entry
  <2> QED BY <1>12, <1>4, <1>5, <2>1, <2>2, UnrequestedTyped DEF Retry, TypeOK
<1>13. CASE Fail(e)
  BY <1>13, <1>4, <1>6, <1>7, UnrequestedTyped DEF Fail, TypeOK
<1>14. CASE FailPackage(e)
  BY <1>14, ForgetTyped DEF FailPackage, TypeOK
<1> QED BY <1>8, <1>9, <1>10, <1>11, <1>12, <1>13, <1>14 DEF Catch

LEMMA TypeQueue ==
  ASSUME TypeOK, NEW e \in Entries, Crash(e) \/ Redeliver(e) PROVE TypeOK'
<1>1. entry[e] \in [at : {"waiting", "running", "dead"}, job : Jobs, onlyStale : BOOLEAN,
                    left : 1..2, stalls : 0..MaxStalled]
  BY DEF Crash, Redeliver, TypeOK, Entry, FreeEntry
<1>2. CASE Crash(e)
  BY <1>1, <1>2, BoundsAssumption DEF Crash, Perish, TypeOK, Entry
<1>3. CASE Redeliver(e)
  <2>1. entry' \in [Entries -> Entry]
    <3>1. CASE entry[e].stalls < MaxStalled
      <4>1. entry[e].stalls + 1 \in 0..MaxStalled
        BY <1>1, <3>1, LimitsAssumption
      <4> QED BY <1>1, <1>3, <3>1, <4>1 DEF Redeliver, TypeOK, Entry
    <3>2. CASE ~(entry[e].stalls < MaxStalled)
      BY <1>3, <3>2 DEF Redeliver, TypeOK, Entry
    <3> QED BY <3>1, <3>2
  <2> QED BY <1>3, <2>1 DEF Redeliver, TypeOK
<1> QED BY <1>2, <1>3

LEMMA TypeSweep == TypeOK /\ Sweep => TypeOK'
<1> SUFFICES ASSUME TypeOK, Sweep PROVE TypeOK'
  OBVIOUS
<1>1. ASSUME NEW j \in Jobs, Strand(j) PROVE TypeOK'
  BY <1>1 DEF Strand, TypeOK, JobRow
<1>2. ASSUME NEW j \in Jobs, NEW e \in Entries, Reclaim(j, e) PROVE TypeOK'
  <2> DEFINE again == Kind[j] # "section" /\ job[j].recov < MaxRecovery
             r     == IF job[j].recov > MaxRecovery THEN job[j].recov ELSE job[j].recov + 1
             st    == IF again THEN "queued" ELSE "failed"
  <2>1. r \in 0..(MaxRecovery + 1) /\ st \in {"queued", "failed"} /\ job[j] \in JobRow
    BY LimitsAssumption DEF TypeOK, JobRow
  <2>2. job' = [job EXCEPT ![j].status = st, ![j].recov = r]
    BY <1>2 DEF Reclaim, TypeOK
  <2>3. entry' = Added(e, j, FALSE, 1) \/ UNCHANGED entry
    BY <1>2 DEF Reclaim
  <2> HIDE DEF again, r, st
  <2>4. job' \in [Jobs -> JobRow]
    BY <2>1, <2>2 DEF TypeOK, JobRow
  <2>5. entry' \in [Entries -> Entry]
    <3>1. 1 \in 1..2
      OBVIOUS
    <3>2. Added(e, j, FALSE, 1) \in [Entries -> Entry]
      BY <3>1, AddedTyped
    <3> QED BY <2>3, <3>2 DEF TypeOK
  <2> QED BY <1>2, <2>4, <2>5 DEF Reclaim, TypeOK
<1> QED BY <1>1, <1>2 DEF Sweep

LEMMA TypeStep == TypeOK /\ [Next]_vars => TypeOK'
<1> SUFFICES ASSUME TypeOK, [Next]_vars PROVE TypeOK'
  OBVIOUS
<1>1. CASE UNCHANGED vars
  BY <1>1 DEF vars, TypeOK
<1>2. CASE Chance
  BY <1>2, TypeQueue, TypeRun, TypeSection DEF Chance
<1>3. ASSUME NEW e \in Entries, Execute(e) \/ Redeliver(e) PROVE TypeOK'
  BY <1>3, TypeQueue, TypeRun, TypeSection, TypeCatch DEF Execute
<1> QED BY <1>1, <1>2, <1>3, TypeAPI, TypeAnalyses, TypeSweep DEF Next

LEMMA TypeInit == Init => TypeOK
<1> SUFFICES ASSUME Init PROVE TypeOK
  OBVIOUS
<1>1. job \in [Jobs -> JobRow] /\ entry \in [Entries -> Entry]
  BY LimitsAssumption DEF Init, JobRow, Entry
<1>2. run \in [Entries -> {NoRun} \union Running]
  BY DEF Init
<1>3. rows \subseteq SectionRow
  <2>1. [sec : Sections, by : {None}, good : {TRUE}, commit : {0}, review : {"draft"}]
          \subseteq SectionRow
    <3> SUFFICES ASSUME NEW r \in [sec : Sections, by : {None}, good : {TRUE}, commit : {0},
                                   review : {"draft"}]
                 PROVE  r \in SectionRow
      OBVIOUS
    <3>1. /\ r = [sec |-> r.sec, by |-> r.by, good |-> r.good, commit |-> r.commit,
                  review |-> r.review]
          /\ r.sec \in Sections /\ r.by = None /\ r.good = TRUE /\ r.commit = 0
          /\ r.review = "draft"
      OBVIOUS
    <3>2. r.by \in Entries \union {None} /\ r.commit \in 0..1
      BY <3>1
    <3>3. r.good \in BOOLEAN
      BY <3>1, Zenon
    <3>4. r.review \in {"draft", "approved", "stale", "regenerate_requested"}
      BY <3>1
    <3> QED BY <3>1, <3>2, <3>3, <3>4 DEF SectionRow
  <2> QED BY <2>1 DEF Init
<1>4. spent \in [clicks : 0..MaxClicks, reviews : 0..MaxReviews,
                crashes : 0..MaxCrashes, faults : 0..MaxFaults, lost : 0..MaxLost]
  BY BoundsAssumption DEF Init
<1>5. code \in [latest : 0..1, changed : SUBSET Sections,
               mark : {"no", "sections", "package", "done"}]
  BY DEF Init
<1>6. /\ package \in {"absent", "generating", "draft", "stale", "failed", "approved"}
      /\ snapshot \in {"complete", "paused", "failed"}
      /\ gaps \subseteq {"sections_failed", "budget_degraded"}
  BY DEF Init
<1> QED BY <1>1, <1>2, <1>3, <1>4, <1>5, <1>6 DEF TypeOK

\* Every variable keeps its type.
THEOREM TypeCorrect == Spec => []TypeOK
  BY TypeInit, TypeStep, PTL DEF Spec

-----------------------------------------------------------------------------
(* A repair stays a repair *)

\* The flag is on the row of every repair that was asked for, and neither on a row
\* nor in a payload of a full generation; deliveries belong to rows that were asked for.
Scoped ==
  /\ \A j \in Jobs : Kind[j] = "full" => ~job[j].onlyStale
  /\ \A j \in Jobs : Kind[j] = "stale" /\ job[j].status # "absent" => job[j].onlyStale
  /\ \A e \in Entries : entry[e].at # "free" =>
       /\ job[Row(e)].status # "absent"
       /\ Kind[Row(e)] = "full" => ~entry[e].onlyStale

\* Rows keep their flag and are not taken back; deliveries are those that were there,
\* or carry no flag and belong to a row that is there; runs keep their scope.
Faithful ==
  /\ \A j \in Jobs : /\ job'[j].onlyStale = job[j].onlyStale
                     /\ job'[j].status = "absent" <=> job[j].status = "absent"
  /\ \A e \in Entries : entry'[e].at # "free" =>
       \/ /\ entry[e].at # "free"
          /\ entry'[e].job = entry[e].job /\ entry'[e].onlyStale = entry[e].onlyStale
       \/ /\ entry'[e].job \in Jobs /\ job[entry'[e].job].status # "absent"
          /\ ~entry'[e].onlyStale
  /\ \A e \in Entries : entry'[e].at = "running" =>
       /\ entry[e].at = "running" /\ entry'[e].job = entry[e].job
       /\ run'[e].flow = run[e].flow

LEMMA FaithfulKeepsScope ==
  TypeOK /\ Scoped /\ ScopeKept /\ Faithful => Scoped' /\ ScopeKept'
<1> SUFFICES ASSUME TypeOK, Scoped, ScopeKept, Faithful PROVE Scoped' /\ ScopeKept'
  OBVIOUS
<1>1. ASSUME NEW j \in Jobs
      PROVE  /\ Kind[j] = "full" => ~job'[j].onlyStale
             /\ Kind[j] = "stale" /\ job'[j].status # "absent" => job'[j].onlyStale
  BY DEF Scoped, Faithful
<1>2. ASSUME NEW e \in Entries, entry'[e].at # "free"
      PROVE  /\ job'[entry'[e].job].status # "absent"
             /\ Kind[entry'[e].job] = "full" => ~entry'[e].onlyStale
  <2>1. CASE /\ entry[e].at # "free"
             /\ entry'[e].job = entry[e].job /\ entry'[e].onlyStale = entry[e].onlyStale
    <3>1. Row(e) \in Jobs
      BY <2>1, RowTyped
    <3> QED BY <2>1, <3>1 DEF Scoped, Faithful, Row
  <2>2. CASE /\ entry'[e].job \in Jobs /\ job[entry'[e].job].status # "absent"
             /\ ~entry'[e].onlyStale
    BY <2>2 DEF Faithful
  <2> QED BY <1>2, <2>1, <2>2 DEF Faithful
<1>3. ScopeKept'
  BY DEF ScopeKept, Faithful, Flow
<1> QED BY <1>1, <1>2, <1>3 DEF Scoped, Row

\* A new row takes its flag from what was asked for.
LEMMA SubmitKeepsScope ==
  ASSUME TypeOK, Scoped, ScopeKept, NEW e \in Entries, NEW j \in Jobs, NEW row \in JobRow,
         Submit(e, j, row), IsFree(e), row.status = "queued", UNCHANGED run,
         Kind[j] = "full" => ~row.onlyStale, Kind[j] = "stale" => row.onlyStale
  PROVE  Scoped' /\ ScopeKept'
<1>1. /\ \A k \in Jobs \ {j} : job'[k] = job[k]
      /\ job'[j].onlyStale = row.onlyStale /\ job'[j].status # "absent"
  <2>1. CASE job' = [job EXCEPT ![j] = row]
    BY <2>1 DEF TypeOK
  <2>2. CASE \E st \in {"queued", "failed"} : job' = [job EXCEPT ![j] = [row EXCEPT !.status = st]]
    BY <2>2 DEF TypeOK, JobRow
  <2> QED BY <2>1, <2>2 DEF Submit
<1>2. \A f \in Entries : entry'[f].at # "free" =>
        \/ entry'[f] = entry[f]
        \/ f = e /\ entry'[f].at = "waiting" /\ entry'[f].job = j
             /\ entry'[f].onlyStale = row.onlyStale
  BY DEF Submit, Added, TypeOK
<1>3. ASSUME NEW k \in Jobs
      PROVE  /\ Kind[k] = "full" => ~job'[k].onlyStale
             /\ Kind[k] = "stale" /\ job'[k].status # "absent" => job'[k].onlyStale
  BY <1>1 DEF Scoped
<1>4. ASSUME NEW f \in Entries, entry'[f].at # "free"
      PROVE  /\ job'[entry'[f].job].status # "absent"
             /\ Kind[entry'[f].job] = "full" => ~entry'[f].onlyStale
  <2>1. CASE entry'[f] = entry[f]
    <3>1. Row(f) \in Jobs
      BY <1>4, <2>1, RowTyped
    <3> QED BY <1>1, <1>4, <2>1, <3>1 DEF Scoped, Row
  <2> QED BY <1>1, <1>2, <1>4, <2>1
<1>5. ScopeKept'
  BY <1>2 DEF ScopeKept, Flow
<1> QED BY <1>3, <1>4, <1>5 DEF Scoped, Row

LEMMA ScopeStep == TypeOK /\ Scoped /\ ScopeKept /\ [Next]_vars => Scoped' /\ ScopeKept'
<1> SUFFICES ASSUME TypeOK, Scoped, ScopeKept, [Next]_vars PROVE Scoped' /\ ScopeKept'
  OBVIOUS
<1> USE DEF IsFree
<1>1. CASE UNCHANGED vars
  BY <1>1 DEF vars, Scoped, ScopeKept, Row, Flow
<1>2. ASSUME NEW j \in Jobs, NEW e \in Entries, Generate(j, e) PROVE Scoped' /\ ScopeKept'
  <2> DEFINE c == IF Kind[j] = "stale" THEN code.latest ELSE 0
             o == Kind[j] = "stale"
             asked == [job[j] EXCEPT !.status = "queued", !.onlyStale = o, !.commit = c]
  <2>1. c \in 0..1 /\ job[j] \in JobRow
    BY DEF TypeOK
  <2>2. o \in BOOLEAN
    OBVIOUS
  <2>3. Submit(e, j, asked) /\ IsFree(e) /\ UNCHANGED run
    BY <1>2 DEF Generate
  <2>4. (Kind[j] = "full" => ~o) /\ (Kind[j] = "stale" => o)
    OBVIOUS
  <2> HIDE DEF c, o
  <2>5. /\ asked \in JobRow /\ asked.status = "queued"
        /\ (Kind[j] = "full" => ~asked.onlyStale) /\ (Kind[j] = "stale" => asked.onlyStale)
    BY <2>1, <2>2, <2>4 DEF JobRow
  <2> HIDE DEF asked
  <2> QED BY <2>3, <2>5, SubmitKeepsScope
<1>3. ASSUME NEW j \in Jobs, NEW r \in rows, NEW e \in Entries, Request(j, r, e)
      PROVE  Scoped' /\ ScopeKept'
  <2> DEFINE c == IF r.review = "stale" THEN code.latest ELSE r.commit
             asked == [job[j] EXCEPT !.status = "queued", !.about = r.sec, !.commit = c]
  <2>1. c \in 0..1 /\ job[j] \in JobRow /\ r.sec \in Sections
    BY DEF TypeOK, SectionRow
  <2>2. Submit(e, j, asked) /\ IsFree(e) /\ UNCHANGED run /\ Kind[j] = "section"
    BY <1>3 DEF Request
  <2> HIDE DEF c
  <2>3. asked \in JobRow /\ asked.status = "queued"
    BY <2>1 DEF JobRow
  <2> HIDE DEF asked
  <2> QED BY <2>2, <2>3, SubmitKeepsScope
<1>4. ASSUME NEW j \in Jobs, NEW e \in Entries, Resume(j, e) PROVE Faithful
  BY <1>4, ZenonT(40) DEF Resume, Halted, Added, Faithful, TypeOK, JobRow
<1>5. ASSUME NEW j \in Jobs, Pause(j) \/ Stop(j) PROVE Faithful
  BY <1>5 DEF Pause, Stop, Active, Faithful, TypeOK, JobRow
<1>6. ASSUME NEW r \in rows, NEW v \in {"approved", "draft"}, Review(r, v) PROVE Faithful
  BY <1>6 DEF Review, Faithful, TypeOK, Entry, FreeEntry
<1>7. CASE Analyses
  <2>1. UNCHANGED <<job, entry, run>>
    BY <1>7 DEF Analyses, NewCommit, MarkSections, MarkPackage, AnalysisFails
  <2> QED BY <2>1, FaithfulKeepsScope DEF Faithful
<1>8. ASSUME NEW e \in Entries, NEW s \in Sections, Section(e, s) \/ Miss(e, s) PROVE Faithful
  <2>1. run[e] \in Running /\ Row(e) \in Jobs /\ entry[e].at = "running"
    BY <1>8, AtTyped DEF Section, Miss, Answer, Control, Delete, Insert, Tell, Save, Lane
  <2>2. \A f \in Entries : run'[f].flow = run[f].flow
    BY <1>8, <2>1 DEF Section, Miss, Answer, Control, Delete, Insert, Tell, Save, Move, Abort,
                      TypeOK, Running
  <2>3. UNCHANGED entry
    BY <1>8 DEF Section, Miss, Answer, Control, Delete, Insert, Tell, Save
  <2>4. \A j \in Jobs : /\ job'[j].onlyStale = job[j].onlyStale
                        /\ job'[j].status = "absent" <=> job[j].status = "absent"
    <3>1. \/ UNCHANGED job \/ Progress(e)
          \/ job' = [job EXCEPT ![Row(e)].done = run[e].cursor[s]]
      BY <1>8 DEF Section, Miss, Answer, Control, Delete, Insert, Tell, Save
    <3>2. job[Row(e)].status # "absent"
      BY <2>1 DEF Scoped
    <3> QED BY <2>1, <3>1, <3>2 DEF Progress, TypeOK, JobRow
  <2> QED BY <2>2, <2>3, <2>4 DEF Faithful
<1>9. ASSUME NEW e \in Entries, Begin(e) PROVE Scoped' /\ ScopeKept'
  <2>1. Row(e) \in Jobs /\ job[Row(e)].status # "absent"
    BY <1>9, RowTyped DEF Begin, Scoped
  <2>2. \A f \in Entries : /\ entry'[f].job = entry[f].job
                           /\ entry'[f].onlyStale = entry[f].onlyStale
                           /\ f # e => entry'[f] = entry[f] /\ run'[f] = run[f]
                           /\ entry'[f].at # "free" => entry[f].at # "free"
    BY <1>9 DEF Begin, TypeOK, Entry, FreeEntry
  <2>3. \A j \in Jobs : /\ job'[j].onlyStale = job[j].onlyStale
                        /\ job'[j].status = "absent" <=> job[j].status = "absent"
    BY <1>9, <2>1 DEF Begin, Progress, TypeOK, JobRow
  <2>4. Kind[Row(e)] = "stale" => run'[e].flow = "stale"
    <3>1. run'[e].flow = IF Repairs(e) THEN "stale"
                         ELSE IF Kind[Row(e)] = "section" THEN "section" ELSE "full"
      BY <1>9 DEF Begin, TypeOK, NoRun
    <3> QED BY <2>1, <3>1 DEF Repairs, Scoped
  <2>5. Scoped'
    BY <2>2, <2>3, RowTyped DEF Scoped, Row
  <2> QED BY <2>2, <2>4, <2>5 DEF ScopeKept, Flow, Row
<1>10. ASSUME NEW e \in Entries,
              \/ Open(e) \/ Join(e) \/ Settle(e) \/ Ship(e) \/ Validate(e) \/ Finish(e)
              \/ Break(e) \/ Park(e) \/ Fail(e)
       PROVE  Faithful
  <2>1. run[e] \in Running /\ Row(e) \in Jobs /\ entry[e].at = "running"
    BY <1>10, AtTyped DEF Open, Join, Settle, Ship, Validate, Finish, Break, Park, Fail, Fails
  <2>2. job[Row(e)].status # "absent"
    BY <2>1 DEF Scoped
  <2>3. UNCHANGED entry
    BY <1>10 DEF Open, Join, Settle, Ship, Validate, Finish, Break, Park, Fail
  <2>4. \A f \in Entries : run'[f].flow = run[f].flow
    BY <1>10, <2>1 DEF Open, Join, Settle, Ship, Validate, Finish, Break, Park, Fail, Go,
                       TypeOK, Running
  <2>5. \/ UNCHANGED job
        \/ \E st \in {"running", "complete", "failed"} : job' = [job EXCEPT ![Row(e)].status = st]
    BY <1>10 DEF Open, Join, Settle, Ship, Validate, Finish, Break, Park, Fail, Progress
  <2>6. \A j \in Jobs : /\ job'[j].onlyStale = job[j].onlyStale
                        /\ job'[j].status = "absent" <=> job[j].status = "absent"
    BY <2>1, <2>2, <2>5 DEF TypeOK, JobRow
  <2> QED BY <2>3, <2>4, <2>6 DEF Faithful
<1>11. ASSUME NEW e \in Entries,
              Refuse(e) \/ Return(e) \/ CatchKill(e) \/ Parked(e) \/ FailPackage(e)
       PROVE  Faithful
  <2>1. Forget(e) /\ Row(e) \in Jobs /\ job[Row(e)].status # "absent"
    BY <1>11, RowTyped DEF Refuse, Return, CatchKill, Parked, FailPackage, At, Scoped
  <2>2. UNCHANGED job \/ job' = [job EXCEPT ![Row(e)].status = "paused"]
    BY <1>11 DEF Refuse, Return, CatchKill, Parked, FailPackage
  <2>3. \A j \in Jobs : /\ job'[j].onlyStale = job[j].onlyStale
                        /\ job'[j].status = "absent" <=> job[j].status = "absent"
    BY <2>1, <2>2 DEF TypeOK, JobRow
  <2>4. \A f \in Entries : /\ f # e => entry'[f] = entry[f] /\ run'[f] = run[f]
                           /\ entry'[e].at = "free"
    BY <2>1 DEF Forget, FreeEntry, TypeOK
  <2> QED BY <2>3, <2>4 DEF Faithful
<1>12. ASSUME NEW e \in Entries, CatchRate(e) PROVE Faithful
  <2>1. /\ Row(e) \in Jobs /\ job[Row(e)].status # "absent" /\ entry[e].at = "running"
    BY <1>12, AtTyped DEF CatchRate, Scoped
  <2>2. \A j \in Jobs : /\ job'[j].onlyStale = job[j].onlyStale
                        /\ job'[j].status = "absent" <=> job[j].status = "absent"
    BY <1>12, <2>1 DEF CatchRate, TypeOK, JobRow
  <2>3. \A f \in Entries : /\ entry'[e].at = "waiting" /\ entry'[e].job = entry[e].job
                           /\ entry'[e].onlyStale = entry[e].onlyStale
                           /\ f # e => entry'[f] = entry[f] /\ run'[f] = run[f]
    BY <1>12 DEF CatchRate, Added, Row, TypeOK
  <2> QED BY <2>1, <2>2, <2>3 DEF Faithful
<1>13. ASSUME NEW e \in Entries, Retry(e) PROVE Faithful
  <2>1. /\ Row(e) \in Jobs /\ job[Row(e)].status # "absent" /\ entry[e].at = "running"
    BY <1>13, AtTyped DEF Retry, Fails, Scoped
  <2>2. \A j \in Jobs : /\ job'[j].onlyStale = job[j].onlyStale
                        /\ job'[j].status = "absent" <=> job[j].status = "absent"
    BY <1>13, <2>1 DEF Retry, TypeOK, JobRow
  <2>3. \A f \in Entries : /\ entry'[e].at = "waiting" /\ entry'[e].job = entry[e].job
                           /\ entry'[e].onlyStale = entry[e].onlyStale
                           /\ f # e => entry'[f] = entry[f] /\ run'[f] = run[f]
    BY <1>13 DEF Retry, TypeOK, Entry, FreeEntry
  <2> QED BY <2>1, <2>2, <2>3 DEF Faithful
<1>14. ASSUME NEW e \in Entries, Crash(e) PROVE Faithful
  BY <1>14 DEF Crash, Faithful, TypeOK, Entry, FreeEntry
<1>15. ASSUME NEW e \in Entries, Redeliver(e) PROVE Faithful
  <2>1. entry[e] \in Entry /\ entry[e].at = "dead"
    BY <1>15 DEF Redeliver, TypeOK
  <2>2. \/ entry' = [entry EXCEPT ![e].at = "waiting", ![e].stalls = @ + 1]
        \/ entry' = [entry EXCEPT ![e] = FreeEntry]
    BY <1>15 DEF Redeliver
  <2>3. \A f \in Entries : f # e => entry'[f] = entry[f]
    BY <2>2 DEF TypeOK
  <2>4. \/ entry'[e].at = "free"
        \/ /\ entry'[e].at = "waiting" /\ entry'[e].job = entry[e].job
           /\ entry'[e].onlyStale = entry[e].onlyStale
    BY <2>1, <2>2 DEF TypeOK, Entry, FreeEntry
  <2> QED BY <1>15, <2>1, <2>3, <2>4 DEF Redeliver, Faithful
<1>16. ASSUME NEW j \in Jobs, Strand(j) PROVE Faithful
  BY <1>16 DEF Strand, Faithful, TypeOK, JobRow
<1>17. ASSUME NEW j \in Jobs, NEW e \in Entries, Reclaim(j, e) PROVE Faithful
  <2>1. \A k \in Jobs : /\ job'[k].onlyStale = job[k].onlyStale
                        /\ job'[k].status = "absent" <=> job[k].status = "absent"
    BY <1>17 DEF Reclaim, TypeOK, JobRow
  <2>2. \/ UNCHANGED entry
        \/ /\ entry' = Added(e, j, FALSE, 1) /\ entry[e].at = "free"
           /\ job[j].status # "absent"
    BY <1>17 DEF Reclaim
  <2> QED BY <1>17, <2>1, <2>2 DEF Reclaim, Added, Faithful, TypeOK
<1>18. CASE API
  BY <1>2, <1>3, <1>4, <1>5, <1>6, <1>18, FaithfulKeepsScope DEF API
<1>19. CASE Sweep
  BY <1>16, <1>17, <1>19, FaithfulKeepsScope DEF Sweep
<1>20. CASE Chance
  BY <1>8, <1>10, <1>14, <1>20, FaithfulKeepsScope DEF Chance
<1>21. ASSUME NEW e \in Entries, Execute(e) PROVE Scoped' /\ ScopeKept'
  BY <1>8, <1>9, <1>10, <1>11, <1>12, <1>13, <1>21, FaithfulKeepsScope DEF Execute, Catch
<1>22. ASSUME NEW e \in Entries, Redeliver(e) PROVE Scoped' /\ ScopeKept'
  BY <1>15, <1>22, FaithfulKeepsScope
<1> QED BY <1>1, <1>7, <1>18, <1>19, <1>20, <1>21, <1>22 DEF Next

LEMMA ScopeInvariant == Spec => [](TypeOK /\ Scoped /\ ScopeKept)
<1>1. Init => Scoped /\ ScopeKept
  BY DEF Init, Scoped, ScopeKept, FreeEntry, Row
<1> QED BY <1>1, TypeInit, TypeStep, ScopeStep, PTL DEF Spec

\* For all rows, deliveries and sections: a delivery of a repair is executed as one,
\* although the payload that a resume, a recovery or a hand-back rebuilt may have lost
\* the flag. (checkpoint.onlyStale of the row)
THEOREM RepairStaysARepair == Spec => []ScopeKept
  BY ScopeInvariant, PTL

-----------------------------------------------------------------------------
(* One generation, executed by one delivery at a time *)

\* The one row of the package is a full generation.
Alone == \E j : Jobs = {j} /\ Kind[j] = "full"

\* One place executes its deliveries: SUMMARY_CONCURRENCY = 1.
OneSlot == Concurrency <= 1 /\ IsFiniteSet(Entries)

Has(s)  == \E r \in rows : r.sec = s
Good(s) == \E r \in rows : r.sec = s /\ r.good

\* A complete generation has accounted for the section.
Accounted(s) ==
  \/ "budget_degraded" \in gaps
  \/ Good(s)
  \/ Has(s) /\ "sections_failed" \in gaps

Runs(e) == entry[e].at = "running"

\* What a run relies on: the sections it counts are there with content, the checkpoint
\* holds none that it does not count, and it only replaces sections it does not count.
Counts(e) ==
  /\ job[Row(e)].done \subseteq run[e].have
  /\ \A s \in run[e].have : Good(s)
  /\ \A s \in Sections : run[e].cursor[s] \subseteq run[e].have
  /\ \A s \in Sections :
       run[e].lane[s] \in {"asking", "ready", "bare", "told"} => s \notin run[e].have

\* How far its lanes are: a section that was written is there, with content unless it
\* failed; while nothing was thrown, a lane that is through has accounted for its own.
Lanes(e) ==
  /\ \A s \in Sections :
       run[e].lane[s] = "told" => Has(s) /\ (s \in run[e].missing \/ Good(s))
  /\ run[e].pc \in {"sections", "ship"} /\ run[e].err = None =>
       \A s \in Sections : run[e].lane[s] \in {"saving", "over"} =>
         s \in run[e].have \/ (s \in run[e].missing /\ Has(s))
  /\ run[e].pc = "ship" => /\ \A s \in Sections : run[e].lane[s] = "over"
                           /\ run[e].err = None \/ Degrades(e)

\* Its way to the end: the row is not complete before the gaps are recorded, and
\* every section is accounted for afterwards.
Way(e) ==
  /\ run[e].flow = "full" /\ run[e].pc # "settle"
  /\ run[e].pc \in {"open", "sections", "ship", "validate", "finish"} =>
       job[Row(e)].status # "complete"
  /\ run[e].pc \in {"validate", "finish", "late"} => \A s \in Sections : Accounted(s)

RunOK(e) == Counts(e) /\ Lanes(e) /\ Way(e)

RunInv == \A e \in Entries : Runs(e) => RunOK(e)

\* Its deliveries are executed one at a time.
OneRun == \A e, f \in Entries : Runs(e) /\ Runs(f) => e = f

Honest == OneRun /\ RunInv /\ CheckpointHonest /\ GapsAreRecorded

LEMMA OnlyJob ==
  ASSUME Alone
  PROVE  /\ \A j, k \in Jobs : j = k
         /\ \A j \in Jobs : Kind[j] = "full"
  BY DEF Alone

LEMMA AccountsForAll ==
  ASSUME Alone
  PROVE  GapsAreRecorded <=>
           \A j \in Jobs : job[j].status = "complete" => \A s \in Sections : Accounted(s)
  BY OnlyJob DEF GapsAreRecorded, Accounted, Good, Has

(* Steps that leave the run alone *)

\* The step loses no section, no content and no recorded gap.
Kept ==
  /\ \A s \in Sections : (Has(s) => Has(s)') /\ (Good(s) => Good(s)')
  /\ gaps \subseteq gaps'

\* The run goes on as it was, or is over, and no row becomes complete.
Calm ==
  /\ Kept
  /\ \A e \in Entries : entry'[e].at = "running" =>
       Runs(e) /\ run'[e] = run[e] /\ entry'[e].job = entry[e].job
  /\ \A j \in Jobs : /\ job'[j].done = job[j].done
                     /\ job'[j].status = "complete" => job[j].status = "complete"

LEMMA KeptAccounts == ASSUME Kept, NEW s \in Sections, Accounted(s) PROVE Accounted(s)'
  BY DEF Kept, Accounted

LEMMA SameRows == ASSUME UNCHANGED rows, gaps \subseteq gaps' PROVE Kept
  BY DEF Kept, Has, Good

LEMMA ReviewedRows ==
  ASSUME UNCHANGED gaps, NEW hit \in SUBSET rows, NEW v, rows \subseteq SectionRow,
         rows' = (rows \ hit) \union {[r EXCEPT !.review = v] : r \in hit}
  PROVE  Kept
<1>1. ASSUME NEW r \in rows PROVE \E x \in rows' : x.sec = r.sec /\ x.good = r.good
  <2>1. CASE r \in hit
    <3>1. [r EXCEPT !.review = v] \in rows'
      BY <2>1
    <3>2. [r EXCEPT !.review = v].sec = r.sec /\ [r EXCEPT !.review = v].good = r.good
      BY DEF SectionRow
    <3> QED BY <3>1, <3>2
  <2>2. CASE r \notin hit
    BY <2>2
  <2> QED BY <2>1, <2>2
<1> QED BY <1>1 DEF Kept, Has, Good

LEMMA UnrequestedRows ==
  ASSUME UNCHANGED gaps, NEW e \in Entries, rows' = Unrequested(e), rows \subseteq SectionRow
  PROVE  Kept
<1>1. ASSUME NEW r \in rows PROVE \E x \in rows' : x.sec = r.sec /\ x.good = r.good
  <2> DEFINE back(y) == IF y.sec = job[Row(e)].about /\ y.review = "regenerate_requested"
                        THEN [y EXCEPT !.review = "stale"] ELSE y
  <2>1. rows' = rows \/ rows' = {back(y) : y \in rows}
    BY DEF Unrequested
  <2>2. back(r).sec = r.sec /\ back(r).good = r.good
    BY DEF SectionRow
  <2>3. back(r) \in {back(y) : y \in rows}
    OBVIOUS
  <2> HIDE DEF back
  <2> QED BY <2>1, <2>2, <2>3
<1> QED BY <1>1 DEF Kept, Has, Good

LEMMA CalmKeeps == ASSUME Alone, TypeOK, Honest, Calm PROVE Honest'
<1>1. OneRun'
  BY DEF Honest, OneRun, Calm, Runs
<1>2. ASSUME NEW e \in Entries, entry'[e].at = "running" PROVE RunOK(e)'
  <2>1. /\ Runs(e) /\ run'[e] = run[e] /\ entry'[e].job = entry[e].job
        /\ RunOK(e) /\ Row(e) \in Jobs /\ Row(e)' = Row(e)
    BY <1>2, RowTyped DEF Calm, Honest, RunInv, Runs, Row
  <2>2. run[e].have \subseteq Sections
    BY <2>1 DEF TypeOK, Running, NoRun
  <2>3. Counts(e)'
    BY <2>1, <2>2 DEF RunOK, Counts, Calm, Kept
  <2>4. Lanes(e)'
    BY <2>1 DEF RunOK, Lanes, Calm, Kept, Degrades, Flow
  <2>5. Way(e)'
    BY <2>1, KeptAccounts DEF RunOK, Way, Calm
  <2> QED BY <2>3, <2>4, <2>5 DEF RunOK
<1>3. CheckpointHonest'
  <2>1. \A j \in Jobs : \A s \in job[j].done : s \in Sections /\ Good(s)
    BY DEF Honest, CheckpointHonest, Good, TypeOK, JobRow
  <2>2. \A j \in Jobs : \A s \in job'[j].done : Good(s)'
    BY <2>1 DEF Calm, Kept
  <2> QED BY <2>2 DEF CheckpointHonest, Good
<1>4. GapsAreRecorded'
  <2>1. ASSUME NEW j \in Jobs, job'[j].status = "complete", NEW s \in Sections
        PROVE  Accounted(s)'
    <3>1. Accounted(s)
      BY <2>1, AccountsForAll DEF Honest, Calm
    <3> QED BY <3>1, KeptAccounts DEF Calm
  <2> QED BY <2>1, OnlyJob DEF GapsAreRecorded, Accounted, Good, Has
<1> QED BY <1>1, <1>2, <1>3, <1>4 DEF Honest, RunInv, Runs

(* Steps of the run *)

\* A delivery that executes is the only one, so what it does to the row it does for all.
LEMMA OwnStep ==
  ASSUME Alone, TypeOK, TypeOK', Honest, NEW e \in Entries, Runs(e), UNCHANGED entry, RunOK(e)',
         \/ job'[Row(e)].status # "complete"
         \/ \A s \in Sections : Accounted(s)'
         \/ Kept /\ job'[Row(e)].status = job[Row(e)].status
  PROVE  Honest'
<1>1. Row(e) \in Jobs /\ Row(e)' = Row(e) /\ \A j \in Jobs : j = Row(e)
  BY RowTyped, OnlyJob DEF Runs, Row
<1>2. OneRun' /\ RunInv'
  BY DEF Honest, OneRun, RunInv, Runs
<1>3. CheckpointHonest'
  <2>1. \A s \in job'[Row(e)].done : Good(s)'
    BY <1>1 DEF RunOK, Counts
  <2> QED BY <1>1, <2>1 DEF CheckpointHonest, Good
<1>4. GapsAreRecorded'
  <2>1. ASSUME job'[Row(e)].status = "complete", NEW s \in Sections PROVE Accounted(s)'
    <3>1. CASE Kept /\ job'[Row(e)].status = job[Row(e)].status
      BY <1>1, <2>1, <3>1, AccountsForAll, KeptAccounts DEF Honest
    <3> QED BY <2>1, <3>1
  <2> QED BY <1>1, <2>1, OnlyJob DEF GapsAreRecorded, Accounted, Good, Has
<1> QED BY <1>2, <1>3, <1>4 DEF Honest

\* What a delivery somewhere in processSummaryJob may rely on.
LEMMA Here ==
  ASSUME Alone, TypeOK, Honest, NEW e \in Entries, NEW p, At(e, p), p # "off"
  PROVE  /\ run[e] \in Running /\ Row(e) \in Jobs /\ job[Row(e)] \in JobRow
         /\ Runs(e) /\ RunOK(e) /\ run[e].pc = p /\ Flow(e) = "full"
  BY AtTyped DEF Honest, RunInv, Runs, RunOK, Way, At, Flow, TypeOK

LEMMA SectionKeeps ==
  ASSUME Alone, TypeOK, TypeOK', Honest, NEW e \in Entries, NEW s \in Sections,
         Section(e, s) \/ Miss(e, s)
  PROVE  Honest'
<1>1. At(e, "sections") /\ UNCHANGED <<entry, gaps>>
  BY DEF Section, Miss, Answer, Control, Delete, Insert, Tell, Save, Lane
<1>2. /\ run[e] \in Running /\ Row(e) \in Jobs /\ job[Row(e)] \in JobRow
      /\ Runs(e) /\ RunOK(e) /\ run[e].pc = "sections" /\ Flow(e) = "full"
      /\ Row(e)' = Row(e)
  BY <1>1, Here DEF Row
<1>3. job[Row(e)].status # "complete"
  BY <1>2 DEF RunOK, Way
<1>4. Counts(e) /\ Lanes(e)
  BY <1>2 DEF RunOK
<1>5. run \in [Entries -> {NoRun} \union Running] /\ job \in [Jobs -> JobRow]
  BY DEF TypeOK
<1>6. ASSUME run'[e].pc = "sections", run'[e].flow = "full", job'[Row(e)].status # "complete",
             Counts(e)', Lanes(e)'
      PROVE  Honest'
  <2>1. RunOK(e)'
    BY <1>2, <1>6 DEF RunOK, Way
  <2> QED BY <1>1, <1>2, <1>6, <2>1, OwnStep
<1>7. CASE Answer(e, s)
  <2>1. run'[e] = [run[e] EXCEPT !.lane[s] = "ready"]
    BY <1>5, <1>7 DEF Answer, Move
  <2>2. UNCHANGED <<job, rows, gaps>> /\ run[e].lane[s] = "asking"
    BY <1>7 DEF Answer, Lane
  <2>3. Counts(e)'
    BY <1>2, <1>4, <2>1, <2>2 DEF Counts, Good, Running
  <2>4. Lanes(e)'
    BY <1>2, <1>4, <2>1, <2>2 DEF Lanes, Good, Has, Running
  <2> QED BY <1>2, <1>3, <1>6, <2>1, <2>2, <2>3, <2>4 DEF Running, Flow
<1>8. ASSUME NEW err \in {"rate", "budget", "kill", "hard"}, Abort(e, s, err),
             UNCHANGED <<job, rows, gaps>>
      PROVE  Honest'
  <2>1. /\ run'[e] = [run[e] EXCEPT !.lane[s] = "over", !.err = Thrown(e, err)]
        /\ Thrown(e, err) # None
    BY <1>2, <1>5, <1>8 DEF Abort, Thrown, None, Running
  <2>2. Counts(e)'
    BY <1>2, <1>4, <1>8, <2>1 DEF Counts, Good, Running
  <2>3. Lanes(e)'
    BY <1>2, <1>4, <1>8, <2>1 DEF Lanes, Good, Has, Running
  <2> QED BY <1>2, <1>3, <1>6, <1>8, <2>1, <2>2, <2>3 DEF Running, Flow
<1>9. CASE Control(e, s)
  BY <1>8, <1>9 DEF Control
<1>10. CASE Miss(e, s)
  <2>1. run'[e] = [run[e] EXCEPT !.lane[s] = "ready", !.missing = @ \union {s}]
    BY <1>2, <1>5, <1>10 DEF Miss, Running
  <2>2. UNCHANGED <<job, rows, gaps>> /\ run[e].lane[s] = "asking"
    BY <1>10 DEF Miss, Lane
  <2>3. Counts(e)'
    BY <1>2, <1>4, <2>1, <2>2 DEF Counts, Good, Running
  <2>4. Lanes(e)'
    BY <1>2, <1>4, <2>1, <2>2 DEF Lanes, Good, Has, Running
  <2> QED BY <1>2, <1>3, <1>6, <2>1, <2>2, <2>3, <2>4 DEF Running, Flow
<1>11. CASE Delete(e, s)
  <2>1. /\ run'[e] = [run[e] EXCEPT !.lane[s] = "bare"]
        /\ UNCHANGED job /\ run[e].lane[s] = "ready" /\ s \notin run[e].have
    BY <1>4, <1>5, <1>11 DEF Delete, Move, Lane, Counts
  <2>2. \A x \in Sections \ {s} : (Has(x) => Has(x)') /\ (Good(x) => Good(x)')
    BY <1>11 DEF Delete, Has, Good
  <2>3. Counts(e)'
    BY <1>2, <1>4, <2>1, <2>2 DEF Counts, Running
  <2>4. Lanes(e)'
    BY <1>2, <1>4, <2>1, <2>2 DEF Lanes, Running
  <2> QED BY <1>2, <1>3, <1>6, <2>1, <2>3, <2>4 DEF Running, Flow
<1>12. CASE Insert(e, s)
  <2>1. /\ run'[e] = [run[e] EXCEPT !.lane[s] = "told"]
        /\ UNCHANGED job /\ run[e].lane[s] = "bare" /\ s \notin run[e].have
    BY <1>4, <1>5, <1>12 DEF Insert, Move, Lane, Counts
  <2>2. \A x \in Sections : (Has(x) => Has(x)') /\ (Good(x) => Good(x)')
    BY <1>12 DEF Insert, Has, Good
  <2>3. Has(s)' /\ (s \in run[e].missing \/ Good(s)')
    <3> DEFINE g   == s \notin run[e].missing
               new == [sec |-> s, by |-> e, good |-> g, commit |-> job[Row(e)].commit,
                       review |-> "draft"]
    <3>1. new \in rows'
      BY <1>12 DEF Insert
    <3>2. new.sec = s /\ new.good = g
      OBVIOUS
    <3> HIDE DEF new
    <3> QED BY <3>1, <3>2 DEF Has, Good
  <2>4. Counts(e)'
    BY <1>2, <1>4, <2>1, <2>2 DEF Counts, Running
  <2>5. Lanes(e)'
    BY <1>2, <1>4, <2>1, <2>2, <2>3 DEF Lanes, Running
  <2> QED BY <1>2, <1>3, <1>6, <2>1, <2>4, <2>5 DEF Running, Flow
<1>13. CASE Tell(e, s)
  <2> DEFINE c  == Counted(e, s)
             to == IF Flow(e) = "full" /\ s \notin run[e].missing THEN "saving" ELSE "over"
  <2>1. /\ run[e].lane[s] = "told" /\ s \notin run[e].have /\ UNCHANGED <<rows, gaps>>
        /\ Has(s) /\ (s \in run[e].missing \/ Good(s))
    BY <1>4, <1>13 DEF Tell, Lane, Counts, Lanes
  <2>2. /\ run[e].have \subseteq c /\ c \subseteq run[e].have \union {s} /\ c \subseteq Sections
        /\ s \in c \/ s \in run[e].missing
        /\ \A x \in c : Good(x)
    BY <1>2, <1>4, <2>1 DEF Counted, Counts, Running
  <2>3. CASE ~Halted(Row(e))
    <3>1. /\ run'[e] = [run[e] EXCEPT !.have = c, !.cursor[s] = c, !.lane[s] = to]
          /\ Progress(e)
      BY <1>2, <1>5, <1>13, <2>3 DEF Tell, Running
    <3>2. job'[Row(e)].done = job[Row(e)].done /\ job'[Row(e)].status = "running"
      BY <1>2, <1>5, <3>1 DEF Progress, JobRow
    <3>3. to \in {"saving", "over"}
      OBVIOUS
    <3> HIDE DEF c, to
    <3>4. /\ run'[e].have = c /\ run'[e].missing = run[e].missing /\ run'[e].err = run[e].err
          /\ run'[e].pc = "sections" /\ run'[e].flow = "full"
          /\ \A x \in Sections :
               /\ run'[e].cursor[x] = IF x = s THEN c ELSE run[e].cursor[x]
               /\ run'[e].lane[x] = IF x = s THEN to ELSE run[e].lane[x]
      BY <1>2, <3>1 DEF Running, Flow
    <3>5. Counts(e)'
      BY <1>2, <1>4, <2>1, <2>2, <3>2, <3>3, <3>4 DEF Counts, Good
    <3>6. Lanes(e)'
      <4>1. \A x \in Sections : (Has(x) <=> Has(x)') /\ (Good(x) <=> Good(x)')
        BY <2>1 DEF Has, Good
      <4>2. ASSUME NEW x \in Sections, run'[e].lane[x] = "told"
            PROVE  Has(x)' /\ (x \in run'[e].missing \/ Good(x)')
        BY <1>4, <3>3, <3>4, <4>1, <4>2 DEF Lanes
      <4>3. ASSUME NEW x \in Sections, run'[e].lane[x] \in {"saving", "over"},
                   run'[e].err = None
            PROVE  x \in run'[e].have \/ (x \in run'[e].missing /\ Has(x)')
        BY <1>2, <1>4, <2>1, <2>2, <3>4, <4>1, <4>3 DEF Lanes
      <4> QED BY <3>4, <4>2, <4>3 DEF Lanes
    <3> QED BY <1>6, <3>2, <3>4, <3>5, <3>6
  <2>4. CASE Halted(Row(e))
    <3>1. /\ run'[e] = [run[e] EXCEPT !.have = c, !.lane[s] = "over", !.err = Thrown(e, "kill")]
          /\ UNCHANGED job
      BY <1>2, <1>5, <1>13, <2>4 DEF Tell, Running
    <3>2. Thrown(e, "kill") # None
      BY DEF Thrown, None
    <3> HIDE DEF c
    <3>3. /\ run'[e].have = c /\ run'[e].missing = run[e].missing /\ run'[e].err # None
          /\ run'[e].pc = "sections" /\ run'[e].flow = "full" /\ run'[e].cursor = run[e].cursor
          /\ \A x \in Sections : run'[e].lane[x] = IF x = s THEN "over" ELSE run[e].lane[x]
      BY <1>2, <3>1, <3>2 DEF Running, Flow
    <3>4. Counts(e)'
      BY <1>2, <1>4, <2>1, <2>2, <3>1, <3>3 DEF Counts, Good
    <3>5. Lanes(e)'
      BY <1>4, <2>1, <2>2, <3>3 DEF Lanes, Good, Has
    <3> QED BY <1>3, <1>6, <3>1, <3>3, <3>4, <3>5
  <2> QED BY <2>3, <2>4
<1>14. CASE Save(e, s)
  <2>1. /\ run'[e] = [run[e] EXCEPT !.lane[s] = "over"] /\ UNCHANGED <<rows, gaps>>
        /\ run[e].lane[s] = "saving"
    BY <1>5, <1>14 DEF Save, Move, Lane
  <2>2. /\ job'[Row(e)].done = run[e].cursor[s]
        /\ job'[Row(e)].status = job[Row(e)].status
    BY <1>2, <1>5, <1>14 DEF Save, JobRow
  <2>3. Counts(e)'
    BY <1>2, <1>4, <2>1, <2>2 DEF Counts, Good, Running
  <2>4. Lanes(e)'
    BY <1>2, <1>4, <2>1, <2>2 DEF Lanes, Good, Has, Running
  <2> QED BY <1>2, <1>3, <1>6, <2>1, <2>2, <2>3, <2>4 DEF Running, Flow
<1> QED BY <1>7, <1>9, <1>10, <1>11, <1>12, <1>13, <1>14 DEF Section

\* Steps that move a run to another place and change neither its lanes nor what it counts.
LEMMA MovedCounts ==
  ASSUME TypeOK, NEW e \in Entries, Runs(e), RunOK(e), UNCHANGED entry, Kept,
         run'[e].have = run[e].have, run'[e].cursor = run[e].cursor,
         run'[e].lane = run[e].lane, run[e] \in Running,
         job'[Row(e)].done = job[Row(e)].done
  PROVE  Counts(e)'
<1>1. run[e].have \subseteq Sections /\ Row(e)' = Row(e)
  BY DEF Running, Row
<1> QED BY <1>1 DEF RunOK, Counts, Kept

LEMMA MovedLanes ==
  ASSUME TypeOK, NEW e \in Entries, Runs(e), RunOK(e), Kept, run[e] \in Running,
         run'[e].lane = run[e].lane, run'[e].missing = run[e].missing,
         run'[e].pc \notin {"sections", "ship"}
  PROVE  Lanes(e)'
  BY DEF RunOK, Lanes, Kept

\* A delivery begins when no other executes: there is one slot, or it would have company.
LEMMA BeginsAlone ==
  ASSUME TypeOK, NEW e \in Entries, Begin(e), OneSlot \/ OneRun'
  PROVE  \A f \in Entries : ~Runs(f)
<1>1. CASE OneSlot
  <2> DEFINE busy == {x \in Entries : entry[x].at = "running"}
  <2>1. IsFiniteSet(busy)
    BY <1>1, FS_Subset DEF OneSlot
  <2>2. Cardinality(busy) \in Nat /\ Cardinality(busy) < 1
    BY <1>1, <2>1, FS_CardinalityType, LimitsAssumption DEF OneSlot, Begin
  <2>3. busy = {}
    BY <2>1, <2>2, FS_EmptySet
  <2> QED BY <2>3 DEF Runs
<1>2. CASE OneRun'
  <2>1. Runs(e)' /\ ~Runs(e) /\ \A f \in Entries : Runs(f) => Runs(f)'
    BY DEF Begin, Runs, TypeOK, Entry, FreeEntry
  <2> QED BY <1>2, <2>1 DEF OneRun
<1> QED BY <1>1, <1>2

LEMMA BeginKeeps ==
  ASSUME Alone, TypeOK, TypeOK', Scoped, Honest, NEW e \in Entries, Begin(e),
         OneSlot \/ OneRun'
  PROVE  Honest'
<1>1. \A f \in Entries : ~Runs(f)
  BY BeginsAlone
<1>2. Row(e) \in Jobs /\ Kind[Row(e)] = "full" /\ job[Row(e)] \in JobRow
  BY RowTyped, OnlyJob DEF Begin, TypeOK
<1>3. ~Repairs(e)
  BY <1>2 DEF Repairs, Scoped, Begin
<1>4. /\ run'[e] = [NoRun EXCEPT !.pc = "open", !.have = job[Row(e)].done, !.flow = "full"]
      /\ UNCHANGED <<rows, gaps>> /\ Row(e)' = Row(e)
  BY <1>2, <1>3 DEF Begin, TypeOK, Row, Entry, FreeEntry
<1>5. /\ job'[Row(e)].done = job[Row(e)].done /\ job'[Row(e)].status = "running"
      /\ \A j \in Jobs : j = Row(e)
  BY <1>2, OnlyJob DEF Begin, Progress, TypeOK, JobRow
<1>6. /\ run'[e].pc = "open" /\ run'[e].have = job[Row(e)].done /\ run'[e].flow = "full"
      /\ run'[e].lane = [s \in Sections |-> "over"]
      /\ run'[e].cursor = [s \in Sections |-> {}]
  BY <1>4 DEF NoRun
<1>7. \A f \in Entries : entry'[f].at = "running" => f = e
  BY <1>1 DEF Begin, Runs, TypeOK
<1>8. Counts(e)'
  <2>1. \A s \in job[Row(e)].done : Good(s)
    BY <1>2 DEF Honest, CheckpointHonest, Good
  <2> QED BY <1>4, <1>5, <1>6, <2>1 DEF Counts, Good
<1>9. Lanes(e)' /\ Way(e)'
  BY <1>4, <1>5, <1>6 DEF Lanes, Way
<1>10. OneRun' /\ RunInv'
  BY <1>7, <1>8, <1>9 DEF OneRun, RunInv, RunOK, Runs
<1>11. CheckpointHonest' /\ GapsAreRecorded'
  BY <1>4, <1>5 DEF Honest, CheckpointHonest, GapsAreRecorded
<1> QED BY <1>10, <1>11 DEF Honest

LEMMA RunKeeps ==
  ASSUME Alone, TypeOK, TypeOK', Honest, NEW e \in Entries,
         \/ Open(e) \/ Join(e) \/ Settle(e) \/ Ship(e) \/ Validate(e) \/ Finish(e)
         \/ Break(e) \/ Park(e) \/ Fail(e)
  PROVE  Honest'
<1>1. /\ run[e] \in Running /\ Row(e) \in Jobs /\ job[Row(e)] \in JobRow
      /\ Runs(e) /\ RunOK(e) /\ Flow(e) = "full"
  BY Here DEF Open, Join, Settle, Ship, Validate, Finish, Break, Park, Fail, Fails
<1>2. UNCHANGED entry /\ Row(e)' = Row(e)
  BY DEF Open, Join, Settle, Ship, Validate, Finish, Break, Park, Fail, Row
<1>3. Counts(e) /\ Lanes(e) /\ Way(e)
  BY <1>1 DEF RunOK
<1>4. run \in [Entries -> {NoRun} \union Running] /\ job \in [Jobs -> JobRow]
  BY DEF TypeOK
<1>5. CASE Open(e)
  <2>1. run[e].pc = "open" /\ UNCHANGED <<rows, gaps>> /\ Kept
    BY <1>5, SameRows DEF Open, At
  <2>2. /\ job'[Row(e)].done = job[Row(e)].done /\ job'[Row(e)].status # "complete"
    BY <1>1, <1>3, <1>4, <1>5, <2>1 DEF Open, Progress, JobRow, Way
  <2>3. CASE Halted(Row(e)) /\ Reports(e)
    <3>1. run'[e] = [run[e] EXCEPT !.pc = "caught", !.err = "kill", !.held = TRUE]
      BY <1>1, <1>4, <1>5, <2>3 DEF Open, Running
    <3>2. Counts(e)' /\ Lanes(e)' /\ Way(e)'
      BY <1>1, <1>2, <1>3, <2>1, <2>2, <3>1, MovedCounts, MovedLanes DEF Running, Way
    <3> QED BY <1>1, <1>2, <2>2, <3>2, OwnStep DEF RunOK
  <2>4. CASE ~(Halted(Row(e)) /\ Reports(e))
    <3> DEFINE l == [s \in Sections |-> IF s \in Wanted(e) THEN "asking" ELSE "over"]
    <3>1. run'[e] = [run[e] EXCEPT !.pc = "sections", !.held = TRUE, !.lane = l]
      BY <1>1, <1>4, <1>5, <2>4 DEF Open, Running
    <3>2. Wanted(e) = Sections \ run[e].have
      BY <1>1 DEF Wanted
    <3>3. \A s \in Sections : \/ l[s] = "asking" /\ s \notin run[e].have
                              \/ l[s] = "over" /\ s \in run[e].have
      BY <3>2
    <3> HIDE DEF l
    <3>4. /\ run'[e].pc = "sections" /\ run'[e].flow = "full" /\ run'[e].lane = l
          /\ run'[e].have = run[e].have /\ run'[e].cursor = run[e].cursor
      BY <1>1, <3>1 DEF Running, Flow
    <3>5. Counts(e)'
      BY <1>2, <1>3, <2>1, <2>2, <3>3, <3>4 DEF Counts, Good
    <3>6. Lanes(e)' /\ Way(e)'
      BY <1>2, <2>2, <3>3, <3>4 DEF Lanes, Way
    <3> QED BY <1>1, <1>2, <2>2, <3>5, <3>6, OwnStep DEF RunOK
  <2> QED BY <2>3, <2>4
<1>6. CASE Join(e)
  <2>1. /\ run[e].pc = "sections" /\ UNCHANGED <<job, rows, gaps>> /\ Kept
        /\ \A s \in Sections : run[e].lane[s] = "over"
    BY <1>6, SameRows DEF Join, At
  <2>2. \/ run'[e] = [run[e] EXCEPT !.pc = "caught"]
        \/ /\ run'[e] = [run[e] EXCEPT !.pc = "ship"]
           /\ run[e].err = None \/ Degrades(e)
    BY <1>1, <1>4, <1>6 DEF Join, Go
  <2>3. job'[Row(e)].status # "complete"
    BY <1>3, <2>1 DEF Way
  <2>4. Counts(e)' /\ Way(e)'
    BY <1>1, <1>2, <1>3, <2>1, <2>2, <2>3, MovedCounts DEF Running, Way
  <2>5. Lanes(e)'
    BY <1>1, <1>3, <2>1, <2>2 DEF Running, Lanes, Has, Good, Degrades, Flow
  <2> QED BY <1>1, <1>2, <2>3, <2>4, <2>5, OwnStep DEF RunOK
<1>7. CASE Settle(e)
  BY <1>3, <1>7 DEF Settle, At, Way
<1>8. CASE Ship(e)
  <2>1. /\ run[e].pc = "ship" /\ UNCHANGED <<job, rows>> /\ gaps' = gaps \union Recorded(e)
        /\ run'[e] = [run[e] EXCEPT !.pc = "validate"]
    BY <1>4, <1>8 DEF Ship, At, Go
  <2>2. Kept
    BY <2>1, SameRows
  <2>3. job'[Row(e)].status # "complete"
    BY <1>3, <2>1 DEF Way
  <2>4. ASSUME NEW s \in Sections PROVE Accounted(s)'
    <3>1. CASE Degrades(e)
      BY <2>1, <3>1 DEF Recorded, Accounted
    <3>2. CASE run[e].err = None
      <4>1. s \in run[e].have \/ (s \in run[e].missing /\ Has(s))
        BY <1>3, <2>1, <3>2 DEF Lanes
      <4>2. CASE s \in run[e].have
        BY <1>3, <2>1, <4>2 DEF Counts, Accounted, Good
      <4>3. CASE s \in run[e].missing /\ Has(s)
        BY <2>1, <4>3 DEF Recorded, Accounted, Has
      <4> QED BY <4>1, <4>2, <4>3
    <3> QED BY <1>3, <2>1, <3>1, <3>2 DEF Lanes
  <2>5. Counts(e)' /\ Lanes(e)'
    BY <1>1, <1>2, <2>1, <2>2, MovedCounts, MovedLanes DEF Running
  <2>6. Way(e)'
    BY <1>1, <1>2, <1>3, <2>1, <2>3, <2>4 DEF Way, Running
  <2> QED BY <1>1, <1>2, <2>3, <2>5, <2>6, OwnStep DEF RunOK
<1>9. CASE Validate(e)
  <2>1. run[e].pc = "validate" /\ UNCHANGED <<rows, gaps>> /\ Kept
    BY <1>9, SameRows DEF Validate, At
  <2>2. job'[Row(e)].done = job[Row(e)].done /\ job'[Row(e)].status # "complete"
    BY <1>1, <1>3, <1>4, <1>9, <2>1 DEF Validate, Progress, JobRow, Way
  <2>3. \/ run'[e] = [run[e] EXCEPT !.pc = "caught", !.err = "kill"]
        \/ run'[e] = [run[e] EXCEPT !.pc = "finish"]
    BY <1>1, <1>4, <1>9 DEF Validate, Go, Running
  <2>4. Counts(e)' /\ Lanes(e)'
    BY <1>1, <1>2, <2>1, <2>2, <2>3, MovedCounts, MovedLanes DEF Running
  <2>5. Way(e)'
    <3>1. \A s \in Sections : Accounted(s)'
      BY <1>3, <2>1, KeptAccounts DEF Way
    <3> QED BY <1>1, <1>2, <1>3, <2>2, <2>3, <3>1 DEF Way, Running
  <2> QED BY <1>1, <1>2, <2>2, <2>4, <2>5, OwnStep DEF RunOK
<1>10. CASE Finish(e)
  <2>1. /\ run[e].pc = "finish" /\ UNCHANGED <<rows, gaps>> /\ Kept
        /\ run'[e] = [run[e] EXCEPT !.pc = "late"]
    BY <1>4, <1>10, SameRows DEF Finish, At, Go
  <2>2. job'[Row(e)].done = job[Row(e)].done
    BY <1>1, <1>4, <1>10 DEF Finish, JobRow
  <2>3. \A s \in Sections : Accounted(s)'
    BY <1>3, <2>1, KeptAccounts DEF Way
  <2>4. Counts(e)' /\ Lanes(e)'
    BY <1>1, <1>2, <2>1, <2>2, MovedCounts, MovedLanes DEF Running
  <2>5. Way(e)'
    BY <1>1, <1>3, <2>1, <2>3 DEF Way, Running
  <2> QED BY <1>1, <1>2, <2>3, <2>4, <2>5, OwnStep DEF RunOK
<1>11. CASE Break(e)
  <2>1. UNCHANGED <<job, rows, gaps>> /\ Kept
    BY <1>11, SameRows DEF Break
  <2>2. run'[e] = [run[e] EXCEPT !.pc = "caught", !.err = "hard"]
    BY <1>1, <1>4, <1>11 DEF Break, Running
  <2>3. Counts(e)' /\ Lanes(e)' /\ Way(e)'
    BY <1>1, <1>2, <1>3, <2>1, <2>2, MovedCounts, MovedLanes DEF Running, Way
  <2> QED BY <1>1, <1>2, <2>1, <2>3, OwnStep DEF RunOK
<1>12. CASE Park(e)
  <2>1. UNCHANGED <<job, gaps>> /\ Kept
    BY <1>12, UnrequestedRows DEF Park, TypeOK
  <2>2. run'[e] = [run[e] EXCEPT !.pc = "parked"]
    BY <1>4, <1>12 DEF Park, Go
  <2>3. Counts(e)' /\ Lanes(e)' /\ Way(e)'
    BY <1>1, <1>2, <1>3, <2>1, <2>2, MovedCounts, MovedLanes DEF Running, Way
  <2> QED BY <1>1, <1>2, <2>1, <2>3, OwnStep DEF RunOK
<1>13. CASE Fail(e)
  <2>1. UNCHANGED gaps /\ Kept
    BY <1>13, UnrequestedRows DEF Fail, TypeOK
  <2>2. run'[e] = [run[e] EXCEPT !.pc = "lost"]
    BY <1>4, <1>13 DEF Fail, Go
  <2>3. job'[Row(e)].done = job[Row(e)].done /\ job'[Row(e)].status = "failed"
    BY <1>1, <1>4, <1>13 DEF Fail, JobRow
  <2>4. Counts(e)' /\ Lanes(e)' /\ Way(e)'
    BY <1>1, <1>2, <1>3, <2>1, <2>2, <2>3, MovedCounts, MovedLanes DEF Running, Way
  <2> QED BY <1>1, <1>2, <2>3, <2>4, OwnStep DEF RunOK
<1> QED BY <1>5, <1>6, <1>7, <1>8, <1>9, <1>10, <1>11, <1>12, <1>13

(* All steps *)

\* A step that leaves rows, gaps and runs alone, and no delivery executing that did
\* not before.
LEMMA QuietStep ==
  ASSUME UNCHANGED <<rows, gaps>>,
         \A e \in Entries : entry'[e].at = "running" => entry'[e] = entry[e] /\ run'[e] = run[e],
         \A j \in Jobs : /\ job'[j].done = job[j].done
                         /\ job'[j].status = "complete" => job[j].status = "complete"
  PROVE  Calm
  BY SameRows DEF Calm, Runs

LEMMA APIIsCalm == ASSUME Alone, TypeOK, API PROVE Calm
<1> USE DEF IsFree
<1>1. ASSUME NEW j \in Jobs, NEW e \in Entries, Generate(j, e) PROVE Calm
  <2> DEFINE c == IF Kind[j] = "stale" THEN code.latest ELSE 0
             o == Kind[j] = "stale"
             asked == [job[j] EXCEPT !.status = "queued", !.onlyStale = o, !.commit = c]
  <2>1. Submit(e, j, asked) /\ UNCHANGED <<run, rows, gaps>>
    BY <1>1 DEF Generate
  <2> HIDE DEF c, o
  <2>2. asked.done = job[j].done /\ asked.status = "queued"
    BY DEF TypeOK, JobRow
  <2>3. \A k \in Jobs : /\ job'[k].done = job[k].done
                        /\ job'[k].status = "complete" => job[k].status = "complete"
    <3>1. CASE job' = [job EXCEPT ![j] = asked]
      BY <2>2, <3>1 DEF TypeOK
    <3>2. CASE \E st \in {"queued", "failed"} :
                 job' = [job EXCEPT ![j] = [asked EXCEPT !.status = st]]
      BY <2>2, <3>2 DEF TypeOK, JobRow
    <3> QED BY <2>1, <3>1, <3>2 DEF Submit
  <2>4. \A f \in Entries : entry'[f].at = "running" => entry'[f] = entry[f]
    BY <2>1 DEF Submit, Added, TypeOK
  <2> QED BY <2>1, <2>3, <2>4, QuietStep
<1>2. ASSUME NEW j \in Jobs, NEW e \in Entries, Resume(j, e) PROVE Calm
  <2>1. \A f \in Entries : entry'[f].at = "running" => entry'[f] = entry[f]
    BY <1>2 DEF Resume, Added, TypeOK
  <2>2. \A k \in Jobs : /\ job'[k].done = job[k].done
                        /\ job'[k].status = "complete" => job[k].status = "complete"
    BY <1>2 DEF Resume, TypeOK, JobRow
  <2> QED BY <1>2, <2>1, <2>2, QuietStep DEF Resume
<1>3. ASSUME NEW j \in Jobs, NEW r \in rows, NEW e \in Entries, Request(j, r, e) PROVE Calm
  BY <1>3, OnlyJob DEF Request
<1>4. ASSUME NEW j \in Jobs, Pause(j) \/ Stop(j) PROVE Calm
  <2>1. \A k \in Jobs : /\ job'[k].done = job[k].done
                        /\ job'[k].status = "complete" => job[k].status = "complete"
    BY <1>4 DEF Pause, Stop, TypeOK, JobRow
  <2> QED BY <1>4, <2>1, QuietStep DEF Pause, Stop
<1>5. ASSUME NEW r \in rows, NEW v \in {"approved", "draft"}, Review(r, v) PROVE Calm
  <2>1. rows' = (rows \ {r}) \union {[x EXCEPT !.review = v] : x \in {r}}
    BY <1>5 DEF Review
  <2>2. Kept
    <3>1. {r} \in SUBSET rows /\ rows \subseteq SectionRow /\ UNCHANGED gaps
      BY <1>5 DEF Review, TypeOK
    <3> QED BY <2>1, <3>1, ReviewedRows
  <2> QED BY <1>5, <2>2 DEF Review, Calm, Runs
<1> QED BY <1>1, <1>2, <1>3, <1>4, <1>5 DEF API

LEMMA AnalysesAreCalm == ASSUME TypeOK, Analyses PROVE Calm
<1>1. UNCHANGED <<job, entry, run, gaps>>
  BY DEF Analyses, NewCommit, MarkSections, MarkPackage, AnalysisFails
<1>2. Kept
  <2>1. CASE MarkSections
    <3> DEFINE hit == {r \in rows : Cites(r) /\ r.review # "stale"}
    <3>1. rows' = (rows \ hit) \union {[r EXCEPT !.review = "stale"] : r \in hit}
      BY <2>1 DEF MarkSections
    <3>2. hit \in SUBSET rows /\ rows \subseteq SectionRow
      BY DEF TypeOK
    <3> HIDE DEF hit
    <3> QED BY <1>1, <3>1, <3>2, ReviewedRows
  <2>2. CASE ~MarkSections
    BY <1>1, <2>2, SameRows DEF Analyses, NewCommit, MarkPackage, AnalysisFails
  <2> QED BY <2>1, <2>2
<1> QED BY <1>1, <1>2 DEF Calm, Runs

LEMMA EndIsCalm ==
  ASSUME TypeOK, Scoped, NEW e \in Entries,
         \/ Refuse(e) \/ Return(e) \/ CatchKill(e) \/ CatchRate(e) \/ Parked(e) \/ Retry(e)
         \/ FailPackage(e)
  PROVE  Calm
<1>1. Row(e) \in Jobs
  BY RowTyped DEF Refuse, Return, CatchKill, CatchRate, Parked, Retry, FailPackage, Fails, At
<1>2. Kept
  BY UnrequestedRows, SameRows
     DEF Refuse, Return, CatchKill, CatchRate, Parked, Retry, FailPackage, TypeOK
<1>3. \A f \in Entries : entry'[f].at = "running" => entry'[f] = entry[f] /\ run'[f] = run[f]
  <2>1. CASE Forget(e)
    BY <2>1 DEF Forget, FreeEntry, TypeOK
  <2>2. CASE CatchRate(e)
    BY <2>2 DEF CatchRate, Added, TypeOK
  <2>3. CASE Retry(e)
    BY <2>3 DEF Retry, TypeOK, Entry, FreeEntry
  <2> QED BY <2>1, <2>2, <2>3 DEF Refuse, Return, CatchKill, Parked, FailPackage
<1>4. \A k \in Jobs : /\ job'[k].done = job[k].done
                      /\ job'[k].status = "complete" => job[k].status = "complete"
  <2>1. CASE UNCHANGED job
    BY <2>1
  <2>2. CASE CatchRate(e)
    BY <1>1, <2>2 DEF CatchRate, TypeOK, JobRow
  <2>3. CASE Parked(e)
    BY <1>1, <2>3 DEF Parked, TypeOK, JobRow
  <2>4. CASE Retry(e)
    BY <1>1, <2>4 DEF Retry, TypeOK, JobRow
  <2> QED BY <2>1, <2>2, <2>3, <2>4 DEF Refuse, Return, CatchKill, FailPackage
<1> QED BY <1>2, <1>3, <1>4 DEF Calm, Runs

LEMMA QueueIsCalm ==
  ASSUME TypeOK, NEW e \in Entries, Crash(e) \/ Redeliver(e) PROVE Calm
<1>1. UNCHANGED <<job, rows, gaps>>
  BY DEF Crash, Redeliver
<1>2. \A f \in Entries : entry'[f].at = "running" => entry'[f] = entry[f] /\ run'[f] = run[f]
  <2>1. CASE Crash(e)
    BY <2>1 DEF Crash, TypeOK, Entry, FreeEntry
  <2>2. CASE Redeliver(e)
    <3>1. \/ entry' = [entry EXCEPT ![e].at = "waiting", ![e].stalls = @ + 1]
          \/ entry' = [entry EXCEPT ![e] = FreeEntry]
      BY <2>2 DEF Redeliver
    <3>2. \A f \in Entries : f # e => entry'[f] = entry[f]
      BY <3>1 DEF TypeOK
    <3>3. entry[e] \in Entry /\ entry[e].at = "dead"
      BY <2>2 DEF Redeliver, TypeOK
    <3>4. entry'[e].at # "running"
      BY <3>1, <3>3 DEF TypeOK, Entry, FreeEntry
    <3> QED BY <2>2, <3>2, <3>4 DEF Redeliver
  <2> QED BY <2>1, <2>2
<1> QED BY <1>1, <1>2, QuietStep

LEMMA SweepIsCalm == ASSUME TypeOK, Sweep PROVE Calm
<1>1. ASSUME NEW j \in Jobs, Strand(j) PROVE Calm
  <2>1. \A k \in Jobs : /\ job'[k].done = job[k].done
                        /\ job'[k].status = "complete" => job[k].status = "complete"
    BY <1>1 DEF Strand, TypeOK, JobRow
  <2> QED BY <1>1, <2>1, QuietStep DEF Strand
<1>2. ASSUME NEW j \in Jobs, NEW e \in Entries, Reclaim(j, e) PROVE Calm
  <2>1. \A k \in Jobs : /\ job'[k].done = job[k].done
                        /\ job'[k].status = "complete" => job[k].status = "complete"
    BY <1>2 DEF Reclaim, TypeOK, JobRow
  <2>2. \A f \in Entries : entry'[f].at = "running" => entry'[f] = entry[f]
    BY <1>2 DEF Reclaim, Added, TypeOK
  <2> QED BY <1>2, <2>1, <2>2, QuietStep DEF Reclaim
<1> QED BY <1>1, <1>2 DEF Sweep

LEMMA HonestStep ==
  ASSUME Alone
  PROVE  TypeOK /\ TypeOK' /\ Scoped /\ Honest /\ (OneSlot \/ OneRun') /\ [Next]_vars => Honest'
<1> SUFFICES ASSUME TypeOK, TypeOK', Scoped, Honest, OneSlot \/ OneRun', [Next]_vars
             PROVE  Honest'
  OBVIOUS
<1>1. CASE UNCHANGED vars
  <2>1. Calm
    BY <1>1, QuietStep, SameRows DEF vars, Calm, Runs
  <2> QED BY <2>1, CalmKeeps
<1>2. CASE Chance
  BY <1>2, QueueIsCalm, CalmKeeps, RunKeeps, SectionKeeps DEF Chance
<1>3. ASSUME NEW e \in Entries, Execute(e) PROVE Honest'
  BY <1>3, BeginKeeps, RunKeeps, SectionKeeps, EndIsCalm, CalmKeeps DEF Execute, Catch
<1>4. ASSUME NEW e \in Entries, Redeliver(e) PROVE Honest'
  BY <1>4, QueueIsCalm, CalmKeeps
<1>5. CASE API \/ Analyses \/ Sweep
  BY <1>5, APIIsCalm, AnalysesAreCalm, SweepIsCalm, CalmKeeps
<1> QED BY <1>1, <1>2, <1>3, <1>4, <1>5 DEF Next

LEMMA HonestStart == Init => Honest
<1> SUFFICES ASSUME Init PROVE Honest
  OBVIOUS
<1>1. \A e \in Entries : ~Runs(e)
  BY DEF Init, Runs, FreeEntry
<1>2. \A j \in Jobs : job[j].done = {} /\ job[j].status = "absent"
  BY DEF Init
<1> QED BY <1>1, <1>2 DEF Honest, OneRun, RunInv, CheckpointHonest, GapsAreRecorded

LEMMA HonestInvariant == ASSUME Alone PROVE Spec /\ []OneRun => []Honest
<1>1. Honest /\ (TypeOK /\ Scoped /\ ScopeKept) /\ (TypeOK /\ Scoped /\ ScopeKept)'
        /\ OneRun' /\ [Next]_vars => Honest'
  BY HonestStep
<1> QED BY <1>1, HonestStart, ScopeInvariant, PTL DEF Spec

\* For one worker slot: deliveries are executed one at a time, so what follows holds
\* without its hypothesis. (SUMMARY_CONCURRENCY)
THEOREM OneSlotOneRun == ASSUME Alone, OneSlot PROVE Spec => []OneRun
<1>1. Honest /\ (TypeOK /\ Scoped /\ ScopeKept) /\ (TypeOK /\ Scoped /\ ScopeKept)'
        /\ [Next]_vars => Honest'
  BY HonestStep
<1>2. Honest => OneRun
  BY DEF Honest
<1> QED BY <1>1, <1>2, HonestStart, ScopeInvariant, PTL DEF Spec

\* For all sections, deliveries and worker slots, and a generation whose deliveries are
\* executed one at a time: what the checkpoint counts as completed is there, with
\* content, after any pauses, errors, crashes and resumes, and whatever order the saves
\* land in. (saveCheckpoint, and the completedSections a resumed run skips)
THEOREM CheckpointIsHonest == ASSUME Alone PROVE Spec /\ []OneRun => []CheckpointHonest
<1>1. Honest => CheckpointHonest
  BY DEF Honest
<1> QED BY <1>1, HonestInvariant, PTL

\* In the same setting: a complete generation accounts for every section, by its
\* content, by a placeholder with a recorded gap, or by the budget's recorded cut.
\* (recordMissingSection, recordFailedSectionGap, budget_degraded)
THEOREM GapsAreNamed == ASSUME Alone PROVE Spec /\ []OneRun => []GapsAreRecorded
<1>1. Honest => GapsAreRecorded
  BY DEF Honest
<1> QED BY <1>1, HonestInvariant, PTL
=============================================================================
