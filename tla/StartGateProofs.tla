--------------------------- MODULE StartGateProofs ---------------------------
(***************************************************************************)
(* Exclusiveness of starts, for every number of projects, users, requests  *)
(* and rows. What makes it inductive is what the locks stand for: a row    *)
(* nobody else sees yet belongs to the transaction that holds the lock of  *)
(* its project, and of its user for POST /analyze.                         *)
(***************************************************************************)
EXTENDS StartGate, FiniteSetTheorems, TLAPS

InTxn == {"open", "mine", "locked", "preparing"}

\* What a request carries from one statement to the next.
Carries(q) ==
  /\ request[q].at \in InTxn \union {"arrived"} => request[q].kind \in {"analyze", "push"}
  /\ request[q].kind = "analyze" =>
       request[q].user \in Users /\ \E t \in Targets : request[q].asks \subseteq {t}
  /\ request[q].at \in {"checked", "marking", "failing"} => request[q].row # NoRow
  /\ request[q].row # NoRow => Seen(request[q].row)
  /\ \A r \in request[q].left : Seen(r)

\* The locks a transaction holds at each of its places.
Locks(q) ==
  /\ request[q].at \in {"mine", "locked", "preparing"} /\ request[q].kind = "analyze" =>
       account[request[q].user] = q
  /\ request[q].at \in {"locked", "preparing"} => project[request[q].project].lock = q

\* What the credit check found is still so when the row is inserted.
Room(q) ==
  At(q, "preparing") /\ request[q].kind = "analyze" /\ request[q].asks # {} =>
    Cardinality(Started(request[q].user)) < MaxConcurrent

RequestInv(q) == Carries(q) /\ Locks(q) /\ Room(q)

\* A row that is there, and one that only its transaction sees.
Sound(r) ==
  /\ job[r].status # "absent" => job[r].project \in Projects
  /\ job[r].run # "none" => Seen(r)
  /\ job[r].held => IsActive(job[r].status) /\ job[r].kind = "analysis"
  /\ job[r].target \in Heads => job[r].asked = job[r].target

Hidden(r) ==
  job[r].txn # None =>
    /\ job[r].status # "absent"
    /\ project[job[r].project].lock = job[r].txn
    /\ job[r].via = "analyze" => job[r].user \in Users /\ account[job[r].user] = job[r].txn

RowInv(r) == Sound(r) /\ Hidden(r)

IInv == /\ TypeOK
        /\ \A q \in Requests : RequestInv(q)
        /\ \A r \in Rows : RowInv(r)
        /\ TuplesExclusive
        /\ CreditKept

-----------------------------------------------------------------------------
(* The initial states *)

LEMMA AbsentRow == Absent \in JobRow
  BY DEF Absent, JobRow

LEMMA NothingStarted ==
  ASSUME NEW u, \A r \in Rows : ~job[r].held
  PROVE  Cardinality(Started(u)) = 0
<1>1. Started(u) = {}
  BY DEF Started
<1> QED
  BY <1>1, FS_EmptySet

LEMMA InitHolds == Init => IInv
<1> SUFFICES ASSUME Init PROVE IInv
  OBVIOUS
<1>1. TypeOK
  <2>1. spent \in [clicks : 0..MaxClicks, faults : 0..MaxFaults]
    BY BoundsAssumption DEF Init
  <2> QED
    BY <2>1, AbsentRow DEF Init, TypeOK, Request
<1>2. \A q \in Requests : RequestInv(q)
  BY DEF Init, RequestInv, Carries, Locks, Room, At, Idle, InTxn, None, NoRow
<1>3. \A r \in Rows : RowInv(r)
  BY DEF Init, RowInv, Sound, Hidden, Absent, None
<1>4. TuplesExclusive
  BY DEF Init, TuplesExclusive, Absent
<1>5. \A r \in Rows : ~job[r].held
  BY DEF Init, Absent
<1>6. CreditKept
  BY <1>5, NothingStarted, LimitAssumption DEF CreditKept
<1> QED
  BY <1>1, <1>2, <1>3, <1>4, <1>6 DEF IInv

-----------------------------------------------------------------------------
(* Steps that start nothing *)

\* What is still held was held before, as the same run of the same target.
Tame(r) ==
  job'[r].held =>
    /\ job[r].held
    /\ job'[r].project = job[r].project /\ job'[r].user = job[r].user /\ job'[r].via = job[r].via
    /\ job'[r].asked = job'[r].target =>
         job[r].asked = job[r].target /\ job'[r].target = job[r].target

SeenKept == \A r \in Rows : Seen(r) => Seen(r)'

\* No lock of x is taken away.
KeepsLocks(x) == /\ \A p \in Projects : project[p].lock = x => project'[p].lock = x
                 /\ \A u \in Users : account[u] = x => account'[u] = x

LEMMA RowsFinite == \A S \in SUBSET Rows : IsFiniteSet(S)
<1>1. NumRows \in Int
  BY BoundsAssumption
<1>2. IsFiniteSet(Rows)
  BY <1>1, FS_Interval DEF Rows
<1> QED
  BY <1>2, FS_Subset

LEMMA StartedShrinks ==
  ASSUME \A r \in Rows : Tame(r), NEW u
  PROVE  /\ Started(u)' \subseteq Started(u)
         /\ Cardinality(Started(u)') \in Nat /\ Cardinality(Started(u)) \in Nat
         /\ Cardinality(Started(u)') <= Cardinality(Started(u))
<1>1. Started(u)' \subseteq Started(u)
  BY DEF Started, Tame
<1>2. IsFiniteSet(Started(u)) /\ IsFiniteSet(Started(u)')
  BY RowsFinite DEF Started
<1> QED
  BY <1>1, <1>2, FS_Subset, FS_CardinalityType

LEMMA RequestUntouched ==
  ASSUME TypeOK, \A r \in Rows : Tame(r), SeenKept,
         NEW x \in Requests, RequestInv(x), request'[x] = request[x], KeepsLocks(x)
  PROVE  RequestInv(x)'
<1>0. request[x] \in Request
  BY DEF TypeOK
<1>1. Carries(x)'
  <2>1. request[x].left \subseteq Rows /\ request[x].row \in Rows \union {NoRow}
    BY <1>0 DEF Request, Idle, NoRow
  <2>2. \A r \in Rows : Seen(r) => Seen(r)'
    BY DEF SeenKept
  <2> QED
    BY <2>1, <2>2 DEF Carries, RequestInv
<1>2. Locks(x)'
  <2>1. CASE request[x].at \in {"mine", "locked", "preparing"}
    <3>1. request[x].project \in Projects
      BY <1>0, <2>1 DEF Request, Idle
    <3>2. request[x].kind = "analyze" => request[x].user \in Users
      BY DEF RequestInv, Carries
    <3> QED
      BY <3>1, <3>2 DEF Locks, RequestInv, KeepsLocks
  <2> QED
    BY <2>1 DEF Locks
<1>3. Room(x)'
  <2> DEFINE u == request[x].user
  <2> SUFFICES ASSUME request[x].at = "preparing", request[x].kind = "analyze", request[x].asks # {}
               PROVE  Cardinality(Started(u)') < MaxConcurrent
    BY DEF Room, At, Started
  <2>1. Cardinality(Started(u)) < MaxConcurrent
    BY DEF Room, RequestInv, At
  <2>2. /\ Cardinality(Started(u)') \in Nat /\ Cardinality(Started(u)) \in Nat
        /\ Cardinality(Started(u)') <= Cardinality(Started(u))
    BY StartedShrinks
  <2> QED
    BY <2>1, <2>2, LimitAssumption
<1> QED
  BY <1>1, <1>2, <1>3 DEF RequestInv

LEMMA Preserved ==
  ASSUME IInv, TypeOK', \A r \in Rows : Tame(r), \A r \in Rows : RowInv(r)', SeenKept,
         \A x \in Requests : (request'[x] = request[x] /\ KeepsLocks(x)) \/ RequestInv(x)'
  PROVE  IInv'
<1>1. \A x \in Requests : RequestInv(x)'
  BY RequestUntouched DEF IInv
<1>2. TuplesExclusive'
  <2> SUFFICES ASSUME NEW r \in Rows, NEW x \in Rows, r # x, job'[r].held, job'[x].held,
                      job'[r].asked = job'[r].target, job'[x].asked = job'[x].target,
                      job'[r].project = job'[x].project
               PROVE  job'[r].target # job'[x].target
    BY DEF TuplesExclusive, Unmoved
  <2>1. Tame(r) /\ Tame(x)
    OBVIOUS
  <2> QED
    BY <2>1 DEF Tame, IInv, TuplesExclusive, Unmoved
<1>3. CreditKept'
  <2> SUFFICES ASSUME NEW u \in Users PROVE Cardinality(Started(u)') <= MaxConcurrent
    BY DEF CreditKept
  <2>1. Cardinality(Started(u)) <= MaxConcurrent
    BY DEF IInv, CreditKept
  <2> QED
    BY <2>1, StartedShrinks, LimitAssumption
<1> QED
  BY <1>1, <1>2, <1>3 DEF IInv

-----------------------------------------------------------------------------
(* Steps that change rows everybody sees, or insert a generation *)

Statuses == {"queued", "running", "paused", "failed", "complete"}
Runs     == {"none", "waiting", "working", "finished", "leaving", "retrying"}

Changed(r) ==
  /\ Seen(r)
  /\ job'[r].status # "absent" /\ job'[r].txn = job[r].txn
  /\ job'[r].project = job[r].project /\ job'[r].user = job[r].user
  /\ job'[r].kind = job[r].kind /\ job'[r].via = job[r].via /\ job'[r].asked = job[r].asked
  /\ job'[r].held => job[r].held /\ IsActive(job'[r].status)
  /\ job'[r].target = job[r].target \/ (job[r].target \in Heads /\ job'[r].target \in Commits)

Born(r) ==
  /\ job[r].status = "absent"
  /\ job'[r].status # "absent" /\ job'[r].txn = None /\ ~job'[r].held
  /\ job'[r].project \in Projects /\ job'[r].asked = job'[r].target

Calm == /\ job' \in [Rows -> JobRow]
        /\ \A r \in Rows : job'[r] = job[r] \/ Changed(r) \/ Born(r)

\* No lock changes hands.
Steady == /\ project' \in [Projects -> [status : {"analyzing", "settled"}, lock : Requests \union {None}]]
          /\ \A p \in Projects : project'[p].lock = project[p].lock
          /\ account' = account

LEMMA CalmRows ==
  ASSUME IInv, Calm, Steady
  PROVE  /\ \A r \in Rows : Tame(r)
         /\ \A r \in Rows : RowInv(r)'
         /\ SeenKept
         /\ \A x \in Requests : KeepsLocks(x)
<1>1. \A x \in Requests : KeepsLocks(x)
  BY DEF Steady, KeepsLocks
<1>2. SeenKept
  BY DEF SeenKept, Calm, Changed, Born, Seen
<1>3. \A r \in Rows : Tame(r)
  <2> SUFFICES ASSUME NEW r \in Rows PROVE Tame(r)
    OBVIOUS
  <2>1. job[r].target \in Heads => job[r].asked \in Heads
    BY DEF IInv, RowInv, Sound
  <2>2. CASE job'[r] = job[r]
    BY <2>2 DEF Tame
  <2>3. CASE Changed(r)
    BY <2>1, <2>3, TargetAssumption DEF Tame, Changed
  <2>4. CASE Born(r)
    BY <2>4 DEF Tame, Born
  <2> QED
    BY <2>2, <2>3, <2>4 DEF Calm
<1>4. \A r \in Rows : RowInv(r)'
  <2> SUFFICES ASSUME NEW r \in Rows PROVE Sound(r)' /\ Hidden(r)'
    BY DEF RowInv
  <2>0. Sound(r) /\ Hidden(r) /\ job[r] \in JobRow
    BY DEF IInv, RowInv, TypeOK
  <2>1. CASE job'[r] = job[r]
    <3>1. Sound(r)'
      BY <2>0, <2>1 DEF Sound, Seen
    <3>2. job[r].status # "absent" => job[r].project \in Projects
      BY <2>0 DEF Sound
    <3>3. Hidden(r)'
      BY <2>0, <2>1, <3>2 DEF Hidden, Steady
    <3> QED
      BY <3>1, <3>3
  <2>2. CASE Changed(r)
    <3>1. Sound(r)'
      BY <2>0, <2>2, TargetAssumption DEF Sound, Seen, Changed
    <3>2. Hidden(r)'
      BY <2>2 DEF Hidden, Seen, Changed
    <3> QED
      BY <3>1, <3>2
  <2>3. CASE Born(r)
    BY <2>3 DEF Born, Sound, Hidden, Seen
  <2> QED
    BY <2>1, <2>2, <2>3 DEF Calm
<1> QED
  BY <1>1, <1>2, <1>3, <1>4

LEMMA SameRows ==
  ASSUME TypeOK, job' = job
  PROVE  Calm
  BY DEF Calm, TypeOK

LEMMA MovedType ==
  ASSUME NEW j \in JobRow, NEW s \in Statuses, NEW run \in Runs, NEW b \in BOOLEAN
  PROVE  [j EXCEPT !.status = s, !.run = run, !.held = b] \in JobRow
<1>1. \A x \in JobRow : [x EXCEPT !.status = s] \in JobRow
  BY DEF JobRow, Statuses
<1>2. \A x \in JobRow : [x EXCEPT !.run = run] \in JobRow
  BY DEF JobRow, Runs
<1>3. \A x \in JobRow : [x EXCEPT !.held = b] \in JobRow
  BY DEF JobRow
<1> HIDE DEF JobRow
<1> QED
  BY <1>1, <1>2, <1>3

LEMMA MovedRow ==
  ASSUME IInv, NEW r \in Rows, Seen(r), NEW s \in Statuses, NEW run \in Runs,
         job' = [job EXCEPT ![r] = Moved(r, s, run)]
  PROVE  Calm
<1>0. job[r] \in JobRow /\ job \in [Rows -> JobRow]
  BY DEF IInv, TypeOK
<1>1. Moved(r, s, run) \in JobRow
  <2>1. (job[r].held /\ IsActive(s)) \in BOOLEAN
    OBVIOUS
  <2> QED
    BY <1>0, <2>1, MovedType DEF Moved
<1>2. job' \in [Rows -> JobRow] /\ job'[r] = Moved(r, s, run) /\ \A x \in Rows : x # r => job'[x] = job[x]
  BY <1>0, <1>1
<1>3. Changed(r)
  BY <1>0, <1>2, ZenonT(40) DEF Changed, Moved, JobRow, Statuses
<1> QED
  BY <1>2, <1>3 DEF Calm

LEMMA SetRow ==
  ASSUME IInv, NEW r \in Rows, Seen(r), NEW s \in Statuses, SetStatus(r, s)
  PROVE  Calm
<1>1. job[r].run \in Runs
  BY DEF IInv, TypeOK, JobRow, Runs
<1> QED
  BY <1>1, MovedRow DEF SetStatus

LEMMA RunRow ==
  ASSUME IInv, NEW r \in Rows, Seen(r), NEW run \in Runs, job' = [job EXCEPT ![r].run = run]
  PROVE  Calm
<1>0. job[r] \in JobRow /\ job \in [Rows -> JobRow] /\ Sound(r)
  BY DEF IInv, TypeOK, RowInv
<1>1. [job[r] EXCEPT !.run = run] \in JobRow
  BY <1>0 DEF JobRow, Runs
<1>2. /\ job' \in [Rows -> JobRow] /\ job'[r] = [job[r] EXCEPT !.run = run]
      /\ \A x \in Rows : x # r => job'[x] = job[x]
  BY <1>0, <1>1
<1>3. Changed(r)
  BY <1>0, <1>2 DEF Changed, JobRow, Seen, Sound
<1> QED
  BY <1>2, <1>3 DEF Calm

LEMMA GenerationType ==
  ASSUME NEW u \in Users \union {None}, NEW p \in Projects, NEW t \in Targets \union {None},
         NEW s \in {"queued", "failed"}, NEW run \in {"none", "waiting"}
  PROVE  Generation(u, p, t, s, run) \in JobRow
  BY DEF Generation, JobRow

LEMMA BornRow ==
  ASSUME IInv, NEW r \in Rows, job[r].status = "absent",
         NEW u \in Users \union {None}, NEW p \in Projects, NEW t \in Targets \union {None},
         NEW s \in {"queued", "failed"}, NEW run \in {"none", "waiting"},
         job' = [job EXCEPT ![r] = Generation(u, p, t, s, run)]
  PROVE  Calm /\ Seen(r)'
<1>0. Generation(u, p, t, s, run) \in JobRow /\ job \in [Rows -> JobRow]
  BY GenerationType DEF IInv, TypeOK
<1>1. /\ job' \in [Rows -> JobRow] /\ job'[r] = Generation(u, p, t, s, run)
      /\ \A x \in Rows : x # r => job'[x] = job[x]
  BY <1>0
<1>2. Born(r) /\ Seen(r)'
  BY <1>1 DEF Born, Generation, Seen
<1> QED
  BY <1>1, <1>2 DEF Calm

-----------------------------------------------------------------------------
(* Steps of one request, and of one run *)

Places == {"arrived", "open", "mine", "locked", "preparing", "checked",
           "inserting", "marking", "submitting", "failing", "answering"}

Others(q) == \A x \in Requests : x # q => request'[x] = request[x]

Books == /\ tally' \in [Requests \union Rows -> {None, "owed", "analyzing", "settled"}]
         /\ spent' \in [clicks : 0..MaxClicks, faults : 0..MaxFaults]

LEMMA SameBooks == ASSUME TypeOK, UNCHANGED <<tally, spent>> PROVE Books
  BY DEF TypeOK, Books

LEMMA SpentTyped ==
  ASSUME TypeOK, Click \/ Fault \/ UNCHANGED spent
  PROVE  spent' \in [clicks : 0..MaxClicks, faults : 0..MaxFaults]
<1>0. MaxClicks \in Nat /\ MaxFaults \in Nat /\ spent \in [clicks : 0..MaxClicks, faults : 0..MaxFaults]
  BY BoundsAssumption DEF TypeOK
<1>1. CASE Click
  BY <1>0, <1>1 DEF Click
<1>2. CASE Fault
  BY <1>0, <1>2 DEF Fault
<1>3. CASE UNCHANGED spent
  BY <1>0, <1>3
<1> QED
  BY <1>1, <1>2, <1>3

LEMMA TallyTyped ==
  ASSUME TypeOK, NEW a, NEW v \in {None, "owed", "analyzing", "settled"},
         tally' = [tally EXCEPT ![a] = v] \/ UNCHANGED tally
  PROVE  tally' \in [Requests \union Rows -> {None, "owed", "analyzing", "settled"}]
  BY DEF TypeOK

LEMMA RequestStep ==
  ASSUME IInv, NEW q \in Requests, Calm, Steady, Books,
         request' \in [Requests -> Request], Others(q), RequestInv(q)'
  PROVE  IInv'
<1>1. TypeOK'
  <2>1. job' \in [Rows -> JobRow]
    BY DEF Calm
  <2>2. /\ project' \in [Projects -> [status : {"analyzing", "settled"}, lock : Requests \union {None}]]
        /\ account' \in [Users -> Requests \union {None}]
    BY DEF Steady, IInv, TypeOK
  <2> QED
    BY <2>1, <2>2 DEF TypeOK, Books
<1>2. \A x \in Requests : (request'[x] = request[x] /\ KeepsLocks(x)) \/ RequestInv(x)'
  BY CalmRows DEF Others
<1> QED
  BY <1>1, <1>2, CalmRows, Preserved

LEMMA SteadyLocks == ASSUME TypeOK, UNCHANGED <<project, account>> PROVE Steady
  BY DEF TypeOK, Steady

LEMMA RunStep ==
  ASSUME IInv, Calm, Steady, Books, UNCHANGED request
  PROVE  IInv'
<1>1. TypeOK'
  BY DEF Calm, Steady, Books, IInv, TypeOK
<1>2. \A x \in Requests : (request'[x] = request[x] /\ KeepsLocks(x)) \/ RequestInv(x)'
  BY CalmRows
<1> QED
  BY <1>1, <1>2, CalmRows, Preserved

LEMMA Goes ==
  ASSUME TypeOK, NEW q \in Requests, ~At(q, "idle"), NEW place \in Places, Go(q, place)
  PROVE  /\ request' \in [Requests -> Request] /\ Others(q)
         /\ request'[q] = [request[q] EXCEPT !.at = place]
<1>0. request \in [Requests -> Request] /\ request[q] # Idle
  BY DEF TypeOK, At, Idle
<1>1. [request[q] EXCEPT !.at = place] \in Request
  BY <1>0 DEF Request, Places
<1>2. request' = [request EXCEPT ![q] = [request[q] EXCEPT !.at = place]]
  BY DEF Go
<1> QED
  BY <1>0, <1>1, <1>2 DEF Others

LEMMA IdleIsFine ==
  ASSUME NEW q \in Requests, request'[q] = Idle
  PROVE  RequestInv(q)'
  BY DEF RequestInv, Carries, Locks, Room, At, Idle, InTxn, None, NoRow

LEMMA ProceedsOn ==
  ASSUME TypeOK, NEW q \in Requests, NEW left \in SUBSET Rows, left = {} \/ ~At(q, "idle"),
         Carries(q), \A r \in left : Seen(r)', Proceeds(q, left)
  PROVE  request' \in [Requests -> Request] /\ Others(q) /\ RequestInv(q)'
<1>0. request \in [Requests -> Request] /\ request[q] \in Request
  BY DEF TypeOK
<1>1. CASE left = {}
  <2>1. request' = [request EXCEPT ![q] = Idle]
    BY <1>1 DEF Proceeds, Onward
  <2>2. Idle \in Request
    BY DEF Request
  <2>3. request' \in [Requests -> Request] /\ Others(q) /\ request'[q] = Idle
    BY <1>0, <2>1, <2>2 DEF Others
  <2> QED
    BY <2>3, IdleIsFine
<1>2. CASE left # {}
  <2> DEFINE to == [request[q] EXCEPT !.at = "submitting", !.left = left, !.row = NoRow]
  <2>1. request' = [request EXCEPT ![q] = to]
    BY <1>2 DEF Proceeds, Onward
  <2>2. request[q] # Idle
    BY <1>2 DEF At, Idle
  <2>3. to \in Request
    BY <1>0, <2>2 DEF Request
  <2>4. /\ to.at = "submitting" /\ to.kind = request[q].kind /\ to.user = request[q].user
        /\ to.asks = request[q].asks /\ to.left = left /\ to.row = NoRow
    BY <1>0, <2>2 DEF Request
  <2> HIDE DEF to
  <2>5. request' \in [Requests -> Request] /\ Others(q) /\ request'[q] = to
    BY <1>0, <2>1, <2>3 DEF Others
  <2>6. Carries(q)'
    BY <2>4, <2>5 DEF Carries, InTxn
  <2>7. Locks(q)' /\ Room(q)'
    BY <2>4, <2>5 DEF Locks, Room, At
  <2> QED
    BY <2>5, <2>6, <2>7 DEF RequestInv
<1> QED
  BY <1>1, <1>2

LEMMA Replaces ==
  ASSUME TypeOK, NEW q \in Requests, NEW a \in Request, request' = [request EXCEPT ![q] = a]
  PROVE  request' \in [Requests -> Request] /\ Others(q) /\ request'[q] = a
  BY DEF TypeOK, Others

-----------------------------------------------------------------------------
(* Requests that only look, or go on without touching a row or a lock *)

LEMMA LookStep ==
  ASSUME IInv, NEW q \in Requests, UNCHANGED <<job, project, account>>, Books,
         request' \in [Requests -> Request], Others(q), RequestInv(q)'
  PROVE  IInv'
  BY SameRows, SteadyLocks, RequestStep DEF IInv

LEMMA ArriveSafe ==
  ASSUME IInv, NEW q \in Requests, NEW u \in Users, NEW p \in Projects, NEW t \in Targets,
         Arrive(q, u, p, t)
  PROVE  IInv'
<1> DEFINE a == [Idle EXCEPT !.at = "arrived", !.kind = "analyze", !.user = u,
                             !.project = p, !.asks = {t}]
<1>1. /\ request' = [request EXCEPT ![q] = a] /\ Click
      /\ UNCHANGED <<job, project, account, tally>>
  BY DEF Arrive
<1>2. a \in Request
  BY DEF Request, Idle, NoRow
<1>3. /\ a.at = "arrived" /\ a.kind = "analyze" /\ a.user = u /\ a.asks = {t}
      /\ a.left = {} /\ a.row = NoRow
  BY DEF Idle
<1> HIDE DEF a
<1>4. request' \in [Requests -> Request] /\ Others(q) /\ request'[q] = a
  BY <1>1, <1>2, Replaces DEF IInv
<1>5. RequestInv(q)'
  BY <1>3, <1>4 DEF RequestInv, Carries, Locks, Room, At, InTxn
<1>6. Books
  BY <1>1, SpentTyped, TallyTyped DEF Books, IInv
<1> QED
  BY <1>1, <1>4, <1>5, <1>6, LookStep

LEMMA PushSafe ==
  ASSUME IInv, NEW q \in Requests, NEW p \in Projects, NEW ts \in SUBSET Commits, Push(q, p, ts)
  PROVE  IInv'
<1> DEFINE a == [Idle EXCEPT !.at = "arrived", !.kind = "push", !.user = Owner[p],
                             !.project = p, !.asks = ts]
<1>1. /\ request' = [request EXCEPT ![q] = a] /\ Click
      /\ UNCHANGED <<job, project, account, tally>>
  BY DEF Push
<1>2. a \in Request
  BY OwnerAssumption DEF Request, Idle, NoRow, Targets
<1>3. a.at = "arrived" /\ a.kind = "push" /\ a.left = {} /\ a.row = NoRow
  BY DEF Idle
<1> HIDE DEF a
<1>4. request' \in [Requests -> Request] /\ Others(q) /\ request'[q] = a
  BY <1>1, <1>2, Replaces DEF IInv
<1>5. RequestInv(q)'
  BY <1>3, <1>4 DEF RequestInv, Carries, Locks, Room, At, InTxn
<1>6. Books
  BY <1>1, SpentTyped, TallyTyped DEF Books, IInv
<1> QED
  BY <1>1, <1>4, <1>5, <1>6, LookStep

LEMMA ResumeCheckSafe ==
  ASSUME IInv, NEW q \in Requests, NEW u \in Users, NEW r \in Rows, ResumeCheck(q, u, r)
  PROVE  IInv'
<1> DEFINE a == [Idle EXCEPT !.at = "checked", !.kind = "resume", !.user = u,
                             !.project = job[r].project, !.row = r]
<1>1. /\ request' = [request EXCEPT ![q] = a] /\ Click /\ Seen(r)
      /\ UNCHANGED <<job, project, account, tally>>
  BY DEF ResumeCheck
<1>2. a \in Request
  <2>1. job[r].project \in Projects
    BY <1>1 DEF IInv, RowInv, Sound, Seen
  <2> QED
    BY <2>1 DEF Request, Idle
<1>3. a.at = "checked" /\ a.kind = "resume" /\ a.left = {} /\ a.row = r /\ r # NoRow
  BY BoundsAssumption DEF Idle, Rows, NoRow
<1> HIDE DEF a
<1>4. request' \in [Requests -> Request] /\ Others(q) /\ request'[q] = a
  BY <1>1, <1>2, Replaces DEF IInv
<1>5. RequestInv(q)'
  BY <1>1, <1>3, <1>4 DEF RequestInv, Carries, Locks, Room, At, InTxn, Seen
<1>6. Books
  BY <1>1, SpentTyped, TallyTyped DEF Books, IInv
<1> QED
  BY <1>1, <1>4, <1>5, <1>6, LookStep

LEMMA GenerateCheckSafe ==
  ASSUME IInv, NEW q \in Requests, NEW u \in Users, NEW p \in Projects, NEW t \in Targets,
         GenerateCheck(q, u, p, t)
  PROVE  IInv'
<1> DEFINE a == [Idle EXCEPT !.at = "inserting", !.kind = "generate", !.user = u,
                             !.project = p, !.asks = {t}]
<1>1. /\ request' = [request EXCEPT ![q] = a] /\ Click
      /\ UNCHANGED <<job, project, account, tally>>
  BY DEF GenerateCheck
<1>2. a \in Request
  BY DEF Request, Idle, NoRow
<1>3. a.at = "inserting" /\ a.kind = "generate" /\ a.left = {} /\ a.row = NoRow
  BY DEF Idle
<1> HIDE DEF a
<1>4. request' \in [Requests -> Request] /\ Others(q) /\ request'[q] = a
  BY <1>1, <1>2, Replaces DEF IInv
<1>5. RequestInv(q)'
  BY <1>3, <1>4 DEF RequestInv, Carries, Locks, Room, At, InTxn
<1>6. Books
  BY <1>1, SpentTyped, TallyTyped DEF Books, IInv
<1> QED
  BY <1>1, <1>4, <1>5, <1>6, LookStep

\* A request that ends, or submits rows everybody sees.
LEMMA LeaveStep ==
  ASSUME IInv, NEW q \in Requests, NEW left \in SUBSET Rows, left = {} \/ ~At(q, "idle"),
         \A r \in left : Seen(r), Proceeds(q, left), Calm, Steady, Books
  PROVE  IInv'
<1>1. \A r \in left : Seen(r)'
  BY CalmRows DEF SeenKept
<1>2. Carries(q) /\ TypeOK
  BY DEF IInv, RequestInv
<1> QED
  BY <1>1, <1>2, ProceedsOn, RequestStep

LEMMA OwnLeft ==
  ASSUME IInv, NEW q \in Requests
  PROVE  /\ request[q].left \in SUBSET Rows
         /\ \A r \in request[q].left : Seen(r)
         /\ request[q].left = {} \/ ~At(q, "idle")
<1>1. request[q] \in Request /\ Carries(q)
  BY DEF IInv, TypeOK, RequestInv
<1> QED
  BY <1>1 DEF Request, Idle, At, Carries

LEMMA ConnectSafe ==
  ASSUME IInv, NEW q \in Requests, Connect(q)
  PROVE  IInv'
<1>1. /\ At(q, "arrived") /\ UNCHANGED <<job, project, account, tally, spent>>
      /\ TypeOK /\ RequestInv(q) /\ Calm /\ Steady /\ Books
  BY SameRows, SteadyLocks, SameBooks DEF Connect, IInv
<1>2. CASE Go(q, "open")
  <2>1. /\ request' \in [Requests -> Request] /\ Others(q)
        /\ request'[q] = [request[q] EXCEPT !.at = "open"]
    BY <1>1, <1>2, Goes DEF At, Places
  <2>2. request[q] # Idle /\ request[q] \in Request
    BY <1>1 DEF At, Idle, TypeOK
  <2>3. /\ request'[q].at = "open" /\ request'[q].kind = request[q].kind
        /\ request'[q].user = request[q].user /\ request'[q].asks = request[q].asks
        /\ request'[q].left = request[q].left /\ request'[q].row = request[q].row
    BY <2>1, <2>2 DEF Request
  <2>4. RequestInv(q)'
    BY <1>1, <2>3 DEF RequestInv, Carries, Locks, Room, At, InTxn, Seen
  <2> QED
    BY <1>1, <2>1, <2>4, RequestStep
<1>3. CASE Proceeds(q, {})
  BY <1>1, <1>3, LeaveStep
<1> QED
  BY <1>2, <1>3 DEF Connect

LEMMA InsertThrowsSafe ==
  ASSUME IInv, NEW q \in Requests, InsertThrows(q), Fault \/ UNCHANGED spent
  PROVE  IInv'
<1>1. Calm /\ Steady /\ Books
  BY SameRows, SteadyLocks, SpentTyped, TallyTyped DEF InsertThrows, IInv, Books
<1> QED
  BY <1>1, LeaveStep DEF InsertThrows

LEMMA FailRowTimesOutSafe ==
  ASSUME IInv, NEW q \in Requests, FailRowTimesOut(q)
  PROVE  IInv'
<1>1. Calm /\ Steady /\ Books
  BY SameRows, SteadyLocks, SameBooks DEF FailRowTimesOut, IInv
<1> QED
  BY <1>1, OwnLeft, LeaveStep DEF FailRowTimesOut

LEMMA CountSafe ==
  ASSUME IInv, NEW a \in Requests \union Rows, Count(a)
  PROVE  IInv'
<1>1. CountOf(ProjectOf(a)) \in {None, "owed", "analyzing", "settled"}
  BY DEF CountOf
<1>2. Books
  BY <1>1, TallyTyped, SpentTyped DEF Count, IInv, Books
<1> QED
  BY <1>2, SameRows, SteadyLocks, RunStep DEF Count, IInv

-----------------------------------------------------------------------------
(* The recompute of a project's status *)

LEMMA StatusSteady ==
  ASSUME TypeOK, NEW p, NEW v \in {"analyzing", "settled"},
         project' = [project EXCEPT ![p].status = v], UNCHANGED account
  PROVE  Steady
<1>0. project \in [Projects -> [status : {"analyzing", "settled"}, lock : Requests \union {None}]]
  BY DEF TypeOK
<1>1. /\ project' \in [Projects -> [status : {"analyzing", "settled"}, lock : Requests \union {None}]]
      /\ \A x \in Projects : project'[x].lock = project[x].lock
  <2>1. CASE p \in Projects
    <3>1. [project[p] EXCEPT !.status = v] \in [status : {"analyzing", "settled"}, lock : Requests \union {None}]
      BY <1>0, <2>1
    <3>2. [project[p] EXCEPT !.status = v].lock = project[p].lock
      BY <1>0, <2>1
    <3>3. project' = [project EXCEPT ![p] = [project[p] EXCEPT !.status = v]]
      BY <1>0, <2>1
    <3> QED
      BY <1>0, <2>1, <3>1, <3>2, <3>3
  <2>2. CASE p \notin Projects
    BY <1>0, <2>2
  <2> QED
    BY <2>1, <2>2
<1> QED
  BY <1>1 DEF Steady

LEMMA ResumesRow ==
  ASSUME IInv, NEW a \in Rows, a \notin Requests, Resumes(a)
  PROVE  Calm /\ UNCHANGED request
<1> DEFINE run == IF job[a].run = "retrying" THEN "waiting" ELSE "none"
<1>0. job[a] \in JobRow /\ job \in [Rows -> JobRow] /\ Sound(a)
  BY DEF IInv, TypeOK, RowInv
<1>1. job' = [job EXCEPT ![a].run = run] /\ UNCHANGED request
  BY DEF Resumes
<1>2. run \in Runs
  BY DEF Runs
<1> HIDE DEF run
<1>3. CASE Seen(a)
  BY <1>1, <1>2, <1>3, RunRow
<1>4. CASE ~Seen(a)
  <2>1. job[a].run = "none"
    BY <1>0, <1>4 DEF Sound
  <2>2. run = "none"
    BY <2>1 DEF run
  <2>3. [job[a] EXCEPT !.run = "none"] = job[a]
    BY <1>0, <2>1 DEF JobRow
  <2>4. job' = job
    BY <1>0, <1>1, <2>2, <2>3
  <2> QED
    BY <1>1, <2>4, SameRows DEF IInv
<1> QED
  BY <1>1, <1>3, <1>4

LEMMA ResumesStep ==
  ASSUME IInv, NEW a \in Requests \union Rows, Resumes(a), Steady, Books
  PROVE  IInv'
<1>1. CASE a \in Requests
  BY <1>1, OwnLeft, LeaveStep, SameRows DEF Resumes, IInv
<1>2. CASE a \notin Requests
  BY <1>2, ResumesRow, RunStep
<1> QED
  BY <1>1, <1>2

LEMMA CountWriteSafe ==
  ASSUME IInv, NEW a \in Requests \union Rows, CountWrite(a)
  PROVE  IInv'
<1>1. Steady
  BY StatusSteady DEF CountWrite, IInv
<1>2. Books
  BY TallyTyped, SpentTyped DEF CountWrite, IInv, Books
<1> QED
  BY <1>1, <1>2, ResumesStep DEF CountWrite

LEMMA CountTimesOutSafe ==
  ASSUME IInv, NEW q \in Requests, CountTimesOut(q)
  PROVE  IInv'
<1>1. Steady /\ Books
  BY SteadyLocks, TallyTyped, SpentTyped DEF CountTimesOut, IInv, Books
<1> QED
  BY <1>1, ResumesStep DEF CountTimesOut

-----------------------------------------------------------------------------
(* The submission, and the routes that take no lock *)

LEMMA DeliveredRow ==
  ASSUME IInv, NEW r \in Rows, Seen(r), job' = Delivered(r)
  PROVE  Calm
<1> DEFINE run == IF job[r].run = "none" THEN "waiting" ELSE job[r].run
<1>1. run \in Runs
  BY DEF IInv, TypeOK, JobRow, Runs
<1>2. job' = [job EXCEPT ![r].run = run]
  BY DEF Delivered
<1> HIDE DEF run
<1> QED
  BY <1>1, <1>2, RunRow

LEMMA SubmitSafe ==
  ASSUME IInv, NEW q \in Requests, NEW r \in Rows, Submit(q, r)
  PROVE  IInv'
<1>1. Seen(r) /\ request[q].left \ {r} \in SUBSET Rows /\ \A x \in request[q].left \ {r} : Seen(x)
  BY OwnLeft DEF Submit
<1>2. Calm /\ Steady /\ Books
  BY <1>1, DeliveredRow, SteadyLocks, SameBooks DEF Submit, IInv
<1> QED
  BY <1>1, <1>2, LeaveStep DEF Submit, At

\* A request that was not idle goes to a place outside every transaction.
LEMMA MovesOn ==
  ASSUME IInv, NEW q \in Requests, ~At(q, "idle"), Calm, Steady, Books,
         NEW left \in SUBSET Rows, NEW row \in Rows, Seen(row), \A r \in left : Seen(r),
         NEW place \in {"failing", "answering", "marking"},
         request' = [request EXCEPT ![q] = [request[q] EXCEPT !.at = place, !.left = left, !.row = row]]
  PROVE  IInv'
<1> DEFINE to == [request[q] EXCEPT !.at = place, !.left = left, !.row = row]
<1>0. request[q] \in Request /\ request[q] # Idle /\ Carries(q)
  BY DEF IInv, TypeOK, At, Idle, RequestInv
<1>1. to \in Request
  BY <1>0 DEF Request
<1>2. /\ to.at = place /\ to.kind = request[q].kind /\ to.user = request[q].user
      /\ to.asks = request[q].asks /\ to.left = left /\ to.row = row
  BY <1>0 DEF Request
<1>3. row # NoRow
  BY BoundsAssumption DEF Rows, NoRow
<1> HIDE DEF to
<1>4. request' \in [Requests -> Request] /\ Others(q) /\ request'[q] = to
  BY <1>1, Replaces DEF IInv, to
<1>5. Seen(row)' /\ \A r \in left : Seen(r)'
  BY CalmRows DEF SeenKept
<1>6. Carries(q)'
  BY <1>0, <1>2, <1>3, <1>4, <1>5 DEF Carries, InTxn, Seen
<1>7. Locks(q)' /\ Room(q)'
  BY <1>2, <1>4 DEF Locks, Room, At
<1> QED
  BY <1>4, <1>6, <1>7, RequestStep DEF RequestInv

LEMMA SubmitThrowsSafe ==
  ASSUME IInv, NEW q \in Requests, NEW r \in Rows, SubmitThrows(q, r)
  PROVE  IInv'
<1>1. Seen(r) /\ request[q].left \ {r} \in SUBSET Rows /\ \A x \in request[q].left \ {r} : Seen(x)
  BY OwnLeft DEF SubmitThrows
<1>2. Calm
  BY <1>1, DeliveredRow, SameRows DEF SubmitThrows, IInv
<1>3. Steady /\ Books
  BY SteadyLocks, SpentTyped, TallyTyped DEF SubmitThrows, IInv, Books
<1>4. request' = [request EXCEPT ![q] =
        [request[q] EXCEPT !.at = "failing", !.left = request[q].left \ {r}, !.row = r]]
  <2>1. request' = [request EXCEPT ![q].at = "failing", ![q].left = request[q].left \ {r}, ![q].row = r]
    BY DEF SubmitThrows
  <2>2. request \in [Requests -> Request]
    BY DEF IInv, TypeOK
  <2> QED
    BY <2>1, <2>2
<1>5. ~At(q, "idle")
  BY DEF SubmitThrows, At
<1> QED
  BY <1>1, <1>2, <1>3, <1>4, <1>5, MovesOn

LEMMA OwnRow ==
  ASSUME IInv, NEW q \in Requests, request[q].at \in {"checked", "marking", "failing"}
  PROVE  /\ request[q].row \in Rows /\ Seen(request[q].row)
         /\ request[q].project \in Projects
<1>1. request[q] \in Request /\ Carries(q)
  BY DEF IInv, TypeOK, RequestInv
<1> QED
  BY <1>1 DEF Request, Idle, Carries

LEMMA GoesOn ==
  ASSUME IInv, NEW q \in Requests, request[q].at \in {"checked", "marking", "failing"},
         NEW place \in {"answering", "marking"}, Go(q, place), Calm, Steady, Books
  PROVE  IInv'
<1> DEFINE left == request[q].left
           row  == request[q].row
<1>1. request[q] \in Request /\ request[q] # Idle /\ ~At(q, "idle") /\ request \in [Requests -> Request]
  BY DEF IInv, TypeOK, Idle, At
<1>2. row \in Rows /\ Seen(row) /\ left \in SUBSET Rows /\ \A r \in left : Seen(r)
  BY OwnRow, OwnLeft
<1>3. [request[q] EXCEPT !.at = place, !.left = left, !.row = row] = [request[q] EXCEPT !.at = place]
  BY <1>1 DEF Request
<1>4. request' = [request EXCEPT ![q] = [request[q] EXCEPT !.at = place, !.left = left, !.row = row]]
  BY <1>1, <1>3 DEF Go
<1> QED
  BY <1>1, <1>2, <1>4, MovesOn

LEMMA FailRowSafe ==
  ASSUME IInv, NEW q \in Requests, FailRow(q)
  PROVE  IInv'
<1>1. At(q, "failing") /\ Go(q, "answering") /\ request[q].row \in Rows /\ Seen(request[q].row)
  BY OwnRow DEF FailRow, At
<1>2. Calm
  BY <1>1, SetRow, SameRows DEF FailRow, IInv, Statuses
<1>3. Steady /\ Books
  BY SteadyLocks, SpentTyped, TallyTyped DEF FailRow, IInv, Books
<1> QED
  BY <1>1, <1>2, <1>3, GoesOn DEF At

LEMMA ResumeWriteSafe ==
  ASSUME IInv, NEW q \in Requests, ResumeWrite(q)
  PROVE  IInv'
<1>1. At(q, "checked") /\ request[q].row \in Rows /\ Seen(request[q].row)
  BY OwnRow DEF ResumeWrite, At
<1>2. Calm
  BY <1>1, SetRow DEF ResumeWrite, Statuses
<1>3. Steady /\ Books
  BY SteadyLocks, SameBooks DEF ResumeWrite, IInv
<1>4. CASE Go(q, "marking")
  BY <1>1, <1>2, <1>3, <1>4, GoesOn DEF At
<1>5. CASE Proceeds(q, {request[q].row})
  BY <1>1, <1>2, <1>3, <1>5, LeaveStep DEF At
<1> QED
  BY <1>4, <1>5 DEF ResumeWrite

LEMMA ResumeMarkSafe ==
  ASSUME IInv, NEW q \in Requests, ResumeMark(q)
  PROVE  IInv'
<1>1. At(q, "marking") /\ request[q].row \in Rows /\ Seen(request[q].row)
  BY OwnRow DEF ResumeMark, At
<1>2. Calm /\ Books
  BY SameRows, SameBooks DEF ResumeMark, IInv
<1>3. Steady
  BY StatusSteady DEF ResumeMark, IInv
<1> QED
  BY <1>1, <1>2, <1>3, LeaveStep DEF ResumeMark, At

LEMMA GenerateInsertSafe ==
  ASSUME IInv, NEW q \in Requests, NEW r \in Rows, GenerateInsert(q, r)
  PROVE  IInv'
<1>1. /\ At(q, "inserting") /\ ~At(q, "idle") /\ Proceeds(q, {r}) /\ job[r].status = "absent"
      /\ TypeOK /\ Carries(q)
  BY DEF GenerateInsert, NextRow, At, IInv, RequestInv
<1>2. request[q] \in Request /\ request[q] # Idle
  BY <1>1 DEF TypeOK, At, Idle
<1>3. PICK t \in request[q].asks :
        job' = [job EXCEPT ![r] = Generation(request[q].user, request[q].project, t, "queued", "none")]
  BY DEF GenerateInsert
<1>4. request[q].user \in Users \union {None} /\ request[q].project \in Projects /\ t \in Targets
  BY <1>2 DEF Request
<1>5. Calm /\ Seen(r)'
  BY <1>1, <1>3, <1>4, BornRow
<1>6. Steady /\ Books
  BY SteadyLocks, SameBooks DEF GenerateInsert, IInv
<1>7. request' \in [Requests -> Request] /\ Others(q) /\ RequestInv(q)'
  BY <1>1, <1>5, ProceedsOn
<1> QED
  BY <1>5, <1>6, <1>7, RequestStep

\* A request that has written one row and owes the recompute.
LEMMA AnswersStep ==
  ASSUME IInv, NEW q \in Requests, NEW r \in Rows, Seen(r), NEW kind \in {"click", "sweep"},
         Calm, Steady, Books,
         request' = [request EXCEPT ![q] =
           [Idle EXCEPT !.at = "answering", !.kind = kind, !.project = job[r].project]]
  PROVE  IInv'
<1> DEFINE a == [Idle EXCEPT !.at = "answering", !.kind = kind, !.project = job[r].project]
<1>1. job[r].project \in Projects
  BY DEF IInv, RowInv, Sound, Seen
<1>2. a \in Request
  BY <1>1 DEF Request, Idle, NoRow
<1>3. a.at = "answering" /\ a.kind = kind /\ a.left = {} /\ a.row = NoRow
  BY DEF Idle
<1> HIDE DEF a
<1>4. request' \in [Requests -> Request] /\ Others(q) /\ request'[q] = a
  BY <1>2, Replaces DEF IInv, a
<1>5. RequestInv(q)'
  BY <1>3, <1>4 DEF RequestInv, Carries, Locks, Room, At, InTxn
<1> QED
  BY <1>4, <1>5, RequestStep

LEMMA HaltSafe ==
  ASSUME IInv, NEW q \in Requests, NEW r \in Rows, NEW s \in {"paused", "failed"}, Halt(q, r, s)
  PROVE  IInv'
<1>1. Seen(r) /\ Calm
  BY SetRow DEF Halt, Statuses
<1>2. Steady /\ Books
  BY SteadyLocks, SpentTyped, TallyTyped DEF Halt, IInv, Books
<1> QED
  BY <1>1, <1>2, AnswersStep DEF Halt

LEMMA SweepSafe ==
  ASSUME IInv, NEW q \in Requests, NEW r \in Rows, Sweep(q, r)
  PROVE  IInv'
<1>1. Seen(r) /\ Calm
  BY SetRow, MovedRow DEF Sweep, Statuses, Runs
<1>2. Steady /\ Books
  BY SteadyLocks, SpentTyped, TallyTyped DEF Sweep, IInv, Books
<1> QED
  BY <1>1, <1>2, AnswersStep DEF Sweep

-----------------------------------------------------------------------------
(* Runs *)

\* A step of a run that leaves the locks and the requests alone.
LEMMA WorkStep ==
  ASSUME IInv, Calm, UNCHANGED <<project, account, request>>,
         NEW a, NEW v \in {None, "owed"},
         tally' = [tally EXCEPT ![a] = v] \/ UNCHANGED tally,
         Fault \/ UNCHANGED spent
  PROVE  IInv'
<1>1. Steady /\ Books
  BY SteadyLocks, TallyTyped, SpentTyped DEF IInv, Books
<1> QED
  BY <1>1, RunStep

LEMMA RunningIsSeen ==
  ASSUME IInv, NEW r \in Rows, job[r].run # "none"
  PROVE  Seen(r) /\ job[r].project \in Projects /\ job[r].status \in Statuses /\ job[r] \in JobRow
<1>1. RowInv(r) /\ job[r] \in JobRow
  BY DEF IInv, TypeOK
<1> QED
  BY <1>1 DEF RowInv, Sound, Seen, JobRow, Statuses

LEMMA BeginSafe ==
  ASSUME IInv, NEW r \in Rows, Begin(r)
  PROVE  IInv'
<1>1. Seen(r) /\ job[r].status \in Statuses
  BY RunningIsSeen DEF Begin
<1>2. CASE job[r].status \in {"paused", "failed"}
  <2>1. job' = [job EXCEPT ![r] = Moved(r, job[r].status, "none")] /\ "none" \in Runs
    BY <1>2 DEF Begin, Runs
  <2>2. Calm
    BY <1>1, <2>1, MovedRow
  <2> QED
    BY <2>2, WorkStep DEF Begin
<1>3. CASE job[r].status \notin {"paused", "failed"}
  <2>1. job' = [job EXCEPT ![r] = Moved(r, "running", "working")] /\ "working" \in Runs /\ "running" \in Statuses
    BY <1>3 DEF Begin, Runs, Statuses
  <2>2. Calm
    BY <1>1, <2>1, MovedRow
  <2> QED
    BY <2>2, WorkStep DEF Begin
<1> QED
  BY <1>2, <1>3

LEMMA StampSafe ==
  ASSUME IInv, NEW r \in Rows, NEW c \in Commits, Stamp(r, c)
  PROVE  IInv'
<1>1. Seen(r) /\ job[r].target \in Heads /\ job' = [job EXCEPT ![r].target = c]
  BY RunningIsSeen DEF Stamp, Working
<1>2. job[r] \in JobRow /\ job \in [Rows -> JobRow] /\ Sound(r)
  BY DEF IInv, TypeOK, RowInv
<1>3. [job[r] EXCEPT !.target = c] \in JobRow
  BY <1>2 DEF JobRow, Targets
<1>4. /\ job' \in [Rows -> JobRow] /\ job'[r] = [job[r] EXCEPT !.target = c]
      /\ \A x \in Rows : x # r => job'[x] = job[x]
  BY <1>1, <1>2, <1>3
<1>5. Changed(r)
  BY <1>1, <1>2, <1>4 DEF Changed, Seen, JobRow, Sound
<1>6. Calm
  BY <1>4, <1>5 DEF Calm
<1> QED
  BY <1>6, WorkStep DEF Stamp

LEMMA EndsStep ==
  ASSUME IInv, NEW r \in Rows, Working(r), NEW s \in Statuses, NEW run \in Runs,
         Ends(r, s, run), UNCHANGED <<project, account, request>>, Fault \/ UNCHANGED spent
  PROVE  IInv'
<1>1. Seen(r)
  BY RunningIsSeen DEF Working
<1>2. Calm
  BY <1>1, MovedRow DEF Ends
<1> QED
  BY <1>2, WorkStep DEF Ends

LEMMA MovedStep ==
  ASSUME IInv, NEW r \in Rows, Working(r), NEW s \in Statuses, NEW run \in Runs,
         job' = [job EXCEPT ![r] = Moved(r, s, run)],
         UNCHANGED <<project, account, request, tally>>, Fault \/ UNCHANGED spent
  PROVE  IInv'
<1>1. Seen(r)
  BY RunningIsSeen DEF Working
<1>2. Calm
  BY <1>1, MovedRow
<1> QED
  BY <1>2, WorkStep

LEMMA BowOutSafe ==
  ASSUME IInv, NEW r \in Rows, BowOut(r)
  PROVE  IInv'
  BY EndsStep DEF BowOut, Statuses, Runs

LEMMA CompleteSafe ==
  ASSUME IInv, NEW r \in Rows, Complete(r)
  PROVE  IInv'
  BY EndsStep, MovedStep DEF Complete, Statuses, Runs

LEMMA RetrySafe ==
  ASSUME IInv, NEW r \in Rows, Retry(r)
  PROVE  IInv'
<1> DEFINE s == IF job[r].status \in {"paused", "complete"} THEN job[r].status ELSE "queued"
<1>1. s \in Statuses /\ "retrying" \in Runs /\ "waiting" \in Runs
  BY DEF Statuses, Runs
<1>2. /\ Fault /\ Working(r) /\ UNCHANGED <<project, account, request>>
      /\ \/ Ends(r, s, "retrying")
         \/ job' = [job EXCEPT ![r] = Moved(r, s, "waiting")] /\ UNCHANGED tally
  BY DEF Retry
<1> HIDE DEF s
<1> QED
  BY <1>1, <1>2, EndsStep, MovedStep

LEMMA FailSafe ==
  ASSUME IInv, NEW r \in Rows, Fail(r)
  PROVE  IInv'
  BY EndsStep DEF Fail, Statuses, Runs

LEMMA ParkSafe ==
  ASSUME IInv, NEW r \in Rows, Park(r)
  PROVE  IInv'
  BY EndsStep, MovedStep DEF Park, Statuses, Runs

LEMMA QuitSafe ==
  ASSUME IInv, NEW r \in Rows, Quit(r)
  PROVE  IInv'
<1>1. Seen(r)
  BY RunningIsSeen DEF Quit, Working
<1>2. Calm
  BY <1>1, RunRow DEF Quit, Runs
<1> QED
  BY <1>2, WorkStep DEF Quit

LEMMA CrashSafe ==
  ASSUME IInv, NEW r \in Rows, Crash(r)
  PROVE  IInv'
<1>1. Seen(r)
  BY RunningIsSeen DEF Crash
<1>2. Calm
  BY <1>1, RunRow DEF Crash, Runs
<1> QED
  BY <1>2, WorkStep DEF Crash

LEMMA ChainSafe ==
  ASSUME IInv, NEW r \in Rows, NEW g \in Rows, Chain(r, g)
  PROVE  IInv'
<1>1. /\ job[r].run = "finished" /\ job[g].status = "absent" /\ Seen(r) /\ r # g
      /\ job[r].project \in Projects /\ job[r] \in JobRow /\ Sound(r)
      /\ job \in [Rows -> JobRow]
  BY RunningIsSeen DEF Chain, NextRow, Seen, IInv, RowInv, TypeOK
<1>2. PICK new \in {<<"queued", "waiting">>, <<"failed", "none">>} :
        /\ job' = [job EXCEPT ![r].run = "leaving",
             ![g] = Generation(job[r].user, job[r].project, job[r].target, new[1], new[2])]
        /\ IF new[1] = "failed" THEN Fault ELSE UNCHANGED spent
  BY DEF Chain
<1> DEFINE born == Generation(job[r].user, job[r].project, job[r].target, new[1], new[2])
<1>3. born \in JobRow
  BY <1>1, GenerationType DEF JobRow
<1>4. /\ born.status # "absent" /\ born.txn = None /\ ~born.held
      /\ born.project \in Projects /\ born.asked = born.target
  BY <1>1 DEF Generation
<1> HIDE DEF born
<1>5. [job[r] EXCEPT !.run = "leaving"] \in JobRow
  BY <1>1 DEF JobRow
<1>6. /\ job' \in [Rows -> JobRow] /\ job'[r] = [job[r] EXCEPT !.run = "leaving"] /\ job'[g] = born
      /\ \A x \in Rows \ {r, g} : job'[x] = job[x]
  BY <1>1, <1>2, <1>3, <1>5 DEF born
<1>7. Changed(r)
  BY <1>1, <1>6 DEF Changed, JobRow, Seen, Sound
<1>8. Born(g)
  BY <1>1, <1>4, <1>6 DEF Born
<1>9. Calm
  BY <1>6, <1>7, <1>8 DEF Calm
<1>10. Fault \/ UNCHANGED spent
  BY <1>2
<1> QED
  BY <1>9, <1>10, WorkStep DEF Chain

-----------------------------------------------------------------------------
(* Transactions: taking locks *)

ProjectRecord == [status : {"analyzing", "settled"}, lock : Requests \union {None}]

\* Locks that were free are taken, by the one request that takes the step.
LEMMA LockStep ==
  ASSUME IInv, NEW q \in Requests, UNCHANGED job, Books,
         project' \in [Projects -> ProjectRecord], account' \in [Users -> Requests \union {None}],
         \A p \in Projects : project[p].lock # None => project'[p].lock = project[p].lock,
         \A u \in Users : account[u] # None => account'[u] = account[u],
         request' \in [Requests -> Request], Others(q), RequestInv(q)'
  PROVE  IInv'
<1>1. TypeOK'
  BY DEF IInv, TypeOK, Books, ProjectRecord
<1>2. \A x \in Requests : KeepsLocks(x)
  BY NoneAssumption DEF KeepsLocks
<1>3. \A r \in Rows : Tame(r)
  BY DEF Tame
<1>4. SeenKept
  BY DEF SeenKept, Seen
<1>5. \A r \in Rows : RowInv(r)'
  <2> SUFFICES ASSUME NEW r \in Rows PROVE RowInv(r)'
    OBVIOUS
  <2>1. Sound(r) /\ Hidden(r)
    BY DEF IInv, RowInv
  <2>2. Sound(r)'
    BY <2>1 DEF Sound, Seen
  <2>3. Hidden(r)'
    BY <2>1 DEF Sound, Hidden
  <2> QED
    BY <2>2, <2>3 DEF RowInv
<1>6. \A x \in Requests : (request'[x] = request[x] /\ KeepsLocks(x)) \/ RequestInv(x)'
  BY <1>2 DEF Others
<1> QED
  BY <1>1, <1>3, <1>4, <1>5, <1>6, Preserved

\* A request moves to a place of its transaction with the rest of its record.
LEMMA GoesTo ==
  ASSUME IInv, NEW q \in Requests, request[q].at \in InTxn, NEW place \in InTxn, Go(q, place)
  PROVE  /\ request' \in [Requests -> Request] /\ Others(q)
         /\ request'[q].at = place /\ request'[q].kind = request[q].kind
         /\ request'[q].user = request[q].user /\ request'[q].project = request[q].project
         /\ request'[q].asks = request[q].asks /\ request'[q].left = request[q].left
         /\ request'[q].row = request[q].row
         /\ request[q].project \in Projects
         /\ request[q].kind \in {"analyze", "push"}
         /\ request[q].kind = "analyze" => request[q].user \in Users
<1>1. /\ request[q] \in Request /\ request[q] # Idle /\ ~At(q, "idle") /\ place \in Places /\ TypeOK
      /\ Carries(q)
  BY DEF IInv, TypeOK, At, Idle, InTxn, Places, RequestInv
<1>2. /\ request' \in [Requests -> Request] /\ Others(q)
      /\ request'[q] = [request[q] EXCEPT !.at = place]
  BY <1>1, Goes
<1> QED
  BY <1>1, <1>2 DEF Request, Carries

LEMMA CarriesOn ==
  ASSUME NEW q \in Requests, Carries(q), SeenKept,
         request[q].row \in Rows \union {NoRow}, request[q].left \in SUBSET Rows,
         request'[q].at \in InTxn, request[q].at \in InTxn,
         request'[q].kind = request[q].kind, request'[q].user = request[q].user,
         request'[q].asks \subseteq request[q].asks, request'[q].left = request[q].left,
         request'[q].row = request[q].row
  PROVE  Carries(q)'
<1>1. \A r \in Rows : Seen(r) => Seen(r)'
  BY DEF SeenKept
<1>2. request[q].row # NoRow => Seen(request[q].row)'
  BY <1>1 DEF Carries
<1>3. \A r \in request[q].left : Seen(r)'
  BY <1>1 DEF Carries
<1> QED
  BY <1>2, <1>3 DEF Carries, InTxn

LEMMA OwnRecord ==
  ASSUME IInv, NEW q \in Requests
  PROVE  /\ Carries(q) /\ Locks(q) /\ Room(q)
         /\ request[q].row \in Rows \union {NoRow} /\ request[q].left \in SUBSET Rows
<1>1. request[q] \in Request
  BY DEF IInv, TypeOK
<1> QED
  BY <1>1 DEF Request, Idle, IInv, RequestInv, NoRow

LEMMA LockUserSafe ==
  ASSUME IInv, NEW q \in Requests, LockUser(q)
  PROVE  IInv'
<1> DEFINE u == request[q].user
<1>1. /\ request[q].at = "open" /\ request[q].kind = "analyze" /\ account[u] = None
      /\ account' = [account EXCEPT ![u] = q] /\ Go(q, "mine") /\ UNCHANGED <<job, project, tally, spent>>
  BY DEF LockUser, At
<1>2. /\ request' \in [Requests -> Request] /\ Others(q)
      /\ request'[q].at = "mine" /\ request'[q].kind = "analyze" /\ request'[q].user = u
      /\ request'[q].asks = request[q].asks /\ request'[q].left = request[q].left
      /\ request'[q].row = request[q].row /\ u \in Users
  BY <1>1, GoesTo DEF InTxn
<1>3. Carries(q)'
  <2>1. SeenKept
    BY <1>1 DEF SeenKept, Seen
  <2> QED
    BY <1>1, <1>2, <2>1, OwnRecord, CarriesOn DEF InTxn
<1>4. /\ account' \in [Users -> Requests \union {None}] /\ account'[u] = q
      /\ \A x \in Users : account[x] # None => account'[x] = account[x]
  BY <1>1, <1>2 DEF IInv, TypeOK
<1>5. RequestInv(q)'
  BY <1>2, <1>3, <1>4 DEF RequestInv, Locks, Room, At
<1>6. Books /\ project' \in [Projects -> ProjectRecord]
  BY <1>1, SameBooks DEF IInv, TypeOK, ProjectRecord
<1> QED
  BY <1>1, <1>2, <1>4, <1>5, <1>6, LockStep

LEMMA LockProjectSafe ==
  ASSUME IInv, NEW q \in Requests, LockProject(q)
  PROVE  IInv'
<1> DEFINE p == request[q].project
           place == IF request[q].kind = "analyze" THEN "locked" ELSE "preparing"
<1>1. /\ request[q].at \in {"open", "mine"} /\ (request[q].kind = "analyze" => request[q].at = "mine")
      /\ project[p].lock = None
      /\ project' = [project EXCEPT ![p].lock = q] /\ Go(q, place)
      /\ UNCHANGED <<job, account, tally, spent>>
  BY DEF LockProject, At, RowFree
<1>2. place \in InTxn /\ place \in {"locked", "preparing"} /\ (request[q].kind = "analyze" => place = "locked")
  BY DEF InTxn
<1> HIDE DEF place
<1>3. /\ request' \in [Requests -> Request] /\ Others(q)
      /\ request'[q].at = place /\ request'[q].kind = request[q].kind
      /\ request'[q].user = request[q].user /\ request'[q].project = p
      /\ request'[q].asks = request[q].asks /\ request'[q].left = request[q].left
      /\ request'[q].row = request[q].row /\ p \in Projects
  BY <1>1, <1>2, GoesTo DEF InTxn
<1>4. Carries(q)'
  <2>1. SeenKept
    BY <1>1 DEF SeenKept, Seen
  <2> QED
    BY <1>1, <1>2, <1>3, <2>1, OwnRecord, CarriesOn DEF InTxn
<1>5. /\ project' \in [Projects -> ProjectRecord] /\ project'[p].lock = q
      /\ \A x \in Projects : project[x].lock # None => project'[x].lock = project[x].lock
  <2>1. project \in [Projects -> ProjectRecord]
    BY DEF IInv, TypeOK, ProjectRecord
  <2>2. [project[p] EXCEPT !.lock = q] \in ProjectRecord /\ [project[p] EXCEPT !.lock = q].lock = q
    BY <2>1, <1>3 DEF ProjectRecord
  <2>3. project' = [project EXCEPT ![p] = [project[p] EXCEPT !.lock = q]]
    BY <1>1, <1>3, <2>1
  <2> QED
    BY <1>1, <1>3, <2>1, <2>2, <2>3
<1>6. Locks(q)'
  <2>1. request[q].kind = "analyze" => account[request[q].user] = q
    BY <1>1, OwnRecord DEF Locks
  <2> QED
    BY <1>1, <1>3, <1>5, <2>1 DEF Locks
<1>7. RequestInv(q)'
  BY <1>2, <1>3, <1>4, <1>6 DEF RequestInv, Room, At
<1>8. Books /\ account' \in [Users -> Requests \union {None}]
  BY <1>1, SameBooks DEF IInv, TypeOK
<1> QED
  BY <1>1, <1>3, <1>5, <1>7, <1>8, LockStep

-----------------------------------------------------------------------------
(* Transactions: giving locks back *)

LEMMA RolledBack ==
  ASSUME IInv, NEW q \in Requests, Rollback(q)
  PROVE  /\ job' \in [Rows -> JobRow] /\ project' \in [Projects -> ProjectRecord]
         /\ account' \in [Users -> Requests \union {None}]
         /\ \A r \in Rows : Tame(r)
         /\ \A r \in Rows : RowInv(r)'
         /\ SeenKept
         /\ \A x \in Requests : x # q => KeepsLocks(x)
<1>0. /\ job \in [Rows -> JobRow] /\ project \in [Projects -> ProjectRecord]
      /\ account \in [Users -> Requests \union {None}] /\ q # None
  BY NoneAssumption DEF IInv, TypeOK, ProjectRecord
<1>1. /\ job' \in [Rows -> JobRow]
      /\ \A r \in Rows : job'[r] = IF job[r].txn = q THEN Absent ELSE job[r]
  BY <1>0, AbsentRow DEF Rollback
<1>2. /\ project' \in [Projects -> ProjectRecord]
      /\ \A p \in Projects : project'[p].lock = Released(q, project[p].lock)
  <2>1. \A p \in Projects : Released(q, project[p].lock) \in Requests \union {None}
    BY <1>0 DEF Released, ProjectRecord
  <2>2. \A p \in Projects : [project[p] EXCEPT !.lock = Released(q, project[p].lock)] \in ProjectRecord
    BY <1>0, <2>1 DEF ProjectRecord
  <2>3. \A p \in Projects :
          [project[p] EXCEPT !.lock = Released(q, project[p].lock)].lock = Released(q, project[p].lock)
    BY <1>0 DEF ProjectRecord
  <2> QED
    BY <2>2, <2>3 DEF Rollback
<1>3. /\ account' \in [Users -> Requests \union {None}]
      /\ \A u \in Users : account'[u] = Released(q, account[u])
  BY <1>0 DEF Rollback, ReleaseAccount, Released
<1>4. \A x \in Requests : x # q => KeepsLocks(x)
  BY <1>2, <1>3 DEF KeepsLocks, Released
<1>5. SeenKept
  BY <1>0, <1>1 DEF SeenKept, Seen
<1>6. \A r \in Rows : Tame(r)
  BY <1>1 DEF Tame, Absent
<1>7. \A r \in Rows : RowInv(r)'
  <2> SUFFICES ASSUME NEW r \in Rows PROVE Sound(r)' /\ Hidden(r)'
    BY DEF RowInv
  <2>1. CASE job[r].txn = q
    BY <1>1, <2>1 DEF Sound, Hidden, Absent, Seen
  <2>2. CASE job[r].txn # q
    <3>1. Sound(r) /\ Hidden(r) /\ job'[r] = job[r]
      BY <1>1, <2>2 DEF IInv, RowInv
    <3>2. Sound(r)'
      BY <3>1 DEF Sound, Seen
    <3>3. Hidden(r)'
      BY <3>1, <2>2, <1>2, <1>3 DEF Sound, Hidden, Released
    <3> QED
      BY <3>2, <3>3
  <2> QED
    BY <2>1, <2>2
<1> QED
  BY <1>1, <1>2, <1>3, <1>4, <1>5, <1>6, <1>7

LEMMA RollbackStep ==
  ASSUME IInv, NEW q \in Requests, Rollback(q), Proceeds(q, {}), Books
  PROVE  IInv'
<1>1. request' \in [Requests -> Request] /\ Others(q) /\ RequestInv(q)'
  BY ProceedsOn DEF IInv, RequestInv
<1>2. TypeOK'
  BY <1>1, RolledBack DEF TypeOK, Books, ProjectRecord
<1>3. \A x \in Requests : (request'[x] = request[x] /\ KeepsLocks(x)) \/ RequestInv(x)'
  BY <1>1, RolledBack DEF Others
<1> QED
  BY <1>2, <1>3, RolledBack, Preserved

LEMMA TxnThrowsSafe ==
  ASSUME IInv, NEW q \in Requests, TxnThrows(q), Fault \/ UNCHANGED spent
  PROVE  IInv'
<1>1. Books
  BY SpentTyped, TallyTyped DEF TxnThrows, IInv, Books
<1> QED
  BY <1>1, RollbackStep DEF TxnThrows

LEMMA OutOfRowsSafe ==
  ASSUME IInv, NEW q \in Requests, OutOfRows(q)
  PROVE  IInv'
  BY TxnThrowsSafe, InsertThrowsSafe DEF OutOfRows

LEMMA DieSafe ==
  ASSUME IInv, NEW q \in Requests, Die(q)
  PROVE  IInv'
<1>1. Books
  BY SpentTyped, TallyTyped DEF Die, IInv, Books
<1> QED
  BY <1>1, RollbackStep DEF Die

LEMMA CommitSafe ==
  ASSUME IInv, NEW q \in Requests, Commit(q)
  PROVE  IInv'
<1>0. /\ job \in [Rows -> JobRow] /\ project \in [Projects -> ProjectRecord]
      /\ account \in [Users -> Requests \union {None}] /\ q # None
  BY NoneAssumption DEF IInv, TypeOK, ProjectRecord
<1>1. /\ job' \in [Rows -> JobRow]
      /\ \A r \in Rows : job'[r] = [job[r] EXCEPT !.txn = Released(q, job[r].txn)]
  <2>1. \A r \in Rows : [job[r] EXCEPT !.txn = Released(q, job[r].txn)] \in JobRow
    BY <1>0 DEF JobRow, Released
  <2> QED
    BY <2>1 DEF Commit
<1>2. /\ project' \in [Projects -> ProjectRecord]
      /\ \A p \in Projects : project'[p].lock = Released(q, project[p].lock)
  BY <1>0 DEF Commit, ProjectRecord, Released
<1>3. /\ account' \in [Users -> Requests \union {None}]
      /\ \A u \in Users : account'[u] = Released(q, account[u])
  BY <1>0 DEF Commit, ReleaseAccount, Released
<1>4. \A r \in Rows :
        /\ job'[r].status = job[r].status /\ job'[r].project = job[r].project
        /\ job'[r].user = job[r].user /\ job'[r].kind = job[r].kind /\ job'[r].via = job[r].via
        /\ job'[r].asked = job[r].asked /\ job'[r].target = job[r].target
        /\ job'[r].held = job[r].held /\ job'[r].run = job[r].run
        /\ job'[r].txn = Released(q, job[r].txn)
  BY <1>0, <1>1 DEF JobRow
<1>5. \A x \in Requests : x # q => KeepsLocks(x)
  BY <1>2, <1>3 DEF KeepsLocks, Released
<1>6. SeenKept
  BY <1>4 DEF SeenKept, Seen, Released
<1>7. \A r \in Rows : Tame(r)
  BY <1>4 DEF Tame
<1>8. \A r \in Rows : RowInv(r)'
  <2> SUFFICES ASSUME NEW r \in Rows PROVE Sound(r)' /\ Hidden(r)'
    BY DEF RowInv
  <2>0. Sound(r) /\ Hidden(r)
    BY DEF IInv, RowInv
  <2>1. Sound(r)'
    BY <2>0, <1>4 DEF Sound, Seen, Released
  <2>2. Hidden(r)'
    BY <2>0, <1>2, <1>3, <1>4 DEF Sound, Hidden, Released
  <2> QED
    BY <2>1, <2>2
<1>9. \A r \in Own(q) : Seen(r)'
  <2> SUFFICES ASSUME NEW r \in Rows, job[r].txn = q PROVE Seen(r)'
    BY DEF Own
  <2>1. job[r].status # "absent"
    BY <1>0 DEF IInv, RowInv, Hidden
  <2> QED
    BY <2>1, <1>4 DEF Seen, Released
<1>10. request' \in [Requests -> Request] /\ Others(q) /\ RequestInv(q)'
  <2>1. Own(q) \in SUBSET Rows /\ ~At(q, "idle") /\ Proceeds(q, Own(q)) /\ Carries(q) /\ TypeOK
    BY DEF Own, Commit, At, IInv, RequestInv
  <2> QED
    BY <2>1, <1>9, ProceedsOn
<1>11. TypeOK'
  BY <1>1, <1>2, <1>3, <1>10, SameBooks DEF Commit, IInv, TypeOK, Books, ProjectRecord
<1>12. \A x \in Requests : (request'[x] = request[x] /\ KeepsLocks(x)) \/ RequestInv(x)'
  BY <1>5, <1>10 DEF Others
<1> QED
  BY <1>6, <1>7, <1>8, <1>11, <1>12, Preserved

LEMMA AdmitSafe ==
  ASSUME IInv, NEW q \in Requests, Admit(q)
  PROVE  IInv'
<1> DEFINE u == request[q].user
<1>0. At(q, "locked") /\ UNCHANGED <<tally, spent>> /\ Books
  BY SameBooks DEF Admit, IInv
<1>1. CASE HasCredit(q, u)
  <2>1. request[q].at \in InTxn /\ "preparing" \in InTxn /\ Go(q, "preparing") /\ UNCHANGED <<job, project, account>>
    BY <1>0, <1>1 DEF Admit, InTxn, At
  <2>2. /\ request' \in [Requests -> Request] /\ Others(q)
        /\ request'[q].at = "preparing" /\ request'[q].kind = request[q].kind
        /\ request'[q].user = u /\ request'[q].project = request[q].project
        /\ request'[q].asks = request[q].asks /\ request'[q].left = request[q].left
        /\ request'[q].row = request[q].row
        /\ request[q].kind = "analyze" => u \in Users
    BY <2>1, GoesTo
  <2>3. Carries(q)'
    <3>1. SeenKept
      BY <2>1 DEF SeenKept, Seen
    <3> QED
      BY <2>1, <2>2, <3>1, OwnRecord, CarriesOn
  <2>4. Locks(q)'
    BY <1>0, <2>1, <2>2, OwnRecord DEF Locks, At
  <2>5. Room(q)'
    <3>1. SUFFICES ASSUME request[q].kind = "analyze" PROVE Cardinality(Started(u)) < MaxConcurrent
      BY <2>1, <2>2 DEF Room, Started
    <3>2. account[u] = q
      BY <1>0, <3>1, OwnRecord DEF Locks, At
    <3>3. Started(u) \subseteq InFlight(q, u)
      <4> SUFFICES ASSUME NEW r \in Rows, job[r].held, job[r].via = "analyze", job[r].user = u
                   PROVE  SeenBy(q, r) /\ IsActive(job[r].status)
        BY DEF Started, InFlight
      <4>1. Sound(r) /\ Hidden(r)
        BY DEF IInv, RowInv
      <4> QED
        BY <4>1, <3>2 DEF Sound, Hidden, SeenBy, IsActive
    <3>4. IsFiniteSet(InFlight(q, u))
      BY RowsFinite DEF InFlight
    <3>5. /\ Cardinality(Started(u)) \in Nat /\ Cardinality(InFlight(q, u)) \in Nat
          /\ Cardinality(Started(u)) <= Cardinality(InFlight(q, u))
      BY <3>3, <3>4, FS_Subset, FS_CardinalityType
    <3> QED
      BY <1>1, <3>5, LimitAssumption DEF HasCredit
  <2>6. RequestInv(q)'
    BY <2>3, <2>4, <2>5 DEF RequestInv
  <2> QED
    BY <1>0, <2>1, <2>2, <2>6, LookStep
<1>2. CASE ~HasCredit(q, u)
  BY <1>0, <1>2, RollbackStep DEF Admit
<1> QED
  BY <1>1, <1>2

-----------------------------------------------------------------------------
(* The guard and the INSERT *)

\* The record of a request that has prepared one of its targets.
LEMMA AsksLess ==
  ASSUME IInv, NEW q \in Requests, At(q, "preparing"), NEW t \in Targets, SeenKept,
         request' = [request EXCEPT ![q].asks = request[q].asks \ {t}]
  PROVE  /\ request' \in [Requests -> Request] /\ Others(q)
         /\ request'[q].at = "preparing" /\ request'[q].kind = request[q].kind
         /\ request'[q].user = request[q].user /\ request'[q].project = request[q].project
         /\ request'[q].asks = request[q].asks \ {t}
         /\ request[q].project \in Projects /\ request[q].user \in Users \union {None}
         /\ Carries(q)'
<1> DEFINE to == [request[q] EXCEPT !.asks = request[q].asks \ {t}]
<1>0. request[q] \in Request /\ request[q] # Idle /\ request \in [Requests -> Request] /\ TypeOK
  BY DEF IInv, TypeOK, At, Idle
<1>1. to \in Request
  BY <1>0 DEF Request
<1>2. /\ to.at = "preparing" /\ to.kind = request[q].kind /\ to.user = request[q].user
      /\ to.project = request[q].project /\ to.asks = request[q].asks \ {t}
      /\ to.left = request[q].left /\ to.row = request[q].row
      /\ request[q].project \in Projects /\ request[q].user \in Users \union {None}
  BY <1>0 DEF Request, At
<1>3. request' = [request EXCEPT ![q] = to]
  BY <1>0
<1> HIDE DEF to
<1>4. request' \in [Requests -> Request] /\ Others(q) /\ request'[q] = to
  BY <1>0, <1>1, <1>3, Replaces
<1>5. Carries(q)'
  BY <1>2, <1>4, OwnRecord, CarriesOn DEF At, InTxn
<1> QED
  BY <1>2, <1>4, <1>5

Inserted(q, t) ==
  [status |-> "queued", project |-> request[q].project, user |-> request[q].user,
   kind |-> "analysis", via |-> request[q].kind, asked |-> t, target |-> t,
   txn |-> q, held |-> TRUE, run |-> "none"]

LEMMA InsertSafe ==
  ASSUME IInv, NEW q \in Requests, NEW t \in Targets, NEW r \in Rows,
         At(q, "preparing"), t \in request[q].asks, job[r].status = "absent",
         ~\E x \in Rows : Twin(q, x, "analysis", request[q].project, t),
         job' = [job EXCEPT ![r] = Inserted(q, t)],
         request' = [request EXCEPT ![q].asks = request[q].asks \ {t}],
         UNCHANGED <<project, account, tally, spent>>
  PROVE  IInv'
<1> DEFINE p == request[q].project
           u == request[q].user
           analyze == request[q].kind = "analyze"
<1>0. /\ TypeOK /\ job \in [Rows -> JobRow] /\ q # None
      /\ Carries(q) /\ Locks(q) /\ Room(q)
      /\ request[q].kind \in {"analyze", "push"}
  BY NoneAssumption, OwnRecord DEF IInv, TypeOK, Carries, At, InTxn
<1>1. \A x \in Rows : Sound(x) /\ Hidden(x)
  BY DEF IInv, RowInv
<1>2. /\ project[p].lock = q
      /\ analyze => account[u] = q /\ u \in Users /\ \E c \in Targets : request[q].asks \subseteq {c}
  BY <1>0 DEF Locks, Carries, At
<1>3. SeenKept
  BY <1>0 DEF SeenKept, Seen
<1>4. /\ request' \in [Requests -> Request] /\ Others(q)
      /\ request'[q].at = "preparing" /\ request'[q].kind = request[q].kind
      /\ request'[q].user = u /\ request'[q].project = p
      /\ request'[q].asks = request[q].asks \ {t}
      /\ p \in Projects /\ u \in Users \union {None}
      /\ Carries(q)'
  BY <1>3, AsksLess
<1>5. Inserted(q, t) \in JobRow
  BY <1>0, <1>4 DEF Inserted, JobRow
<1>6. /\ job' \in [Rows -> JobRow] /\ job'[r] = Inserted(q, t)
      /\ \A x \in Rows : x # r => job'[x] = job[x]
  BY <1>0, <1>5
<1>7. TypeOK'
  BY <1>0, <1>4, <1>6 DEF TypeOK
<1>8. \A x \in Rows : RowInv(x)'
  <2> SUFFICES ASSUME NEW x \in Rows PROVE Sound(x)' /\ Hidden(x)'
    BY DEF RowInv
  <2>1. CASE x = r
    BY <1>2, <1>4, <1>6, <2>1 DEF Inserted, Sound, Hidden, Seen, IsActive
  <2>2. CASE x # r
    <3>1. Sound(x) /\ Hidden(x) /\ job'[x] = job[x]
      BY <1>1, <1>6, <2>2
    <3> QED
      BY <3>1 DEF Sound, Hidden, Seen
  <2> QED
    BY <2>1, <2>2
<1>9. TuplesExclusive'
  <2>1. \A x \in Rows : x # r /\ job[x].held /\ Unmoved(x) /\ job[x].project = p => job[x].target # t
    <3> SUFFICES ASSUME NEW x \in Rows, x # r, job[x].held, job[x].project = p, job[x].target = t
                 PROVE  FALSE
      OBVIOUS
    <3>1. Sound(x) /\ Hidden(x)
      BY <1>1
    <3>2. SeenBy(q, x)
      BY <1>2, <3>1 DEF Sound, Hidden, SeenBy, IsActive
    <3>3. Twin(q, x, "analysis", p, t)
      BY <3>1, <3>2 DEF Twin, Sound
    <3> QED
      BY <3>3
  <2> SUFFICES ASSUME NEW x \in Rows, NEW y \in Rows, x # y, job'[x].held, job'[y].held,
                      job'[x].asked = job'[x].target, job'[y].asked = job'[y].target,
                      job'[x].project = job'[y].project
               PROVE  job'[x].target # job'[y].target
    BY DEF TuplesExclusive, Unmoved
  <2>2. CASE x = r
    BY <1>6, <2>1, <2>2 DEF Inserted, Unmoved
  <2>3. CASE y = r
    BY <1>6, <2>1, <2>3 DEF Inserted, Unmoved
  <2>4. CASE x # r /\ y # r
    BY <1>6, <2>4 DEF IInv, TuplesExclusive, Unmoved
  <2> QED
    BY <2>2, <2>3, <2>4
<1>10. ASSUME NEW v, v # u \/ ~analyze
       PROVE  Started(v)' = Started(v)
  <2>1. r \notin Started(v)
    BY <1>1 DEF Started, Sound, IsActive
  <2>2. r \notin Started(v)'
    BY <1>6, <1>10 DEF Started, Inserted
  <2> QED
    BY <1>6, <2>1, <2>2 DEF Started
<1>11. CreditKept'
  <2> SUFFICES ASSUME NEW v \in Users PROVE Cardinality(Started(v)') <= MaxConcurrent
    BY DEF CreditKept
  <2>1. CASE v = u /\ analyze
    <3>1. Cardinality(Started(u)) < MaxConcurrent
      BY <1>0, <2>1 DEF Room
    <3>2. Started(u)' \subseteq Started(u) \union {r}
      BY <1>6 DEF Started
    <3>3. IsFiniteSet(Started(u)) /\ IsFiniteSet(Started(u) \union {r})
      BY RowsFinite DEF Started
    <3>4. /\ Cardinality(Started(u)) \in Nat
          /\ Cardinality(Started(u) \union {r}) <= Cardinality(Started(u)) + 1
          /\ Cardinality(Started(u) \union {r}) \in Nat
      BY <3>3, FS_AddElement, FS_CardinalityType
    <3>5. /\ Cardinality(Started(u)') <= Cardinality(Started(u) \union {r})
          /\ Cardinality(Started(u)') \in Nat
      BY <3>2, <3>3, FS_Subset, FS_CardinalityType
    <3> QED
      BY <2>1, <3>1, <3>4, <3>5, LimitAssumption
  <2>2. CASE v # u \/ ~analyze
    BY <1>10, <2>2 DEF IInv, CreditKept
  <2> QED
    BY <2>1, <2>2
<1>12. RequestInv(q)'
  <2>1. Locks(q)'
    BY <1>2, <1>4 DEF Locks
  <2>2. analyze => request[q].asks \ {t} = {}
    BY <1>2
  <2>3. Room(q)'
    BY <1>4, <2>2 DEF Room
  <2> QED
    BY <1>4, <2>1, <2>3 DEF RequestInv
<1>13. ASSUME NEW x \in Requests, x # q
       PROVE  RequestInv(x)'
  <2>1. RequestInv(x) /\ request'[x] = request[x] /\ request[x] \in Request
    BY <1>0, <1>4, <1>13 DEF IInv, Others, TypeOK
  <2>2. Carries(x)'
    <3>1. request[x].left \in SUBSET Rows /\ request[x].row \in Rows \union {NoRow}
      BY OwnRecord
    <3> QED
      BY <1>3, <2>1, <3>1 DEF SeenKept, RequestInv, Carries
  <2>3. Locks(x)'
    BY <2>1 DEF RequestInv, Locks
  <2>4. Room(x)'
    <3> SUFFICES ASSUME request[x].at = "preparing", request[x].kind = "analyze", request[x].asks # {}
                 PROVE  Cardinality(Started(request[x].user)') < MaxConcurrent
      BY <2>1 DEF Room, At, Started
    <3>1. account[request[x].user] = x /\ Cardinality(Started(request[x].user)) < MaxConcurrent
      BY <2>1 DEF RequestInv, Locks, Room, At
    <3>2. request[x].user # u \/ ~analyze
      BY <1>2, <1>13, <3>1
    <3> QED
      BY <1>10, <3>1, <3>2
  <2> QED
    BY <2>2, <2>3, <2>4 DEF RequestInv
<1> QED
  BY <1>7, <1>8, <1>9, <1>11, <1>12, <1>13 DEF IInv

LEMMA PrepareSafe ==
  ASSUME IInv, NEW q \in Requests, NEW t \in Targets, Prepare(q, t)
  PROVE  IInv'
<1>0. At(q, "preparing") /\ t \in request[q].asks /\ UNCHANGED <<tally, spent>> /\ Books
  BY SameBooks DEF Prepare, IInv
<1>1. CASE Proceeds(q, {}) /\ Rollback(q)
  BY <1>0, <1>1, RollbackStep
<1>2. CASE /\ request' = [request EXCEPT ![q].asks = request[q].asks \ {t}]
           /\ UNCHANGED <<job, project, account>>
  <2>1. SeenKept
    BY <1>2 DEF SeenKept, Seen
  <2>2. /\ request' \in [Requests -> Request] /\ Others(q)
        /\ request'[q].at = "preparing" /\ request'[q].kind = request[q].kind
        /\ request'[q].user = request[q].user /\ request'[q].project = request[q].project
        /\ request'[q].asks \subseteq request[q].asks
        /\ Carries(q)'
    BY <1>0, <1>2, <2>1, AsksLess
  <2>3. Locks(q)' /\ Room(q)'
    BY <1>0, <1>2, <2>2, OwnRecord DEF Locks, Room, At, Started
  <2> QED
    BY <1>0, <1>2, <2>2, <2>3, LookStep DEF RequestInv
<1>3. CASE /\ ~\E x \in Rows : Twin(q, x, "analysis", request[q].project, t)
           /\ \E r \in Rows : NextRow(r) /\ job' = [job EXCEPT ![r] = Inserted(q, t)]
           /\ request' = [request EXCEPT ![q].asks = request[q].asks \ {t}]
           /\ UNCHANGED <<project, account>>
  BY <1>0, <1>3, InsertSafe DEF NextRow
<1> QED
  BY <1>1, <1>2, <1>3 DEF Prepare, Inserted

-----------------------------------------------------------------------------
(* Every step, and the theorems *)

LEMMA ServeSafe ==
  ASSUME IInv, NEW q \in Requests, Serve(q)
  PROVE  IInv'
<1>1. CASE Starting(q)
  BY <1>1, ConnectSafe, LockUserSafe, LockProjectSafe, AdmitSafe, PrepareSafe, CommitSafe,
     OutOfRowsSafe DEF Starting
<1>2. CASE Submitting(q)
  BY <1>2, SubmitSafe, FailRowSafe, FailRowTimesOutSafe DEF Submitting
<1>3. CASE Unlocked(q)
  BY <1>3, ResumeWriteSafe, ResumeMarkSafe, GenerateInsertSafe DEF Unlocked
<1>4. CASE Counts(q) \/ CountTimesOut(q)
  BY <1>4, CountSafe, CountWriteSafe, CountTimesOutSafe DEF Counts
<1> QED
  BY <1>1, <1>2, <1>3, <1>4 DEF Serve

LEMMA HappensSafe ==
  ASSUME IInv, NEW q \in Requests, Happens(q)
  PROVE  IInv'
<1>1. CASE \E u \in Users, p \in Projects, t \in Targets : Arrive(q, u, p, t) \/ GenerateCheck(q, u, p, t)
  BY <1>1, ArriveSafe, GenerateCheckSafe
<1>2. CASE \E p \in Projects, ts \in SUBSET Commits \ {{}} : Push(q, p, ts)
  BY <1>2, PushSafe
<1>3. CASE \E r \in Rows, s \in {"paused", "failed"} : Halt(q, r, s)
  BY <1>3, HaltSafe
<1>4. CASE \E u \in Users, r \in Rows : ResumeCheck(q, u, r)
  BY <1>4, ResumeCheckSafe
<1>5. CASE \E r \in Rows : Sweep(q, r) \/ SubmitThrows(q, r)
  BY <1>5, SweepSafe, SubmitThrowsSafe
<1>6. CASE Fault /\ (TxnThrows(q) \/ InsertThrows(q))
  BY <1>6, TxnThrowsSafe, InsertThrowsSafe
<1>7. CASE Die(q)
  BY <1>7, DieSafe
<1> QED
  BY <1>1, <1>2, <1>3, <1>4, <1>5, <1>6, <1>7 DEF Happens

LEMMA WorkSafe ==
  ASSUME IInv, NEW r \in Rows, Work(r)
  PROVE  IInv'
<1>1. CASE \/ Begin(r) \/ BowOut(r) \/ Complete(r) \/ Retry(r) \/ Fail(r) \/ Park(r)
           \/ Quit(r) \/ Crash(r)
  BY <1>1, BeginSafe, BowOutSafe, CompleteSafe, RetrySafe, FailSafe, ParkSafe, QuitSafe, CrashSafe
<1>2. CASE \E c \in Commits : Stamp(r, c)
  BY <1>2, StampSafe
<1>3. CASE \E g \in Rows : Chain(r, g)
  BY <1>3, ChainSafe
<1>4. CASE Counts(r)
  BY <1>4, CountSafe, CountWriteSafe DEF Counts
<1> QED
  BY <1>1, <1>2, <1>3, <1>4 DEF Work

LEMMA StutterSafe == ASSUME IInv, UNCHANGED vars PROVE IInv'
<1>1. Calm /\ Steady /\ Books /\ UNCHANGED request
  BY SameRows, SteadyLocks, SameBooks DEF vars, IInv
<1> QED
  BY <1>1, RunStep

\* The invariant of the start gate: it holds in every reachable state.
THEOREM GateInvariant == Spec => []IInv
<1>1. IInv /\ [Next]_vars => IInv'
  BY ServeSafe, HappensSafe, WorkSafe, StutterSafe DEF Next
<1> QED
  BY <1>1, InitHolds, PTL DEF Spec

\* Every row, lock and request keeps its type, whoever writes it.
THEOREM GateTypes == Spec => []TypeOK
  BY GateInvariant, PTL DEF IInv

\* The FOR UPDATE lock of the project serialises racing starts: of the runs of one
\* target started under it and active since, there is one, for any number of
\* requests, pushes, redeliveries, retries, recoveries and head runs.
THEOREM TuplesAreExclusive == Spec => []TuplesExclusive
  BY GateInvariant, PTL DEF IInv

\* The user's advisory lock makes the credit check final: a burst of starts, over any
\* number of projects, never gets more runs than maxConcurrent.
THEOREM CreditIsKept == Spec => []CreditKept
  BY GateInvariant, PTL DEF IInv

-----------------------------------------------------------------------------
(* The row of a failed submission *)

KeepsRunning(r) == job[r].status = "running" => job'[r].status = "running"

\* What the request itself may do there.
LEMMA OwnStepSpares ==
  ASSUME IInv, NEW q \in Requests, Serve(q) \/ Happens(q), At(q, "failing")
  PROVE  KeepsRunning(request[q].row)
<1> DEFINE r == request[q].row
<1>0. r \in Rows /\ Seen(r) /\ job \in [Rows -> JobRow] /\ q # None
  BY NoneAssumption, OwnRecord DEF IInv, TypeOK, Carries, At, NoRow
<1>1. CASE FailRow(q)
  BY <1>0, <1>1 DEF FailRow, SetStatus, KeepsRunning
<1>2. CASE Die(q)
  BY <1>0, <1>2 DEF Die, Rollback, Seen, KeepsRunning
<1>3. CASE FailRowTimesOut(q) \/ Count(q) \/ CountWrite(q) \/ CountTimesOut(q)
  BY <1>3 DEF FailRowTimesOut, Count, CountWrite, CountTimesOut, Resumes, KeepsRunning
<1>4. ~Starting(q)
  BY DEF Starting, Connect, LockUser, LockProject, Admit, Prepare, Commit, OutOfRows, TxnThrows,
         InsertThrows, At
<1>5. ~\E x \in Rows : Submit(q, x) \/ SubmitThrows(q, x)
  BY DEF Submit, SubmitThrows, At
<1>6. ~Unlocked(q)
  BY DEF Unlocked, ResumeWrite, ResumeMark, GenerateInsert, At
<1>7. Happens(q) => Die(q)
  BY <1>5 DEF Happens, Arrive, GenerateCheck, Push, Halt, ResumeCheck, Sweep, TxnThrows, InsertThrows, At
<1> QED
  BY <1>1, <1>2, <1>3, <1>4, <1>5, <1>6, <1>7 DEF Serve, Submitting, Counts

\* Another request does not move it on ...
LEMMA OthersStayOut ==
  ASSUME IInv, NEW q \in Requests, NEW x \in Requests, x # q, Serve(x) \/ Happens(x)
  PROVE  request'[q] = request[q]
<1>0. request \in [Requests -> Request]
  BY DEF IInv, TypeOK
<1>1. ASSUME NEW to, request' = [request EXCEPT ![x] = to] PROVE request'[q] = request[q]
  BY <1>0, <1>1
<1>2. ASSUME NEW S, Proceeds(x, S) PROVE request'[q] = request[q]
  BY <1>1, <1>2 DEF Proceeds
<1>3. ASSUME NEW place, Go(x, place) PROVE request'[q] = request[q]
  BY <1>0, <1>3 DEF Go
<1>4. CASE Starting(x)
  <2>1. ASSUME NEW t \in Targets, Prepare(x, t) PROVE request'[q] = request[q]
    <3>1. \/ Proceeds(x, {})
          \/ request' = [request EXCEPT ![x].asks = request[x].asks \ {t}]
      BY <2>1 DEF Prepare
    <3> QED
      BY <1>0, <1>2, <3>1
  <2> QED
    BY <1>2, <1>3, <1>4, <2>1
    DEF Starting, Connect, LockUser, LockProject, Admit, Commit, OutOfRows, TxnThrows, InsertThrows
<1>5. CASE Submitting(x)
  BY <1>2, <1>3, <1>5 DEF Submitting, Submit, FailRow, FailRowTimesOut
<1>6. CASE Unlocked(x)
  BY <1>2, <1>3, <1>6 DEF Unlocked, ResumeWrite, ResumeMark, GenerateInsert
<1>7. CASE Counts(x) \/ CountTimesOut(x)
  BY <1>2, <1>7 DEF Counts, Count, CountWrite, CountTimesOut, Resumes
<1>8. CASE Happens(x)
  <2>1. ASSUME NEW r \in Rows, SubmitThrows(x, r) PROVE request'[q] = request[q]
    BY <1>0, <2>1 DEF SubmitThrows
  <2> QED
    BY <1>1, <1>2, <1>8, <2>1
    DEF Happens, Arrive, GenerateCheck, Push, Halt, ResumeCheck, Sweep, TxnThrows, InsertThrows, Die
<1> QED
  BY <1>4, <1>5, <1>6, <1>7, <1>8 DEF Serve

\* ... and neither does a run, whose row may be known by the same name.
LEMMA RunsStayOut ==
  ASSUME IInv, NEW q \in Requests, NEW r \in Rows, Work(r)
  PROVE  UNCHANGED request \/ UNCHANGED job
<1>1. CASE Counts(r)
  BY <1>1 DEF Counts, Count, CountWrite, Resumes
<1>2. CASE ~Counts(r)
  BY <1>2 DEF Work, Begin, BowOut, Complete, Retry, Fail, Park, Quit, Crash, Stamp, Chain
<1> QED
  BY <1>1, <1>2

\* Whatever the request of a failed submission does next, a worker that took the
\* row up all the same keeps it: failUnsubmittedJob fails a row that is still
\* queued, and the death of the API process rolls back only rows nobody saw.
THEOREM RunningIsSpared == Spec => NeverStomped
<1>1. IInv /\ [Next]_vars =>
        [\A q \in Requests : \A r \in Rows :
           At(q, "failing") /\ request'[q].at # "failing" /\ request[q].row = r
           /\ job[r].status = "running" => job'[r].status = "running"]_vars
  <2> SUFFICES ASSUME IInv, [Next]_vars, NEW q \in Requests, At(q, "failing"),
                      request'[q].at # "failing"
               PROVE  KeepsRunning(request[q].row)
    BY DEF KeepsRunning
  <2>1. ASSUME NEW x \in Requests, Serve(x) \/ Happens(x) PROVE KeepsRunning(request[q].row)
    BY <2>1, OwnStepSpares, OthersStayOut DEF At
  <2>2. ASSUME NEW r \in Rows, Work(r) PROVE KeepsRunning(request[q].row)
    BY <2>2, RunsStayOut DEF KeepsRunning, At
  <2>3. CASE UNCHANGED vars
    BY <2>3 DEF vars, At
  <2> QED
    BY <2>1, <2>2, <2>3 DEF Next
<1> QED
  BY <1>1, GateInvariant, PTL DEF Spec, NeverStomped
=============================================================================
