------------------------------- MODULE Reader -------------------------------
(***************************************************************************)
(* The reader of a member: OnboardingPage, the selection of                *)
(* PackagesContext and the marks of useProgress, against the API.          *)
(*                                                                         *)
(* A load of the selected package is aborted when the selection changes.   *)
(* The poll for sections that land one by one is only disarmed: an answer  *)
(* on its way still arrives.  Read marks are kept in the page, and saved   *)
(* two seconds after the last change, one pending save at a time.          *)
(***************************************************************************)
EXTENDS Naturals, FiniteSets

CONSTANTS Packages,      \* the packages of the project; the greatest is the newest
          Sections, Newer(_, _),
          MaxClicks, MaxFaults, MaxPolls   \* bounds: clicks, failed requests, polls under way

Nothing == "none"
Latest == "latest"       \* no package asked for: the newest one of the role
Missing == "missing"

VARIABLES
    exists, finished,    \* the packages there are, and those whose generation ended
    saved,               \* user_progress: the marks of the member, for each package
    open,                \* the reader is mounted
    sel,                 \* the package asked for: the chooser and ?package= agree
    pin,                 \* the pinned package
    shown,               \* pkg: what is on screen: a package, "missing", or none
    shownDone,           \* its status is no longer "generating"
    loading, error,      \* pkgLoading; pkgError: none, "failed" or "gone"
    polls,               \* the live polls under way, by the selection they ask for
    failures, halted,    \* of the armed poll: consecutiveFailures, and its interval is cleared
    stalled,             \* livePollStalled: the page says that it stopped looking
    rolePoll,            \* the poll of "Generate for this role" is running
    adopt,               \* a watched generation completed: take the new default
    progress, items,     \* the first fetch of the marks, and its answer
    marks, marksOf,      \* readSections, readSectionsPkg
    pending, puts,       \* the save that waits, and the saves under way
    made, kept,          \* history: marks ever made, marks made and not removed
    late,                \* history: an answer for another selection is on screen
    clicks, faults

serverVars == <<exists, finished, saved>>
paneVars   == <<shown, shownDone, loading, error>>
pollVars   == <<polls, failures, halted, stalled>>
markVars   == <<progress, items, marks, marksOf, pending, puts>>
history    == <<made, kept, late>>
readerVars == <<serverVars, open, sel, pin, paneVars, pollVars, rolePoll, adopt, markVars, history, clicks, faults>>

Selections == Packages \cup {Latest}
Save       == [for : Packages, marks : SUBSET Sections]
NoSave     == [for |-> Nothing, marks |-> {}]

ReaderTypeOK ==
    /\ exists \in SUBSET Packages /\ finished \in SUBSET exists
    /\ {saved, made, kept} \subseteq [Packages -> SUBSET Sections]
    /\ {open, shownDone, loading, halted, stalled, rolePoll, adopt, late} \subseteq BOOLEAN
    /\ sel \in Selections /\ pin \in Packages \cup {Nothing}
    /\ shown \in Packages \cup {Missing, Nothing} /\ error \in {Nothing, "failed", "gone"}
    /\ polls \in [Selections -> 0 .. MaxPolls] /\ failures \in 0 .. 3
    /\ progress \in {"off", "loading", "loaded", "failed"} /\ items \in [Packages -> SUBSET Sections]
    /\ marks \in SUBSET Sections /\ marksOf \in Packages \cup {Nothing}
    /\ pending \in Save \cup {NoSave} /\ puts \in SUBSET Save
    /\ clicks \in 0 .. MaxClicks /\ faults \in 0 .. MaxFaults

\* GET .../onboarding: the package asked for, or the newest.
Answer(s) ==
    CASE s \in exists -> s
      [] s \in Packages \ exists -> "gone"
      [] OTHER -> IF exists = {} THEN Missing
                  ELSE CHOOSE p \in exists : \A q \in exists \ {p} : Newer(p, q)

NoMarks == [p \in Packages |-> {}]
\* Nobody is reading, and nothing has been read.
Closed ==
    /\ finished = exists /\ saved = NoMarks /\ made = NoMarks /\ kept = NoMarks /\ open = FALSE
    /\ shown = Nothing /\ shownDone = TRUE /\ loading = FALSE /\ error = Nothing
    /\ polls = [s \in Selections |-> 0] /\ failures = 0 /\ halted = FALSE /\ stalled = FALSE
    /\ rolePoll = FALSE /\ adopt = FALSE
    /\ progress = "off" /\ items = NoMarks /\ marks = {} /\ marksOf = Nothing
    /\ pending = NoSave /\ puts = {} /\ late = FALSE /\ clicks = 0 /\ faults = 0

ReaderInit ==
    /\ exists \in SUBSET Packages /\ sel \in exists \cup {Latest} /\ pin \in exists \cup {Nothing}
    /\ Closed
Unread == exists = {} /\ sel = Latest /\ pin = Nothing /\ Closed

Click == clicks < MaxClicks /\ clicks' = clicks + 1
Fault == faults < MaxFaults /\ faults' = faults + 1

------------------------------------------------------------------------------
\* The effects that follow a change of what is shown or of the marks.

\* A bug: the marks of the package before are merged into those of the next.
MarksMerged(p, loaded, stored) ==
    IF p \in Packages /\ loaded
    THEN LET m == marks \cup stored[p] IN
         /\ marks' = m /\ marksOf' = p /\ pending' = [for |-> p, marks |-> m]
    ELSE UNCHANGED <<marks, marksOf, pending>>

\* The two effects on the marks.  Another package brings its stored marks, the
\* same one keeps those on screen; and the marks of the package on screen are
\* saved, in place of whatever save was waiting.
MarksFor(p, loaded, stored) ==
    IF p \in Packages /\ loaded
    THEN LET m == IF marksOf = p THEN marks \cup stored[p] ELSE stored[p] IN
         /\ marks' = m /\ marksOf' = p /\ pending' = [for |-> p, marks |-> m]
    ELSE UNCHANGED <<marks, marksOf, pending>>

\* setPkg with an answer of the API.  The poll is armed anew when the status
\* on screen changes: f and h are its failures and whether it was cleared.
Status(p, ended) == IF p \in Packages THEN IF ended THEN "done" ELSE "generating" ELSE p
Show(p, f, h) ==
    /\ shown' = p /\ shownDone' = (p \notin Packages \/ p \in finished)
    /\ IF Status(shown, shownDone) = Status(p, p \in finished) THEN failures' = f /\ halted' = h
       ELSE failures' = 0 /\ halted' = FALSE
    /\ IF p = shown THEN UNCHANGED <<marks, marksOf, pending>>
       ELSE MarksFor(p, progress = "loaded", items)

\* A bug: only a run of this page is polled for.
ArmedForOwnRun == open /\ ~halted /\ rolePoll

\* The live poll is armed while the package on screen, or the run that makes
\* it, is not done.  Whatever it depends on arms it anew.
Armed == open /\ ~halted /\ (~shownDone \/ rolePoll)
Rearm == failures' = 0 /\ halted' = FALSE

\* loadPkg for a selection: what was under way is aborted.
Load(s) == sel' = s /\ loading' = TRUE /\ error' = Nothing

------------------------------------------------------------------------------
\* The reader is opened: the marks are fetched and the package is loaded.
OpenReader ==
    /\ ~open /\ Click /\ open' = TRUE /\ Load(sel)
    /\ shown' = Nothing /\ shownDone' = TRUE /\ Rearm /\ stalled' = FALSE
    /\ progress' = "loading" /\ items' = NoMarks /\ marks' = {} /\ marksOf' = Nothing /\ late' = FALSE
    /\ UNCHANGED <<serverVars, pin, polls, rolePoll, adopt, pending, puts, made, kept, faults>>

\* ... and closed: the loads are aborted, the timers cleared, and the save
\* that waits is sent.  (Bound: one save on its way at a time, two of them
\* may overtake each other.)
Flushed(next) == puts' = (IF pending = NoSave THEN puts ELSE puts \cup {pending}) /\ pending' = next
Close ==
    /\ open /\ puts = {} /\ open' = FALSE /\ loading' = FALSE /\ rolePoll' = FALSE /\ progress' = "off"
    /\ shown' = Nothing /\ shownDone' = TRUE /\ Rearm /\ stalled' = FALSE /\ Flushed(NoSave)
    /\ UNCHANGED <<serverVars, sel, pin, error, polls, adopt, items, marks, marksOf, history, clicks, faults>>

ProgressLands ==
    /\ progress = "loading" /\ progress' = "loaded" /\ items' = saved
    /\ MarksFor(shown, TRUE, saved)
    /\ UNCHANGED <<serverVars, open, sel, pin, paneVars, pollVars, rolePoll, adopt, puts, history, clicks, faults>>

\* A failed fetch leaves `loaded` false, for the rest of the visit.
ProgressFails ==
    /\ progress = "loading" /\ Fault /\ progress' = "failed" /\ items' = NoMarks
    /\ UNCHANGED <<serverVars, open, sel, pin, paneVars, pollVars, rolePoll, adopt, marks, marksOf,
                   pending, puts, history, clicks>>

\* The chooser, or a link: another selection is loaded, or the same again.
Select(s) ==
    /\ open /\ Click /\ s \in exists \cup {Latest} /\ Load(s) /\ (IF s = sel THEN UNCHANGED <<failures, halted>> ELSE Rearm)
    /\ UNCHANGED <<serverVars, open, pin, shown, shownDone, polls, stalled, rolePoll, adopt, markVars, history, faults>>

Retry ==
    /\ open /\ error = "failed" /\ Click /\ Load(sel)
    /\ UNCHANGED <<serverVars, open, pin, shown, shownDone, pollVars, rolePoll, adopt, markVars, history, faults>>

LoadLands ==
    /\ loading /\ Answer(sel) # "gone" /\ loading' = FALSE /\ late' = FALSE
    /\ Show(Answer(sel), failures, halted)
    /\ UNCHANGED <<serverVars, open, sel, pin, error, polls, stalled, rolePoll, adopt, progress, items, puts,
                   made, kept, clicks, faults>>

\* A bug: the package of the earlier selection stays under the error.
LoadFailsKeeping ==
    /\ loading /\ loading' = FALSE /\ late' = FALSE
    /\ \/ Answer(sel) = "gone" /\ error' = "gone" /\ UNCHANGED faults
       \/ Answer(sel) # "gone" /\ Fault /\ error' = "failed"
    /\ UNCHANGED <<serverVars, open, sel, pin, shown, shownDone, pollVars, rolePoll, adopt, markVars, made, kept,
                   clicks>>

\* A failure, or a package that is gone, leaves nothing on screen.
LoadFails ==
    /\ loading /\ loading' = FALSE /\ late' = FALSE /\ shown' = Nothing /\ shownDone' = TRUE
    /\ IF shown = Nothing THEN UNCHANGED <<failures, halted>> ELSE Rearm
    /\ \/ Answer(sel) = "gone" /\ error' = "gone" /\ UNCHANGED faults
       \/ Answer(sel) # "gone" /\ Fault /\ error' = "failed"
    /\ UNCHANGED <<serverVars, open, sel, pin, polls, stalled, rolePoll, adopt, markVars, made, kept, clicks>>

------------------------------------------------------------------------------
PollTick ==
    /\ Armed /\ \A s \in Selections : polls[s] < MaxPolls
    /\ polls' = [polls EXCEPT ![sel] = @ + 1]
    /\ UNCHANGED <<serverVars, open, sel, pin, paneVars, failures, halted, stalled, rolePoll, adopt, markVars,
                   history, clicks, faults>>

\* An answer of the poll is shown, whatever is selected by now.
PollLands(s) ==
    /\ polls[s] > 0 /\ polls' = [polls EXCEPT ![s] = @ - 1] /\ Answer(s) # "gone"
    /\ IF open
       THEN /\ Show(Answer(s), IF s = sel THEN 0 ELSE failures, halted) /\ stalled' = FALSE /\ late' = (s # sel)
       ELSE UNCHANGED <<failures, halted, stalled, shown, shownDone, marks, marksOf, pending, late>>
    /\ UNCHANGED <<serverVars, open, sel, pin, loading, error, rolePoll, adopt, progress, items, puts,
                   made, kept, clicks, faults>>

\* The third failure in a row stops the poll.  (A failure of a poll that was
\* armed for another selection counts for nothing.)
PollFails(s) ==
    /\ polls[s] > 0 /\ polls' = [polls EXCEPT ![s] = @ - 1]
    /\ IF Answer(s) = "gone" THEN UNCHANGED faults ELSE Fault
    /\ IF open /\ s = sel
       THEN /\ failures' = (IF failures = 3 THEN 3 ELSE failures + 1)
            /\ halted' = (halted \/ failures >= 2) /\ stalled' = (stalled \/ failures >= 2)
       ELSE UNCHANGED <<failures, halted, stalled>>
    /\ UNCHANGED <<serverVars, open, sel, pin, paneVars, rolePoll, adopt, markVars, history, clicks>>

PollAnswered(s) == PollLands(s) \/ PollFails(s)

\* The retry of a poll that stopped.
ArmAgain ==
    /\ open /\ stalled /\ Click /\ stalled' = FALSE /\ Rearm
    /\ UNCHANGED <<serverVars, open, sel, pin, paneVars, polls, rolePoll, adopt, markVars, history, faults>>

------------------------------------------------------------------------------
\* The pane under the header.
Pane == CASE shown \in Packages -> "content"
          [] shown \notin Packages /\ loading -> "loading"
          [] shown \notin Packages /\ ~loading /\ error # Nothing -> "error"
          [] OTHER -> "generate"

\* "Generate for this role", offered when no package is there.
GenerateRole(p) ==
    /\ open /\ Pane = "generate" /\ ~rolePoll /\ Click
    /\ p \in Packages \ exists /\ exists' = exists \cup {p} /\ rolePoll' = TRUE /\ Rearm
    /\ UNCHANGED <<finished, saved, open, sel, pin, paneVars, polls, stalled, adopt, markVars, history, faults>>

\* The package of the role has landed: it is shown, and selected.
RolePollLands ==
    /\ rolePoll /\ Answer(Latest) \in Packages /\ rolePoll' = FALSE
    /\ Show(Answer(Latest), 0, FALSE) /\ sel' = Answer(Latest) /\ late' = FALSE
    /\ loading' = TRUE /\ error' = Nothing
    /\ UNCHANGED <<serverVars, open, pin, polls, stalled, adopt, progress, items, puts, made, kept, clicks, faults>>

\* The timeout of five minutes.
RolePollTimesOut ==
    /\ rolePoll /\ Fault /\ rolePoll' = FALSE /\ Rearm
    /\ UNCHANGED <<serverVars, open, sel, pin, paneVars, polls, stalled, adopt, markVars, history, clicks>>

\* The worker finishes a package; the status poll of the page sees the job of
\* this session complete.
GenerationEnds(p) ==
    /\ p \in exists \ finished /\ finished' = finished \cup {p} /\ adopt' = TRUE
    /\ UNCHANGED <<exists, saved, open, sel, pin, paneVars, pollVars, rolePoll, markVars, history, clicks, faults>>

\* The project comes back with the new default: it is selected, unless a
\* package is pinned.
AdoptDefault(p) ==
    /\ adopt /\ adopt' = FALSE /\ p \in finished
    /\ IF pin = Nothing THEN IF open THEN Load(p) /\ Rearm ELSE sel' = p /\ UNCHANGED <<loading, error, failures, halted>>
       ELSE UNCHANGED <<sel, loading, error, failures, halted>>
    /\ UNCHANGED <<serverVars, open, pin, shown, shownDone, polls, stalled, rolePoll, markVars, history, clicks, faults>>

------------------------------------------------------------------------------
\* "Mark as read", or not: on the marks of the package on screen.
ToggleRead(x) ==
    /\ open /\ shown \in Packages /\ progress = "loaded" /\ marksOf = shown /\ Click
    /\ LET on == x \notin marks
           m  == IF on THEN marks \cup {x} ELSE marks \ {x}
       IN  /\ marks' = m /\ pending' = [for |-> shown, marks |-> m]
           /\ made' = (IF on THEN [made EXCEPT ![shown] = @ \cup {x}] ELSE made)
           /\ kept' = [kept EXCEPT ![shown] = IF on THEN @ \cup {x} ELSE @ \ {x}]
    /\ UNCHANGED <<serverVars, open, sel, pin, paneVars, pollVars, rolePoll, adopt, progress, items, marksOf,
                   puts, late, faults>>

\* Two seconds without a change: the save is sent.
DebounceFires ==
    /\ open /\ pending # NoSave /\ puts = {} /\ Flushed(NoSave)
    /\ UNCHANGED <<serverVars, open, sel, pin, paneVars, pollVars, rolePoll, adopt, progress, items, marks,
                   marksOf, history, clicks, faults>>

\* PUT .../progress replaces the position of the package.
PutLands(w) ==
    /\ w \in puts /\ puts' = puts \ {w} /\ saved' = [saved EXCEPT ![w.for] = w.marks]
    /\ UNCHANGED <<exists, finished, open, sel, pin, paneVars, pollVars, rolePoll, adopt, progress, items, marks,
                   marksOf, pending, history, clicks, faults>>

------------------------------------------------------------------------------
ReaderNext ==
    \/ OpenReader \/ Close \/ ProgressLands \/ ProgressFails \/ Retry \/ LoadLands \/ LoadFails
    \/ PollTick \/ ArmAgain \/ RolePollLands \/ RolePollTimesOut \/ DebounceFires
    \/ \E s \in Selections : Select(s) \/ PollAnswered(s)
    \/ \E p \in Packages : GenerateRole(p) \/ GenerationEnds(p) \/ AdoptDefault(p)
    \/ \E x \in Sections : ToggleRead(x)
    \/ \E w \in puts : PutLands(w)

ReaderSpec == ReaderInit /\ [][ReaderNext]_readerVars

------------------------------------------------------------------------------
\* A mark is only ever saved for the package it was made in, and a visit that
\* could not read the stored marks writes none.
MarksStayApart ==
    /\ \A p \in Packages : saved[p] \subseteq made[p]
    /\ \A w \in puts : w.marks \subseteq made[w.for]
    /\ progress = "failed" => pending = NoSave

\* Once its load has settled, the pane shows the package that is selected, and
\* the billed "Generate" only when there is none, unless a poll sent for an
\* earlier selection answered last.
ShownIsSelected ==
    open /\ ~loading /\ ~late =>
        /\ shown \in Packages => sel = Latest \/ shown = sel
        /\ Pane = "generate" => sel = Latest

\* Loads and polls are answered, generations end.
Fairness ==
    /\ WF_readerVars(LoadLands) /\ WF_readerVars(PollTick) /\ WF_readerVars(RolePollLands)
    /\ \A s \in Selections : WF_readerVars(PollAnswered(s))
    /\ \A p \in Packages : WF_readerVars(GenerationEnds(p))

\* A package that is on screen while it is written is not left half shown: it
\* ends up complete, or the page says that it stopped looking.
CatchesUp == open /\ ~shownDone ~> shownDone \/ stalled \/ ~open

\* What a member marked as read, and did not unmark, is saved once the reader
\* is closed and its saves have arrived.
MarksKept == ~open /\ puts = {} => \A p \in Packages : kept[p] \subseteq saved[p]
==============================================================================
