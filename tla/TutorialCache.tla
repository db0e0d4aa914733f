----------------------------- MODULE TutorialCache -----------------------------
(***************************************************************************)
(* The rows of one tutorial in the packages of a project: written anew,    *)
(* or copied from a package that has it for the same evidence.             *)
(*                                                                         *)
(* A row has its package, the evidence it was made of, how sure the model  *)
(* was, and the evidence its steps show, 0 while it has none.  Each        *)
(* statement is a step of its own; a job may die after any of them.        *)
(***************************************************************************)
EXTENDS Naturals, FiniteSets

CONSTANTS Packages, Evidence,
          MaxRows   \* rows ever written: the bound on ids

\* 0 stands for no evidence and for no row.
ASSUME CacheAssumption == MaxRows \in Nat /\ Evidence # {} /\ 0 \notin Evidence

VARIABLES
  tutorials,  \* the table: a function from the ids that are there
  busy, has,  \* where the job of a package is, and the evidence it works on
  source, own, \* the row it copies, and the row it has written
  spoilt      \* ids left without steps by a job that died or a source that went

cacheVars == <<tutorials, busy, has, source, own, spoilt>>

Ids    == 1 .. MaxRows
Used   == DOMAIN tutorials \cup spoilt \cup {own[p] : p \in Packages} \cup {source[p] : p \in Packages}
Fresh  == CHOOSE n \in 1 .. MaxRows + 1 : n \notin Used /\ \A m \in Used : m < n
TutorialRow(p, h, sure) == [pkg |-> p, hash |-> h, sure |-> sure, steps |-> 0, status |-> "draft"]
Where == {"idle", "found", "write", "replace", "steps", "clear", "copy", "copySteps"}

CacheTypeOK ==
    /\ DOMAIN tutorials \subseteq Ids /\ spoilt \subseteq Ids
    /\ busy \in [Packages -> Where] /\ has \in [Packages -> Evidence]
    /\ source \in [Packages -> Ids \cup {0}] /\ own \in [Packages -> Ids \cup {0}]

CacheInit ==
    /\ tutorials = <<>> /\ busy = [p \in Packages |-> "idle"]
    /\ has \in [Packages -> {CHOOSE h \in Evidence : TRUE}]
    /\ source = [p \in Packages |-> 0] /\ own = [p \in Packages |-> 0] /\ spoilt = {}

Goes(p, w) == busy' = [busy EXCEPT ![p] = w]
Without(S) == [i \in DOMAIN tutorials \ S |-> tutorials[i]]
With(i, r) == [j \in DOMAIN tutorials \cup {i} |-> IF j = i THEN r ELSE tutorials[j]]
Mine(p)    == {i \in DOMAIN tutorials : tutorials[i].pkg = p}

------------------------------------------------------------------------------
\* The newest row for the evidence that is fit to be shown again: not stale,
\* not unsure, and with steps.
\* Plausible bug: a row is reused whether or not its steps were written.
ReusableAny(h) == {i \in DOMAIN tutorials : tutorials[i].hash = h /\ tutorials[i].status = "draft" /\ tutorials[i].sure}
Reusable(h) == {i \in DOMAIN tutorials : tutorials[i].hash = h /\ tutorials[i].status = "draft" /\ tutorials[i].sure /\ tutorials[i].steps # 0}
Newest(S) == CHOOSE i \in S : \A j \in S : j <= i
Lookup(p, h) ==
    /\ busy[p] = "idle" /\ Fresh <= MaxRows /\ has' = [has EXCEPT ![p] = h] /\ own' = [own EXCEPT ![p] = 0]
    /\ IF Reusable(h) = {} THEN Goes(p, "write") /\ source' = [source EXCEPT ![p] = 0]
       ELSE Goes(p, "found") /\ source' = [source EXCEPT ![p] = Newest(Reusable(h))]
    /\ UNCHANGED <<tutorials, spoilt>>

\* A hit in the package itself keeps the row; one elsewhere is copied.
Hit(p) ==
    /\ busy[p] = "found"
    /\ IF source[p] \in Mine(p) THEN Goes(p, "idle") ELSE Goes(p, "clear")
    /\ UNCHANGED <<tutorials, has, source, own, spoilt>>

\* The old row goes, the new one comes without steps, the steps follow.  The
\* model may refuse or fail before any of it.
Refused(p) == busy[p] = "write" /\ Goes(p, "idle") /\ UNCHANGED <<tutorials, has, source, own, spoilt>>
Annotated(p) ==
    /\ busy[p] = "write" /\ tutorials' = Without(Mine(p)) /\ Goes(p, "replace") /\ UNCHANGED <<has, source, own, spoilt>>
Insert(p, sure) ==
    /\ busy[p] = "replace" /\ Fresh <= MaxRows
    /\ tutorials' = With(Fresh, TutorialRow(p, has[p], sure)) /\ own' = [own EXCEPT ![p] = Fresh]
    /\ Goes(p, "steps") /\ UNCHANGED <<has, source, spoilt>>
WriteSteps(p) ==
    /\ busy[p] = "steps" /\ tutorials' = [tutorials EXCEPT ![own[p]].steps = has[p]] /\ Goes(p, "idle")
    /\ UNCHANGED <<has, source, own, spoilt>>

\* The copy is made of the source as it is at each statement: a source that
\* is gone leaves the package without the row, or the row without steps.
Clear(p) ==
    /\ busy[p] = "clear" /\ tutorials' = Without(Mine(p)) /\ Goes(p, "copy") /\ UNCHANGED <<has, source, own, spoilt>>
Copy(p) ==
    /\ busy[p] = "copy" /\ Fresh <= MaxRows
    /\ IF source[p] \in DOMAIN tutorials
       THEN /\ tutorials' = With(Fresh, TutorialRow(p, has[p], tutorials[source[p]].sure))
            /\ own' = [own EXCEPT ![p] = Fresh] /\ Goes(p, "copySteps")
       ELSE UNCHANGED <<tutorials, own>> /\ Goes(p, "idle")
    /\ UNCHANGED <<has, source, spoilt>>
CopySteps(p) ==
    /\ busy[p] = "copySteps" /\ Goes(p, "idle")
    /\ IF source[p] \in DOMAIN tutorials
       THEN tutorials' = [tutorials EXCEPT ![own[p]].steps = tutorials[source[p]].steps] /\ UNCHANGED spoilt
       ELSE spoilt' = spoilt \cup {own[p]} /\ UNCHANGED tutorials
    /\ UNCHANGED <<has, source, own>>

\* A job dies between two statements; a push makes rows stale.
Dies(p) ==
    /\ busy[p] # "idle" /\ Goes(p, "idle")
    /\ spoilt' = IF busy[p] \in {"steps", "copySteps"} THEN spoilt \cup {own[p]} ELSE spoilt
    /\ UNCHANGED <<tutorials, has, source, own>>
MarkStale(i) ==
    /\ i \in DOMAIN tutorials /\ tutorials[i].status = "draft" /\ tutorials[i].steps # 0
    /\ tutorials' = [tutorials EXCEPT ![i].status = "stale"] /\ UNCHANGED <<busy, has, source, own, spoilt>>

Step(p) == \/ \E h \in Evidence : Lookup(p, h)
           \/ Hit(p) \/ Refused(p) \/ Annotated(p) \/ (\E sure \in BOOLEAN : Insert(p, sure)) \/ WriteSteps(p)
           \/ Clear(p) \/ Copy(p) \/ CopySteps(p) \/ Dies(p)
CacheNext == (\E p \in Packages : Step(p)) \/ (\E i \in Ids : MarkStale(i))
CacheSpec == CacheInit /\ [][CacheNext]_cacheVars

------------------------------------------------------------------------------
\* A row without steps is being written, or was left so by a job that died or
\* by a source that went during the copy: no such row is ever copied on.
EmptyNeverSpreads ==
    \A i \in DOMAIN tutorials : tutorials[i].steps = 0 =>
        i \in spoilt \/ \E p \in Packages : own[p] = i /\ busy[p] \in {"steps", "copySteps"}
\* The steps of a tutorial are those of the evidence its row is kept under,
\* and a package has one row of it.
StepsMatch ==
    /\ \A i \in DOMAIN tutorials : tutorials[i].steps \in {0, tutorials[i].hash}
    /\ \A i, j \in DOMAIN tutorials : tutorials[i].pkg = tutorials[j].pkg => i = j
\* What a doubtful model wrote is not shown in another package.
DoubtStays == \A p \in Packages : busy[p] = "copySteps" => tutorials[own[p]].sure

\* The rows of a tutorial: one a package at most, with the steps of the evidence
\* it is kept under; a row without steps, or one the model was unsure of, is
\* never copied to another package.
RowsKept == EmptyNeverSpreads /\ StepsMatch /\ DoubtStays
==============================================================================
