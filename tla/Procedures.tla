------------------------------ MODULE Procedures ------------------------------
(***************************************************************************)
(* The how-to guides of a package: how to bring the stack up, how to run   *)
(* the tests, how to watch one flow run.                                   *)
(*                                                                         *)
(* A repository c has the services of its compose file, in order, each     *)
(* with its published ports, whether it is a datastore, the directory it   *)
(* is built from, the environment files it reads and what it depends on;   *)
(* whether a compose file runs the tests; its manifests, nearest the root  *)
(* first, with the scripts they have; the templates of environment files;  *)
(* how many tests are linked to what they cover; and whether it has a      *)
(* pipeline with jobs.  Of a step of a draft the kind is kept and what it  *)
(* is about; wording is left out.                                          *)
(***************************************************************************)
EXTENDS Integers, Sequences, FiniteSets, SequencesExt, FiniteSetsExt

GuideMax == 8
GuideMin == 3
TestGuideMin == 2

Prefix(s, n) == SubSeq(s, 1, IF Len(s) < n THEN Len(s) ELSE n)
Skip(reason) == [ok |-> FALSE, reason |-> reason, steps |-> <<>>, gaps |-> {}]
Draft(steps, gaps, least) ==
    IF Len(steps) < least THEN Skip("too_few_steps") ELSE [ok |-> TRUE, reason |-> "none", steps |-> steps, gaps |-> gaps]
Step(kind, about) == [kind |-> kind, about |-> about]

------------------------------------------------------------------------------
\* What can be run: the compose file before a script, the root before a
\* package; no more than one command to start and one to test.
Scripts(c, which) == SelectSeq(c.manifests, LAMBDA m : which \in m)
StartOf(c) == IF c.services # <<>> THEN "compose" ELSE IF Scripts(c, "start") # <<>> THEN "script" ELSE "none"
TestOf(c)  == IF c.testCompose THEN "compose" ELSE IF Scripts(c, "test") # <<>> THEN "script" ELSE "none"
PortsOf(c) ==
    FlattenSeq([i \in DOMAIN c.services |->
        [k \in DOMAIN c.services[i].ports |->
            [port |-> c.services[i].ports[k], service |-> c.services[i].name,
             http |-> ~c.services[i].datastore, context |-> c.services[i].context]]])
Environment(c) == [start |-> StartOf(c), test |-> TestOf(c), templates |-> c.templates,
                   ports |-> SelectSeq(PortsOf(c), LAMBDA p : p.port # "none")]
HttpPorts(env) == SelectSeq(env.ports, LAMBDA p : p.http)

\* The port that serves a file: of the service built from its directory, else
\* the first that answers requests.
ServingPort(env, dir) ==
    LET built == SelectSeq(HttpPorts(env), LAMBDA p : p.context = dir)
    IN  IF built # <<>> THEN built[1].port
        ELSE IF HttpPorts(env) # <<>> THEN HttpPorts(env)[1].port ELSE "none"

\* How deep a service sits.  What one branch has seen the next does not
\* follow again.
RECURSIVE Descend(_, _, _)
Descend(c, name, seen) ==
    LET found == SelectSeq(c.services, LAMBDA s : s.name = name)
        deps  == IF found = <<>> THEN <<>> ELSE found[1].dependsOn
        Into(acc, dep) == LET below == Descend(c, dep, acc.seen)
                          IN  [depth |-> IF below.depth + 1 > acc.depth THEN below.depth + 1 ELSE acc.depth,
                               seen |-> below.seen]
    IN  IF name \in seen THEN [depth |-> 0, seen |-> seen]
        ELSE FoldLeft(Into, [depth |-> 0, seen |-> seen \cup {name}], deps)
Depth(c, s) == Descend(c, s.name, {}).depth
\* The deepest, and of those the last in the file.
LastUp(c) ==
    LET best == {i \in DOMAIN c.services : \A j \in DOMAIN c.services : Depth(c, c.services[j]) <= Depth(c, c.services[i])}
    IN  c.services[Max(best)]

------------------------------------------------------------------------------
\* Bring the stack up: at most two templates, the start, the ports that answer
\* requests while two steps are left, the log of the last service, the stop.
Templates(c) ==
    LET read == UNION {c.services[i].envFiles : i \in DOMAIN c.services}
    IN  Prefix(SelectSeq(c.templates, LAMBDA t : read = {} \/ t \in read), 2)
Opened(env, room) ==
    LET ports == [i \in DOMAIN HttpPorts(env) |-> HttpPorts(env)[i].port]
        fresh == SelectSeq([i \in DOMAIN ports |-> i], LAMBDA i : \A j \in 1 .. i - 1 : ports[j] # ports[i])
    IN  Prefix([k \in DOMAIN fresh |-> ports[fresh[k]]], room)
RunIt(c) ==
    LET env    == Environment(c)
        setup  == [k \in DOMAIN Templates(c) |-> Step("setup", Templates(c)[k])]
        room   == GuideMax - 2 - (Len(setup) + 1)
        opened == Opened(env, room)
        steps  == setup \o <<Step("run", "compose")>>
                  \o [k \in DOMAIN opened |-> Step("observe", opened[k])]
                  \o <<Step("observe", LastUp(c).name), Step("revert", "compose")>>
        gaps   == (IF setup # <<>> THEN {"env_values_not_in_repo"} ELSE {})
                  \cup (IF \E p \in ToSet(env.ports) : ~p.http THEN {"datastore_ports_not_opened"} ELSE {})
                  \cup (IF env.ports = <<>> THEN {"no_published_ports"} ELSE {})
    IN  IF c.services = <<>> THEN Skip("no_compose_topology") ELSE Draft(Prefix(steps, GuideMax), gaps, GuideMin)

\* Run the tests, and see which of them covers what.
RunTests(c) ==
    LET guards == [k \in 1 .. Min({c.guards, 3, GuideMax - 2}) |-> Step("inspect", "guard")]
        steps  == <<Step("run", TestOf(c))>> \o guards \o IF c.pipeline THEN <<Step("inspect", "pipeline")>> ELSE <<>>
        gaps   == IF c.guards = 0 THEN {"no_test_edges"} ELSE {}
    IN  IF TestOf(c) = "none" THEN Skip("no_test_command") ELSE Draft(steps, gaps, TestGuideMin)

------------------------------------------------------------------------------
\* A flow to watch has its steps in order, each with its kind, whether it is
\* a line of a script one can mark, the member of a journey it belongs to and
\* the crossing it makes.
EffectKinds == {"data_write", "async_work", "side_effect", "data_read", "auth_guard"}
Crosses(s)   == s.boundary # "none"
IsJourney(t) == \E i \in DOMAIN t.steps : Crosses(t.steps[i]) \/ t.steps[i].member # "none"
Boundaries(t) == SelectSeq([i \in DOMAIN t.steps |-> i], LAMBDA i : Crosses(t.steps[i]))
\* What one trigger runs: a queue is crossed by the job, nothing else is.
Stops(t) == {i \in DOMAIN t.steps : Crosses(t.steps[i]) /\ t.steps[i].boundary # "queue"}
\* Plausible bug: every crossing is taken to follow from the one trigger.
ReachableAll(t) == DOMAIN t.steps
Reachable(t) == IF Stops(t) = {} THEN DOMAIN t.steps ELSE 1 .. Min(Stops(t)) - 1
EffectSteps(t, S) == {i \in S : t.steps[i].kind \in EffectKinds}

\* The line to mark: the deepest effect that can be marked, else the entry.
Probe(t, effects) ==
    LET marked == {i \in effects : t.steps[i].markable}
    IN  IF marked # {} THEN Max(marked) ELSE IF t.steps[1].markable THEN 1 ELSE 0

IsHttp(t) == t.route # "none" /\ t.trigger = "http"
IsPage(t) == t.route # "none" /\ t.trigger = "page"
Trigger(t, env) == IF IsHttp(t) THEN "curl" ELSE IF IsPage(t) THEN "open"
                   ELSE IF t.covered /\ env.test # "none" THEN "test" ELSE "none"
TriggerGaps(t, env) ==
    IF ~IsHttp(t) /\ ~IsPage(t) THEN {}
    ELSE (IF ServingPort(env, t.dir) = "none" THEN {"port_unknown"} ELSE {})
         \cup (IF t.route = "param" THEN {"route_params_unfilled"} ELSE {})

\* The crossings shown: all that fit, or the first ones and the last.
HopBudget(install) == GuideMax - (IF install THEN 6 ELSE 5)
Hops(t, budget) ==
    LET all == Boundaries(t)
    IN  IF ~IsJourney(t) THEN <<>> ELSE IF Len(all) <= budget THEN all ELSE Prefix(all, budget - 1) \o <<Last(all)>>
Terminal(t, probe) == {i \in DOMAIN t.steps : ~IsJourney(t) /\ i > probe /\ i # 1}

Watch(t, env) ==
    LET install == (IF env.start # "none" THEN env.start ELSE env.test) = "script"
        effects == EffectSteps(t, Reachable(t))
        probe   == Probe(t, effects)
        hops    == Hops(t, HopBudget(install))
        before  == (IF install THEN <<Step("setup", 0)>> ELSE <<>>) \o <<Step("run", 0), Step("inspect", 1)>>
                   \o [k \in DOMAIN hops |-> Step("inspect", hops[k])] \o <<Step("edit", probe), Step("trigger", 1)>>
        ending  == IF Terminal(t, probe) = {} \/ Len(before) >= GuideMax - 1 THEN <<>>
                   ELSE <<Step("observe", Max(Terminal(t, probe)))>>
        steps   == before \o ending \o <<Step("revert", probe)>>
        gaps    == TriggerGaps(t, env)
                   \cup (IF Len(hops) < Len(Boundaries(t)) THEN {"journey_hops_not_walked"} ELSE {})
                   \cup (IF Stops(t) # {} THEN {"journey_members_triggered_separately"} ELSE {})
                   \cup (IF Len(t.steps) > Len(steps) THEN {"steps_not_walked"} ELSE {})
    IN  CASE t.tier = "surface" -> Skip("surface_tier_no_traced_effects")
          [] t.tier # "surface" /\ env.start = "none" /\ env.test = "none" -> Skip("no_runnable_command")
          [] OTHER ->
               IF t.steps = <<>> \/ effects = {} THEN Skip("surface_tier_no_traced_effects")
               ELSE IF probe = 0 THEN Skip("no_observable_probe")
               ELSE IF Trigger(t, env) = "none" THEN Skip("no_way_to_trigger")
               ELSE Draft(Prefix(steps, GuideMax), gaps, GuideMin)

------------------------------------------------------------------------------
At(d, kind) == {i \in DOMAIN d.steps : d.steps[i].kind = kind}

\* What a guide starts or changes it undoes, in its last step: the cut to the
\* longest guide never takes that step.
LeavesNothing(d) ==
    d.ok /\ At(d, "revert") \cup At(d, "edit") # {} => At(d, "revert") = {Len(d.steps)}

\* A stack is stopped, and the log to read is of a service no chain of
\* dependencies goes beyond.
StackGuide(c) ==
    LET d == RunIt(c)
        chained == \A i \in DOMAIN c.services : Len(c.services[i].dependsOn) <= 1
        waits(name) == {i \in DOMAIN c.services : name \in ToSet(c.services[i].dependsOn)}
        acyclic == \A i \in DOMAIN c.services : Depth(c, c.services[i]) < Len(c.services)
    IN  d.ok => /\ LeavesNothing(d) /\ At(d, "revert") # {} /\ Cardinality(At(d, "run")) = 1
                /\ chained /\ acyclic => waits(d.steps[Len(d.steps) - 1].about) = {}
                /\ \A i \in At(d, "observe") : \A j \in At(d, "observe") : i # j => d.steps[i] # d.steps[j]

\* The marker is on a line that the one trigger reaches; it is put before the
\* trigger and taken out after it; where a journey ends is shown, and what is
\* left out is told of.
WatchGuide(t, env) ==
    LET d == Watch(t, env) IN
    d.ok => /\ LeavesNothing(d) /\ At(d, "edit") # {}
            /\ \A i \in At(d, "edit"), j \in At(d, "trigger") :
                 /\ i < j /\ \A k \in 1 .. d.steps[i].about : t.steps[k].boundary \in {"none", "queue"}
                 /\ d.steps[Len(d.steps)].about = d.steps[i].about
            /\ \A i \in At(d, "observe") : d.steps[i].about > Max({d.steps[j].about : j \in At(d, "edit")})
            /\ Boundaries(t) # <<>> => \E i \in At(d, "inspect") : d.steps[i].about = Last(Boundaries(t))
            /\ \/ "journey_hops_not_walked" \in d.gaps
               \/ \A k \in ToSet(Boundaries(t)) : \E i \in At(d, "inspect") : d.steps[i].about = k
==============================================================================
