----------------------------- MODULE AiDispatch -----------------------------
(***************************************************************************)
(* Provider calls of one worker process: worker/ai/aiClient.ts and         *)
(* worker/ai/rateLimitGate.ts. Every job builds its own AiClient with its  *)
(* own semaphore; all of them share the process-global rate-limit gate of  *)
(* the provider. A call tries the models of its tier in order; on each it  *)
(* waits for the gate, takes a slot, dispatches, and retries from two      *)
(* independent allowances, one for 429s and one for other errors.          *)
(*                                                                         *)
(* An action is what runs between two macrotasks of the event loop: a      *)
(* release hands its slot over in the same drain of the microtask queue,   *)
(* so the next waiter is in flight when anything else runs. Time is the    *)
(* number of Ticks until the gate reopens.                                 *)
(***************************************************************************)
EXTENDS Integers, FiniteSets, Sequences

CONSTANTS
  Calls,       \* AiClient.call invocations
  Clients,     \* one AiClient per job
  ClientOf,    \* the client of each call
  Limit,       \* LLM_MAX_CONCURRENCY, the slots of a client's semaphore
  Behaviors,   \* the tier's failure behaviors
  NumModels,   \* models of the tier, the primary first
  MaxRetries,  \* maxRetries
  MaxWaits,    \* maxRateLimitWaits
  MaxCooldown, \* bound: Ticks a 429 can shut the gate for
  MaxAborts    \* bound: hedged calls cancelled

ASSUME CallsAssumption  == /\ IsFiniteSet(Calls)
                           /\ ClientOf \in [Calls -> Clients]
ASSUME LimitsAssumption == /\ Limit \in Nat \ {0}
                           /\ NumModels \in Nat \ {0}
                           /\ MaxRetries \in Nat
                           /\ MaxWaits \in Nat
ASSUME TierAssumption   == Behaviors \subseteq {"retry", "degrade", "pause", "fail"}
ASSUME BoundsAssumption == /\ MaxCooldown \in Nat
                           /\ MaxAborts \in Nat

VARIABLES
  call,     \* each call's place and what it has used of its allowances
  active,   \* Semaphore.active of each client
  waiters,  \* Semaphore.waiters of each client
  shut,     \* Ticks until the gate's window reopens (until - now)
  aborted   \* calls whose AbortSignal fired

vars == <<call, active, waiters, shut, aborted>>

-----------------------------------------------------------------------------
(* State *)

Parked  == {"gate", "asleep", "backoff"}
Settled == {"done", "paused", "failed"}
Place   == {"idle", "model", "queued", "flight"} \union Parked \union Settled
Error   == {"none", "429", "transient", "fatal", "aborted"}

\* sent counts the dispatches on the current model. timer: what is left of a
\* sleep in gate.wait, which computed it when it began.
Call == [at : Place, model : 1..NumModels, attempt : 0..MaxRetries, waits : 0..MaxWaits,
         sent : Nat, timer : 0..MaxCooldown, err : Error]

TypeOK ==
  /\ call    \in [Calls -> Call]
  /\ active  \in [Clients -> Nat]
  /\ waiters \in [Clients -> Seq(Calls)]
  /\ shut    \in 0..MaxCooldown
  /\ aborted \in SUBSET Calls

Init ==
  /\ call = [c \in Calls |-> [at |-> "idle", model |-> 1, attempt |-> 0, waits |-> 0,
                              sent |-> 0, timer |-> 0, err |-> "none"]]
  /\ active  = [k \in Clients |-> 0]
  /\ waiters = [k \in Clients |-> <<>>]
  /\ shut    = 0
  /\ aborted = {}

canRetry == "retry" \in Behaviors
In(c, place) == call[c].at = place

-----------------------------------------------------------------------------
(* One call *)

\* call(): the budget and the kill switch let it through, no cached run.
Start(c) ==
  /\ In(c, "idle")
  /\ call' = [call EXCEPT ![c].at = "model"]
  /\ UNCHANGED <<active, waiters, shut, aborted>>

\* attemptModel threw: the next model of the tier if it may degrade, else the
\* terminal behavior of the tier.
ModelOver(r, e) ==
  IF "degrade" \in Behaviors /\ r.model < NumModels
  THEN [r EXCEPT !.at = "model", !.model = r.model + 1, !.err = e, !.timer = 0]
  ELSE [r EXCEPT !.at = IF "pause" \in Behaviors THEN "paused" ELSE "failed",
                 !.err = e, !.timer = 0]

\* attemptModel and the head of withRetries: both allowances are fresh, and an
\* already aborted request never reaches the gate.
BeginModel(c) ==
  /\ In(c, "model")
  /\ call' = [call EXCEPT ![c] =
       LET fresh == [call[c] EXCEPT !.attempt = 0, !.waits = 0, !.sent = 0]
       IN IF c \in aborted THEN ModelOver(fresh, "aborted") ELSE [fresh EXCEPT !.at = "gate"]]
  /\ UNCHANGED <<active, waiters, shut, aborted>>

Dispatched(r) == [r EXCEPT !.at = "flight", !.sent = r.sent + 1]

\* gate.wait with the window open, then Semaphore.run: a slot or the queue.
PassGate(c) ==
  /\ In(c, "gate") /\ c \notin aborted /\ shut = 0
  /\ LET k == ClientOf[c]
     IN IF active[k] >= Limit
        THEN /\ call' = [call EXCEPT ![c].at = "queued"]
             /\ waiters' = [waiters EXCEPT ![k] = Append(waiters[k], c)]
             /\ UNCHANGED active
        ELSE /\ call' = [call EXCEPT ![c] = Dispatched(call[c])]
             /\ active' = [active EXCEPT ![k] = active[k] + 1]
             /\ UNCHANGED waiters
  /\ UNCHANGED <<shut, aborted>>

\* gate.wait with the window shut: sleep what is left of it, then look again.
SleepAtGate(c) ==
  /\ In(c, "gate") /\ c \notin aborted /\ shut > 0
  /\ call' = [call EXCEPT ![c].at = "asleep", ![c].timer = shut]
  /\ UNCHANGED <<active, waiters, shut, aborted>>

Wake(c) ==
  /\ In(c, "asleep") /\ c \notin aborted /\ call[c].timer = 0
  /\ call' = [call EXCEPT ![c].at = "gate"]
  /\ UNCHANGED <<active, waiters, shut, aborted>>

\* The signal rejects gate.wait, asleep or about to sleep.
LeaveGate(c) ==
  /\ call[c].at \in {"gate", "asleep"} /\ c \in aborted
  /\ call' = [call EXCEPT ![c] = ModelOver(call[c], "aborted")]
  /\ UNCHANGED <<active, waiters, shut, aborted>>

EndBackoff(c) ==
  /\ In(c, "backoff")
  /\ call' = [call EXCEPT ![c].at = "gate"]
  /\ UNCHANGED <<active, waiters, shut, aborted>>

-----------------------------------------------------------------------------
(* The provider's answer: the slot is released first, then withRetries acts. *)

\* Mutant of Release: the slot is free again, but the next waiter is not woken.
ReleaseUnheard(c, r) ==
  /\ call' = [call EXCEPT ![c] = r]
  /\ active' = [active EXCEPT ![ClientOf[c]] = active[ClientOf[c]] - 1]
  /\ UNCHANGED waiters

\* finally of Semaphore.run, with r the record of the call that gives the slot
\* back: the head of the queue enters in its place.
Release(c, r) ==
  LET k == ClientOf[c]
  IN IF waiters[k] = <<>>
     THEN /\ call' = [call EXCEPT ![c] = r]
          /\ active' = [active EXCEPT ![k] = active[k] - 1]
          /\ UNCHANGED waiters
     ELSE /\ call' = [call EXCEPT ![c] = r,
                                  ![Head(waiters[k])] = Dispatched(call[Head(waiters[k])])]
          /\ waiters' = [waiters EXCEPT ![k] = Tail(waiters[k])]
          /\ UNCHANGED active

AnswerOk(c) ==
  /\ In(c, "flight") /\ c \notin aborted
  /\ Release(c, [call[c] EXCEPT !.at = "done", !.err = "none"])
  /\ UNCHANGED <<shut, aborted>>

\* Mutant of Tripped: the last 429 decides, even inside a longer window.
TrippedAnew(cooldown) == cooldown

\* gate.trip: extend only.
Tripped(cooldown) == IF cooldown <= shut THEN shut ELSE cooldown

AfterRateLimitSharing(c) ==
  IF ~canRetry \/ c \in aborted \/ call[c].waits >= MaxWaits
  THEN ModelOver(call[c], "429")
  ELSE [call[c] EXCEPT !.at = "gate", !.waits = call[c].waits + 1, !.attempt = MaxRetries]

AfterRateLimit(c) ==
  IF ~canRetry \/ c \in aborted \/ call[c].waits >= MaxWaits
  THEN ModelOver(call[c], "429")
  ELSE [call[c] EXCEPT !.at = "gate", !.waits = call[c].waits + 1]

\* A Retry-After in the past makes a cooldown of 0.
Answer429(c) ==
  /\ In(c, "flight")
  /\ \E cooldown \in 0..MaxCooldown : shut' = Tripped(cooldown)
  /\ Release(c, AfterRateLimit(c))
  /\ UNCHANGED aborted

\* attempt is bumped when the sleep ends; nothing reads it before.
AfterError(c, e) ==
  IF ~canRetry \/ c \in aborted \/ e = "fatal" \/ call[c].attempt >= MaxRetries
  THEN ModelOver(call[c], e)
  ELSE [call[c] EXCEPT !.at = "backoff", !.attempt = call[c].attempt + 1]

\* A 5xx, a timeout or malformed structured output may be retried, a 4xx not.
\* The abort of a request in flight is reported as retryable.
AnswerError(c) ==
  /\ In(c, "flight")
  /\ \E e \in (IF c \in aborted THEN {"aborted"} ELSE {"transient", "fatal"}) :
       Release(c, AfterError(c, e))
  /\ UNCHANGED <<shut, aborted>>

-----------------------------------------------------------------------------
(* The environment *)

\* symbolPass cancels the losing copy of a hedged batch.
Abort(c) ==
  /\ c \notin aborted /\ Cardinality(aborted) < MaxAborts
  /\ call[c].at \notin {"idle"} \union Settled
  /\ aborted' = aborted \union {c}
  /\ UNCHANGED <<call, active, waiters, shut>>

Tick ==
  /\ shut > 0 \/ \E c \in Calls : call[c].timer > 0
  /\ shut' = IF shut = 0 THEN 0 ELSE shut - 1
  /\ call' = [c \in Calls |-> [call[c] EXCEPT !.timer = IF call[c].timer = 0 THEN 0
                                                       ELSE call[c].timer - 1]]
  /\ UNCHANGED <<active, waiters, aborted>>

Progress(c) == \/ Start(c) \/ BeginModel(c) \/ PassGate(c) \/ SleepAtGate(c) \/ Wake(c)
               \/ LeaveGate(c) \/ EndBackoff(c)

Answer(c) == AnswerOk(c) \/ Answer429(c) \/ AnswerError(c)

Next == \/ \E c \in Calls : Progress(c) \/ Answer(c) \/ Abort(c)
        \/ Tick

Spec == Init /\ [][Next]_vars

\* The event loop runs what is ready, timers fire and every request ends (the
\* provider aborts it at its own timeout). Nobody has to cancel anything.
Fairness == /\ \A c \in Calls : WF_vars(Progress(c)) /\ WF_vars(Answer(c))
            /\ WF_vars(Tick)

FairSpec == Spec /\ Fairness

-----------------------------------------------------------------------------
(* Properties *)

\* No lost wake-up and no leaked slot: a client counts exactly the requests it
\* has in flight, never more than its limit, and nobody queues while a slot is
\* free. A call parked on a shut window or backing off holds none.
SlotsHonest ==
  \A k \in Clients :
    /\ active[k] = Cardinality({c \in Calls : ClientOf[c] = k /\ In(c, "flight")})
    /\ active[k] <= Limit
    /\ waiters[k] # <<>> => active[k] = Limit

\* The two allowances are independent: each dispatch after the first was paid
\* for by exactly one of them, so neither kind of error spends the other's.
PaidOnce ==
  \A c \in Calls : In(c, "flight") => call[c].sent = 1 + call[c].attempt + call[c].waits

\* A pause is flagged rateLimited, and so resumes itself, only after the call
\* waited out its whole 429 allowance on the last model it may try.
RateLimitPauseEarned ==
  \A c \in Calls :
    In(c, "paused") /\ call[c].err = "429" /\ c \notin aborted /\ canRetry
      => /\ call[c].waits = MaxWaits
         /\ "degrade" \in Behaviors => call[c].model = NumModels

\* A sleeper is up again no later than the window opens, whatever siblings'
\* 429s did to the window meanwhile.
NeverOversleeps == \A c \in Calls : call[c].timer <= shut

\* Every call that starts settles: siblings can extend the window while it
\* sleeps, but each extension is paid from a bounded allowance.
CallsSettle == \A c \in Calls : In(c, "model") ~> call[c].at \in Settled

\* rateLimitGate.ts:10 says that whoever sees the 429 trips the gate, and
\* everybody stops dispatching until it reopens.
NoDispatchWhileShut ==
  [][\A c \in Calls : ~In(c, "flight") /\ call'[c].at = "flight" => shut = 0]_vars
=============================================================================
