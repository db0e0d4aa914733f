-------------------------- MODULE AiDispatchProofs --------------------------
(***************************************************************************)
(* Safety of AiDispatch for every number of calls, clients, slots and      *)
(* retries. The one strengthening it takes is QueueInv: a semaphore's      *)
(* queue holds distinct calls of its own client that are still waiting.    *)
(*                                                                         *)
(* Then of EmbeddingPass, for every number of vectors, producers, writers  *)
(* and failures and every size of batch, chunk and queue.  Its invariant   *)
(* accounts for every vector of a run nothing failed in: it is stored,     *)
(* withheld by the API, not asked for yet, or in exactly one hand.         *)
(***************************************************************************)
EXTENDS MCDispatch, FiniteSetTheorems, WellFoundedInduction, TLAPS

InFlight(k) == {c \in Calls : ClientOf[c] = k /\ In(c, "flight")}

QueueInv ==
  \A k \in Clients : \A i \in 1..Len(waiters[k]) :
    /\ In(waiters[k][i], "queued")
    /\ ClientOf[waiters[k][i]] = k
    /\ \A j \in 1..Len(waiters[k]) : waiters[k][i] = waiters[k][j] => i = j

\* What each call's record says of its allowances and of its sleep.
Paid(r) == /\ r.at \in Parked \union {"queued"} => r.sent = r.attempt + r.waits
           /\ r.at = "flight" => r.sent = 1 + r.attempt + r.waits

Rested(r) == r.timer <= shut

CallInv == \A c \in Calls : Paid(call[c]) /\ Rested(call[c])

Slots(k) == /\ active[k] = Cardinality(InFlight(k))
            /\ active[k] <= Limit
            /\ waiters[k] # <<>> => active[k] = Limit

SlotInv == \A k \in Clients : Slots(k)

IInv == TypeOK /\ QueueInv /\ CallInv /\ SlotInv

-----------------------------------------------------------------------------
(* The initial states *)

LEMMA InitHolds == Init => IInv
<1> SUFFICES ASSUME Init PROVE IInv
  OBVIOUS
<1>1. TypeOK
  BY LimitsAssumption, BoundsAssumption DEF Init, TypeOK, Call, Place, Parked, Settled, Error
<1>2. QueueInv
  BY DEF Init, QueueInv
<1>3. CallInv
  BY DEF Init, CallInv, Paid, Rested, Parked
<1>4. SlotInv
  <2> SUFFICES ASSUME NEW k \in Clients PROVE Slots(k)
    BY DEF SlotInv
  <2>1. InFlight(k) = {}
    BY DEF Init, InFlight, In
  <2> QED
    BY <2>1, FS_EmptySet, LimitsAssumption DEF Init, Slots
<1> QED
  BY <1>1, <1>2, <1>3, <1>4 DEF IInv

-----------------------------------------------------------------------------
(* A step of one call that takes no slot, gives none back and does not queue *)

LEMMA Quiet ==
  ASSUME IInv, NEW c \in Calls, NEW r \in Call,
         call[c].at \notin {"flight", "queued"}, r.at \notin {"flight", "queued"},
         Paid(r), r.timer <= shut,
         call' = [call EXCEPT ![c] = r],
         UNCHANGED <<active, waiters, shut, aborted>>
  PROVE  IInv'
<1>0. /\ call' \in [Calls -> Call] /\ call \in [Calls -> Call]
      /\ call'[c] = r
      /\ \A d \in Calls : d # c => call'[d] = call[d]
      /\ waiters \in [Clients -> Seq(Calls)]
  BY DEF IInv, TypeOK
<1>1. TypeOK'
  BY <1>0 DEF IInv, TypeOK
<1>2. QueueInv'
  <2> SUFFICES ASSUME NEW k \in Clients, NEW i \in 1..Len(waiters[k])
               PROVE  call'[waiters[k][i]].at = "queued"
    BY DEF QueueInv, IInv, In
  <2>1. waiters[k][i] \in Calls /\ call[waiters[k][i]].at = "queued"
    BY <1>0 DEF QueueInv, IInv, In
  <2> QED
    BY <2>1, <1>0
<1>3. CallInv'
  <2> SUFFICES ASSUME NEW d \in Calls PROVE Paid(call'[d]) /\ call'[d].timer <= shut
    BY DEF CallInv, Rested
  <2>1. Paid(call[d]) /\ call[d].timer <= shut
    BY DEF IInv, CallInv, Rested
  <2> QED
    BY <2>1, <1>0
<1>4. \A k \in Clients : InFlight(k)' = InFlight(k)
  BY <1>0 DEF InFlight, In
<1>5. SlotInv'
  <2> SUFFICES ASSUME NEW k \in Clients PROVE Slots(k)'
    BY DEF SlotInv
  <2>1. Slots(k) /\ InFlight(k)' = InFlight(k)
    BY <1>4 DEF IInv, SlotInv
  <2> QED
    BY <2>1 DEF Slots
<1> QED
  BY <1>1, <1>2, <1>3, <1>5 DEF IInv

LEMMA ModelOverType ==
  ASSUME NEW r \in Call, NEW e \in Error
  PROVE  /\ ModelOver(r, e) \in Call
         /\ ModelOver(r, e).at \in {"model"} \union Settled
         /\ ModelOver(r, e).timer = 0
<1> DEFINE place == IF "pause" \in Behaviors THEN "paused" ELSE "failed"
<1>1. 0 \in 0..MaxCooldown /\ place \in Place /\ "model" \in Place
  BY BoundsAssumption DEF Place, Settled, Parked
<1>2. CASE "degrade" \in Behaviors /\ r.model < NumModels
  <2>1. ModelOver(r, e) = [r EXCEPT !.at = "model", !.model = r.model + 1, !.err = e, !.timer = 0]
    BY <1>2 DEF ModelOver
  <2>2. r.model + 1 \in 1..NumModels
    BY <1>2, LimitsAssumption DEF Call
  <2> QED
    BY <2>1, <2>2, <1>1 DEF Call
<1>3. CASE ~("degrade" \in Behaviors /\ r.model < NumModels)
  <2>1. ModelOver(r, e) = [r EXCEPT !.at = place, !.err = e, !.timer = 0]
    BY <1>3 DEF ModelOver
  <2>2. place \in Settled
    BY DEF Settled
  <2> HIDE DEF place
  <2> QED
    BY <2>1, <2>2, <1>1 DEF Call
<1> QED
  BY <1>2, <1>3

\* A record that has left the model owes no accounting.
LEMMA OverIsPaid ==
  ASSUME NEW r, r.at \in {"model"} \union Settled
  PROVE  Paid(r) /\ r.at \notin {"flight", "queued"}
  BY DEF Paid, Settled, Parked

-----------------------------------------------------------------------------
(* Taking a slot, or queueing for one *)

LEMMA DispatchedType ==
  ASSUME NEW r \in Call, Paid(r), r.at \in {"gate", "queued"}
  PROVE  /\ Dispatched(r) \in Call
         /\ Dispatched(r).at = "flight"
         /\ Dispatched(r).timer = r.timer
         /\ Paid(Dispatched(r))
<1>1. r.sent = r.attempt + r.waits /\ r.sent \in Nat /\ r.attempt \in Nat /\ r.waits \in Nat
  BY LimitsAssumption DEF Paid, Parked, Call
<1>2. "flight" \in Place
  BY DEF Place
<1> DEFINE d == Dispatched(r)
<1>3. d = [r EXCEPT !.at = "flight", !.sent = r.sent + 1]
  BY DEF Dispatched
<1>4. d \in Call /\ d.at = "flight" /\ d.timer = r.timer
  <2>1. r.sent + 1 \in Nat
    BY <1>1
  <2> QED
    BY <1>2, <1>3, <2>1 DEF Call
<1>5. d.sent = r.sent + 1 /\ d.attempt = r.attempt /\ d.waits = r.waits
  BY <1>3 DEF Call
<1> HIDE DEF d
<1>6. Paid(d)
  BY <1>1, <1>4, <1>5 DEF Paid, Parked
<1> QED
  BY <1>4, <1>6 DEF d

LEMMA PassGateKeeps == ASSUME IInv, NEW c \in Calls, PassGate(c) PROVE IInv'
<1> DEFINE k == ClientOf[c]
<1>0. /\ k \in Clients /\ call \in [Calls -> Call] /\ active \in [Clients -> Nat]
      /\ waiters \in [Clients -> Seq(Calls)]
      /\ call[c] \in Call /\ call[c].at = "gate" /\ shut = 0
      /\ Paid(call[c]) /\ Rested(call[c])
  BY CallsAssumption DEF IInv, TypeOK, CallInv, PassGate, In
<1>1. CASE active[k] >= Limit
  <2>1. /\ call' = [call EXCEPT ![c].at = "queued"]
        /\ waiters' = [waiters EXCEPT ![k] = Append(waiters[k], c)]
        /\ UNCHANGED <<active, shut, aborted>>
    BY <1>1 DEF PassGate
  <2>2. /\ call'[c] = [call[c] EXCEPT !.at = "queued"]
        /\ \A d \in Calls : d # c => call'[d] = call[d]
    BY <2>1, <1>0
  <2>3. call'[c] \in Call /\ call'[c].at = "queued" /\ Paid(call'[c]) /\ call'[c].timer <= shut
    BY <2>2, <1>0 DEF Call, Place, Paid, Parked, Rested
  <2>4. call' \in [Calls -> Call]
    BY <2>1, <2>3, <1>0
  <2>5. waiters'[k] = Append(waiters[k], c) /\ \A m \in Clients : m # k => waiters'[m] = waiters[m]
    BY <2>1, <1>0
  <2>6. TypeOK'
    BY <2>1, <2>4, <1>0 DEF IInv, TypeOK
  <2>7. QueueInv'
    <3> SUFFICES ASSUME NEW m \in Clients, NEW i \in 1..Len(waiters'[m])
                 PROVE  /\ call'[waiters'[m][i]].at = "queued"
                        /\ ClientOf[waiters'[m][i]] = m
                        /\ \A j \in 1..Len(waiters'[m]) : waiters'[m][i] = waiters'[m][j] => i = j
      BY DEF QueueInv, In
    <3>1. \A n \in Clients : \A h \in 1..Len(waiters[n]) :
            /\ waiters[n][h] \in Calls /\ waiters[n][h] # c
            /\ call'[waiters[n][h]].at = "queued" /\ ClientOf[waiters[n][h]] = n
            /\ \A j \in 1..Len(waiters[n]) : waiters[n][h] = waiters[n][j] => h = j
      BY <1>0, <2>2 DEF IInv, QueueInv, In
    <3>2. CASE m # k
      BY <3>1, <3>2, <2>5
    <3>3. CASE m = k
      <4>1. /\ Len(waiters'[k]) = Len(waiters[k]) + 1
            /\ waiters'[k][Len(waiters[k]) + 1] = c
            /\ \A h \in 1..Len(waiters[k]) : waiters'[k][h] = waiters[k][h]
        BY <2>5, <1>0
      <4>2. \A h \in 1..Len(waiters'[k]) : h \in 1..Len(waiters[k]) \/ h = Len(waiters[k]) + 1
        BY <4>1, <1>0
      <4>3. ClientOf[c] = k
        OBVIOUS
      <4> HIDE DEF k
      <4>4. CASE i \in 1..Len(waiters[k])
        <5>1. waiters'[m][i] = waiters[k][i] /\ waiters[k][i] # c
          BY <4>1, <4>4, <3>1, <3>3, <1>0
        <5>2. /\ call'[waiters[k][i]].at = "queued" /\ ClientOf[waiters[k][i]] = k
              /\ \A j \in 1..Len(waiters[k]) : waiters[k][i] = waiters[k][j] => i = j
          BY <4>4, <3>1, <1>0
        <5>3. \A j \in 1..Len(waiters'[m]) :
                \/ j \in 1..Len(waiters[k]) /\ waiters'[m][j] = waiters[k][j]
                \/ waiters'[m][j] = c
          BY <4>1, <4>2, <3>3
        <5> QED
          BY <5>1, <5>2, <5>3, <3>3
      <4>5. CASE i = Len(waiters[k]) + 1
        <5>1. waiters'[m][i] = c
          BY <4>1, <4>5, <3>3
        <5>2. \A j \in 1..Len(waiters'[m]) : waiters'[m][j] = c => j = i
          BY <4>1, <4>2, <4>5, <3>1, <3>3, <1>0
        <5> QED
          BY <5>1, <5>2, <4>3, <3>3, <2>3
      <4> QED
        BY <4>2, <4>4, <4>5, <3>3
    <3> QED
      BY <3>2, <3>3
  <2>8. CallInv'
    BY <2>1, <2>2, <2>3 DEF IInv, CallInv, Rested
  <2>9. \A m \in Clients : InFlight(m)' = InFlight(m)
    BY <2>2, <2>3, <1>0 DEF InFlight, In
  <2>10. SlotInv'
    <3> SUFFICES ASSUME NEW m \in Clients PROVE Slots(m)'
      BY DEF SlotInv
    <3>1. Slots(m) /\ InFlight(m)' = InFlight(m) /\ active' = active
      BY <2>1, <2>9 DEF IInv, SlotInv
    <3>2. m = k => active[m] = Limit
      BY <3>1, <1>1, <1>0, LimitsAssumption DEF Slots
    <3>3. m # k => waiters'[m] = waiters[m]
      BY <2>5
    <3> QED
      BY <3>1, <3>2, <3>3 DEF Slots
  <2> QED
    BY <2>6, <2>7, <2>8, <2>10 DEF IInv
<1>2. CASE ~(active[k] >= Limit)
  <2>1. /\ call' = [call EXCEPT ![c] = Dispatched(call[c])]
        /\ active' = [active EXCEPT ![k] = active[k] + 1]
        /\ UNCHANGED <<waiters, shut, aborted>>
    BY <1>2 DEF PassGate
  <2>2. /\ call'[c] = Dispatched(call[c])
        /\ \A d \in Calls : d # c => call'[d] = call[d]
    BY <2>1, <1>0
  <2>3. call'[c] \in Call /\ call'[c].at = "flight" /\ Paid(call'[c]) /\ call'[c].timer <= shut
    <3>1. call[c].at \in {"gate", "queued"} /\ call[c].timer <= shut
      BY <1>0 DEF Rested
    <3> QED
      BY <3>1, <2>2, <1>0, DispatchedType
  <2>4. call' \in [Calls -> Call]
    BY <2>1, <2>2, <2>3, <1>0
  <2>5. TypeOK'
    BY <2>1, <2>4, <1>0 DEF IInv, TypeOK
  <2>6. QueueInv'
    <3> SUFFICES ASSUME NEW m \in Clients, NEW i \in 1..Len(waiters[m])
                 PROVE  call'[waiters[m][i]].at = "queued"
      BY <2>1 DEF IInv, QueueInv, In
    <3>1. waiters[m][i] \in Calls /\ call[waiters[m][i]].at = "queued"
      BY <1>0 DEF IInv, QueueInv, In
    <3> QED
      BY <3>1, <2>2, <1>0
  <2>7. CallInv'
    BY <2>1, <2>2, <2>3 DEF IInv, CallInv, Rested
  <2>8. SlotInv'
    <3> SUFFICES ASSUME NEW m \in Clients PROVE Slots(m)'
      BY DEF SlotInv
    <3>1. Slots(m) /\ waiters' = waiters
      BY <2>1 DEF IInv, SlotInv
    <3>2. CASE m # k
      <4>1. InFlight(m)' = InFlight(m) /\ active'[m] = active[m]
        BY <3>2, <2>1, <2>2, <2>3, <1>0 DEF InFlight, In
      <4> QED
        BY <4>1, <3>1 DEF Slots
    <3>3. CASE m = k
      <4>1. InFlight(m)' = InFlight(m) \union {c} /\ c \notin InFlight(m)
        BY <3>3, <2>2, <2>3, <1>0 DEF InFlight, In
      <4>2. IsFiniteSet(InFlight(m))
        BY CallsAssumption, FS_Subset DEF InFlight
      <4>3. Cardinality(InFlight(m)') = active[m] + 1
        BY <4>1, <4>2, <3>1, FS_AddElement DEF Slots
      <4>4. active'[m] = active[m] + 1 /\ active[m] < Limit /\ waiters[m] = <<>>
        BY <3>1, <3>3, <2>1, <1>0, <1>2, LimitsAssumption DEF Slots
      <4> QED
        BY <4>3, <4>4, <3>1, <1>0, <3>3, LimitsAssumption DEF Slots
    <3> QED
      BY <3>2, <3>3
  <2> QED
    BY <2>5, <2>6, <2>7, <2>8 DEF IInv
<1> QED
  BY <1>1, <1>2

-----------------------------------------------------------------------------
(* Giving a slot back *)

LEMMA ReleaseKeeps ==
  ASSUME IInv, NEW c \in Calls, In(c, "flight"), NEW r \in Call,
         r.at \notin {"flight", "queued"}, Paid(r), r.timer <= shut',
         shut' \in 0..MaxCooldown, shut' >= shut,
         Release(c, r), UNCHANGED aborted
  PROVE  IInv'
<1> DEFINE k == ClientOf[c]
           h == Head(waiters[k])
<1>0. /\ k \in Clients /\ call \in [Calls -> Call] /\ active \in [Clients -> Nat]
      /\ waiters \in [Clients -> Seq(Calls)] /\ shut \in 0..MaxCooldown
      /\ call[c].at = "flight"
      /\ \A d \in Calls : call[d] \in Call /\ Paid(call[d]) /\ call[d].timer <= shut
      /\ \A d \in Calls : call[d].timer \in Nat
  BY CallsAssumption, BoundsAssumption DEF IInv, TypeOK, CallInv, Rested, In, Call
<1>1. \A n \in Clients : \A i \in 1..Len(waiters[n]) :
        /\ waiters[n][i] \in Calls /\ waiters[n][i] # c
        /\ call[waiters[n][i]].at = "queued" /\ ClientOf[waiters[n][i]] = n
        /\ \A j \in 1..Len(waiters[n]) : waiters[n][i] = waiters[n][j] => i = j
  BY <1>0 DEF IInv, QueueInv, In
<1>2. InFlight(k) \subseteq Calls /\ c \in InFlight(k) /\ IsFiniteSet(InFlight(k))
  BY CallsAssumption, FS_Subset, <1>0 DEF InFlight, In
<1>3. /\ Cardinality(InFlight(k) \ {c}) = active[k] - 1
      /\ active[k] - 1 \in Nat /\ active[k] <= Limit
      /\ waiters[k] # <<>> => active[k] = Limit
  <2>1. Cardinality(InFlight(k)) = active[k] /\ active[k] <= Limit
        /\ (waiters[k] # <<>> => active[k] = Limit)
    BY <1>0 DEF IInv, SlotInv, Slots
  <2>2. Cardinality(InFlight(k) \ {c}) = active[k] - 1
    BY <2>1, <1>2, FS_RemoveElement
  <2>3. Cardinality(InFlight(k) \ {c}) \in Nat
    BY <1>2, FS_RemoveElement, FS_CardinalityType
  <2> QED
    BY <2>1, <2>2, <2>3
<1>4. CASE waiters[k] = <<>>
  <2>1. /\ call' = [call EXCEPT ![c] = r]
        /\ active' = [active EXCEPT ![k] = active[k] - 1]
        /\ UNCHANGED waiters
    BY <1>4 DEF Release
  <2>2. call'[c] = r /\ \A d \in Calls : d # c => call'[d] = call[d]
    BY <2>1, <1>0
  <2>3. TypeOK'
    BY <2>1, <1>0, <1>3 DEF IInv, TypeOK
  <2>4. QueueInv'
    BY <2>1, <2>2, <1>1 DEF QueueInv, In
  <2>5. CallInv'
    <3> SUFFICES ASSUME NEW d \in Calls PROVE Paid(call'[d]) /\ call'[d].timer <= shut'
      BY DEF CallInv, Rested
    <3>1. CASE d = c
      BY <3>1, <2>2
    <3>2. CASE d # c
      BY <3>2, <2>2, <1>0
    <3> QED
      BY <3>1, <3>2
  <2>6. SlotInv'
    <3> SUFFICES ASSUME NEW m \in Clients PROVE Slots(m)'
      BY DEF SlotInv
    <3>1. CASE m # k
      <4>1. InFlight(m)' = InFlight(m) /\ active'[m] = active[m]
        BY <3>1, <2>1, <2>2, <1>0 DEF InFlight, In
      <4>2. Slots(m)
        BY DEF IInv, SlotInv
      <4> QED
        BY <4>1, <4>2, <2>1 DEF Slots
    <3>2. CASE m = k
      <4>1. InFlight(m)' = InFlight(k) \ {c}
        BY <3>2, <2>2, <1>0 DEF InFlight, In
      <4>2. active'[m] = active[k] - 1 /\ waiters'[m] = <<>>
        BY <3>2, <2>1, <1>0, <1>4
      <4>3. active[k] - 1 <= Limit
        BY <1>3, <1>0, LimitsAssumption
      <4> QED
        BY <4>1, <4>2, <4>3, <1>3 DEF Slots
    <3> QED
      BY <3>1, <3>2
  <2> QED
    BY <2>3, <2>4, <2>5, <2>6 DEF IInv
<1>5. CASE waiters[k] # <<>>
  <2>1. /\ call' = [call EXCEPT ![c] = r, ![h] = Dispatched(call[h])]
        /\ waiters' = [waiters EXCEPT ![k] = Tail(waiters[k])]
        /\ UNCHANGED active
    BY <1>5 DEF Release
  <2>2. /\ Len(waiters[k]) \in Nat \ {0} /\ h = waiters[k][1] /\ h \in Calls /\ h # c
        /\ call[h].at = "queued" /\ ClientOf[h] = k
    <3>1. Len(waiters[k]) \in Nat \ {0} /\ h = waiters[k][1]
      BY <1>5, <1>0
    <3>2. k \in Clients /\ 1 \in 1..Len(waiters[k])
      BY <3>1, <1>0
    <3> DEFINE g == waiters[k][1]
    <3>3. /\ g \in Calls /\ g # c /\ call[g].at = "queued" /\ ClientOf[g] = k
      <4> HIDE DEF k
      <4> QED  BY <3>2, <1>1
    <3> QED
      BY <3>1, <3>3
  <2>3. /\ call'[c] = r /\ call'[h] = Dispatched(call[h])
        /\ \A d \in Calls : d # c /\ d # h => call'[d] = call[d]
    BY <2>1, <2>2, <1>0
  <2>4. /\ call'[h] \in Call /\ call'[h].at = "flight" /\ Paid(call'[h])
        /\ call'[h].timer <= shut'
    <3>1. call[h] \in Call /\ Paid(call[h]) /\ call[h].timer <= shut /\ call[h].timer \in Nat
      BY <2>2, <1>0
    <3>2. /\ Dispatched(call[h]) \in Call /\ Dispatched(call[h]).at = "flight"
          /\ Paid(Dispatched(call[h])) /\ Dispatched(call[h]).timer = call[h].timer
      BY <3>1, <2>2, DispatchedType
    <3>3. call[h].timer <= shut'
      BY <3>1, <1>0, BoundsAssumption
    <3>4. call'[h] = Dispatched(call[h])
      BY <2>3
    <3> DEFINE x == Dispatched(call[h])
               y == call'[h]
    <3>5. x \in Call /\ x.at = "flight" /\ Paid(x) /\ x.timer <= shut' /\ y = x
      BY <3>2, <3>3, <3>4
    <3> HIDE DEF x
    <3> QED
      BY <3>5
  <2>5. TypeOK'
    <3>1. call' \in [Calls -> Call]
      BY <2>1, <2>3, <2>4, <2>2, <1>0
    <3>2. Tail(waiters[k]) \in Seq(Calls)
      BY <1>5, <1>0
    <3> QED
      BY <3>1, <3>2, <2>1, <1>0 DEF IInv, TypeOK
  <2>6. QueueInv'
    <3> SUFFICES ASSUME NEW m \in Clients, NEW i \in 1..Len(waiters'[m])
                 PROVE  /\ call'[waiters'[m][i]].at = "queued"
                        /\ ClientOf[waiters'[m][i]] = m
                        /\ \A j \in 1..Len(waiters'[m]) : waiters'[m][i] = waiters'[m][j] => i = j
      BY DEF QueueInv, In
    <3>1. CASE m # k
      <4>1. waiters'[m] = waiters[m]
        BY <3>1, <2>1, <1>0
      <4>2. waiters[m][i] # c /\ waiters[m][i] # h /\ waiters[m][i] \in Calls
        BY <4>1, <3>1, <1>1, <2>2
      <4> QED
        BY <4>1, <4>2, <1>1, <2>3
    <3>2. CASE m = k
      <4>1. /\ Len(waiters'[m]) = Len(waiters[k]) - 1
            /\ \A j \in 1..Len(waiters'[m]) : waiters'[m][j] = waiters[k][j + 1]
        BY <3>2, <2>1, <2>2, <1>0
      <4>2. \A j \in 1..Len(waiters'[m]) : j + 1 \in 1..Len(waiters[k]) /\ j + 1 # 1
        BY <4>1, <2>2
      <4>3. /\ waiters[k][i + 1] \in Calls /\ waiters[k][i + 1] # c
            /\ call[waiters[k][i + 1]].at = "queued" /\ ClientOf[waiters[k][i + 1]] = k
            /\ \A j \in 1..Len(waiters[k]) : waiters[k][i + 1] = waiters[k][j] => i + 1 = j
        BY <4>2, <1>1, <1>0
      <4>4. waiters[k][i + 1] # h
        BY <4>2, <4>3, <2>2, SMTT(30)
      <4>5. waiters'[m][i] = waiters[k][i + 1] /\ call'[waiters'[m][i]] = call[waiters[k][i + 1]]
        BY <4>1, <4>3, <4>4, <2>3
      <4>6. \A j \in 1..Len(waiters'[m]) : waiters'[m][i] = waiters'[m][j] => i = j
        BY <4>1, <4>2, <4>3, <4>5
      <4> QED
        BY <4>3, <4>5, <4>6, <3>2
    <3> QED
      BY <3>1, <3>2
  <2>7. CallInv'
    <3> SUFFICES ASSUME NEW d \in Calls PROVE Paid(call'[d]) /\ call'[d].timer <= shut'
      BY DEF CallInv, Rested
    <3>1. CASE d = c
      BY <3>1, <2>3
    <3>2. CASE d = h
      BY <3>2, <2>4
    <3>3. CASE d # c /\ d # h
      BY <3>3, <2>3, <1>0
    <3> QED
      BY <3>1, <3>2, <3>3
  <2>8. SlotInv'
    <3> SUFFICES ASSUME NEW m \in Clients PROVE Slots(m)'
      BY DEF SlotInv
    <3>1. CASE m # k
      <4>1. InFlight(m)' = InFlight(m) /\ waiters'[m] = waiters[m]
        BY <3>1, <2>1, <2>2, <2>3, <1>0 DEF InFlight, In
      <4>2. Slots(m) /\ active' = active
        BY <2>1 DEF IInv, SlotInv
      <4> QED
        BY <4>1, <4>2 DEF Slots
    <3>2. CASE m = k
      <4>1. InFlight(m)' = (InFlight(k) \ {c}) \union {h}
        BY <3>2, <2>2, <2>3, <2>4, <1>0 DEF InFlight, In
      <4>2. h \notin InFlight(k) \ {c} /\ IsFiniteSet(InFlight(k) \ {c})
        BY <2>2, <1>2, FS_RemoveElement DEF InFlight, In
      <4>3. Cardinality(InFlight(m)') = active[k]
        <5>1. active[k] \in Nat
          BY <1>0
        <5> HIDE DEF k, h
        <5>2. Cardinality((InFlight(k) \ {c}) \union {h}) = Cardinality(InFlight(k) \ {c}) + 1
          BY <4>2, FS_AddElement
        <5> QED
          BY <5>1, <5>2, <4>1, <1>3
      <4> QED
        BY <4>3, <3>2, <2>1, <1>3, <1>5 DEF Slots
    <3> QED
      BY <3>1, <3>2
  <2> QED
    BY <2>5, <2>6, <2>7, <2>8 DEF IInv
<1> QED
  BY <1>4, <1>5

-----------------------------------------------------------------------------
(* Every step keeps the invariant *)

LEMMA AnswerKeeps == ASSUME IInv, NEW c \in Calls, Answer(c) PROVE IInv'
<1>0. /\ call[c] \in Call /\ Paid(call[c]) /\ call[c].timer <= shut /\ shut \in 0..MaxCooldown
      /\ call[c].timer \in Nat
  BY BoundsAssumption DEF IInv, TypeOK, CallInv, Rested, Call
<1>1. CASE AnswerOk(c)
  <2> DEFINE r == [call[c] EXCEPT !.at = "done", !.err = "none"]
  <2>1. r \in Call /\ r.at = "done" /\ r.timer = call[c].timer
    BY <1>0 DEF Call, Place, Settled, Error
  <2>2. In(c, "flight") /\ Release(c, r) /\ UNCHANGED <<shut, aborted>>
    BY <1>1 DEF AnswerOk
  <2> HIDE DEF r
  <2>3. Paid(r) /\ r.at \notin {"flight", "queued"}
    BY <2>1, OverIsPaid DEF Settled
  <2> QED
    BY <2>1, <2>2, <2>3, <1>0, ReleaseKeeps
<1>2. CASE Answer429(c)
  <2> DEFINE r == AfterRateLimit(c)
  <2>1. In(c, "flight") /\ Release(c, r) /\ UNCHANGED aborted
    BY <1>2 DEF Answer429
  <2>2. shut' \in 0..MaxCooldown /\ shut' >= shut
    BY <1>2, <1>0, BoundsAssumption DEF Answer429, Tripped
  <2>3. r \in Call /\ Paid(r) /\ r.at \notin {"flight", "queued"} /\ r.timer <= shut
    <3>1. CASE ~canRetry \/ c \in aborted \/ call[c].waits >= MaxWaits
      <4>1. r = ModelOver(call[c], "429")
        BY <3>1 DEF AfterRateLimit
      <4>2. "429" \in Error /\ 0 <= shut
        BY <1>0, BoundsAssumption DEF Error
      <4> HIDE DEF r
      <4> QED
        BY <4>1, <4>2, <1>0, ModelOverType, OverIsPaid
    <3>2. CASE ~(~canRetry \/ c \in aborted \/ call[c].waits >= MaxWaits)
      <4>1. r = [call[c] EXCEPT !.at = "gate", !.waits = call[c].waits + 1]
        BY <3>2 DEF AfterRateLimit
      <4>2. call[c].waits + 1 \in 0..MaxWaits
        BY <3>2, <1>0, LimitsAssumption DEF Call
      <4> HIDE DEF r
      <4>3. r \in Call /\ r.at = "gate" /\ r.timer = call[c].timer
        BY <4>1, <4>2, <1>0 DEF Call, Place, Parked
      <4>4. r.sent = call[c].sent /\ r.attempt = call[c].attempt /\ r.waits = call[c].waits + 1
        BY <4>1, <1>0 DEF Call
      <4>5. call[c].sent = 1 + call[c].attempt + call[c].waits /\ call[c].attempt \in Nat
            /\ call[c].waits \in Nat
        BY <1>0, <2>1, LimitsAssumption DEF Paid, In, Call
      <4>6. Paid(r)
        BY <4>3, <4>4, <4>5 DEF Paid
      <4> QED
        BY <4>3, <4>6, <1>0
    <3> QED
      BY <3>1, <3>2
  <2> HIDE DEF r
  <2>4. r.timer <= shut'
    BY <2>2, <2>3, <1>0, BoundsAssumption DEF Call
  <2> QED
    BY <2>1, <2>2, <2>3, <2>4, ReleaseKeeps
<1>3. CASE AnswerError(c)
  <2>1. PICK e \in {"aborted", "transient", "fatal"} : Release(c, AfterError(c, e))
    BY <1>3 DEF AnswerError
  <2> DEFINE r == AfterError(c, e)
  <2>2. In(c, "flight") /\ Release(c, r) /\ UNCHANGED <<shut, aborted>>
    BY <1>3, <2>1 DEF AnswerError
  <2>3. r \in Call /\ Paid(r) /\ r.at \notin {"flight", "queued"} /\ r.timer <= shut
    <3>1. CASE ~canRetry \/ c \in aborted \/ e = "fatal" \/ call[c].attempt >= MaxRetries
      <4>1. r = ModelOver(call[c], e)
        BY <3>1 DEF AfterError
      <4>2. e \in Error /\ 0 <= shut
        BY <1>0, BoundsAssumption DEF Error
      <4> HIDE DEF r
      <4> QED
        BY <4>1, <4>2, <1>0, ModelOverType, OverIsPaid
    <3>2. CASE ~(~canRetry \/ c \in aborted \/ e = "fatal" \/ call[c].attempt >= MaxRetries)
      <4>1. r = [call[c] EXCEPT !.at = "backoff", !.attempt = call[c].attempt + 1]
        BY <3>2 DEF AfterError
      <4>2. call[c].attempt + 1 \in 0..MaxRetries
        BY <3>2, <1>0, LimitsAssumption DEF Call
      <4> HIDE DEF r
      <4>3. r \in Call /\ r.at = "backoff" /\ r.timer = call[c].timer
        BY <4>1, <4>2, <1>0 DEF Call, Place, Parked
      <4>4. r.sent = call[c].sent /\ r.waits = call[c].waits /\ r.attempt = call[c].attempt + 1
        BY <4>1, <1>0 DEF Call
      <4>5. call[c].sent = 1 + call[c].attempt + call[c].waits /\ call[c].attempt \in Nat
            /\ call[c].waits \in Nat
        BY <1>0, <2>2, LimitsAssumption DEF Paid, In, Call
      <4>6. Paid(r)
        BY <4>3, <4>4, <4>5 DEF Paid
      <4> QED
        BY <4>3, <4>6, <1>0
    <3> QED
      BY <3>1, <3>2
  <2> HIDE DEF r
  <2>4. shut' \in 0..MaxCooldown /\ shut' >= shut /\ r.timer <= shut'
    BY <2>2, <2>3, <1>0, BoundsAssumption
  <2> QED
    BY <2>2, <2>3, <2>4, ReleaseKeeps
<1> QED
  BY <1>1, <1>2, <1>3 DEF Answer

LEMMA ProgressKeeps == ASSUME IInv, NEW c \in Calls, Progress(c) PROVE IInv'
<1>0. /\ call[c] \in Call /\ Paid(call[c]) /\ call[c].timer <= shut /\ shut \in 0..MaxCooldown
      /\ call \in [Calls -> Call] /\ 0 <= shut
  BY BoundsAssumption DEF IInv, TypeOK, CallInv, Rested
<1>1. CASE Start(c)
  <2> DEFINE r == [call[c] EXCEPT !.at = "model"]
  <2>1. r \in Call /\ r.at = "model" /\ r.timer = call[c].timer
    BY <1>0 DEF Call, Place
  <2>2. call' = [call EXCEPT ![c] = r] /\ UNCHANGED <<active, waiters, shut, aborted>>
    BY <1>1, <1>0 DEF Start
  <2>3. call[c].at \notin {"flight", "queued"}
    BY <1>1 DEF Start, In
  <2> HIDE DEF r
  <2> QED
    BY <2>1, <2>2, <2>3, <1>0, OverIsPaid, Quiet
<1>2. CASE BeginModel(c)
  <2> DEFINE fresh == [call[c] EXCEPT !.attempt = 0, !.waits = 0, !.sent = 0]
             r == IF c \in aborted THEN ModelOver(fresh, "aborted") ELSE [fresh EXCEPT !.at = "gate"]
  <2>1. fresh \in Call /\ fresh.timer = call[c].timer
        /\ fresh.sent = 0 /\ fresh.attempt = 0 /\ fresh.waits = 0
    <3>1. 0 \in 0..MaxRetries /\ 0 \in 0..MaxWaits /\ 0 \in Nat
      BY LimitsAssumption
    <3> QED
      BY <3>1, <1>0 DEF Call
  <2>2. call' = [call EXCEPT ![c] = r] /\ UNCHANGED <<active, waiters, shut, aborted>>
    BY <1>2 DEF BeginModel
  <2>3. call[c].at \notin {"flight", "queued"}
    BY <1>2 DEF BeginModel, In
  <2> HIDE DEF fresh
  <2>4. r \in Call /\ Paid(r) /\ r.at \notin {"flight", "queued"} /\ r.timer <= shut
    <3>1. CASE c \in aborted
      <4>1. r = ModelOver(fresh, "aborted") /\ "aborted" \in Error
        BY <3>1 DEF Error
      <4> HIDE DEF r
      <4> QED
        BY <4>1, <2>1, <1>0, ModelOverType, OverIsPaid
    <3>2. CASE c \notin aborted
      <4>1. r = [fresh EXCEPT !.at = "gate"]
        BY <3>2
      <4> HIDE DEF r
      <4>2. r \in Call /\ r.at = "gate" /\ r.timer = call[c].timer
            /\ r.sent = 0 /\ r.attempt = 0 /\ r.waits = 0
        BY <4>1, <2>1 DEF Call, Place, Parked
      <4> QED
        BY <4>2, <1>0 DEF Paid
    <3> QED
      BY <3>1, <3>2
  <2> HIDE DEF r
  <2> QED
    BY <2>2, <2>3, <2>4, <1>0, Quiet
<1>3. CASE SleepAtGate(c)
  <2> DEFINE r == [call[c] EXCEPT !.at = "asleep", !.timer = shut]
  <2>1. r \in Call /\ r.at = "asleep" /\ r.timer = shut
        /\ r.sent = call[c].sent /\ r.attempt = call[c].attempt /\ r.waits = call[c].waits
    BY <1>0 DEF Call, Place, Parked
  <2>2. call' = [call EXCEPT ![c] = r] /\ UNCHANGED <<active, waiters, shut, aborted>>
    BY <1>3, <1>0 DEF SleepAtGate
  <2>3. call[c].at = "gate"
    BY <1>3 DEF SleepAtGate, In
  <2> HIDE DEF r
  <2>4. Paid(r) /\ r.timer <= shut
    BY <2>1, <2>3, <1>0 DEF Paid, Parked
  <2> QED
    BY <2>1, <2>2, <2>3, <2>4, <1>0, Quiet
<1>4. CASE Wake(c) \/ EndBackoff(c)
  <2> DEFINE r == [call[c] EXCEPT !.at = "gate"]
  <2>1. r \in Call /\ r.at = "gate" /\ r.timer = call[c].timer
        /\ r.sent = call[c].sent /\ r.attempt = call[c].attempt /\ r.waits = call[c].waits
    BY <1>0 DEF Call, Place, Parked
  <2>2. call' = [call EXCEPT ![c] = r] /\ UNCHANGED <<active, waiters, shut, aborted>>
    BY <1>4, <1>0 DEF Wake, EndBackoff
  <2>3. call[c].at \in {"asleep", "backoff"}
    BY <1>4 DEF Wake, EndBackoff, In
  <2> HIDE DEF r
  <2>4. Paid(r) /\ r.timer <= shut
    BY <2>1, <2>3, <1>0 DEF Paid, Parked
  <2> QED
    BY <2>1, <2>2, <2>3, <2>4, <1>0, Quiet
<1>5. CASE LeaveGate(c)
  <2> DEFINE r == ModelOver(call[c], "aborted")
  <2>1. call' = [call EXCEPT ![c] = r] /\ UNCHANGED <<active, waiters, shut, aborted>>
    BY <1>5 DEF LeaveGate
  <2>2. call[c].at \notin {"flight", "queued"}
    BY <1>5 DEF LeaveGate
  <2>3. "aborted" \in Error
    BY DEF Error
  <2>4. r \in Call /\ r.at \in {"model"} \union Settled /\ r.timer = 0
    BY <2>3, <1>0, ModelOverType
  <2> HIDE DEF r
  <2> QED
    BY <2>1, <2>2, <2>4, <1>0, OverIsPaid, Quiet
<1> QED
  BY <1>1, <1>2, <1>3, <1>4, <1>5, PassGateKeeps DEF Progress

LEMMA TickKeeps == ASSUME IInv, Tick PROVE IInv'
<1> DEFINE Slept(d) == [call[d] EXCEPT !.timer = IF call[d].timer = 0 THEN 0 ELSE call[d].timer - 1]
<1>0. /\ call \in [Calls -> Call] /\ waiters \in [Clients -> Seq(Calls)] /\ shut \in 0..MaxCooldown
      /\ \A d \in Calls : Paid(call[d]) /\ call[d].timer <= shut
  BY DEF IInv, TypeOK, CallInv, Rested
<1>1. /\ call' = [d \in Calls |-> Slept(d)] /\ UNCHANGED <<active, waiters, aborted>>
      /\ shut' = IF shut = 0 THEN 0 ELSE shut - 1
  BY DEF Tick
<1>2. shut' \in 0..MaxCooldown
  BY <1>0, <1>1, BoundsAssumption
<1>3. ASSUME NEW d \in Calls
      PROVE  /\ call'[d] \in Call /\ call'[d].at = call[d].at
             /\ Paid(call'[d]) /\ call'[d].timer <= shut'
  <2>1. call'[d] = Slept(d) /\ call[d] \in Call
    BY <1>0, <1>1
  <2>2. (IF call[d].timer = 0 THEN 0 ELSE call[d].timer - 1) \in 0..MaxCooldown
    BY <2>1, BoundsAssumption DEF Call
  <2>3. /\ call'[d] \in Call /\ call'[d].at = call[d].at /\ call'[d].sent = call[d].sent
        /\ call'[d].attempt = call[d].attempt /\ call'[d].waits = call[d].waits
        /\ call'[d].timer = IF call[d].timer = 0 THEN 0 ELSE call[d].timer - 1
    BY <2>1, <2>2 DEF Call
  <2>4. Paid(call'[d])
    BY <2>3, <1>0 DEF Paid
  <2>5. call[d].timer \in 0..MaxCooldown
    BY <2>1 DEF Call
  <2>6. call'[d].timer <= shut'
    BY <2>3, <2>5, <1>0, <1>1, BoundsAssumption
  <2> QED
    BY <2>3, <2>4, <2>6
<1>4. call' \in [Calls -> Call]
  BY <1>1, <1>3
<1>5. TypeOK'
  BY <1>1, <1>2, <1>4 DEF IInv, TypeOK
<1>6. QueueInv'
  BY <1>0, <1>1, <1>3 DEF IInv, QueueInv, In
<1>7. CallInv'
  BY <1>3 DEF CallInv, Rested
<1>8. SlotInv'
  <2> SUFFICES ASSUME NEW m \in Clients PROVE Slots(m)'
    BY DEF SlotInv
  <2>1. InFlight(m)' = InFlight(m)
    BY <1>3 DEF InFlight, In
  <2>2. Slots(m)
    BY DEF IInv, SlotInv
  <2> QED
    BY <2>1, <2>2, <1>1 DEF Slots
<1> QED
  BY <1>5, <1>6, <1>7, <1>8 DEF IInv

LEMMA NothingMoves ==
  ASSUME IInv, UNCHANGED <<call, active, waiters, shut>>, aborted' \in SUBSET Calls
  PROVE  IInv'
<1>1. TypeOK'
  BY DEF IInv, TypeOK
<1>2. QueueInv' /\ CallInv'
  BY DEF IInv, QueueInv, CallInv, Rested, In
<1>3. SlotInv'
  BY DEF IInv, SlotInv, Slots, InFlight, In
<1> QED
  BY <1>1, <1>2, <1>3 DEF IInv

LEMMA StepKeeps == ASSUME IInv, [Next]_vars PROVE IInv'
<1>1. ASSUME NEW c \in Calls, Abort(c) PROVE IInv'
  BY <1>1, NothingMoves DEF Abort, IInv, TypeOK
<1>2. CASE UNCHANGED vars
  BY <1>2, NothingMoves DEF vars, IInv, TypeOK
<1> QED
  BY <1>1, <1>2, AnswerKeeps, ProgressKeeps, TickKeeps DEF Next

\* The inductive invariant holds throughout.
THEOREM DispatchHolds == Spec => []IInv
  BY InitHolds, StepKeeps, PTL DEF Spec

-----------------------------------------------------------------------------
(* The theorems *)

\* Every variable keeps its type, for every number of calls and clients.
THEOREM DispatchTypes == Spec => []TypeOK
<1>1. IInv => TypeOK
  BY DEF IInv
<1> QED
  BY <1>1, DispatchHolds, PTL

\* The semaphore never leaks a slot, never exceeds LLM_MAX_CONCURRENCY and
\* never leaves a call queued beside a free slot.
THEOREM SlotsAreHonest == Spec => []SlotsHonest
<1>1. IInv => SlotsHonest
  BY DEF IInv, SlotInv, Slots, InFlight, SlotsHonest
<1> QED
  BY <1>1, DispatchHolds, PTL

\* Every dispatch of a call is paid for by one of its two allowances.
THEOREM DispatchesArePaid == Spec => []PaidOnce
<1>1. IInv => PaidOnce
  BY DEF IInv, CallInv, Paid, PaidOnce, In
<1> QED
  BY <1>1, DispatchHolds, PTL

\* Nobody sleeps past the reopening of the window.
THEOREM NobodyOversleeps == Spec => []NeverOversleeps
<1>1. IInv => NeverOversleeps
  BY DEF IInv, CallInv, Rested, NeverOversleeps
<1> QED
  BY <1>1, DispatchHolds, PTL

------------------------------------------------------------------------------
(* The embedding phase: numbers first. *)

\* A set of numbers has a least one.
LEMMA LeastNumber ==
  ASSUME NEW T, T \subseteq Nat, T # {}
  PROVE  \E x \in T : \A y \in T : x <= y
<1> DEFINE R == OpToRel(<, Nat)
<1>1. IsWellFoundedOn(R, Nat)
  BY NatLessThanWellFounded
<1>2. \A x, y \in Nat : y < x => <<y, x>> \in R
  BY DEF OpToRel
<1> HIDE DEF R
<1>3. PICK x \in T : \A y \in T : ~ (<<y, x>> \in R)
  BY <1>1, WFMin
<1>4. \A y \in T : x <= y
  <2> TAKE y \in T
  <2>1. x \in Nat /\ y \in Nat
    OBVIOUS
  <2>2. ~ (y < x)
    BY <2>1, <1>2, <1>3, Zenon
  <2> QED  BY <2>1, <2>2
<1> QED  BY <1>4

\* A finite set of numbers has a first part of every size.
LEMMA FirstPart ==
  ASSUME NEW T, T \subseteq Nat, IsFiniteSet(T), NEW k \in Nat, k <= Cardinality(T)
  PROVE  \E h \in SUBSET T : Cardinality(h) = k /\ \A x \in h, y \in T \ h : x < y
<1> DEFINE Has(n) == \E h \in SUBSET T : Cardinality(h) = n /\ \A x \in h, y \in T \ h : x < y
           Bad == {n \in Nat : n <= Cardinality(T) /\ ~Has(n)}
<1>1. Cardinality(T) \in Nat
  BY FS_CardinalityType
<1>2. SUFFICES Bad = {}
  OBVIOUS
<1>3. SUFFICES ASSUME Bad # {}  PROVE FALSE
  OBVIOUS
<1>4. PICK n \in Bad : \A m \in Bad : n <= m
  <2>1. Bad \subseteq Nat
    OBVIOUS
  <2> HIDE DEF Bad
  <2> QED  BY <1>3, <2>1, LeastNumber
<1>5. n \in Nat /\ n <= Cardinality(T) /\ ~Has(n)
  OBVIOUS
<1>6. Has(0)
  <2>1. Cardinality({}) = 0
    BY FS_EmptySet
  <2> QED  BY <2>1
<1>7. n # 0
  BY <1>5, <1>6
<1>8. Has(n - 1)
  <2>1. n - 1 \in Nat /\ n - 1 <= Cardinality(T) /\ ~(n <= n - 1)
    BY <1>1, <1>5, <1>7
  <2>2. n - 1 \notin Bad
    BY <1>4, <2>1
  <2> HIDE DEF Has
  <2> QED  BY <2>1, <2>2
<1>9. PICK h \in SUBSET T : Cardinality(h) = n - 1 /\ \A x \in h, y \in T \ h : x < y
  BY <1>8
<1>10. IsFiniteSet(h) /\ T \ h # {}
  <2>1. IsFiniteSet(h)
    BY FS_Subset
  <2>2. h # T
    BY <1>1, <1>5, <1>7, <1>9
  <2> QED  BY <2>1, <2>2
<1>11. PICK m \in T \ h : \A y \in T \ h : m <= y
  <2>1. T \ h \subseteq Nat
    OBVIOUS
  <2> QED  BY <1>10, <2>1, LeastNumber
<1>12. Cardinality(h \union {m}) = n
  <2>1. Cardinality(h \union {m}) = Cardinality(h) + 1
    BY <1>10, <1>11, FS_AddElement
  <2> QED  BY <2>1, <1>5, <1>9
<1>13. \A x \in h \union {m}, y \in T \ (h \union {m}) : x < y
  <2> SUFFICES ASSUME NEW x \in h \union {m}, NEW y \in T \ (h \union {m})  PROVE x < y
    OBVIOUS
  <2>1. CASE x \in h
    BY <2>1, <1>9
  <2>2. CASE x = m
    <3>1. m <= y /\ m # y /\ m \in Nat /\ y \in Nat
      BY <1>11
    <3> QED  BY <2>2, <3>1
  <2> QED  BY <2>1, <2>2
<1>14. Has(n)
  BY <1>11, <1>12, <1>13
<1> QED  BY <1>5, <1>14

------------------------------------------------------------------------------
(* Sequences and products. *)

LEMMA TailIs ==
  ASSUME NEW S, NEW s \in Seq(S), s # <<>>
  PROVE  /\ Len(s) \in Nat /\ Len(s) > 0 /\ Head(s) = s[1] /\ Head(s) \in S
         /\ Tail(s) \in Seq(S) /\ Len(Tail(s)) = Len(s) - 1
         /\ \A i \in 1 .. Len(s) - 1 : Tail(s)[i] = s[i + 1]
OBVIOUS

LEMMA ConcatIs ==
  ASSUME NEW S, NEW s \in Seq(S), NEW t \in Seq(S)
  PROVE  /\ s \o t \in Seq(S) /\ Len(s \o t) = Len(s) + Len(t) /\ Len(s) \in Nat /\ Len(t) \in Nat
         /\ \A i \in 1 .. Len(s) : (s \o t)[i] = s[i]
         /\ \A i \in 1 .. Len(t) : (s \o t)[Len(s) + i] = t[i]
OBVIOUS

LEMMA FunctionIsSeq ==
  ASSUME NEW S, NEW n \in Nat, NEW f \in [1 .. n -> S]
  PROVE  f \in Seq(S) /\ Len(f) = n
OBVIOUS

LEMMA TimesIs ==
  ASSUME NEW a \in Nat, NEW c \in Nat
  PROVE  a * c \in Nat /\ 0 * c = 0 /\ (a + 1) * c = a * c + c /\ (a # 0 => (a - 1) * c \in Nat /\ a * c = (a - 1) * c + c)
OBVIOUS

LEMMA TimesGrows ==
  ASSUME NEW a \in Nat, NEW b \in Nat, NEW c \in Nat, a <= b
  PROVE  a * c <= b * c
OBVIOUS

LEMMA QuotientIsNat ==
  ASSUME NEW a \in Nat, NEW c \in Nat \ {0}
  PROVE  (a + c - 1) \div c \in Nat
OBVIOUS

(* Slices.  x stands in s; s has nothing twice. *)
Has(s, x) == \E j \in 1 .. Len(s) : s[j] = x
\* x stands in s after lo and not after hi.
Sits(s, x, lo, hi) == \E i \in 1 .. Len(s) : lo < i /\ i <= hi /\ s[i] = x
Inj(s) == \A i, j \in 1 .. Len(s) : s[i] = s[j] => i = j

\* A slice, place by place, and as a set.
LEMMA SliceIs ==
  ASSUME NEW S, NEW s \in Seq(S), NEW after \in Nat, NEW size \in Nat
  PROVE  /\ Slice(s, after, size) \in Seq(S) /\ Len(Slice(s, after, size)) \in Nat
         /\ \A j \in 1 .. Len(Slice(s, after, size)) :
              after + j \in 1 .. Len(s) /\ j <= size /\ Slice(s, after, size)[j] = s[after + j]
         /\ \A i \in 1 .. Len(s) : after < i /\ i <= after + size =>
              i - after \in 1 .. Len(Slice(s, after, size))
<1> DEFINE n == IF size < Len(s) - after THEN size ELSE Len(s) - after
           t == [j \in 1 .. n |-> s[after + j]]
<1>1. t = Slice(s, after, size) /\ Len(s) \in Nat /\ n \in Int /\ n <= size /\ n <= Len(s) - after
  BY DEF Slice
<1>2. \A i \in 1 .. Len(s) : after < i /\ i <= after + size => i - after \in 1 .. n
  BY <1>1
<1> HIDE DEF n
<1>3. \A j \in 1 .. n : after + j \in 1 .. Len(s) /\ j <= size
  BY <1>1
<1>4. CASE n \in Nat
  <2>1. t \in [1 .. n -> S]
    BY <1>3
  <2>2. t \in Seq(S) /\ Len(t) = n
    <3> HIDE DEF t
    <3> QED  BY <1>4, <2>1, FunctionIsSeq
  <2>3. \A j \in 1 .. n : t[j] = s[after + j]
    OBVIOUS
  <2> HIDE DEF t
  <2> QED  BY <1>1, <1>2, <1>3, <1>4, <2>2, <2>3
<1>5. CASE n \notin Nat
  <2>1. 1 .. n = {}
    BY <1>1, <1>5
  <2>3. 1 .. 0 = {} /\ 0 \in Nat
    OBVIOUS
  <2>4. 1 .. n = 1 .. 0
    BY <2>1, <2>3
  <2>5. t \in [1 .. 0 -> S]
    BY <2>3, <2>4
  <2>2. t \in Seq(S) /\ Len(t) = 0
    <3> HIDE DEF t
    <3> QED  BY <2>3, <2>5, FunctionIsSeq
  <2> HIDE DEF t
  <2> QED  BY <1>1, <1>2, <2>1, <2>2, <2>3
<1> QED  BY <1>4, <1>5

LEMMA SliceHas ==
  ASSUME NEW S, NEW s \in Seq(S), NEW after \in Nat, NEW size \in Nat
  PROVE  /\ Slice(s, after, size) \in Seq(S)
         /\ Inj(s) => Inj(Slice(s, after, size))
         /\ \A x : Has(Slice(s, after, size), x) <=> Sits(s, x, after, after + size)
<1> DEFINE t == Slice(s, after, size)
<1>1. /\ t \in Seq(S) /\ Len(t) \in Nat
      /\ \A j \in 1 .. Len(t) : after + j \in 1 .. Len(s) /\ j <= size /\ t[j] = s[after + j]
      /\ \A i \in 1 .. Len(s) : after < i /\ i <= after + size => i - after \in 1 .. Len(t)
  BY SliceIs
<1> HIDE DEF t
<1>2. ASSUME Inj(s)  PROVE Inj(t)
  <2> SUFFICES ASSUME NEW i \in 1 .. Len(t), NEW j \in 1 .. Len(t), t[i] = t[j]  PROVE i = j
    BY DEF Inj
  <2>1. after + i = after + j
    BY <1>1, <1>2 DEF Inj
  <2> QED  BY <2>1
<1>3. ASSUME NEW x, Has(t, x)  PROVE \E i \in 1 .. Len(s) : after < i /\ i <= after + size /\ s[i] = x
  <2>1. PICK j \in 1 .. Len(t) : t[j] = x
    BY <1>3 DEF Has
  <2>2. after + j \in 1 .. Len(s) /\ after < after + j /\ after + j <= after + size /\ s[after + j] = x
    BY <1>1, <2>1
  <2> QED  BY <2>2
<1>4. ASSUME NEW x, NEW i \in 1 .. Len(s), after < i, i <= after + size, s[i] = x  PROVE Has(t, x)
  <2>1. i - after \in 1 .. Len(t) /\ after + (i - after) = i
    BY <1>1, <1>4
  <2> QED  BY <1>1, <1>4, <2>1 DEF Has
<1>5. ASSUME NEW x  PROVE Has(t, x) <=> Sits(s, x, after, after + size)
  BY <1>3, <1>4 DEF Sits
<1> QED  BY <1>1, <1>2, <1>5 DEF t

\* A finite set of numbers in order: a sequence that has each of it once.
LEMMA OrderedIs ==
  ASSUME NEW S, S \subseteq Nat, IsFiniteSet(S)
  PROVE  /\ Ordered(S) \in Seq(S) /\ Inj(Ordered(S)) /\ \A x \in S : Has(Ordered(S), x)
         /\ Len(Ordered(S)) = Cardinality(S) /\ Cardinality(S) \in Nat
<1> DEFINE n == Cardinality(S)
           Under(x) == {y \in S : y < x}
           s == Ordered(S)
<1>1. n \in Nat
  BY FS_CardinalityType
<1>2. ASSUME NEW x \in S  PROVE IsFiniteSet(Under(x)) /\ Cardinality(Under(x)) \in Nat /\ Cardinality(Under(x)) < n
  <2>1. Under(x) \subseteq S /\ Under(x) # S
    BY <1>1
  <2> HIDE DEF Under
  <2> QED  BY <1>1, <2>1, FS_Subset, FS_CardinalityType
<1>3. ASSUME NEW i \in 1 .. n  PROVE \E x \in S : Cardinality(Under(x)) = i - 1
  <2>1. i - 1 \in Nat /\ i - 1 <= n /\ i - 1 # n
    BY <1>1
  <2>2. PICK h \in SUBSET S : Cardinality(h) = i - 1 /\ \A x \in h, y \in S \ h : x < y
    BY <1>1, <2>1, FirstPart
  <2>3. S \ h # {}
    <3>1. h # S
      <4>1. n = Cardinality(S)
        OBVIOUS
      <4> HIDE DEF n, Under
      <4> QED  BY <2>1, <2>2, <4>1
    <3> QED  BY <3>1
  <2>4. PICK x \in S \ h : \A y \in S \ h : x <= y
    <3>1. S \ h \subseteq Nat
      OBVIOUS
    <3> QED  BY <2>3, <3>1, LeastNumber
  <2>5. Under(x) = h
    <3>1. ASSUME NEW y \in S, y < x  PROVE y \in h
      <4>1. x \in Nat /\ y \in Nat /\ ~(x <= y)
        BY <3>1
      <4> QED  BY <2>4, <4>1
    <3>2. \A y \in h : y < x
      BY <2>2, <2>4
    <3> QED  BY <3>1, <3>2
  <2> QED  BY <2>2, <2>4, <2>5
<1>4. ASSUME NEW u \in S, NEW v \in S, Cardinality(Under(u)) = Cardinality(Under(v))  PROVE u = v
  <2>1. ASSUME NEW a \in S, NEW b \in S, a < b  PROVE Cardinality(Under(a)) < Cardinality(Under(b))
    <3>1. a \in Nat /\ b \in Nat /\ \A z \in S : z \in Nat
      OBVIOUS
    <3>2. \A z \in S : z < a => z < b
      BY <2>1, <3>1
    <3>3. Under(a) \subseteq Under(b) /\ a \in Under(b) /\ a \notin Under(a)
      <4>1. Under(a) \subseteq Under(b) /\ a \in Under(b)
        BY <2>1, <3>2
      <4>2. ~(a < a)
        BY <3>1
      <4> QED  BY <4>1, <4>2
    <3>4. Under(a) # Under(b) /\ IsFiniteSet(Under(b)) /\ Cardinality(Under(a)) \in Nat /\ Cardinality(Under(b)) \in Nat
      BY <3>3, <1>2
    <3> HIDE DEF Under
    <3>5. Cardinality(Under(a)) <= Cardinality(Under(b)) /\ Cardinality(Under(a)) # Cardinality(Under(b))
      BY <3>3, <3>4, FS_Subset
    <3> QED  BY <3>4, <3>5
  <2>2. u \in Nat /\ v \in Nat
    OBVIOUS
  <2>3. ~(u < v) /\ ~(v < u)
    BY <1>2, <1>4, <2>1
  <2> QED  BY <2>2, <2>3
<1>5. s = [i \in 1 .. n |-> CHOOSE x \in S : Cardinality(Under(x)) = i - 1]
  BY DEF Ordered
<1> HIDE DEF s
<1>6. \A i \in 1 .. n : s[i] \in S /\ Cardinality(Under(s[i])) = i - 1
  <2> HIDE DEF Under
  <2> QED  BY <1>3, <1>5
<1>7. s \in Seq(S) /\ Len(s) = n
  <2>1. s \in [1 .. n -> S]
    BY <1>5, <1>6
  <2> HIDE DEF n
  <2> QED  BY <1>1, <2>1, FunctionIsSeq
<1>8. ASSUME NEW i \in 1 .. n, NEW j \in 1 .. n, s[i] = s[j]  PROVE i = j
  <2>1. i - 1 = j - 1
    <3> HIDE DEF Under
    <3> QED  BY <1>6, <1>8
  <2> QED  BY <2>1
<1>9. ASSUME NEW x \in S  PROVE \E i \in 1 .. n : s[i] = x
  <2> DEFINE i == Cardinality(Under(x)) + 1
  <2>1. i \in 1 .. n /\ i - 1 = Cardinality(Under(x))
    BY <1>1, <1>2
  <2> HIDE DEF i
  <2>2. s[i] \in S /\ Cardinality(Under(s[i])) = Cardinality(Under(x))
    BY <1>6, <2>1
  <2>3. s[i] = x
    BY <1>4, <2>2
  <2> QED  BY <2>1, <2>3
<1> QED  BY <1>1, <1>7, <1>8, <1>9 DEF s, Inj, Has

\* What is left of a sequence when some of it is dropped.
LEMMA AmongIs ==
  ASSUME NEW S, NEW s \in Seq(S), NEW got
  PROVE  /\ Among(s, got) \in Seq(S)
         /\ Inj(s) => Inj(Among(s, got))
         /\ \A x : Has(Among(s, got), x) <=> Has(s, x) /\ x \in got
<1> DEFINE P == {i \in DOMAIN s : s[i] \in got}
           o == Ordered(P)
           t == Among(s, got)
<1>1. Len(s) \in Nat /\ DOMAIN s = 1 .. Len(s)
  OBVIOUS
<1>2. P \subseteq 1 .. Len(s) /\ P \subseteq Nat
  BY <1>1
<1>3. IsFiniteSet(P)
  <2> HIDE DEF P
  <2>1. IsFiniteSet(1 .. Len(s))
    BY <1>1, FS_Interval
  <2> QED  BY <1>2, <2>1, FS_Subset
<1>4. /\ o \in Seq(P) /\ Inj(o) /\ \A i \in P : Has(o, i)
      /\ Len(o) = Cardinality(P) /\ Cardinality(P) \in Nat
  <2> HIDE DEF P
  <2> QED  BY <1>2, <1>3, OrderedIs
<1>5. t = [k \in 1 .. Cardinality(P) |-> s[o[k]]]
  BY DEF Among
<1>6. \A i : i \in P <=> i \in 1 .. Len(s) /\ s[i] \in got
  BY <1>1
<1> HIDE DEF P, o, t
<1>7. \A k \in 1 .. Len(o) : o[k] \in P
  BY <1>4
<1>8. t \in Seq(S) /\ Len(t) = Len(o) /\ \A k \in 1 .. Len(o) : t[k] = s[o[k]]
  <2>1. \A k \in 1 .. Len(o) : s[o[k]] \in S
    BY <1>6, <1>7
  <2>2. t \in [1 .. Len(o) -> S] /\ \A k \in 1 .. Len(o) : t[k] = s[o[k]]
    BY <1>4, <1>5, <2>1
  <2> QED  BY <1>4, <2>2, FunctionIsSeq
<1>9. Inj(s) => Inj(t)
  BY <1>4, <1>6, <1>7, <1>8 DEF Inj
<1>10. ASSUME NEW x, Has(t, x)  PROVE Has(s, x) /\ x \in got
  <2>1. PICK k \in 1 .. Len(t) : t[k] = x
    BY <1>10 DEF Has
  <2> QED  BY <1>6, <1>7, <1>8, <2>1 DEF Has
<1>11. ASSUME NEW x, Has(s, x), x \in got  PROVE Has(t, x)
  <2>1. PICK i \in 1 .. Len(s) : s[i] = x
    BY <1>11 DEF Has
  <2>2. i \in P
    BY <1>6, <1>11, <2>1
  <2>3. PICK k \in 1 .. Len(o) : o[k] = i
    BY <1>4, <2>2 DEF Has
  <2> QED  BY <1>8, <2>1, <2>3 DEF Has
<1> QED  BY <1>8, <1>9, <1>10, <1>11 DEF t

\* The chunks cut off the front, and what is left, are apart and are all of it.
LEMMA CutIs ==
  ASSUME NEW S, NEW s \in Seq(S), Inj(s), NEW k \in Nat
  PROVE  /\ CutInto(s, k) \in Seq(Seq(S)) /\ Len(CutInto(s, k)) = k
         /\ Slice(s, k * ChunkSize, Len(s)) \in Seq(S) /\ Inj(Slice(s, k * ChunkSize, Len(s)))
         /\ \A i \in 1 .. k : Inj(CutInto(s, k)[i])
         /\ \A i, j \in 1 .. k : \A x : Has(CutInto(s, k)[i], x) /\ Has(CutInto(s, k)[j], x) => i = j
         /\ \A i \in 1 .. k : \A x : Has(CutInto(s, k)[i], x) => Has(s, x) /\ ~Has(Slice(s, k * ChunkSize, Len(s)), x)
         /\ \A x : Has(Slice(s, k * ChunkSize, Len(s)), x) => Has(s, x)
         /\ \A x : Has(s, x) => \/ Has(Slice(s, k * ChunkSize, Len(s)), x)
                                \/ \E i \in 1 .. k : Has(CutInto(s, k)[i], x)
<1> DEFINE C == ChunkSize
           rest == Slice(s, k * C, Len(s))
           t == CutInto(s, k)
<1>1. C \in Nat \ {0} /\ C \in Nat /\ Len(s) \in Nat
  BY VectorsAssumption
<1>2. k * C \in Nat
  BY <1>1, TimesIs
<1> HIDE DEF C
<1>3. /\ rest \in Seq(S) /\ Inj(rest)
      /\ \A x : Has(rest, x) <=> Sits(s, x, k * C, k * C + Len(s))
  <2> DEFINE a == k * C
  <2>1. a \in Nat
    BY <1>2
  <2> HIDE DEF a
  <2>2. /\ Slice(s, a, Len(s)) \in Seq(S) /\ Inj(Slice(s, a, Len(s)))
        /\ \A x : Has(Slice(s, a, Len(s)), x) <=> Sits(s, x, a, a + Len(s))
    <3> DEFINE l == Len(s)
    <3>1. l \in Nat
      BY <1>1
    <3> HIDE DEF l
    <3>2. /\ Slice(s, a, l) \in Seq(S) /\ Inj(Slice(s, a, l))
          /\ \A x : Has(Slice(s, a, l), x) <=> Sits(s, x, a, a + l)
      <4>1. Slice(s, a, l) \in Seq(S)
        BY <2>1, <3>1, SliceHas
      <4>2. Inj(s) => Inj(Slice(s, a, l))
        BY <2>1, <3>1, SliceHas
      <4>3. \A x : Has(Slice(s, a, l), x) <=> Sits(s, x, a, a + l)
        BY <2>1, <3>1, SliceHas
      <4> QED  BY <4>1, <4>2, <4>3
    <3> QED  BY <3>2 DEF l
  <2> QED  BY <2>2 DEF a
<1>4. \A i \in 1 .. k : t[i] = Slice(s, (i - 1) * C, C)
  BY DEF CutInto, C
<1>5. ASSUME NEW i \in 1 .. k
      PROVE  /\ i \in Nat /\ (i - 1) * C \in Nat /\ i * C \in Nat /\ i * C = (i - 1) * C + C /\ i * C <= k * C
  <2>1. i \in Nat /\ i # 0 /\ i <= k
    OBVIOUS
  <2> QED  BY <1>1, <2>1, TimesIs, TimesGrows
<1>6. ASSUME NEW i \in 1 .. k
      PROVE  /\ t[i] \in Seq(S) /\ Inj(t[i])
             /\ \A x : Has(t[i], x) <=> Sits(s, x, (i - 1) * C, i * C)
  <2> DEFINE a == (i - 1) * C
  <2>1. a \in Nat /\ a + C = i * C
    BY <1>1, <1>5
  <2>2. t[i] = Slice(s, a, C)
    BY <1>4
  <2> HIDE DEF a, t
  <2>3. /\ t[i] \in Seq(S) /\ Inj(t[i])
        /\ \A x : Has(t[i], x) <=> Sits(s, x, a, a + C)
    <3>1. /\ Slice(s, a, C) \in Seq(S) /\ Inj(Slice(s, a, C))
          /\ \A x : Has(Slice(s, a, C), x) <=> Sits(s, x, a, a + C)
      <4>1. Slice(s, a, C) \in Seq(S)
        BY <1>1, <2>1, SliceHas
      <4>2. Inj(s) => Inj(Slice(s, a, C))
        BY <1>1, <2>1, SliceHas
      <4>3. \A x : Has(Slice(s, a, C), x) <=> Sits(s, x, a, a + C)
        BY <1>1, <2>1, SliceHas
      <4> QED  BY <4>1, <4>2, <4>3
    <3> QED  BY <2>2, <3>1
  <2> QED  BY <2>1, <2>3 DEF a
<1>7. t \in Seq(Seq(S)) /\ Len(t) = k
  <2>1. t = [i \in 1 .. k |-> t[i]]
    BY DEF CutInto
  <2> HIDE DEF t
  <2>2. t \in [1 .. k -> Seq(S)]
    BY <1>6, <2>1
  <2> QED  BY <2>2, FunctionIsSeq
<1> HIDE DEF t, rest
<1>8. ASSUME NEW i \in 1 .. k, NEW j \in 1 .. k, NEW x, Has(t[i], x), Has(t[j], x)  PROVE i = j
  <2>1. PICK m \in 1 .. Len(s) : (i - 1) * C < m /\ m <= i * C /\ s[m] = x
    <3>1. Sits(s, x, (i - 1) * C, i * C)
      BY <1>6, <1>8
    <3> QED  BY <3>1 DEF Sits
  <2>2. PICK n \in 1 .. Len(s) : (j - 1) * C < n /\ n <= j * C /\ s[n] = x
    <3>1. Sits(s, x, (j - 1) * C, j * C)
      BY <1>6, <1>8
    <3> QED  BY <3>1 DEF Sits
  <2>3. m = n
    BY <2>1, <2>2 DEF Inj
  <2>4. ASSUME NEW a \in 1 .. k, NEW b \in 1 .. k, a < b, m <= a * C, (b - 1) * C < m  PROVE FALSE
    <3>1. a \in Nat /\ b - 1 \in Nat /\ a <= b - 1
      BY <2>4
    <3>2. a * C <= (b - 1) * C
      BY <1>1, <3>1, TimesGrows
    <3>3. a * C \in Nat /\ (b - 1) * C \in Nat /\ m \in Nat
      BY <1>5
    <3> DEFINE y == a * C
               z == (b - 1) * C
    <3>4. y \in Nat /\ z \in Nat /\ m \in Nat /\ y <= z /\ m <= y /\ z < m
      BY <2>4, <3>2, <3>3
    <3> HIDE DEF y, z
    <3> QED  BY <3>4
  <2>5. ~(i < j) /\ ~(j < i)
    BY <2>1, <2>2, <2>3, <2>4
  <2>6. i \in Nat /\ j \in Nat
    OBVIOUS
  <2> QED  BY <2>5, <2>6
<1>9. ASSUME NEW i \in 1 .. k, NEW x, Has(t[i], x)  PROVE Has(s, x) /\ ~Has(rest, x)
  <2>1. PICK m \in 1 .. Len(s) : m <= i * C /\ s[m] = x
    <3>1. Sits(s, x, (i - 1) * C, i * C)
      BY <1>6, <1>9
    <3> QED  BY <3>1 DEF Sits
  <2>2. ASSUME NEW n \in 1 .. Len(s), k * C < n, s[n] = x  PROVE FALSE
    <3>1. m = n
      BY <2>1, <2>2 DEF Inj
    <3>2. m <= i * C /\ i * C <= k * C /\ k * C < m /\ i * C \in Nat /\ k * C \in Nat /\ m \in Nat
      BY <1>2, <1>5, <2>1, <2>2, <3>1
    <3> DEFINE y == i * C
               z == k * C
    <3>3. m <= y /\ y <= z /\ z < m /\ y \in Nat /\ z \in Nat /\ m \in Nat
      BY <3>2
    <3> HIDE DEF y, z
    <3> QED  BY <3>3
  <2>3. ~Sits(s, x, k * C, k * C + Len(s))
    BY <2>2 DEF Sits
  <2> QED  BY <1>3, <2>1, <2>3 DEF Has
<1>10. \A x : Has(rest, x) => Has(s, x)
  <2>1. \A x : Sits(s, x, k * C, k * C + Len(s)) => Has(s, x)
    BY DEF Sits, Has
  <2> QED  BY <1>3, <2>1
<1>11. ASSUME NEW x, Has(s, x)  PROVE Has(rest, x) \/ \E i \in 1 .. k : Has(t[i], x)
  <2>1. PICK m \in 1 .. Len(s) : s[m] = x
    BY <1>11 DEF Has
  <2>2. m \in Nat /\ m >= 1 /\ m <= Len(s)
    BY <1>1
  <2>3. CASE k * C < m
    <3> DEFINE z == k * C
    <3>1. z \in Nat /\ m <= z + Len(s)
      <4>1. z \in Nat
        BY <1>2
      <4> HIDE DEF z
      <4> QED  BY <1>1, <2>2, <4>1
    <3>2. Sits(s, x, k * C, k * C + Len(s))
      BY <2>1, <2>3, <3>1 DEF Sits
    <3> QED  BY <1>3, <3>2
  <2>4. CASE ~(k * C < m)
    <3> DEFINE T == {n \in 0 .. k : m <= n * C}
    <3>1. T \subseteq Nat /\ k \in T
      BY <1>2, <2>2, <2>4
    <3>2. PICK n \in T : \A y \in T : n <= y
      <4> HIDE DEF T
      <4> QED  BY <3>1, LeastNumber
    <3>3. n # 0
      BY <1>1, <2>2, TimesIs
    <3>4. n \in 1 .. k /\ n - 1 \in 0 .. k /\ ~(n <= n - 1) /\ m <= n * C
      BY <3>3
    <3>5. n - 1 \notin T
      BY <3>2, <3>4
    <3>6. (n - 1) * C < m
      BY <1>5, <2>2, <3>4, <3>5
    <3>7. Has(t[n], x)
      <4>1. Sits(s, x, (n - 1) * C, n * C)
        BY <2>1, <3>4, <3>6 DEF Sits
      <4> QED  BY <1>6, <3>4, <4>1
    <3> QED  BY <3>4, <3>7
  <2> QED  BY <2>3, <2>4
<1> QED  BY <1>3, <1>6, <1>7, <1>8, <1>9, <1>10, <1>11 DEF t, rest, C

------------------------------------------------------------------------------
(* Families of sequences: what each of several hands holds. *)

\* x is in one of the hands; in another than a; and no x is in two.
Inside(f, x)   == \E a \in DOMAIN f : Has(f[a], x)
Beside(f, a, x) == \E b \in DOMAIN f : b # a /\ Has(f[b], x)
Once(f) == /\ \A a \in DOMAIN f : Inj(f[a])
           /\ \A a, b \in DOMAIN f : \A x : Has(f[a], x) /\ Has(f[b], x) => a = b

LEMMA NoneInEmpty == Inj(<<>>) /\ \A x : ~Has(<<>>, x)
  BY DEF Inj, Has

IsFamily(f) == f = [d \in DOMAIN f |-> f[d]]
Put(f, a, t) == [f EXCEPT ![a] = t]

\* One hand holds something else from now on.
LEMMA OneHand ==
  ASSUME NEW f, IsFamily(f), NEW a \in DOMAIN f, NEW t, NEW g, g = Put(f, a, t)
  PROVE  /\ \A x : Inside(f, x) <=> Has(f[a], x) \/ Beside(f, a, x)
         /\ \A x : Inside(g, x) <=> Has(t, x) \/ Beside(f, a, x)
         /\ Once(f) => Inj(f[a]) /\ \A x : Has(f[a], x) => ~Beside(f, a, x)
         /\ Once(f) /\ Inj(t) /\ (\A x : Has(t, x) => ~Beside(f, a, x)) => Once(g)
<1>1. DOMAIN g = DOMAIN f /\ g[a] = t /\ \A b \in DOMAIN f : b # a => g[b] = f[b]
  BY DEF IsFamily, Put
<1>2. ASSUME NEW x  PROVE Inside(f, x) <=> Has(f[a], x) \/ Beside(f, a, x)
  BY DEF Inside, Beside
<1>3. ASSUME NEW x  PROVE Inside(g, x) <=> Has(t, x) \/ Beside(f, a, x)
  BY <1>1 DEF Inside, Beside
<1>4. ASSUME Once(f)  PROVE Inj(f[a]) /\ \A x : Has(f[a], x) => ~Beside(f, a, x)
  BY <1>4 DEF Once, Beside
<1>5. ASSUME Once(f), Inj(t), \A x : Has(t, x) => ~Beside(f, a, x)  PROVE Once(g)
  <2>1. \A b \in DOMAIN g : Inj(g[b])
    BY <1>1, <1>5 DEF Once
  <2>2. ASSUME NEW b \in DOMAIN g, NEW c \in DOMAIN g, NEW x, Has(g[b], x), Has(g[c], x)  PROVE b = c
    <3>1. CASE b # a /\ c # a
      BY <3>1, <1>1, <1>5, <2>2 DEF Once
    <3>2. CASE b = a /\ c # a
      BY <3>2, <1>1, <1>5, <2>2 DEF Beside
    <3>3. CASE b # a /\ c = a
      BY <3>3, <1>1, <1>5, <2>2 DEF Beside
    <3> QED  BY <3>1, <3>2, <3>3
  <2> QED  BY <2>1, <2>2 DEF Once
<1> QED  BY <1>2, <1>3, <1>4, <1>5

\* Chunks are queued behind those that are.
LEMMA MoreHands ==
  ASSUME NEW S, NEW q \in Seq(Seq(S)), NEW c \in Seq(Seq(S))
  PROVE  /\ \A x : Inside(q \o c, x) <=> Inside(q, x) \/ Inside(c, x)
         /\ Once(q) /\ Once(c) /\ (\A x : ~(Inside(q, x) /\ Inside(c, x))) => Once(q \o c)
<1> DEFINE r == q \o c
           m == Len(q)
           n == Len(c)
<1>1. /\ m \in Nat /\ n \in Nat /\ DOMAIN q = 1 .. m /\ DOMAIN c = 1 .. n /\ DOMAIN r = 1 .. (m + n)
      /\ \A i \in 1 .. m : r[i] = q[i]
      /\ \A i \in 1 .. n : r[m + i] = c[i]
  BY ConcatIs
<1> HIDE DEF r, m, n
<1>2. ASSUME NEW i \in 1 .. (m + n)
      PROVE  (i \in 1 .. m /\ r[i] = q[i]) \/ (i - m \in 1 .. n /\ r[i] = c[i - m] /\ i \notin 1 .. m)
  <2>1. CASE i <= m
    BY <1>1, <2>1
  <2>2. CASE ~(i <= m)
    <3>1. i - m \in 1 .. n /\ i = m + (i - m) /\ i \notin 1 .. m
      BY <1>1, <2>2
    <3>2. r[m + (i - m)] = c[i - m]
      BY <1>1, <3>1
    <3> QED  BY <3>1, <3>2
  <2> QED  BY <2>1, <2>2
<1>3. \A i \in 1 .. n : m + i \in 1 .. (m + n)
  BY <1>1
<1>4. \A i \in 1 .. m : i \in 1 .. (m + n)
  BY <1>1
<1>5. ASSUME NEW x, Inside(r, x)  PROVE Inside(q, x) \/ Inside(c, x)
  <2>1. PICK i \in 1 .. (m + n) : Has(r[i], x)
    BY <1>1, <1>5 DEF Inside
  <2> QED  BY <1>1, <1>2, <2>1 DEF Inside
<1>6. ASSUME NEW x, Inside(q, x) \/ Inside(c, x)  PROVE Inside(r, x)
  <2>1. CASE Inside(q, x)
    BY <1>1, <1>4, <2>1 DEF Inside
  <2>2. CASE Inside(c, x)
    <3>1. PICK i \in 1 .. n : Has(c[i], x)
      BY <1>1, <2>2 DEF Inside
    <3> QED  BY <1>1, <1>3, <3>1 DEF Inside
  <2> QED  BY <1>6, <2>1, <2>2
<1>7. ASSUME Once(q), Once(c), \A x : ~(Inside(q, x) /\ Inside(c, x))  PROVE Once(r)
  <2>1. \A i \in 1 .. (m + n) : Inj(r[i])
    BY <1>1, <1>2, <1>7 DEF Once
  <2>2. ASSUME NEW i \in 1 .. (m + n), NEW j \in 1 .. (m + n), NEW x, Has(r[i], x), Has(r[j], x)  PROVE i = j
    <3>1. CASE i \in 1 .. m /\ j \in 1 .. m
      BY <3>1, <1>1, <1>7, <2>2 DEF Once
    <3>2. CASE i \notin 1 .. m /\ j \notin 1 .. m
      <4>1. i - m = j - m
        BY <3>2, <1>1, <1>2, <1>7, <2>2 DEF Once
      <4> QED  BY <4>1, <1>1
    <3>3. CASE i \in 1 .. m /\ j \notin 1 .. m
      BY <3>3, <1>1, <1>2, <1>7, <2>2 DEF Inside
    <3>4. CASE i \notin 1 .. m /\ j \in 1 .. m
      BY <3>4, <1>1, <1>2, <1>7, <2>2 DEF Inside
    <3> QED  BY <3>1, <3>2, <3>3, <3>4
  <2> QED  BY <1>1, <2>1, <2>2 DEF Once
<1> QED  BY <1>5, <1>6, <1>7 DEF r

\* The first chunk is taken off the queue.
LEMMA FirstHand ==
  ASSUME NEW S, NEW q \in Seq(Seq(S)), q # <<>>
  PROVE  /\ \A x : Inside(q, x) <=> Has(Head(q), x) \/ Inside(Tail(q), x)
         /\ Once(q) => /\ Inj(Head(q)) /\ Once(Tail(q))
                       /\ \A x : Has(Head(q), x) => ~Inside(Tail(q), x)
<1> DEFINE r == Tail(q)
           m == Len(q)
<1>1. /\ m \in Nat /\ m > 0 /\ DOMAIN q = 1 .. m /\ DOMAIN r = 1 .. (m - 1) /\ Head(q) = q[1]
      /\ \A i \in 1 .. (m - 1) : r[i] = q[i + 1]
  BY TailIs
<1> HIDE DEF r, m
<1>2. \A i \in 1 .. (m - 1) : i + 1 \in 1 .. m /\ i + 1 # 1
  BY <1>1
<1>3. \A i \in 1 .. m : i # 1 => i - 1 \in 1 .. (m - 1) /\ q[i] = r[i - 1]
  <2> SUFFICES ASSUME NEW i \in 1 .. m, i # 1  PROVE i - 1 \in 1 .. (m - 1) /\ q[i] = r[i - 1]
    OBVIOUS
  <2>1. i - 1 \in 1 .. (m - 1) /\ (i - 1) + 1 = i
    BY <1>1
  <2>2. r[i - 1] = q[(i - 1) + 1]
    BY <1>1, <2>1
  <2> QED  BY <2>1, <2>2
<1>4. 1 \in 1 .. m
  BY <1>1
<1>5. ASSUME NEW x, Inside(q, x)  PROVE Has(q[1], x) \/ Inside(r, x)
  <2>1. PICK i \in 1 .. m : Has(q[i], x)
    BY <1>1, <1>5 DEF Inside
  <2> QED  BY <1>1, <1>3, <2>1 DEF Inside
<1>6. ASSUME NEW x, Has(q[1], x) \/ Inside(r, x)  PROVE Inside(q, x)
  BY <1>1, <1>2, <1>4, <1>6 DEF Inside
<1>7. ASSUME Once(q)  PROVE Inj(q[1]) /\ Once(r) /\ \A x : Has(q[1], x) => ~Inside(r, x)
  <2>1. Inj(q[1]) /\ \A i \in 1 .. (m - 1) : Inj(r[i])
    BY <1>1, <1>2, <1>4, <1>7 DEF Once
  <2>2. ASSUME NEW i \in 1 .. (m - 1), NEW j \in 1 .. (m - 1), NEW x, Has(r[i], x), Has(r[j], x)  PROVE i = j
    <3>1. i + 1 = j + 1
      BY <1>1, <1>2, <1>7, <2>2 DEF Once
    <3> QED  BY <3>1
  <2>3. ASSUME NEW x, Has(q[1], x), Inside(r, x)  PROVE FALSE
    <3>1. PICK i \in 1 .. (m - 1) : Has(r[i], x)
      BY <1>1, <2>3 DEF Inside
    <3> QED  BY <1>1, <1>2, <1>4, <1>7, <2>3, <3>1 DEF Once
  <2> QED  BY <1>1, <2>1, <2>2, <2>3 DEF Once
<1> QED  BY <1>1, <1>5, <1>6, <1>7 DEF r

\* The chunks of a cut, as a family.
LEMMA CutOnce ==
  ASSUME NEW S, NEW s \in Seq(S), Inj(s), NEW k \in Nat
  PROVE  /\ CutInto(s, k) \in Seq(Seq(S)) /\ Len(CutInto(s, k)) = k /\ Once(CutInto(s, k))
         /\ Slice(s, k * ChunkSize, Len(s)) \in Seq(S) /\ Inj(Slice(s, k * ChunkSize, Len(s)))
         /\ \A x : Has(s, x) <=> Has(Slice(s, k * ChunkSize, Len(s)), x) \/ Inside(CutInto(s, k), x)
         /\ \A x : ~(Has(Slice(s, k * ChunkSize, Len(s)), x) /\ Inside(CutInto(s, k), x))
<1> DEFINE t == CutInto(s, k)
           rest == Slice(s, k * ChunkSize, Len(s))
<1>1. /\ t \in Seq(Seq(S)) /\ Len(t) = k /\ rest \in Seq(S) /\ Inj(rest)
      /\ \A i \in 1 .. k : Inj(t[i])
      /\ \A i, j \in 1 .. k : \A x : Has(t[i], x) /\ Has(t[j], x) => i = j
      /\ \A i \in 1 .. k : \A x : Has(t[i], x) => Has(s, x) /\ ~Has(rest, x)
      /\ \A x : Has(rest, x) => Has(s, x)
      /\ \A x : Has(s, x) => Has(rest, x) \/ \E i \in 1 .. k : Has(t[i], x)
  BY CutIs, ZenonT(40)
<1> HIDE DEF t, rest
<1>2. DOMAIN t = 1 .. k
  BY <1>1
<1> QED  BY <1>1, <1>2 DEF Once, Inside, t, rest

------------------------------------------------------------------------------
(* The invariant of the embedding phase. *)

ProdRec == [st : {"fetch", "asking", "hand", "parked", "done"}, tuples : Seq(Items)]
WritRec == [st : {"take", "parked", "write", "report", "done"}, chunk : Seq(Items)]

TuplesOf(ps) == [p \in Producers |-> ps[p].tuples]
ChunksIn(ws) == [w \in Writers |-> ws[w].chunk]

\* No vector is in two hands, when the hands hold f, q and g.
Apart(f, q, g) ==
  /\ Once(f) /\ Once(q) /\ Once(g)
  /\ \A x : /\ ~(Inside(f, x) /\ Inside(q, x))
            /\ ~(Inside(f, x) /\ Inside(g, x))
            /\ ~(Inside(q, x) /\ Inside(g, x))
InHands(f, q, g, x) == Inside(f, x) \/ Inside(q, x) \/ Inside(g, x)

\* Whether a batch with x was taken.
Asked(x)   == Sits(pending, x, 0, (nextBatch - 1) * BatchSize)
Unasked(x) == Sits(pending, x, (nextBatch - 1) * BatchSize, Len(pending))

HandsApart == Apart(TuplesOf(prod), queue, ChunksIn(writ))
HandsAsked == \A x : InHands(TuplesOf(prod), queue, ChunksIn(writ), x) => Asked(x)

\* While nothing failed, every vector is stored, left out by the API, still to
\* be asked for, or in a hand.
Accounted ==
  result = "running" /\ ~apiFailed /\ ~writerStopped =>
    \A x \in Items : \/ x \in embeddings \/ x \in withheld \/ Unasked(x)
                     \/ InHands(TuplesOf(prod), queue, ChunksIn(writ), x)

\* What being done means, on either side.
ProdDone == \A p \in Producers :
  /\ prod[p].st \in {"fetch", "done"} => prod[p].tuples = <<>>
  /\ prod[p].st = "done" => apiFailed \/ NoneLeft
  /\ producersDone => prod[p].st = "done"
WritDone == \A w \in Writers :
  /\ writ[w].st # "write" => writ[w].chunk = <<>>
  /\ writ[w].st = "done" => writerStopped \/ (producersDone /\ queue = <<>>)
Failures == /\ producersDone /\ apiFailed => phaseFailure # "none"
            /\ writerStopped => phaseFailure # "none"

VectorsInv == /\ VectorsTypeOK /\ Inj(pending)
              /\ HandsApart /\ HandsAsked /\ Accounted
              /\ ProdDone /\ WritDone /\ Failures
              /\ QueueBounded /\ ReturnedIsStored

LEMMA ItemsAre == Items \subseteq Nat /\ IsFiniteSet(Items) /\ 1 \in Producers /\ 1 \in Writers
<1>1. NItems \in Nat /\ NProducers \in Nat \ {0} /\ NWriters \in Nat \ {0}
  BY VectorsAssumption
<1>2. IsFiniteSet(1 .. NItems)
  BY <1>1, FS_Interval
<1> QED  BY <1>1, <1>2 DEF Items, Producers, Writers

LEMMA SeqOfMore ==
  ASSUME NEW S, NEW T, T \subseteq S, NEW s \in Seq(T)
  PROVE  s \in Seq(S)
OBVIOUS

LEMMA MissingIs ==
  ASSUME NEW stored \in SUBSET Items
  PROVE  Missing(stored) \in Seq(Items) /\ Inj(Missing(stored)) /\ \A x \in Items \ stored : Has(Missing(stored), x)
<1> DEFINE T == Items \ stored
<1>1. T \subseteq Nat /\ IsFiniteSet(T) /\ T \subseteq Items
  BY ItemsAre, FS_Subset
<1>2. Missing(stored) = Ordered(T)
  BY DEF Missing
<1> HIDE DEF T
<1>3. Ordered(T) \in Seq(T) /\ Inj(Ordered(T)) /\ \A x \in T : Has(Ordered(T), x)
  BY <1>1, OrderedIs
<1>4. Ordered(T) \in Seq(Items)
  BY <1>1, <1>3, SeqOfMore
<1> QED  BY <1>2, <1>3, <1>4 DEF T

LEMMA ProducerSet ==
  ASSUME NEW ps \in [Producers -> ProdRec], NEW p \in Producers, NEW r \in ProdRec,
         NEW qs, qs = Put(ps, p, r)
  PROVE  /\ qs \in [Producers -> ProdRec]
         /\ TuplesOf(qs) = Put(TuplesOf(ps), p, r.tuples)
         /\ qs[p] = r /\ \A q \in Producers : q # p => qs[q] = ps[q]
BY DEF TuplesOf, Put

LEMMA WriterSet ==
  ASSUME NEW ws \in [Writers -> WritRec], NEW w \in Writers, NEW r \in WritRec,
         NEW vs, vs = Put(ws, w, r)
  PROVE  /\ vs \in [Writers -> WritRec]
         /\ ChunksIn(vs) = Put(ChunksIn(ws), w, r.chunk)
         /\ vs[w] = r /\ \A v \in Writers : v # w => vs[v] = ws[v]
BY DEF ChunksIn, Put

LEMMA WokenProducers ==
  ASSUME NEW ps \in [Producers -> ProdRec]
  PROVE  /\ WakeProducers(ps) \in [Producers -> ProdRec]
         /\ TuplesOf(WakeProducers(ps)) = TuplesOf(ps)
         /\ \A p \in Producers : /\ WakeProducers(ps)[p].tuples = ps[p].tuples
                                 /\ WakeProducers(ps)[p].st \in {ps[p].st, "hand"}
                                 /\ ps[p].st = "done" => WakeProducers(ps)[p].st = "done"
<1>1. \A p \in Producers : /\ WakeProducers(ps)[p] \in ProdRec
                           /\ WakeProducers(ps)[p].tuples = ps[p].tuples
                           /\ WakeProducers(ps)[p].st \in {ps[p].st, "hand"}
                           /\ ps[p].st = "done" => WakeProducers(ps)[p].st = "done"
  BY DEF WakeProducers, ProdRec
<1>2. WakeProducers(ps) = [p \in Producers |-> WakeProducers(ps)[p]]
  BY DEF WakeProducers
<1> QED  BY <1>1, <1>2 DEF TuplesOf

LEMMA WokenWriters ==
  ASSUME NEW ws \in [Writers -> WritRec]
  PROVE  /\ WakeWriters(ws) \in [Writers -> WritRec]
         /\ ChunksIn(WakeWriters(ws)) = ChunksIn(ws)
         /\ \A w \in Writers : /\ WakeWriters(ws)[w].chunk = ws[w].chunk
                               /\ WakeWriters(ws)[w].st \in {ws[w].st, "take"}
                               /\ WakeWriters(ws)[w].st = "write" <=> ws[w].st = "write"
                               /\ WakeWriters(ws)[w].st = "done" <=> ws[w].st = "done"
<1>1. \A w \in Writers : /\ WakeWriters(ws)[w] \in WritRec
                         /\ WakeWriters(ws)[w].chunk = ws[w].chunk
                         /\ WakeWriters(ws)[w].st \in {ws[w].st, "take"}
                         /\ WakeWriters(ws)[w].st = "write" <=> ws[w].st = "write"
                         /\ WakeWriters(ws)[w].st = "done" <=> ws[w].st = "done"
  BY DEF WakeWriters, WritRec
<1>2. WakeWriters(ws) = [w \in Writers |-> WakeWriters(ws)[w]]
  BY DEF WakeWriters
<1> QED  BY <1>1, <1>2 DEF ChunksIn

LEMMA TypeIs ==
  VectorsTypeOK => /\ prod \in [Producers -> ProdRec] /\ writ \in [Writers -> WritRec]
                   /\ IsFamily(TuplesOf(prod))
                   /\ DOMAIN TuplesOf(prod) = Producers /\ \A p \in Producers : TuplesOf(prod)[p] = prod[p].tuples
                   /\ IsFamily(ChunksIn(writ))
                   /\ DOMAIN ChunksIn(writ) = Writers /\ \A w \in Writers : ChunksIn(writ)[w] = writ[w].chunk
BY DEF VectorsTypeOK, ProdRec, WritRec, TuplesOf, ChunksIn, IsFamily

\* Nobody holds anything when a run begins.
LEMMA NothingHeld ==
  /\ Apart(TuplesOf([p \in Producers |-> Idle]), <<>>, ChunksIn([w \in Writers |-> Free]))
  /\ \A x : ~InHands(TuplesOf([p \in Producers |-> Idle]), <<>>, ChunksIn([w \in Writers |-> Free]), x)
<1> DEFINE f == TuplesOf([p \in Producers |-> Idle])
           g == ChunksIn([w \in Writers |-> Free])
<1>1. (\A p \in DOMAIN f : f[p] = <<>>) /\ (\A w \in DOMAIN g : g[w] = <<>>) /\ DOMAIN <<>> = {}
  BY DEF TuplesOf, ChunksIn, Idle, Free
<1> HIDE DEF f, g
<1>2. \A x : ~Inside(f, x) /\ ~Inside(g, x) /\ ~Inside(<<>>, x)
  BY <1>1, NoneInEmpty DEF Inside
<1>3. Once(f) /\ Once(g) /\ Once(<<>>)
  BY <1>1, NoneInEmpty DEF Once
<1> QED  BY <1>2, <1>3 DEF Apart, InHands, f, g

------------------------------------------------------------------------------
(* A run of the phase begins. *)

AtStart ==
  /\ embeddings \in SUBSET Items /\ pending = Missing(embeddings) /\ nextBatch = 1 /\ queue = <<>>
  /\ prod = [p \in Producers |-> Idle] /\ writ = [w \in Writers |-> Free]
  /\ producersDone = FALSE /\ apiFailed = FALSE /\ phaseFailure = "none"
  /\ writerStopped = FALSE /\ chunksWritten = 0 /\ withheld = {}
  /\ result \in {"running", "threw"} /\ runs \in 0 .. MaxRuns /\ faults \in 0 .. MaxFaults

LEMMA PhaseBegins == AtStart => VectorsInv
<1> SUFFICES ASSUME AtStart  PROVE VectorsInv
  OBVIOUS
<1>1. pending \in Seq(Items) /\ Inj(pending) /\ \A x \in Items \ embeddings : Has(pending, x)
  BY MissingIs DEF AtStart
<1>2. <<>> \in Seq(Items) /\ <<>> \in Seq(Seq(Items))
  OBVIOUS
<1>3. Idle \in ProdRec /\ Free \in WritRec /\ Idle.st = "fetch" /\ Idle.tuples = <<>> /\ Free.st = "take" /\ Free.chunk = <<>>
  BY <1>2 DEF Idle, Free, ProdRec, WritRec
<1>4. prod \in [Producers -> ProdRec] /\ writ \in [Writers -> WritRec]
  BY <1>3 DEF AtStart
<1>5. VectorsTypeOK
  <2>1. pending \in Seq(Items) /\ nextBatch \in Nat \ {0} /\ queue \in Seq(Seq(Items)) /\ chunksWritten \in Nat
    BY <1>1, <1>2 DEF AtStart
  <2>2. {producersDone, apiFailed, writerStopped} \subseteq BOOLEAN
    BY DEF AtStart
  <2>3. /\ phaseFailure \in {"none", "api", "insert", "stopped"} /\ result \in {"running", "returned", "threw"}
        /\ embeddings \subseteq Items /\ withheld \subseteq Items /\ runs \in 0 .. MaxRuns /\ faults \in 0 .. MaxFaults
    BY DEF AtStart
  <2> QED  BY <1>4, <2>1, <2>2, <2>3 DEF VectorsTypeOK, ProdRec, WritRec
<1>6. HandsApart /\ HandsAsked
  BY NothingHeld DEF AtStart, HandsApart, HandsAsked
<1>7. Accounted
  <2>1. (nextBatch - 1) * BatchSize = 0
    <3>1. BatchSize \in Nat
      BY VectorsAssumption
    <3> QED  BY <3>1, TimesIs DEF AtStart
  <2>2. \A x : Has(pending, x) => Unasked(x)
    BY <2>1 DEF Has, Unasked, Sits
  <2> QED  BY <1>1, <2>2 DEF Accounted, AtStart
<1>8. ProdDone /\ WritDone
  BY <1>3 DEF AtStart, ProdDone, WritDone
<1>9. Failures /\ QueueBounded /\ ReturnedIsStored
  <2>1. QueueMax \in Nat
    BY VectorsAssumption
  <2>2. Len(queue) = 0
    BY DEF AtStart
  <2> QED  BY <2>1, <2>2 DEF AtStart, Failures, QueueBounded, ReturnedIsStored
<1> QED  BY <1>1, <1>5, <1>6, <1>7, <1>8, <1>9 DEF VectorsInv

LEMMA VectorsBegin == VectorsInit => VectorsInv
<1> SUFFICES ASSUME VectorsInit  PROVE VectorsInv
  OBVIOUS
<1>1. MaxRuns \in Nat /\ MaxFaults \in Nat
  BY VectorsAssumption
<1>2. runs \in 0 .. MaxRuns /\ faults \in 0 .. MaxFaults /\ embeddings \in SUBSET Items
  BY <1>1 DEF VectorsInit
<1> QED  BY <1>2, PhaseBegins DEF VectorsInit, PhaseStart, AtStart

LEMMA ResumeKeeps == ASSUME VectorsInv, Resume  PROVE VectorsInv'
<1>1. embeddings' \in SUBSET Items /\ runs' \in 0 .. MaxRuns /\ faults' \in 0 .. MaxFaults
  <2>1. MaxRuns \in Nat /\ MaxFaults \in Nat
    BY VectorsAssumption
  <2> QED  BY <2>1 DEF VectorsInv, VectorsTypeOK, Resume
<1>2. AtStart'
  BY <1>1 DEF Resume, AtStart
<1> QED  BY <1>2, PhaseBegins, PTL

------------------------------------------------------------------------------
(* A producer takes a batch. *)

\* The next batch: what it holds nobody was asked for yet, and then it was.
LEMMA NextBatchIs ==
  ASSUME VectorsTypeOK, Inj(pending), nextBatch' = nextBatch + 1, pending' = pending
  PROVE  /\ BatchAt(nextBatch) \in Seq(Items) /\ Inj(BatchAt(nextBatch))
         /\ \A x : Has(BatchAt(nextBatch), x) => ~Asked(x) /\ Asked(x)'
         /\ \A x : Asked(x) => Asked(x)'
         /\ \A x : Unasked(x) => Unasked(x)' \/ Has(BatchAt(nextBatch), x)
         /\ NoneLeft => NoneLeft'
<1> DEFINE a == (nextBatch - 1) * BatchSize
           b == (nextBatch' - 1) * BatchSize
           m == Len(pending)
<1>1. nextBatch \in Nat /\ nextBatch # 0 /\ BatchSize \in Nat /\ pending \in Seq(Items) /\ m \in Nat
  BY VectorsAssumption DEF VectorsTypeOK
<1>2. a \in Nat /\ b = a + BatchSize
  <2>1. nextBatch * BatchSize = a + BatchSize /\ a \in Nat
    BY <1>1, TimesIs
  <2>2. nextBatch' - 1 = nextBatch
    BY <1>1
  <2> QED  BY <2>1, <2>2
<1>3. BatchAt(nextBatch) = Slice(pending, a, BatchSize)
  BY DEF BatchAt
<1>4. /\ \A x : Asked(x) <=> Sits(pending, x, 0, a)
      /\ \A x : Asked(x)' <=> Sits(pending, x, 0, b)
      /\ \A x : Unasked(x) <=> Sits(pending, x, a, m)
      /\ \A x : Unasked(x)' <=> Sits(pending, x, b, m)
      /\ NoneLeft <=> a >= m
      /\ NoneLeft' <=> b >= m
  BY DEF Asked, Unasked, NoneLeft
<1> HIDE DEF a, b, m
<1>5. /\ Slice(pending, a, BatchSize) \in Seq(Items) /\ Inj(Slice(pending, a, BatchSize))
      /\ \A x : Has(Slice(pending, a, BatchSize), x) <=> Sits(pending, x, a, b)
  <2>1. \A x : Has(Slice(pending, a, BatchSize), x) <=> Sits(pending, x, a, a + BatchSize)
    BY <1>1, <1>2, SliceHas
  <2>2. Slice(pending, a, BatchSize) \in Seq(Items)
    BY <1>1, <1>2, SliceHas
  <2>3. Inj(pending) => Inj(Slice(pending, a, BatchSize))
    BY <1>1, <1>2, SliceHas
  <2> QED  BY <1>2, <2>1, <2>2, <2>3
<1>6. ASSUME NEW x, Sits(pending, x, a, b)  PROVE ~Sits(pending, x, 0, a) /\ Sits(pending, x, 0, b)
  <2>1. PICK i \in 1 .. Len(pending) : a < i /\ i <= b /\ pending[i] = x
    BY <1>6 DEF Sits
  <2>2. Sits(pending, x, 0, b)
    BY <2>1, <1>1, <1>2 DEF Sits
  <2>3. ASSUME NEW j \in 1 .. Len(pending), j <= a, pending[j] = x  PROVE FALSE
    <3>1. i = j
      BY <2>1, <2>3 DEF Inj
    <3> QED  BY <1>2, <2>1, <2>3, <3>1
  <2> QED  BY <2>2, <2>3 DEF Sits
<1>7. ASSUME NEW x, Sits(pending, x, 0, a)  PROVE Sits(pending, x, 0, b)
  BY <1>1, <1>2, <1>7 DEF Sits
<1>8. ASSUME NEW x, Sits(pending, x, a, m)  PROVE Sits(pending, x, b, m) \/ Sits(pending, x, a, b)
  BY <1>1, <1>2, <1>8 DEF Sits
<1>9. a >= m => b >= m
  BY <1>1, <1>2
<1>10. BatchAt(nextBatch) \in Seq(Items) /\ Inj(BatchAt(nextBatch))
  BY <1>3, <1>5
<1>11. \A x : Has(BatchAt(nextBatch), x) => ~Asked(x) /\ Asked(x)'
  BY <1>3, <1>4, <1>5, <1>6
<1>12. \A x : Asked(x) => Asked(x)'
  BY <1>4, <1>7
<1>13. \A x : Unasked(x) => Unasked(x)' \/ Has(BatchAt(nextBatch), x)
  BY <1>3, <1>4, <1>5, <1>8
<1> QED  BY <1>4, <1>9, <1>10, <1>11, <1>12, <1>13

LEMMA FetchKeeps == ASSUME VectorsInv, NEW p \in Producers, Fetch(p)  PROVE VectorsInv'
<1> DEFINE f == TuplesOf(prod)
           g == ChunksIn(writ)
<1>1. /\ VectorsTypeOK /\ Inj(pending) /\ Apart(f, queue, g) /\ HandsAsked /\ Accounted
      /\ ProdDone /\ WritDone /\ Failures /\ QueueBounded
  BY DEF VectorsInv, HandsApart
<1>2. /\ result = "running" /\ prod[p].st = "fetch"
      /\ pending' = pending /\ queue' = queue /\ writ' = writ /\ producersDone' = producersDone
      /\ apiFailed' = apiFailed /\ phaseFailure' = phaseFailure /\ writerStopped' = writerStopped
      /\ chunksWritten' = chunksWritten /\ embeddings' = embeddings /\ withheld' = withheld
      /\ result' = result /\ runs' = runs /\ faults' = faults
  BY DEF Fetch
<1>3. /\ prod \in [Producers -> ProdRec] /\ prod[p].tuples = <<>>
      /\ IsFamily(f) /\ DOMAIN f = Producers /\ p \in DOMAIN f /\ f[p] = <<>>
  BY <1>1, <1>2, TypeIs DEF ProdDone
<1>4. /\ Inj(pending') /\ QueueBounded' /\ ReturnedIsStored' /\ Failures' /\ WritDone'
  BY <1>1, <1>2 DEF QueueBounded, ReturnedIsStored, Failures, WritDone
<1>5. ~producersDone
  BY <1>1, <1>2 DEF ProdDone
<1>6. CASE apiFailed \/ NoneLeft
  <2> DEFINE r == [st |-> "done", tuples |-> <<>>]
  <2>1. prod' = Put(prod, p, r) /\ nextBatch' = nextBatch
    <3>1. prod' = [prod EXCEPT ![p].st = "done"] /\ nextBatch' = nextBatch
      BY <1>6 DEF Fetch
    <3>2. [prod[p] EXCEPT !.st = "done"] = r
      BY <1>3 DEF ProdRec
    <3> QED  BY <3>1, <3>2 DEF Put
  <2>2. r \in ProdRec /\ r.tuples = <<>> /\ r.st = "done"
    BY DEF ProdRec
  <2> HIDE DEF r
  <2>3. /\ prod' \in [Producers -> ProdRec] /\ TuplesOf(prod') = Put(f, p, <<>>)
        /\ prod'[p] = r /\ \A q \in Producers : q # p => prod'[q] = prod[q]
    BY <1>3, <2>1, <2>2, ProducerSet
  <2>4. TuplesOf(prod') = f
    <3> HIDE DEF f
    <3> QED  BY <1>3, <2>3 DEF Put, IsFamily
  <2>5. VectorsTypeOK'
    BY <1>1, <1>2, <2>1, <2>3 DEF VectorsTypeOK, ProdRec
  <2>6. HandsApart' /\ HandsAsked' /\ Accounted'
    BY <1>1, <1>2, <2>1, <2>4 DEF HandsApart, HandsAsked, Accounted, Asked, Unasked
  <2>7. ProdDone'
    <3>1. NoneLeft' <=> NoneLeft
      BY <1>2, <2>1 DEF NoneLeft
    <3> QED  BY <1>1, <1>2, <1>5, <1>6, <2>2, <2>3, <3>1 DEF ProdDone
  <2> QED  BY <1>4, <2>5, <2>6, <2>7 DEF VectorsInv
<1>7. CASE ~(apiFailed \/ NoneLeft)
  <2>1. nextBatch' = nextBatch + 1
    BY <1>7 DEF Fetch
  <2> DEFINE t == BatchAt(nextBatch)
  <2>2. /\ t \in Seq(Items) /\ Inj(t)
        /\ \A x : Has(t, x) => ~Asked(x) /\ Asked(x)'
        /\ \A x : Asked(x) => Asked(x)'
        /\ \A x : Unasked(x) => Unasked(x)' \/ Has(t, x)
        /\ NoneLeft => NoneLeft'
    BY <1>1, <1>2, <2>1, NextBatchIs
  <2>3. CASE writerStopped
    <3>1. prod' = prod
      BY <1>7, <2>3 DEF Fetch
    <3>2. VectorsTypeOK'
      BY <1>1, <1>2, <2>1, <3>1 DEF VectorsTypeOK
    <3>3. HandsApart' /\ HandsAsked'
      BY <1>1, <1>2, <2>2, <3>1 DEF HandsApart, HandsAsked
    <3>4. Accounted'
      BY <1>2, <2>3 DEF Accounted
    <3>5. ProdDone'
      BY <1>1, <1>2, <2>2, <3>1 DEF ProdDone
    <3> QED  BY <1>4, <3>2, <3>3, <3>4, <3>5 DEF VectorsInv
  <2>4. CASE ~writerStopped
    <3> DEFINE r == [st |-> "asking", tuples |-> t]
    <3>1. prod' = Put(prod, p, r)
      BY <1>7, <2>4 DEF Fetch, Put
    <3>2. r \in ProdRec /\ r.tuples = t /\ r.st = "asking"
      BY <2>2 DEF ProdRec
    <3> HIDE DEF r, t
    <3>3. /\ prod' \in [Producers -> ProdRec] /\ TuplesOf(prod') = Put(f, p, t)
          /\ prod'[p] = r /\ \A q \in Producers : q # p => prod'[q] = prod[q]
      BY <1>3, <3>1, <3>2, ProducerSet
    <3>4. VectorsTypeOK'
      BY <1>1, <1>2, <2>1, <3>3 DEF VectorsTypeOK, ProdRec
    <3> DEFINE h == TuplesOf(prod')
    <3>5. h = Put(f, p, t)
      BY <3>3
    <3> HIDE DEF f, g, h
    <3>6. /\ \A x : Inside(f, x) <=> Has(f[p], x) \/ Beside(f, p, x)
          /\ \A x : Inside(h, x) <=> Has(t, x) \/ Beside(f, p, x)
          /\ Once(f) /\ Inj(t) /\ (\A x : Has(t, x) => ~Beside(f, p, x)) => Once(h)
      BY <1>3, <3>5, OneHand
    <3>7. \A x : InHands(f, queue, g, x) => Asked(x)
      BY <1>1 DEF HandsAsked, f, g
    <3>8. \A x : Has(t, x) => ~InHands(f, queue, g, x)
      BY <2>2, <3>7
    <3>9. Apart(h, queue, g)
      <4>1. \A x : Inside(h, x) => Has(t, x) \/ Inside(f, x)
        BY <3>6
      <4>2. Once(h)
        BY <1>1, <2>2, <3>6, <3>8 DEF Apart, InHands
      <4> QED  BY <1>1, <3>8, <4>1, <4>2 DEF Apart, InHands
    <3>10. HandsApart'
      BY <1>2, <3>9 DEF HandsApart, h, g
    <3>11. \A x : InHands(h, queue, g, x) <=> Has(t, x) \/ InHands(f, queue, g, x)
      BY <1>3, <3>6, NoneInEmpty DEF InHands
    <3>12. HandsAsked'
      <4>1. \A x : InHands(h, queue, g, x) => Asked(x)'
        BY <2>2, <3>7, <3>11
      <4> QED  BY <1>2, <4>1 DEF HandsAsked, h, g
    <3>13. Accounted'
      <4>1. ASSUME result = "running" /\ ~apiFailed /\ ~writerStopped, NEW x \in Items
            PROVE  x \in embeddings \/ x \in withheld \/ Unasked(x)' \/ InHands(h, queue, g, x)
        BY <1>1, <2>2, <3>11, <4>1 DEF Accounted, f, g
      <4> QED  BY <1>2, <4>1 DEF Accounted, h, g
    <3>14. ProdDone'
      BY <1>1, <1>2, <2>2, <3>2, <3>3 DEF ProdDone
    <3> QED  BY <1>4, <3>4, <3>10, <3>12, <3>13, <3>14 DEF VectorsInv
  <2> QED  BY <2>3, <2>4
<1> QED  BY <1>6, <1>7

------------------------------------------------------------------------------
(* A producer holds less: an answer left some out, or the call failed. *)

LEMMA HoldsLess ==
  ASSUME NEW f, NEW q, NEW g, Apart(f, q, g), IsFamily(f), NEW a \in DOMAIN f, NEW t, Inj(t),
         \A x : Has(t, x) => Has(f[a], x), NEW h, h = Put(f, a, t)
  PROVE  /\ Apart(h, q, g) /\ \A x : InHands(h, q, g, x) => InHands(f, q, g, x)
         /\ \A x : InHands(f, q, g, x) => Has(f[a], x) \/ InHands(h, q, g, x)
         /\ \A x : Has(t, x) => InHands(h, q, g, x)
<1>1. /\ \A x : Inside(f, x) <=> Has(f[a], x) \/ Beside(f, a, x)
      /\ \A x : Inside(h, x) <=> Has(t, x) \/ Beside(f, a, x)
      /\ Once(f) => \A x : Has(f[a], x) => ~Beside(f, a, x)
      /\ Once(f) /\ Inj(t) /\ (\A x : Has(t, x) => ~Beside(f, a, x)) => Once(h)
  BY OneHand
<1>2. Once(h)
  BY <1>1 DEF Apart
<1>3. \A x : Inside(h, x) => Inside(f, x)
  BY <1>1
<1> QED  BY <1>1, <1>2, <1>3 DEF Apart, InHands

LEMMA EmbeddedKeeps == ASSUME VectorsInv, NEW p \in Producers, Embedded(p)  PROVE VectorsInv'
<1> DEFINE f == TuplesOf(prod)
           g == ChunksIn(writ)
           s == prod[p].tuples
<1>1. /\ VectorsTypeOK /\ Inj(pending) /\ Apart(f, queue, g) /\ HandsAsked /\ Accounted
      /\ ProdDone /\ WritDone /\ Failures /\ QueueBounded
  BY DEF VectorsInv, HandsApart
<1>2. /\ result = "running" /\ prod[p].st = "asking" /\ nextBatch' = nextBatch
      /\ pending' = pending /\ queue' = queue /\ writ' = writ /\ producersDone' = producersDone
      /\ apiFailed' = apiFailed /\ phaseFailure' = phaseFailure /\ writerStopped' = writerStopped
      /\ chunksWritten' = chunksWritten /\ embeddings' = embeddings
      /\ result' = result /\ runs' = runs /\ faults' = faults
  BY DEF Embedded
<1>3. PICK got : /\ prod' = [prod EXCEPT ![p] = [st |-> "hand", tuples |-> Among(s, got)]]
                 /\ withheld' = withheld \cup (Set(s) \ got)
  BY DEF Embedded
<1> DEFINE t == Among(s, got)
           r == [st |-> "hand", tuples |-> t]
<1>4. /\ prod \in [Producers -> ProdRec] /\ s \in Seq(Items)
      /\ IsFamily(f) /\ DOMAIN f = Producers /\ p \in DOMAIN f /\ f[p] = s
  BY <1>1, <1>2, TypeIs DEF ProdRec
<1> HIDE DEF s
<1>5. t \in Seq(Items) /\ \A x : Has(t, x) <=> Has(s, x) /\ x \in got
  BY <1>4, AmongIs
<1>6. Inj(t)
  <2>1. Inj(s)
    BY <1>1, <1>4 DEF Apart, Once
  <2> QED  BY <1>4, <2>1, AmongIs
<1>7. \A x : x \in Set(s) <=> Has(s, x)
  <2>1. DOMAIN s = 1 .. Len(s)
    BY <1>4
  <2> QED  BY <2>1 DEF Set, Has
<1> HIDE DEF t
<1>8. r \in ProdRec /\ r.tuples = t /\ r.st = "hand" /\ prod' = Put(prod, p, r)
  BY <1>3, <1>5 DEF ProdRec, Put, t
<1> HIDE DEF r
<1>9. /\ prod' \in [Producers -> ProdRec] /\ TuplesOf(prod') = Put(f, p, t)
      /\ prod'[p] = r /\ \A q \in Producers : q # p => prod'[q] = prod[q]
  BY <1>4, <1>8, ProducerSet
<1>10. withheld' \subseteq Items
  <2>1. Set(s) \subseteq Items
    BY <1>4 DEF Set
  <2> QED  BY <1>1, <1>3, <2>1 DEF VectorsTypeOK
<1>11. VectorsTypeOK'
  BY <1>1, <1>2, <1>9, <1>10 DEF VectorsTypeOK, ProdRec
<1> DEFINE h == TuplesOf(prod')
<1>12. h = Put(f, p, t)
  BY <1>9
<1> HIDE DEF f, g, h
<1>13. /\ Apart(h, queue, g) /\ \A x : InHands(h, queue, g, x) => InHands(f, queue, g, x)
       /\ \A x : InHands(f, queue, g, x) => Has(s, x) \/ InHands(h, queue, g, x)
       /\ \A x : Has(t, x) => InHands(h, queue, g, x)
  <2>1. \A x : Has(t, x) => Has(f[p], x)
    BY <1>4, <1>5
  <2> QED  BY <1>1, <1>4, <1>6, <1>12, <2>1, HoldsLess
<1>14. HandsApart'
  BY <1>2, <1>13 DEF HandsApart, h, g
<1>15. HandsAsked'
  <2>1. \A x : InHands(h, queue, g, x) => Asked(x)
    BY <1>1, <1>13 DEF HandsAsked, f, g
  <2>2. \A x : Asked(x)' <=> Asked(x)
    BY <1>2 DEF Asked
  <2> QED  BY <1>2, <2>1, <2>2 DEF HandsAsked, h, g
<1>16. Accounted'
  <2>1. ASSUME result = "running" /\ ~apiFailed /\ ~writerStopped, NEW x \in Items
        PROVE  x \in embeddings \/ x \in withheld' \/ Unasked(x) \/ InHands(h, queue, g, x)
    <3>1. x \in embeddings \/ x \in withheld \/ Unasked(x) \/ InHands(f, queue, g, x)
      BY <1>1, <2>1 DEF Accounted, f, g
    <3>2. CASE InHands(f, queue, g, x)
      <4>1. CASE Has(s, x) /\ x \notin got
        BY <1>3, <1>7, <4>1
      <4>2. CASE ~(Has(s, x) /\ x \notin got)
        BY <1>5, <1>13, <3>2, <4>2
      <4> QED  BY <4>1, <4>2
    <3>3. CASE ~InHands(f, queue, g, x)
      BY <1>3, <3>1, <3>3
    <3> QED  BY <3>2, <3>3
  <2>2. \A x : Unasked(x)' <=> Unasked(x)
    BY <1>2 DEF Unasked
  <2> QED  BY <1>2, <2>1, <2>2 DEF Accounted, h, g
<1>17. ProdDone'
  <2>1. NoneLeft' <=> NoneLeft
    BY <1>2 DEF NoneLeft
  <2>2. ~producersDone
    BY <1>1, <1>2 DEF ProdDone
  <2> QED  BY <1>1, <1>2, <1>8, <1>9, <2>1, <2>2 DEF ProdDone
<1>18. /\ Inj(pending') /\ QueueBounded' /\ ReturnedIsStored' /\ Failures' /\ WritDone'
  BY <1>1, <1>2 DEF QueueBounded, ReturnedIsStored, Failures, WritDone
<1> QED  BY <1>11, <1>14, <1>15, <1>16, <1>17, <1>18 DEF VectorsInv

LEMMA EmbedFailsKeeps == ASSUME VectorsInv, NEW p \in Producers, EmbedFails(p)  PROVE VectorsInv'
<1> DEFINE f == TuplesOf(prod)
           g == ChunksIn(writ)
           r == [st |-> "done", tuples |-> <<>>]
<1>1. /\ VectorsTypeOK /\ Inj(pending) /\ Apart(f, queue, g) /\ HandsAsked
      /\ ProdDone /\ WritDone /\ Failures /\ QueueBounded
  BY DEF VectorsInv, HandsApart
<1>2. /\ result = "running" /\ prod[p].st = "asking" /\ faults < MaxFaults /\ nextBatch' = nextBatch
      /\ pending' = pending /\ queue' = queue /\ writ' = writ /\ producersDone' = producersDone
      /\ apiFailed' = TRUE /\ phaseFailure' = phaseFailure /\ writerStopped' = writerStopped
      /\ chunksWritten' = chunksWritten /\ embeddings' = embeddings /\ withheld' = withheld
      /\ result' = result /\ runs' = runs /\ faults' = faults + 1
  BY DEF EmbedFails
<1>4. /\ prod \in [Producers -> ProdRec]
      /\ IsFamily(f) /\ DOMAIN f = Producers /\ p \in DOMAIN f
  BY <1>1, TypeIs
<1>8. r \in ProdRec /\ r.tuples = <<>> /\ r.st = "done" /\ prod' = Put(prod, p, r)
  BY DEF EmbedFails, ProdRec, Put
<1> HIDE DEF r
<1>9. /\ prod' \in [Producers -> ProdRec] /\ TuplesOf(prod') = Put(f, p, <<>>)
      /\ prod'[p] = r /\ \A q \in Producers : q # p => prod'[q] = prod[q]
  BY <1>4, <1>8, ProducerSet
<1>10. faults' \in 0 .. MaxFaults
  BY <1>1, <1>2, VectorsAssumption, SMTT(30) DEF VectorsTypeOK
<1>11. VectorsTypeOK'
  BY <1>1, <1>2, <1>9, <1>10 DEF VectorsTypeOK, ProdRec
<1> DEFINE h == TuplesOf(prod')
<1>12. h = Put(f, p, <<>>)
  BY <1>9
<1> HIDE DEF f, g, h
<1>13. /\ Apart(h, queue, g) /\ \A x : InHands(h, queue, g, x) => InHands(f, queue, g, x)
  BY <1>1, <1>4, <1>12, NoneInEmpty, HoldsLess
<1>14. HandsApart'
  BY <1>2, <1>13 DEF HandsApart, h, g
<1>15. HandsAsked'
  <2>1. \A x : InHands(h, queue, g, x) => Asked(x)
    BY <1>1, <1>13 DEF HandsAsked, f, g
  <2>2. \A x : Asked(x)' <=> Asked(x)
    BY <1>2 DEF Asked
  <2> QED  BY <1>2, <2>1, <2>2 DEF HandsAsked, h, g
<1>17. ProdDone'
  <2>2. ~producersDone
    BY <1>1, <1>2 DEF ProdDone
  <2> QED  BY <1>1, <1>2, <1>8, <1>9, <2>2 DEF ProdDone
<1>18. /\ Inj(pending') /\ QueueBounded' /\ ReturnedIsStored' /\ Failures' /\ WritDone' /\ Accounted'
  <2>1. ~producersDone
    BY <1>1, <1>2 DEF ProdDone
  <2> QED  BY <1>1, <1>2, <2>1 DEF QueueBounded, ReturnedIsStored, Failures, WritDone, Accounted
<1> QED  BY <1>11, <1>14, <1>15, <1>17, <1>18 DEF VectorsInv

------------------------------------------------------------------------------
(* A producer hands chunks over. *)

\* t leaves the hand a for the queue, and left stays.
LEMMA HandsOver ==
  ASSUME NEW S, NEW f, NEW q \in Seq(Seq(S)), NEW g, Apart(f, q, g), IsFamily(f), NEW a \in DOMAIN f,
         NEW left, NEW t \in Seq(Seq(S)), Inj(left), Once(t),
         \A x : Has(left, x) => Has(f[a], x) /\ ~Inside(t, x),
         \A x : Inside(t, x) => Has(f[a], x),
         NEW h, h = Put(f, a, left)
  PROVE  /\ Apart(h, q \o t, g) /\ \A x : InHands(h, q \o t, g, x) => InHands(f, q, g, x)
         /\ \A x : InHands(f, q, g, x) => Has(f[a], x) \/ InHands(h, q \o t, g, x)
         /\ \A x : Has(left, x) \/ Inside(t, x) => InHands(h, q \o t, g, x)
<1>1. /\ \A x : Inside(f, x) <=> Has(f[a], x) \/ Beside(f, a, x)
      /\ \A x : Inside(h, x) <=> Has(left, x) \/ Beside(f, a, x)
      /\ Once(f) => \A x : Has(f[a], x) => ~Beside(f, a, x)
      /\ Once(f) /\ Inj(left) /\ (\A x : Has(left, x) => ~Beside(f, a, x)) => Once(h)
  BY OneHand
<1>2. \A x : Inside(q \o t, x) <=> Inside(q, x) \/ Inside(t, x)
  BY MoreHands
<1>3. \A x : ~(Inside(q, x) /\ Inside(t, x))
  BY <1>1 DEF Apart
<1>4. Once(q \o t)
  BY <1>3, MoreHands DEF Apart
<1> DEFINE r == q \o t
<1> HIDE DEF r
<1>5. \A x : Inside(r, x) <=> Inside(q, x) \/ Inside(t, x)
  BY <1>2 DEF r
<1>6. Once(h)
  BY <1>1 DEF Apart
<1>7. ASSUME NEW x  PROVE /\ ~(Inside(h, x) /\ Inside(r, x)) /\ ~(Inside(h, x) /\ Inside(g, x))
                          /\ ~(Inside(r, x) /\ Inside(g, x))
  BY <1>1, <1>5 DEF Apart
<1>8. Apart(h, r, g)
  BY <1>4, <1>6, <1>7 DEF Apart, r
<1> QED  BY <1>1, <1>5, <1>8 DEF InHands, r

\* What a producer hands over, and what it keeps.
LEMMA HandedIs ==
  ASSUME VectorsTypeOK, QueueBounded, NEW s \in Seq(Items), Inj(s), NEW k, NEW left,
         k = IF writerStopped THEN 0 ELSE IF ChunksOf(s) < Room THEN ChunksOf(s) ELSE Room,
         left = IF writerStopped THEN <<>> ELSE Slice(s, k * ChunkSize, Len(s))
  PROVE  /\ CutInto(s, k) \in Seq(Seq(Items)) /\ Once(CutInto(s, k))
         /\ left \in Seq(Items) /\ Inj(left)
         /\ \A x : Has(left, x) => Has(s, x) /\ ~Inside(CutInto(s, k), x)
         /\ \A x : Inside(CutInto(s, k), x) => Has(s, x)
         /\ ~writerStopped => \A x : Has(s, x) => Has(left, x) \/ Inside(CutInto(s, k), x)
         /\ Len(queue) + Len(CutInto(s, k)) <= QueueMax
<1>1. QueueMax \in Nat /\ ChunkSize \in Nat \ {0} /\ Len(queue) \in Nat /\ Len(queue) <= QueueMax /\ Len(s) \in Nat
  BY VectorsAssumption DEF VectorsTypeOK, QueueBounded
<1>2. ChunksOf(s) \in Nat
  BY <1>1, QuotientIsNat DEF ChunksOf
<1>3. Room \in Nat /\ Room + Len(queue) <= QueueMax
  BY <1>1 DEF Room
<1>4. k \in Nat /\ k + Len(queue) <= QueueMax
  BY <1>1, <1>2, <1>3
<1> DEFINE t == CutInto(s, k)
           rest == Slice(s, k * ChunkSize, Len(s))
<1>5. /\ t \in Seq(Seq(Items)) /\ Len(t) = k /\ Once(t) /\ rest \in Seq(Items) /\ Inj(rest)
      /\ \A x : Has(s, x) <=> Has(rest, x) \/ Inside(t, x)
      /\ \A x : ~(Has(rest, x) /\ Inside(t, x))
  BY <1>4, CutOnce
<1>6. left = IF writerStopped THEN <<>> ELSE rest
  OBVIOUS
<1> HIDE DEF t, rest
<1>7. left \in Seq(Items) /\ Inj(left) /\ (\A x : Has(left, x) => Has(rest, x)) /\ (~writerStopped => left = rest)
  BY <1>5, <1>6, NoneInEmpty
<1>8. Len(queue) + Len(t) <= QueueMax
  BY <1>1, <1>4, <1>5
<1> QED  BY <1>5, <1>7, <1>8 DEF t

LEMMA HandKeeps == ASSUME VectorsInv, NEW p \in Producers, Hand(p)  PROVE VectorsInv'
<1> DEFINE f == TuplesOf(prod)
           g == ChunksIn(writ)
           s == prod[p].tuples
           k == IF writerStopped THEN 0 ELSE IF ChunksOf(s) < Room THEN ChunksOf(s) ELSE Room
           left == IF writerStopped THEN <<>> ELSE Slice(s, k * ChunkSize, Len(s))
           t == CutInto(s, k)
           r == [st |-> IF left = <<>> THEN "fetch" ELSE "parked", tuples |-> left]
<1>1. /\ VectorsTypeOK /\ Inj(pending) /\ Apart(f, queue, g) /\ HandsAsked /\ Accounted
      /\ ProdDone /\ WritDone /\ Failures /\ QueueBounded
  BY DEF VectorsInv, HandsApart
<1>2. /\ result = "running" /\ prod[p].st = "hand" /\ nextBatch' = nextBatch
      /\ pending' = pending /\ producersDone' = producersDone
      /\ apiFailed' = apiFailed /\ phaseFailure' = phaseFailure /\ writerStopped' = writerStopped
      /\ chunksWritten' = chunksWritten /\ embeddings' = embeddings /\ withheld' = withheld
      /\ result' = result /\ runs' = runs /\ faults' = faults
      /\ queue' = queue \o t /\ prod' = [prod EXCEPT ![p] = r] /\ writ' \in {writ, WakeWriters(writ)}
  BY DEF Hand
<1>3. /\ prod \in [Producers -> ProdRec] /\ s \in Seq(Items) /\ writ \in [Writers -> WritRec]
      /\ IsFamily(f) /\ DOMAIN f = Producers /\ p \in DOMAIN f /\ f[p] = s /\ queue \in Seq(Seq(Items))
  BY <1>1, <1>2, TypeIs DEF ProdRec, VectorsTypeOK
<1> HIDE DEF s
<1>4. Inj(s)
  BY <1>1, <1>3 DEF Apart, Once
<1>5. /\ t \in Seq(Seq(Items)) /\ Once(t) /\ left \in Seq(Items) /\ Inj(left)
      /\ \A x : Has(left, x) => Has(s, x) /\ ~Inside(t, x)
      /\ \A x : Inside(t, x) => Has(s, x)
      /\ ~writerStopped => \A x : Has(s, x) => Has(left, x) \/ Inside(t, x)
      /\ Len(queue) + Len(t) <= QueueMax
  BY <1>1, <1>3, <1>4, HandedIs
<1> HIDE DEF t, left, k
<1>6. /\ r \in ProdRec /\ r.tuples = left /\ r.st \in {"fetch", "parked"} /\ (r.st = "fetch" => left = <<>>)
      /\ prod' = Put(prod, p, r)
  BY <1>2, <1>5 DEF ProdRec, Put
<1> HIDE DEF r
<1>7. /\ prod' \in [Producers -> ProdRec] /\ TuplesOf(prod') = Put(f, p, left)
      /\ prod'[p] = r /\ \A q \in Producers : q # p => prod'[q] = prod[q]
  BY <1>3, <1>6, ProducerSet
<1>8. /\ writ' \in [Writers -> WritRec] /\ ChunksIn(writ') = g
      /\ \A w \in Writers : /\ writ'[w].chunk = writ[w].chunk
                            /\ writ'[w].st = "write" <=> writ[w].st = "write"
                            /\ writ'[w].st = "done" <=> writ[w].st = "done"
  BY <1>2, <1>3, WokenWriters
<1>9. queue' \in Seq(Seq(Items)) /\ Len(queue') <= QueueMax
  BY <1>2, <1>3, <1>5, ConcatIs
<1>11. VectorsTypeOK'
  BY <1>1, <1>2, <1>7, <1>8, <1>9 DEF VectorsTypeOK, ProdRec, WritRec
<1> DEFINE h == TuplesOf(prod')
<1>12. h = Put(f, p, left)
  BY <1>7
<1> HIDE DEF f, g, h
<1>13. /\ Apart(h, queue', g) /\ \A x : InHands(h, queue', g, x) => InHands(f, queue, g, x)
       /\ \A x : InHands(f, queue, g, x) => Has(s, x) \/ InHands(h, queue', g, x)
       /\ \A x : Has(left, x) \/ Inside(t, x) => InHands(h, queue', g, x)
  <2>1. \A x : Has(left, x) => Has(f[p], x) /\ ~Inside(t, x)
    BY <1>3, <1>5
  <2>2. \A x : Inside(t, x) => Has(f[p], x)
    BY <1>3, <1>5
  <2>3. /\ Apart(h, queue \o t, g) /\ \A x : InHands(h, queue \o t, g, x) => InHands(f, queue, g, x)
        /\ \A x : InHands(f, queue, g, x) => Has(f[p], x) \/ InHands(h, queue \o t, g, x)
        /\ \A x : Has(left, x) \/ Inside(t, x) => InHands(h, queue \o t, g, x)
    <3>1. /\ Apart(f, queue, g) /\ IsFamily(f) /\ p \in DOMAIN f /\ queue \in Seq(Seq(Items))
          /\ t \in Seq(Seq(Items)) /\ Inj(left) /\ Once(t)
      BY <1>1, <1>3, <1>5
    <3>2. Apart(h, queue \o t, g)
      BY <1>12, <2>1, <2>2, <3>1, HandsOver
    <3>3. \A x : InHands(h, queue \o t, g, x) => InHands(f, queue, g, x)
      BY <1>12, <2>1, <2>2, <3>1, HandsOver
    <3>4. \A x : InHands(f, queue, g, x) => Has(f[p], x) \/ InHands(h, queue \o t, g, x)
      BY <1>12, <2>1, <2>2, <3>1, HandsOver
    <3>5. \A x : Has(left, x) \/ Inside(t, x) => InHands(h, queue \o t, g, x)
      BY <1>12, <2>1, <2>2, <3>1, HandsOver
    <3> QED  BY <3>2, <3>3, <3>4, <3>5
  <2>4. queue' = queue \o t
    BY <1>2
  <2> DEFINE z == queue \o t
  <2>5. queue' = z
    BY <2>4
  <2> HIDE DEF z
  <2> QED  BY <1>3, <2>3, <2>5 DEF z
<1>14. HandsApart'
  BY <1>8, <1>13 DEF HandsApart, h, g
<1>15. HandsAsked'
  <2>1. \A x : InHands(h, queue', g, x) => Asked(x)
    BY <1>1, <1>13 DEF HandsAsked, f, g
  <2>2. \A x : Asked(x)' <=> Asked(x)
    BY <1>2 DEF Asked
  <2> QED  BY <1>8, <2>1, <2>2 DEF HandsAsked, h, g
<1>16. Accounted'
  <2>1. ASSUME result = "running" /\ ~apiFailed /\ ~writerStopped, NEW x \in Items
        PROVE  x \in embeddings \/ x \in withheld \/ Unasked(x) \/ InHands(h, queue', g, x)
    <3>1. x \in embeddings \/ x \in withheld \/ Unasked(x) \/ InHands(f, queue, g, x)
      BY <1>1, <2>1 DEF Accounted, f, g
    <3> QED  BY <1>5, <1>13, <2>1, <3>1
  <2>2. \A x : Unasked(x)' <=> Unasked(x)
    BY <1>2 DEF Unasked
  <2> QED  BY <1>2, <1>8, <2>1, <2>2 DEF Accounted, h, g
<1>17. ~producersDone
  BY <1>1, <1>2 DEF ProdDone
<1>18. ProdDone'
  <2>1. NoneLeft' <=> NoneLeft
    BY <1>2 DEF NoneLeft
  <2> QED  BY <1>1, <1>2, <1>6, <1>7, <1>17, <2>1 DEF ProdDone
<1>19. WritDone'
  BY <1>1, <1>2, <1>8, <1>17 DEF WritDone
<1>20. /\ Inj(pending') /\ QueueBounded' /\ ReturnedIsStored' /\ Failures'
  BY <1>1, <1>2, <1>9 DEF QueueBounded, ReturnedIsStored, Failures
<1> QED  BY <1>11, <1>14, <1>15, <1>16, <1>18, <1>19, <1>20 DEF VectorsInv

------------------------------------------------------------------------------
(* The writers. *)

LEMMA HandsMirrored ==
  ASSUME NEW f, NEW q, NEW g
  PROVE  (Apart(f, q, g) <=> Apart(g, q, f)) /\ \A x : InHands(f, q, g, x) <=> InHands(g, q, f, x)
BY DEF Apart, InHands

\* A writer takes the first chunk of the queue.
LEMMA TakesFirst ==
  ASSUME NEW S, NEW f, NEW q \in Seq(Seq(S)), q # <<>>, NEW g, Apart(f, q, g), IsFamily(g), NEW a \in DOMAIN g,
         g[a] = <<>>, NEW h, h = Put(g, a, Head(q))
  PROVE  Apart(f, Tail(q), h) /\ \A x : InHands(f, Tail(q), h, x) <=> InHands(f, q, g, x)
<1>1. /\ \A x : Inside(g, x) <=> Has(g[a], x) \/ Beside(g, a, x)
      /\ \A x : Inside(h, x) <=> Has(Head(q), x) \/ Beside(g, a, x)
      /\ Once(g) /\ Inj(Head(q)) /\ (\A x : Has(Head(q), x) => ~Beside(g, a, x)) => Once(h)
  BY OneHand
<1>2. \A x : Inside(q, x) <=> Has(Head(q), x) \/ Inside(Tail(q), x)
  BY FirstHand
<1>3. Once(q) => /\ Inj(Head(q)) /\ Once(Tail(q))
                 /\ \A x : Has(Head(q), x) => ~Inside(Tail(q), x)
  BY FirstHand
<1> DEFINE c == Head(q)
           r == Tail(q)
<1>4. \A x : ~Has(g[a], x)
  BY NoneInEmpty
<1>5. Apart(f, q, g)
  OBVIOUS
<1>6. /\ \A x : Inside(g, x) <=> Beside(g, a, x)
      /\ \A x : Inside(h, x) <=> Has(c, x) \/ Beside(g, a, x)
      /\ \A x : Inside(q, x) <=> Has(c, x) \/ Inside(r, x)
      /\ Inj(c) /\ Once(r) /\ \A x : Has(c, x) => ~Inside(r, x)
      /\ Once(g) /\ Inj(c) /\ (\A x : Has(c, x) => ~Beside(g, a, x)) => Once(h)
  BY <1>1, <1>2, <1>3, <1>4, <1>5 DEF Apart
<1> HIDE DEF c, r
<1>7. Once(h)
  BY <1>5, <1>6 DEF Apart
<1>8. Apart(f, r, h)
  BY <1>5, <1>6, <1>7 DEF Apart
<1>9. \A x : InHands(f, r, h, x) <=> InHands(f, q, g, x)
  BY <1>6 DEF InHands
<1> QED  BY <1>8, <1>9 DEF r

LEMMA TakeKeeps == ASSUME VectorsInv, NEW w \in Writers, Take(w)  PROVE VectorsInv'
<1> DEFINE f == TuplesOf(prod)
           g == ChunksIn(writ)
<1>1. /\ VectorsTypeOK /\ Inj(pending) /\ Apart(f, queue, g) /\ HandsAsked /\ Accounted
      /\ ProdDone /\ WritDone /\ Failures /\ QueueBounded
  BY DEF VectorsInv, HandsApart
<1>2. /\ result = "running" /\ writ[w].st = "take" /\ nextBatch' = nextBatch
      /\ pending' = pending /\ producersDone' = producersDone
      /\ apiFailed' = apiFailed /\ phaseFailure' = phaseFailure /\ writerStopped' = writerStopped
      /\ chunksWritten' = chunksWritten /\ embeddings' = embeddings /\ withheld' = withheld
      /\ result' = result /\ runs' = runs /\ faults' = faults
  BY DEF Take
<1>3. /\ prod \in [Producers -> ProdRec] /\ writ \in [Writers -> WritRec]
      /\ IsFamily(g) /\ DOMAIN g = Writers /\ w \in DOMAIN g /\ g[w] = writ[w].chunk
      /\ writ[w].chunk = <<>> /\ queue \in Seq(Seq(Items)) /\ <<>> \in Seq(Items)
  BY <1>1, <1>2, TypeIs DEF VectorsTypeOK, WritDone
<1>4. /\ Inj(pending') /\ ReturnedIsStored' /\ Failures' /\ (NoneLeft' <=> NoneLeft)
      /\ \A x : Asked(x)' <=> Asked(x)
      /\ \A x : Unasked(x)' <=> Unasked(x)
  BY <1>1, <1>2 DEF ReturnedIsStored, Failures, NoneLeft, Asked, Unasked
<1>5. ASSUME NEW r \in WritRec, writ' = Put(writ, w, r), r.chunk = <<>>, queue' = queue, prod' = prod,
             r.st = "parked" \/ (r.st = "done" /\ (writerStopped \/ (queue = <<>> /\ producersDone)))
      PROVE  VectorsInv'
  <2>1. /\ writ' \in [Writers -> WritRec] /\ ChunksIn(writ') = Put(g, w, <<>>)
        /\ writ'[w] = r /\ \A v \in Writers : v # w => writ'[v] = writ[v]
    <3>1. r \in WritRec /\ writ \in [Writers -> WritRec] /\ writ' = Put(writ, w, r)
      BY <1>3, <1>5
    <3>2. /\ writ' \in [Writers -> WritRec] /\ ChunksIn(writ') = Put(g, w, r.chunk)
          /\ writ'[w] = r /\ \A v \in Writers : v # w => writ'[v] = writ[v]
      BY <3>1, WriterSet
    <3> QED  BY <1>5, <3>2
  <2>2. ChunksIn(writ') = g
    <3> HIDE DEF g
    <3> QED  BY <1>3, <2>1 DEF Put, IsFamily
  <2>3. VectorsTypeOK'
    BY <1>1, <1>2, <1>5, <2>1 DEF VectorsTypeOK, WritRec
  <2>4. HandsApart' /\ HandsAsked'
    BY <1>1, <1>4, <1>5, <2>2 DEF HandsApart, HandsAsked
  <2>5. Accounted'
    BY <1>1, <1>2, <1>4, <1>5, <2>2 DEF Accounted
  <2>6. ProdDone' /\ QueueBounded'
    BY <1>1, <1>2, <1>4, <1>5 DEF ProdDone, QueueBounded
  <2>7. WritDone'
    BY <1>1, <1>2, <1>5, <2>1 DEF WritDone
  <2> QED  BY <1>4, <2>3, <2>4, <2>5, <2>6, <2>7 DEF VectorsInv
<1>6. CASE writerStopped \/ (queue = <<>> /\ producersDone)
  <2> DEFINE r == [st |-> "done", chunk |-> <<>>]
  <2>1. r \in WritRec /\ r.chunk = <<>> /\ r.st = "done"
    BY <1>3 DEF WritRec
  <2>2. writ' = Put(writ, w, r) /\ queue' = queue /\ prod' = prod
    BY <1>6 DEF Take, Put
  <2> HIDE DEF r
  <2> QED  BY <1>5, <1>6, <2>1, <2>2
<1>7. CASE ~writerStopped /\ queue = <<>> /\ ~producersDone
  <2> DEFINE r == [st |-> "parked", chunk |-> <<>>]
  <2>1. r \in WritRec /\ r.chunk = <<>> /\ r.st = "parked"
    BY <1>3 DEF WritRec
  <2>2. writ' = [writ EXCEPT ![w].st = "parked"] /\ queue' = queue /\ prod' = prod
    BY <1>7 DEF Take
  <2>3. [writ[w] EXCEPT !.st = "parked"] = r
    BY <1>3 DEF WritRec
  <2>4. writ' = Put(writ, w, r)
    BY <2>2, <2>3 DEF Put
  <2> HIDE DEF r
  <2> QED  BY <1>5, <2>1, <2>2, <2>4
<1>8. CASE ~writerStopped /\ queue # <<>>
  <2> DEFINE c == Head(queue)
             r == [st |-> "write", chunk |-> c]
  <2>1. /\ writ' = [writ EXCEPT ![w] = r] /\ queue' = Tail(queue) /\ prod' = WakeProducers(prod)
    BY <1>8 DEF Take
  <2>2. /\ c \in Seq(Items) /\ Tail(queue) \in Seq(Seq(Items)) /\ Len(Tail(queue)) = Len(queue) - 1
        /\ Len(queue) \in Nat
    BY <1>3, <1>8, TailIs
  <2>3. r \in WritRec /\ r.chunk = c /\ r.st = "write" /\ writ' = Put(writ, w, r)
    BY <2>1, <2>2 DEF WritRec, Put
  <2> HIDE DEF r, c
  <2>4. /\ writ' \in [Writers -> WritRec] /\ ChunksIn(writ') = Put(g, w, c)
        /\ writ'[w] = r /\ \A v \in Writers : v # w => writ'[v] = writ[v]
    BY <1>3, <2>3, WriterSet
  <2>5. /\ prod' \in [Producers -> ProdRec] /\ TuplesOf(prod') = f
        /\ \A p \in Producers : /\ prod'[p].tuples = prod[p].tuples
                                /\ prod'[p].st \in {prod[p].st, "hand"}
                                /\ prod[p].st = "done" => prod'[p].st = "done"
    BY <1>3, <2>1, WokenProducers
  <2>6. VectorsTypeOK'
    BY <1>1, <1>2, <2>1, <2>2, <2>4, <2>5 DEF VectorsTypeOK, ProdRec, WritRec
  <2> DEFINE h == ChunksIn(writ')
  <2>7. h = Put(g, w, c)
    BY <2>4
  <2> HIDE DEF f, g, h
  <2>8. Apart(f, queue', h) /\ \A x : InHands(f, queue', h, x) <=> InHands(f, queue, g, x)
    <3>1. Apart(f, queue, g) /\ IsFamily(g) /\ w \in DOMAIN g /\ g[w] = <<>> /\ queue \in Seq(Seq(Items)) /\ queue # <<>>
      BY <1>1, <1>3, <1>8
    <3>2. h = Put(g, w, Head(queue))
      BY <2>7 DEF c
    <3>3. Apart(f, Tail(queue), h)
      BY <3>1, <3>2, TakesFirst
    <3>4. \A x : InHands(f, Tail(queue), h, x) <=> InHands(f, queue, g, x)
      BY <3>1, <3>2, TakesFirst
    <3> QED  BY <2>1, <3>3, <3>4
  <2>9. HandsApart'
    BY <2>5, <2>8 DEF HandsApart, h, f
  <2>10. HandsAsked'
    <3>1. \A x : InHands(f, queue', h, x) => Asked(x)
      BY <1>1, <2>8 DEF HandsAsked, f, g
    <3> QED  BY <1>4, <2>5, <3>1 DEF HandsAsked, h, f
  <2>11. Accounted'
    <3>1. result = "running" /\ ~apiFailed /\ ~writerStopped => \A x \in Items :
             x \in embeddings \/ x \in withheld \/ Unasked(x) \/ InHands(f, queue', h, x)
      BY <1>1, <2>8 DEF Accounted, f, g
    <3> QED  BY <1>2, <1>4, <2>5, <3>1 DEF Accounted, h, f
  <2>12. ProdDone'
    BY <1>1, <1>2, <1>4, <2>5 DEF ProdDone
  <2>13. WritDone'
    BY <1>1, <1>2, <1>8, <2>3, <2>4 DEF WritDone
  <2>14. QueueBounded'
    <3>1. QueueMax \in Nat
      BY VectorsAssumption
    <3> QED  BY <1>1, <2>1, <2>2, <3>1 DEF QueueBounded
  <2> QED  BY <1>4, <2>6, <2>9, <2>10, <2>11, <2>12, <2>13, <2>14 DEF VectorsInv
<1> QED  BY <1>6, <1>7, <1>8

\* A writer's chunk is stored, or lost with it.
LEMMA ChunkLeaves ==
  ASSUME NEW f, NEW q, NEW g, Apart(f, q, g), IsFamily(g), NEW a \in DOMAIN g, NEW h, h = Put(g, a, <<>>)
  PROVE  /\ Apart(f, q, h) /\ \A x : InHands(f, q, h, x) => InHands(f, q, g, x)
         /\ \A x : InHands(f, q, g, x) => Has(g[a], x) \/ InHands(f, q, h, x)
<1>1. Apart(g, q, f)
  BY HandsMirrored
<1>2. /\ Apart(h, q, f) /\ \A x : InHands(h, q, f, x) => InHands(g, q, f, x)
      /\ \A x : InHands(g, q, f, x) => Has(g[a], x) \/ InHands(h, q, f, x)
  BY <1>1, NoneInEmpty, HoldsLess
<1>3. Apart(f, q, h)
  BY <1>2, HandsMirrored
<1>4. \A x : InHands(f, q, h, x) <=> InHands(h, q, f, x)
  BY HandsMirrored
<1>5. \A x : InHands(f, q, g, x) <=> InHands(g, q, f, x)
  BY HandsMirrored
<1> QED  BY <1>2, <1>3, <1>4, <1>5

LEMMA InsertKeeps == ASSUME VectorsInv, NEW w \in Writers, Insert(w)  PROVE VectorsInv'
<1> DEFINE f == TuplesOf(prod)
           g == ChunksIn(writ)
           c == writ[w].chunk
           r == [st |-> IF (chunksWritten + 1) % ReportEvery = 0 THEN "report" ELSE "take", chunk |-> <<>>]
<1>1. /\ VectorsTypeOK /\ Inj(pending) /\ Apart(f, queue, g) /\ HandsAsked /\ Accounted
      /\ ProdDone /\ WritDone /\ Failures /\ QueueBounded
  BY DEF VectorsInv, HandsApart
<1>2. /\ result = "running" /\ writ[w].st = "write" /\ nextBatch' = nextBatch
      /\ pending' = pending /\ producersDone' = producersDone /\ prod' = prod /\ queue' = queue
      /\ apiFailed' = apiFailed /\ phaseFailure' = phaseFailure /\ writerStopped' = writerStopped
      /\ chunksWritten' = chunksWritten + 1 /\ embeddings' = embeddings \cup Set(c) /\ withheld' = withheld
      /\ result' = result /\ runs' = runs /\ faults' = faults /\ writ' = [writ EXCEPT ![w] = r]
  BY DEF Insert
<1>3. /\ writ \in [Writers -> WritRec] /\ c \in Seq(Items) /\ <<>> \in Seq(Items)
      /\ IsFamily(g) /\ DOMAIN g = Writers /\ w \in DOMAIN g /\ g[w] = c
  BY <1>1, <1>2, TypeIs DEF WritRec
<1>4. /\ Inj(pending') /\ ReturnedIsStored' /\ Failures' /\ ProdDone' /\ QueueBounded'
      /\ \A x : Asked(x)' <=> Asked(x)
      /\ \A x : Unasked(x)' <=> Unasked(x)
  BY <1>1, <1>2 DEF ReturnedIsStored, Failures, NoneLeft, Asked, Unasked, ProdDone, QueueBounded
<1>5. r \in WritRec /\ r.chunk = <<>> /\ r.st \in {"report", "take"} /\ writ' = Put(writ, w, r)
  BY <1>2, <1>3 DEF WritRec, Put
<1> HIDE DEF r, c
<1>6. /\ writ' \in [Writers -> WritRec] /\ ChunksIn(writ') = Put(g, w, <<>>)
      /\ writ'[w] = r /\ \A v \in Writers : v # w => writ'[v] = writ[v]
  BY <1>3, <1>5, WriterSet
<1>7. Set(c) \subseteq Items /\ \A x : x \in Set(c) <=> Has(c, x)
  BY <1>3 DEF Set, Has
<1>8. VectorsTypeOK'
  BY <1>1, <1>2, <1>6, <1>7 DEF VectorsTypeOK, WritRec
<1> DEFINE h == ChunksIn(writ')
<1>9. h = Put(g, w, <<>>)
  BY <1>6
<1> HIDE DEF f, g, h
<1>10. /\ Apart(f, queue, h) /\ \A x : InHands(f, queue, h, x) => InHands(f, queue, g, x)
       /\ \A x : InHands(f, queue, g, x) => Has(c, x) \/ InHands(f, queue, h, x)
  BY <1>1, <1>3, <1>9, ChunkLeaves
<1>11. HandsApart'
  BY <1>2, <1>10 DEF HandsApart, h, f
<1>12. HandsAsked'
  <2>1. \A x : InHands(f, queue, h, x) => Asked(x)
    BY <1>1, <1>10 DEF HandsAsked, f, g
  <2> QED  BY <1>2, <1>4, <2>1 DEF HandsAsked, h, f
<1>13. Accounted'
  <2>1. result = "running" /\ ~apiFailed /\ ~writerStopped => \A x \in Items :
           x \in embeddings' \/ x \in withheld \/ Unasked(x) \/ InHands(f, queue, h, x)
    BY <1>1, <1>2, <1>7, <1>10 DEF Accounted, f, g
  <2> QED  BY <1>2, <1>4, <2>1 DEF Accounted, h, f
<1>14. WritDone'
  BY <1>1, <1>2, <1>5, <1>6 DEF WritDone
<1> QED  BY <1>4, <1>8, <1>11, <1>12, <1>13, <1>14 DEF VectorsInv

LEMMA ReportDoneKeeps == ASSUME VectorsInv, NEW w \in Writers, ReportDone(w)  PROVE VectorsInv'
<1> DEFINE g == ChunksIn(writ)
           r == [st |-> "take", chunk |-> <<>>]
<1>1. /\ VectorsTypeOK /\ Inj(pending) /\ HandsApart /\ HandsAsked /\ Accounted
      /\ ProdDone /\ WritDone /\ Failures /\ QueueBounded
  BY DEF VectorsInv
<1>2. /\ result = "running" /\ writ[w].st = "report" /\ nextBatch' = nextBatch
      /\ pending' = pending /\ producersDone' = producersDone /\ prod' = prod /\ queue' = queue
      /\ apiFailed' = apiFailed /\ phaseFailure' = phaseFailure /\ writerStopped' = writerStopped
      /\ chunksWritten' = chunksWritten /\ embeddings' = embeddings /\ withheld' = withheld
      /\ result' = result /\ runs' = runs /\ faults' = faults /\ writ' = [writ EXCEPT ![w].st = "take"]
  BY DEF ReportDone
<1>3. /\ writ \in [Writers -> WritRec] /\ writ[w].chunk = <<>> /\ <<>> \in Seq(Items)
      /\ IsFamily(g) /\ DOMAIN g = Writers /\ g[w] = <<>>
  BY <1>1, <1>2, TypeIs DEF WritDone
<1>4. r \in WritRec /\ r.chunk = <<>> /\ r.st = "take"
  BY <1>3 DEF WritRec
<1>5. writ' = Put(writ, w, r)
  <2>1. [writ[w] EXCEPT !.st = "take"] = r
    BY <1>3 DEF WritRec
  <2> QED  BY <1>2, <2>1 DEF Put
<1> HIDE DEF r
<1>6. /\ writ' \in [Writers -> WritRec] /\ ChunksIn(writ') = Put(g, w, <<>>)
      /\ writ'[w] = r /\ \A v \in Writers : v # w => writ'[v] = writ[v]
  BY <1>3, <1>4, <1>5, WriterSet
<1>7. ChunksIn(writ') = g
  <2> HIDE DEF g
  <2> QED  BY <1>3, <1>6 DEF Put, IsFamily
<1>8. VectorsTypeOK'
  BY <1>1, <1>2, <1>6 DEF VectorsTypeOK, WritRec
<1>9. /\ Inj(pending') /\ ReturnedIsStored' /\ Failures' /\ ProdDone' /\ QueueBounded'
      /\ HandsApart' /\ HandsAsked' /\ Accounted'
  BY <1>1, <1>2, <1>7 DEF ReturnedIsStored, Failures, NoneLeft, Asked, Unasked, ProdDone, QueueBounded,
       HandsApart, HandsAsked, Accounted
<1>10. WritDone'
  BY <1>1, <1>2, <1>4, <1>6 DEF WritDone
<1> QED  BY <1>8, <1>9, <1>10 DEF VectorsInv

LEMMA WriterFailsKeeps == ASSUME VectorsInv, NEW w \in Writers, WriterFails(w)  PROVE VectorsInv'
<1> DEFINE f == TuplesOf(prod)
           g == ChunksIn(writ)
           c == writ[w].chunk
           r == [st |-> "done", chunk |-> <<>>]
           ws == Put(writ, w, r)
<1>1. /\ VectorsTypeOK /\ Inj(pending) /\ Apart(f, queue, g) /\ HandsAsked
      /\ ProdDone /\ WritDone /\ Failures /\ QueueBounded
  BY DEF VectorsInv, HandsApart
<1>2. /\ result = "running" /\ writ[w].st \in {"write", "report"} /\ nextBatch' = nextBatch /\ faults < MaxFaults
      /\ pending' = pending /\ producersDone' = producersDone /\ queue' = queue
      /\ apiFailed' = apiFailed /\ writerStopped' = TRUE
      /\ chunksWritten' = chunksWritten /\ withheld' = withheld
      /\ result' = result /\ runs' = runs /\ faults' = faults + 1
      /\ prod' = WakeProducers(prod) /\ writ' = WakeWriters(ws)
      /\ embeddings' \in {embeddings, embeddings \cup Set(c)}
  BY DEF WriterFails, Put
<1>3. /\ writ \in [Writers -> WritRec] /\ c \in Seq(Items) /\ <<>> \in Seq(Items)
      /\ prod \in [Producers -> ProdRec]
      /\ IsFamily(g) /\ DOMAIN g = Writers /\ w \in DOMAIN g /\ g[w] = c
  BY <1>1, <1>2, TypeIs DEF WritRec
<1>4. phaseFailure' \in {"none", "api", "insert", "stopped"} /\ phaseFailure' # "none"
  BY <1>1 DEF WriterFails, FirstError, VectorsTypeOK
<1>5. r \in WritRec /\ r.chunk = <<>> /\ r.st = "done"
  BY <1>3 DEF WritRec
<1> HIDE DEF r, c, ws
<1>6. /\ ws \in [Writers -> WritRec] /\ ChunksIn(ws) = Put(g, w, <<>>)
      /\ ws[w] = r /\ \A v \in Writers : v # w => ws[v] = writ[v]
  <2>1. ws = Put(writ, w, r)
    BY DEF ws
  <2> QED  BY <1>3, <1>5, <2>1, WriterSet
<1>7. /\ writ' \in [Writers -> WritRec] /\ ChunksIn(writ') = Put(g, w, <<>>)
      /\ \A v \in Writers : /\ writ'[v].chunk = ws[v].chunk
                            /\ writ'[v].st = "write" <=> ws[v].st = "write"
                            /\ writ'[v].st = "done" <=> ws[v].st = "done"
  BY <1>2, <1>6, WokenWriters
<1>8. /\ prod' \in [Producers -> ProdRec] /\ TuplesOf(prod') = f
      /\ \A p \in Producers : /\ prod'[p].tuples = prod[p].tuples
                              /\ prod'[p].st \in {prod[p].st, "hand"}
                              /\ prod[p].st = "done" => prod'[p].st = "done"
  BY <1>2, <1>3, WokenProducers
<1>9. embeddings' \subseteq Items
  <2>1. Set(c) \subseteq Items
    BY <1>3 DEF Set
  <2> QED  BY <1>1, <1>2, <2>1 DEF VectorsTypeOK
<1>10. faults' \in 0 .. MaxFaults
  BY <1>1, <1>2, VectorsAssumption DEF VectorsTypeOK
<1>11. VectorsTypeOK'
  BY <1>1, <1>2, <1>4, <1>7, <1>8, <1>9, <1>10 DEF VectorsTypeOK, ProdRec, WritRec
<1> DEFINE h == ChunksIn(writ')
<1>12. h = Put(g, w, <<>>)
  BY <1>7
<1> HIDE DEF f, g, h
<1>13. Apart(f, queue, h) /\ \A x : InHands(f, queue, h, x) => InHands(f, queue, g, x)
  BY <1>1, <1>3, <1>12, ChunkLeaves
<1>14. HandsApart'
  BY <1>2, <1>8, <1>13 DEF HandsApart, h, f
<1>15. HandsAsked'
  <2>1. \A x : InHands(f, queue, h, x) => Asked(x)
    BY <1>1, <1>13 DEF HandsAsked, f, g
  <2>2. \A x : Asked(x)' <=> Asked(x)
    BY <1>2 DEF Asked
  <2> QED  BY <1>2, <1>8, <2>1, <2>2 DEF HandsAsked, h, f
<1>16. ProdDone'
  <2>1. NoneLeft' <=> NoneLeft
    BY <1>2 DEF NoneLeft
  <2> QED  BY <1>1, <1>2, <1>8, <2>1 DEF ProdDone
<1>17. WritDone'
  BY <1>1, <1>2, <1>5, <1>6, <1>7 DEF WritDone
<1>18. /\ Inj(pending') /\ ReturnedIsStored' /\ Failures' /\ QueueBounded' /\ Accounted'
  BY <1>1, <1>2, <1>4 DEF ReturnedIsStored, Failures, QueueBounded, Accounted
<1> QED  BY <1>11, <1>14, <1>15, <1>16, <1>17, <1>18 DEF VectorsInv

------------------------------------------------------------------------------
(* The phase settles. *)

LEMMA ProducersEndKeeps == ASSUME VectorsInv, ProducersEnd  PROVE VectorsInv'
<1>1. /\ VectorsTypeOK /\ Inj(pending) /\ HandsApart /\ HandsAsked /\ Accounted
      /\ ProdDone /\ WritDone /\ Failures /\ QueueBounded
  BY DEF VectorsInv
<1>2. /\ result = "running" /\ nextBatch' = nextBatch /\ ~producersDone
      /\ \A p \in Producers : prod[p].st = "done"
      /\ pending' = pending /\ producersDone' = TRUE /\ prod' = prod /\ queue' = queue
      /\ apiFailed' = apiFailed /\ writerStopped' = writerStopped
      /\ chunksWritten' = chunksWritten /\ embeddings' = embeddings /\ withheld' = withheld
      /\ result' = result /\ runs' = runs /\ faults' = faults /\ writ' = WakeWriters(writ)
      /\ phaseFailure' = IF apiFailed THEN FirstError("api") ELSE phaseFailure
  BY DEF ProducersEnd
<1>3. writ \in [Writers -> WritRec] /\ phaseFailure \in {"none", "api", "insert", "stopped"}
  BY <1>1, TypeIs DEF VectorsTypeOK
<1>4. /\ writ' \in [Writers -> WritRec] /\ ChunksIn(writ') = ChunksIn(writ)
      /\ \A v \in Writers : /\ writ'[v].chunk = writ[v].chunk
                            /\ writ'[v].st = "write" <=> writ[v].st = "write"
                            /\ writ'[v].st = "done" <=> writ[v].st = "done"
  BY <1>2, <1>3, WokenWriters
<1>5. /\ phaseFailure' \in {"none", "api", "insert", "stopped"}
      /\ (apiFailed => phaseFailure' # "none") /\ (phaseFailure # "none" => phaseFailure' # "none")
  BY <1>2, <1>3 DEF FirstError
<1>6. VectorsTypeOK'
  BY <1>1, <1>2, <1>4, <1>5 DEF VectorsTypeOK, WritRec
<1>7. HandsApart' /\ HandsAsked' /\ Accounted'
  BY <1>1, <1>2, <1>4 DEF HandsApart, HandsAsked, Accounted, Asked, Unasked
<1>8. ProdDone' /\ WritDone'
  BY <1>1, <1>2, <1>4 DEF ProdDone, WritDone, NoneLeft
<1>9. /\ Inj(pending') /\ ReturnedIsStored' /\ Failures' /\ QueueBounded'
  BY <1>1, <1>2, <1>5 DEF ReturnedIsStored, Failures, QueueBounded
<1> QED  BY <1>6, <1>7, <1>8, <1>9 DEF VectorsInv

\* Both sides ended and nothing failed: nothing is in a hand any more.
LEMMA NothingLeft ==
  ASSUME VectorsInv, producersDone, phaseFailure = "none", result = "running",
         \A w \in Writers : writ[w].st = "done"
  PROVE  Items \ withheld \subseteq embeddings
<1> DEFINE f == TuplesOf(prod)
           g == ChunksIn(writ)
<1>1. VectorsTypeOK /\ Accounted /\ ProdDone /\ WritDone /\ Failures
  BY DEF VectorsInv
<1>2. ~apiFailed /\ ~writerStopped
  BY <1>1 DEF Failures
<1>3. queue = <<>> /\ NoneLeft
  BY <1>1, <1>2, ItemsAre DEF ProdDone, WritDone
<1>4. /\ DOMAIN f = Producers /\ \A p \in Producers : f[p] = prod[p].tuples
      /\ DOMAIN g = Writers /\ \A w \in Writers : g[w] = writ[w].chunk
  BY <1>1, TypeIs
<1>5. (\A p \in DOMAIN f : f[p] = <<>>) /\ (\A w \in DOMAIN g : g[w] = <<>>) /\ DOMAIN <<>> = {}
  BY <1>1, <1>4 DEF ProdDone, WritDone
<1> HIDE DEF f, g
<1>6. \A x : ~InHands(f, queue, g, x)
  BY <1>3, <1>5, NoneInEmpty DEF InHands, Inside
<1>7. \A x : ~Unasked(x)
  <2> DEFINE a == (nextBatch - 1) * BatchSize
  <2>1. a \in Nat /\ a >= Len(pending) /\ Len(pending) \in Nat
    <3>1. nextBatch \in Nat /\ nextBatch # 0 /\ BatchSize \in Nat /\ pending \in Seq(Items)
      BY <1>1, VectorsAssumption DEF VectorsTypeOK
    <3> QED  BY <1>3, <3>1, TimesIs DEF NoneLeft
  <2>2. \A x : Unasked(x) <=> Sits(pending, x, a, Len(pending))
    BY DEF Unasked
  <2> HIDE DEF a
  <2> QED  BY <2>1, <2>2 DEF Sits
<1> QED  BY <1>1, <1>2, <1>6, <1>7 DEF Accounted, f, g

LEMMA FinishKeeps == ASSUME VectorsInv, Finish  PROVE VectorsInv'
<1>1. /\ VectorsTypeOK /\ Inj(pending) /\ HandsApart /\ HandsAsked
      /\ ProdDone /\ WritDone /\ Failures /\ QueueBounded
  BY DEF VectorsInv
<1>2. /\ result = "running" /\ nextBatch' = nextBatch /\ producersDone /\ \A w \in Writers : writ[w].st = "done"
      /\ pending' = pending /\ producersDone' = producersDone /\ prod' = prod /\ queue' = queue
      /\ apiFailed' = apiFailed /\ phaseFailure' = phaseFailure /\ writerStopped' = writerStopped
      /\ chunksWritten' = chunksWritten /\ embeddings' = embeddings /\ withheld' = withheld
      /\ runs' = runs /\ writ' = writ
      /\ result' \in {"returned", "threw"} /\ (result' = "returned" => phaseFailure = "none")
  BY DEF Finish
<1>3. faults' \in 0 .. MaxFaults
  <2>1. MaxFaults \in Nat /\ faults \in 0 .. MaxFaults
    BY <1>1, VectorsAssumption DEF VectorsTypeOK
  <2>2. faults' = faults \/ (faults < MaxFaults /\ faults' = faults + 1)
    BY DEF Finish
  <2> QED  BY <2>1, <2>2
<1>4. VectorsTypeOK'
  BY <1>1, <1>2, <1>3 DEF VectorsTypeOK
<1>5. ReturnedIsStored'
  BY <1>2, NothingLeft DEF ReturnedIsStored
<1>6. Inj(pending') /\ HandsApart' /\ HandsAsked' /\ Accounted' /\ ProdDone' /\ WritDone' /\ Failures' /\ QueueBounded'
  BY <1>1, <1>2 DEF HandsApart, HandsAsked, Asked, Accounted, ProdDone, NoneLeft, WritDone, Failures, QueueBounded
<1> QED  BY <1>4, <1>5, <1>6 DEF VectorsInv

LEMMA VectorsStep == ASSUME VectorsInv, [VectorsNext]_vectorVars  PROVE VectorsInv'
<1>1. ASSUME NEW p \in Producers, Fetch(p) \/ Embedded(p) \/ EmbedFails(p) \/ Hand(p)  PROVE VectorsInv'
  BY <1>1, FetchKeeps, EmbeddedKeeps, EmbedFailsKeeps, HandKeeps
<1>2. ASSUME NEW w \in Writers, Take(w) \/ Insert(w) \/ ReportDone(w) \/ WriterFails(w)  PROVE VectorsInv'
  BY <1>2, TakeKeeps, InsertKeeps, ReportDoneKeeps, WriterFailsKeeps
<1>3. CASE ProducersEnd \/ Finish \/ Resume
  BY <1>3, ProducersEndKeeps, FinishKeeps, ResumeKeeps
<1>4. CASE UNCHANGED vectorVars
  BY <1>4 DEF vectorVars, VectorsInv, VectorsTypeOK, HandsApart, HandsAsked, Asked, Unasked, Accounted,
       ProdDone, NoneLeft, WritDone, Failures, QueueBounded, ReturnedIsStored
<1> QED  BY <1>1, <1>2, <1>3, <1>4 DEF VectorsNext

------------------------------------------------------------------------------
(* What the invariant gives. *)

LEMMA HandIs ==
  ASSUME NEW h \in Hands
  PROVE  \/ \E p \in Producers, j \in Nat :
              j \in 1 .. Len(prod[p].tuples) /\ h = <<"producer", p, j>> /\ Held(h) = prod[p].tuples[j]
         \/ \E i \in 1 .. Len(queue), j \in Nat :
              j \in 1 .. Len(queue[i]) /\ h = <<"queue", i, j>> /\ Held(h) = queue[i][j]
         \/ \E w \in Writers, j \in Nat :
              j \in 1 .. Len(writ[w].chunk) /\ h = <<"writer", w, j>> /\ Held(h) = writ[w].chunk[j]
<1> DEFINE A == UNION {{<<"producer", p, j>> : j \in 1 .. Len(prod[p].tuples)} : p \in Producers}
           B == UNION {{<<"queue", i, j>> : j \in 1 .. Len(queue[i])} : i \in 1 .. Len(queue)}
           C == UNION {{<<"writer", w, j>> : j \in 1 .. Len(writ[w].chunk)} : w \in Writers}
<1>1. CASE h \in A
  <2>1. PICK p \in Producers, j \in Nat : j \in 1 .. Len(prod[p].tuples) /\ h = <<"producer", p, j>>
    BY <1>1
  <2>2. Held(h) = prod[p].tuples[j]
    BY <2>1 DEF Held
  <2> QED  BY <2>1, <2>2
<1>2. CASE h \in B
  <2>1. PICK i \in 1 .. Len(queue), j \in Nat : j \in 1 .. Len(queue[i]) /\ h = <<"queue", i, j>>
    BY <1>2
  <2>2. Held(h) = queue[i][j]
    BY <2>1 DEF Held
  <2> QED  BY <2>1, <2>2
<1>3. CASE h \in C
  <2>1. PICK w \in Writers, j \in Nat : j \in 1 .. Len(writ[w].chunk) /\ h = <<"writer", w, j>>
    BY <1>3
  <2>2. Held(h) = writ[w].chunk[j]
    BY <2>1 DEF Held
  <2> QED  BY <2>1, <2>2
<1>4. h \in A \cup B \cup C
  BY Zenon DEF Hands
<1> HIDE DEF A, B, C
<1> QED  BY <1>1, <1>2, <1>3, <1>4, Zenon

LEMMA OnceIs == VectorsInv => HeldOnce
<1> SUFFICES ASSUME VectorsInv, NEW h \in Hands, NEW k \in Hands, Held(h) = Held(k)  PROVE h = k
  BY DEF HeldOnce
<1> DEFINE f == TuplesOf(prod)
           g == ChunksIn(writ)
           x == Held(h)
<1>1. /\ Apart(f, queue, g) /\ queue \in Seq(Seq(Items))
      /\ DOMAIN f = Producers /\ \A p \in Producers : f[p] = prod[p].tuples
      /\ DOMAIN g = Writers /\ \A w \in Writers : g[w] = writ[w].chunk
  BY TypeIs DEF VectorsInv, HandsApart, VectorsTypeOK
<1> DEFINE InP(m) == \E p \in Producers, j \in Nat : j \in 1 .. Len(f[p]) /\ m = <<"producer", p, j>> /\ Held(m) = f[p][j]
           InQ(m) == \E i \in 1 .. Len(queue), j \in Nat : j \in 1 .. Len(queue[i]) /\ m = <<"queue", i, j>> /\ Held(m) = queue[i][j]
           InW(m) == \E w \in Writers, j \in Nat : j \in 1 .. Len(g[w]) /\ m = <<"writer", w, j>> /\ Held(m) = g[w][j]
<1>2. ASSUME NEW m \in Hands  PROVE InP(m) \/ InQ(m) \/ InW(m)
  <2>1. \/ \E p \in Producers, j \in Nat :
              j \in 1 .. Len(prod[p].tuples) /\ m = <<"producer", p, j>> /\ Held(m) = prod[p].tuples[j]
        \/ \E i \in 1 .. Len(queue), j \in Nat :
              j \in 1 .. Len(queue[i]) /\ m = <<"queue", i, j>> /\ Held(m) = queue[i][j]
        \/ \E w \in Writers, j \in Nat :
              j \in 1 .. Len(writ[w].chunk) /\ m = <<"writer", w, j>> /\ Held(m) = writ[w].chunk[j]
    BY HandIs, Zenon
  <2> HIDE DEF f, g
  <2> QED  BY <1>1, <2>1
<1>3. Held(h) = x /\ Held(k) = x
  OBVIOUS
<1> HIDE DEF f, g, x
<1>4. DOMAIN queue = 1 .. Len(queue)
  BY <1>1
<1>5. ASSUME NEW m, InP(m), Held(m) = x  PROVE Inside(f, x)
  BY <1>1, <1>5 DEF Inside, Has
<1>6. ASSUME NEW m, InQ(m), Held(m) = x  PROVE Inside(queue, x)
  BY <1>4, <1>6 DEF Inside, Has
<1>7. ASSUME NEW m, InW(m), Held(m) = x  PROVE Inside(g, x)
  BY <1>1, <1>7 DEF Inside, Has
<1>8. CASE InP(h) /\ InP(k)
  <2>1. PICK p \in Producers, j \in Nat : j \in 1 .. Len(f[p]) /\ h = <<"producer", p, j>> /\ x = f[p][j]
    BY <1>3, <1>8
  <2>2. PICK q \in Producers, i \in Nat : i \in 1 .. Len(f[q]) /\ k = <<"producer", q, i>> /\ x = f[q][i]
    BY <1>3, <1>8
  <2>3. p = q
    <3>1. Has(f[p], x) /\ Has(f[q], x)
      BY <2>1, <2>2 DEF Has
    <3> QED  BY <1>1, <3>1 DEF Apart, Once
  <2>4. i = j
    BY <1>1, <2>1, <2>2, <2>3 DEF Apart, Once, Inj
  <2> QED  BY <2>1, <2>2, <2>3, <2>4
<1>9. CASE InQ(h) /\ InQ(k)
  <2>1. PICK p \in 1 .. Len(queue), j \in Nat : j \in 1 .. Len(queue[p]) /\ h = <<"queue", p, j>> /\ x = queue[p][j]
    BY <1>3, <1>9
  <2>2. PICK q \in 1 .. Len(queue), i \in Nat : i \in 1 .. Len(queue[q]) /\ k = <<"queue", q, i>> /\ x = queue[q][i]
    BY <1>3, <1>9
  <2>3. p = q
    <3>1. Has(queue[p], x) /\ Has(queue[q], x)
      BY <2>1, <2>2 DEF Has
    <3> QED  BY <1>1, <1>4, <3>1 DEF Apart, Once
  <2>4. i = j
    BY <1>1, <1>4, <2>1, <2>2, <2>3 DEF Apart, Once, Inj
  <2> QED  BY <2>1, <2>2, <2>3, <2>4
<1>10. CASE InW(h) /\ InW(k)
  <2>1. PICK p \in Writers, j \in Nat : j \in 1 .. Len(g[p]) /\ h = <<"writer", p, j>> /\ x = g[p][j]
    BY <1>3, <1>10
  <2>2. PICK q \in Writers, i \in Nat : i \in 1 .. Len(g[q]) /\ k = <<"writer", q, i>> /\ x = g[q][i]
    BY <1>3, <1>10
  <2>3. p = q
    <3>1. Has(g[p], x) /\ Has(g[q], x)
      BY <2>1, <2>2 DEF Has
    <3> QED  BY <1>1, <3>1 DEF Apart, Once
  <2>4. i = j
    BY <1>1, <2>1, <2>2, <2>3 DEF Apart, Once, Inj
  <2> QED  BY <2>1, <2>2, <2>3, <2>4
<1> HIDE DEF InP, InQ, InW
<1>11. /\ ~(Inside(f, x) /\ Inside(queue, x)) /\ ~(Inside(f, x) /\ Inside(g, x))
       /\ ~(Inside(queue, x) /\ Inside(g, x))
  BY <1>1 DEF Apart
<1> QED  BY <1>2, <1>3, <1>5, <1>6, <1>7, <1>8, <1>9, <1>10, <1>11

\* Once a writer stopped, no step of a running phase asks for a batch.
LEMMA NoneAsked ==
  ASSUME VectorsInv, VectorsNext, writerStopped, result = "running", NEW p \in Producers, prod'[p].st = "asking"
  PROVE  prod[p].st = "asking"
<1>1. prod \in [Producers -> ProdRec]
  BY TypeIs DEF VectorsInv
<1>2. ASSUME NEW q \in Producers, NEW r, prod' = [prod EXCEPT ![q] = r], r.st # "asking"  PROVE prod[p].st = "asking"
  BY <1>1, <1>2
<1>3. ASSUME NEW q \in Producers, Fetch(q)  PROVE prod[p].st = "asking"
  <2>1. CASE apiFailed \/ NoneLeft
    <3>1. prod' = [prod EXCEPT ![q].st = "done"]
      BY <1>3, <2>1 DEF Fetch
    <3>2. [prod[q] EXCEPT !.st = "done"].st = "done"
      BY <1>1 DEF ProdRec
    <3> QED  BY <1>2, <3>1, <3>2
  <2>2. CASE ~(apiFailed \/ NoneLeft)
    <3>1. prod' = prod
      BY <1>3, <2>2 DEF Fetch
    <3> QED  BY <3>1
  <2> QED  BY <2>1, <2>2
<1>4. ASSUME NEW q \in Producers, Embedded(q)  PROVE prod[p].st = "asking"
  <2>1. PICK t : prod' = [prod EXCEPT ![q] = [st |-> "hand", tuples |-> t]]
    BY <1>4 DEF Embedded
  <2> QED  BY <1>2, <2>1
<1>5. ASSUME NEW q \in Producers, EmbedFails(q)  PROVE prod[p].st = "asking"
  BY <1>2, <1>5 DEF EmbedFails
<1>6. ASSUME NEW q \in Producers, Hand(q)  PROVE prod[p].st = "asking"
  <2>1. PICK t : prod' = [prod EXCEPT ![q] = [st |-> IF t = <<>> THEN "fetch" ELSE "parked", tuples |-> t]]
    BY <1>6 DEF Hand
  <2>2. [st |-> IF t = <<>> THEN "fetch" ELSE "parked", tuples |-> t].st # "asking"
    OBVIOUS
  <2> QED  BY <1>2, <2>1, <2>2
<1>7. ASSUME prod' = WakeProducers(prod)  PROVE prod[p].st = "asking"
  BY <1>1, <1>7, WokenProducers
<1>8. ASSUME NEW w \in Writers, Take(w) \/ Insert(w) \/ ReportDone(w) \/ WriterFails(w)  PROVE prod[p].st = "asking"
  <2>1. prod' = prod \/ prod' = WakeProducers(prod)
    BY <1>8 DEF Take, Insert, ReportDone, WriterFails
  <2> QED  BY <1>7, <2>1
<1>9. CASE ProducersEnd \/ Finish \/ Resume
  <2>1. prod' = prod
    BY <1>9 DEF ProducersEnd, Finish, Resume
  <2> QED  BY <2>1
<1> QED  BY <1>3, <1>4, <1>5, <1>6, <1>8, <1>9 DEF VectorsNext

------------------------------------------------------------------------------
(* The theorems of the embedding phase. *)

LEMMA WaitersStay == ASSUME VectorsInv, [PartNext]_allVars  PROVE VectorsInv'
<1>1. [VectorsNext]_vectorVars
  BY DEF PartNext, StepCalls, StepEmbeddings, allVars
<1> QED  BY <1>1, VectorsStep

\* However the phase, run on its own and resumed after failures, interleaves:
\* a run that returned stored every vector the API answered, the queue of
\* chunks stays within its bound, no vector is in two hands, and once a
\* writer stopped no batch is asked for.
THEOREM PhaseKeepsVectors ==
  VectorsSpec => [](VectorsTypeOK /\ ReturnedIsStored /\ QueueBounded /\ HeldOnce) /\ NothingPaidAfterStop
<1>1. VectorsInit => VectorsInv
  BY VectorsBegin
<1>2. VectorsInv /\ [VectorsNext]_vectorVars => VectorsInv'
  BY VectorsStep
<1>3. VectorsInv => VectorsTypeOK /\ ReturnedIsStored /\ QueueBounded /\ HeldOnce
  BY OnceIs DEF VectorsInv
<1>4. VectorsInv /\ [VectorsNext]_vectorVars =>
        [writerStopped /\ result = "running" =>
           \A p \in Producers : prod'[p].st = "asking" => prod[p].st = "asking"]_vectorVars
  BY NoneAsked
<1> QED  BY <1>1, <1>2, <1>3, <1>4, PTL DEF VectorsSpec, NothingPaidAfterStop

\* What the run checks of the phase, composed with the calls of the process.
THEOREM VectorsAreKept == PartSpec => VectorsKept
<1>1. PartInit => VectorsInv
  BY VectorsBegin DEF PartInit
<1>2. VectorsInv /\ [PartNext]_allVars => VectorsInv'
  BY WaitersStay
<1>3. VectorsInv => (part = "embeddings" => ReturnedIsStored /\ QueueBounded /\ HeldOnce)
  BY OnceIs DEF VectorsInv
<1>4. VectorsInv /\ [PartNext]_allVars =>
        [writerStopped /\ result = "running" =>
           \A p \in Producers : prod'[p].st = "asking" => prod[p].st = "asking"]_vectorVars
  <2> SUFFICES ASSUME VectorsInv, [PartNext]_allVars, vectorVars' # vectorVars
               PROVE  writerStopped /\ result = "running" =>
                        \A p \in Producers : prod'[p].st = "asking" => prod[p].st = "asking"
    OBVIOUS
  <2>1. VectorsNext
    BY DEF PartNext, StepCalls, StepEmbeddings, allVars
  <2> QED  BY <2>1, NoneAsked
<1> QED  BY <1>1, <1>2, <1>3, <1>4, PTL DEF PartSpec, VectorsKept, NothingPaidAfterStop
=============================================================================
