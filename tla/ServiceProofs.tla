---------------------------- MODULE ServiceProofs ----------------------------
(***************************************************************************)
(* The service's two parts that a member meets.  Membership, for every     *)
(* number of users, requests and invitations and any set of operations:    *)
(* the project has the one owner projects.user_id names until a write      *)
(* lands that was decided on a tier that has moved, and an invitation      *)
(* makes a member or is revoked or declined, never both.  The reader, for  *)
(* every set of packages and sections and any number of clicks, failed     *)
(* requests and polls under way: read marks are saved only for the package *)
(* they were made in, and the pane shows what is selected.                 *)
(***************************************************************************)
EXTENDS Membership, Reader, TLAPS

(* Membership *)

\* "No one" is neither a user nor a request, the invitations are numbered, and only
\* routes of the API are called.
Setting == None \notin Users \union Requests /\ NumIds \in Nat /\ Ops \subseteq AllOps

(* The invariant *)

\* TypeOK without the bound of the instances on the invitations ever sent.
Typed ==
  /\ tier \in [Users -> Tiers \union {"none"}]
  /\ holder \in Users \union {None}
  /\ account \subseteq Users
  /\ invite \in [Ids -> Invitation]
  /\ rowLock \in [Users -> Requests \union {None}]
  /\ invLock \in [Ids -> Requests \union {None}]
  /\ request \in [Requests -> Request]
  /\ sent \in Nat
  /\ crossed \in BOOLEAN
  /\ ended \subseteq Ids /\ redeemed \subseteq Ids

\* An invitation has an address, and a request a caller, somebody or something it is about.
Named ==
  /\ \A i \in Ids : invite[i].status # "absent" => invite[i].email \in Users
  /\ \A q \in Requests : ~At(q, "idle") =>
       request[q].by \in Users /\ request[q].who \in Users /\ request[q].id \in Ids

\* What a request has made sure of: an acceptance that holds its invitation finds it
\* pending; a transfer holds the rows it locked, and the caller is still the owner
\* when the promotion comes.
Holds(q) ==
  LET r == request[q] IN
  /\ r.op = "transfer" /\ r.at # "idle" => r.who # r.by
  /\ r.at = "locked" /\ r.op = "accept" =>
       invLock[r.id] = q /\ invite[r.id].status = "pending" /\ invite[r.id].tier \in Invitable
  /\ r.at = "locked" /\ r.op = "transfer" => rowLock[r.who] = q
  /\ r.at = "demoted" => /\ r.op = "transfer"
                         /\ rowLock[r.who] = q /\ rowLock[r.by] = q /\ tier[r.by] = "owner"

\* What a write without a guard was decided on.
DecidedOn(q) ==
  LET r == request[q] IN
  /\ r.op = "patch" /\ r.at # "idle" => r.mine \in {"owner", "admin"}
  /\ r.op = "patch" /\ r.at = "decided" => MayPatch(r, r.seen)
  /\ r.op = "remove" /\ r.at = "decided" => r.seen \notin {"none", "owner"}
  /\ r.op = "leave" /\ r.at # "idle" => r.mine # "owner"
  /\ r.op = "leave" /\ r.at = "decided" => r.seen = r.mine

\* Nobody belongs to a project that is gone.
GoneIsEmpty == holder = None => \A u \in Users : tier[u] = "none"

\* What was answered is not pending, and ids are never used twice.
Answered ==
  /\ ended \intersect redeemed = {}
  /\ \A i \in ended : invite[i].status # "pending"
  /\ \A i \in redeemed : invite[i].status = "absent"
  /\ \A i \in Ids : i \in ended \union redeemed \/ invite[i].status # "absent" => i <= sent

MemberInv ==
  /\ Typed /\ Named
  /\ \A q \in Requests : Holds(q) /\ DecidedOn(q)
  /\ GoneIsEmpty /\ OneOwner /\ Answered

-----------------------------------------------------------------------------
(* Requests beside each other *)

\* The step of request q leaves the others where they are, and what they locked.
Respects(q) ==
  /\ \A p \in Requests \ {q} : request'[p] = request[p]
  /\ \A u \in Users : rowLock[u] \in Requests \ {q} =>
       rowLock'[u] = rowLock[u] /\ (tier[u] = "owner" => tier'[u] = "owner")
  /\ \A i \in Ids : invLock[i] \in Requests \ {q} =>
       /\ invLock'[i] = invLock[i]
       /\ invite[i].status = "pending" =>
            invite'[i].status = "pending" /\ invite'[i].tier = invite[i].tier

LEMMA OthersHold ==
  ASSUME Typed, Named, NEW q, Respects(q), NEW p \in Requests \ {q}, Holds(p), DecidedOn(p)
  PROVE  Holds(p)' /\ DecidedOn(p)'
<1>1. request'[p] = request[p]
  BY DEF Respects
<1>2. DecidedOn(p)'
  BY <1>1 DEF DecidedOn, MayPatch
<1>3. request[p].at # "idle" =>
        request[p].by \in Users /\ request[p].who \in Users /\ request[p].id \in Ids
  BY DEF Named, At
<1>4. Holds(p)'
  BY <1>1, <1>3 DEF Holds, Respects
<1> QED BY <1>2, <1>4

LEMMA IdleHolds ==
  ASSUME NEW q \in Requests, request'[q] = Idle PROVE Holds(q)' /\ DecidedOn(q)'
  BY DEF Holds, DecidedOn, Idle

LEMMA UnlockRespects ==
  ASSUME Typed, NEW q \in Requests, Unlock(q)
  PROVE  /\ \A u \in Users : rowLock[u] \in Requests \ {q} => rowLock'[u] = rowLock[u]
         /\ \A i \in Ids : invLock[i] \in Requests \ {q} => invLock'[i] = invLock[i]
         /\ rowLock' \in [Users -> Requests \union {None}]
         /\ invLock' \in [Ids -> Requests \union {None}]
  BY DEF Unlock, Typed

LEMMA IdleTyped == ASSUME Setting PROVE Idle \in Request
  BY DEF Idle, Request, Tiers, AllOps, Setting

LEMMA EndsTyped ==
  ASSUME Typed, Named, Setting, NEW q \in Requests, Ends(q)
  PROVE  /\ request' \in [Requests -> Request] /\ request'[q] = Idle
         /\ \A p \in Requests \ {q} : request'[p] = request[p]
         /\ \A p \in Requests : request'[p].at # "idle" =>
              request'[p].by \in Users /\ request'[p].who \in Users /\ request'[p].id \in Ids
<1>1. Idle \in Request
  BY IdleTyped
<1>2. request' = [request EXCEPT ![q] = Idle]
  BY DEF Ends
<1> QED BY <1>1, <1>2 DEF Typed, Named, At, Idle

LEMMA GoesTyped ==
  ASSUME Typed, Named, NEW q \in Requests, ~At(q, "idle"),
         NEW place \in {"entered", "decided", "cleared", "locked", "demoted"}, Goes(q, place)
  PROVE  /\ request' \in [Requests -> Request]
         /\ request'[q] = [request[q] EXCEPT !.at = place]
         /\ \A p \in Requests \ {q} : request'[p] = request[p]
         /\ \A p \in Requests : request'[p].at # "idle" =>
              request'[p].by \in Users /\ request'[p].who \in Users /\ request'[p].id \in Ids
<1>1. request' = [request EXCEPT ![q].at = place] /\ request[q] \in Request
  BY DEF Goes, Typed
<1>2. [request[q] EXCEPT !.at = place] \in Request
  BY <1>1 DEF Request
<1> QED BY <1>1, <1>2 DEF Typed, Named, At, Request

LEMMA Assemble ==
  ASSUME MemberInv, NEW q, Respects(q), Typed', Named', GoneIsEmpty', OneOwner', Answered',
         q \in Requests => Holds(q)' /\ DecidedOn(q)'
  PROVE  MemberInv'
  BY OthersHold DEF MemberInv

LEMMA SameOwners ==
  ASSUME MemberInv, UNCHANGED <<tier, holder, crossed>> PROVE GoneIsEmpty' /\ OneOwner'
  BY DEF MemberInv, GoneIsEmpty, OneOwner

LEMMA SameAnswers ==
  ASSUME MemberInv, UNCHANGED <<invite, sent, ended, redeemed>> PROVE Answered'
  BY DEF MemberInv, Answered

\* A request that only reads and moves on, whatever it found.
LEMMA ReadStep ==
  ASSUME MemberInv, Setting, NEW q \in Requests, Rows, Locks, History,
         request' \in [Requests -> Request],
         \A p \in Requests \ {q} : request'[p] = request[p],
         request'[q].at # "idle" => /\ request'[q].by \in Users /\ request'[q].who \in Users
                                    /\ request'[q].id \in Ids,
         Holds(q)', DecidedOn(q)'
  PROVE  MemberInv'
<1>1. Typed'
  BY DEF MemberInv, Typed, Rows, Locks, History
<1>2. Named'
  BY DEF MemberInv, Named, Rows, At
<1>3. Respects(q)
  BY DEF Respects, Rows, Locks
<1>4. GoneIsEmpty' /\ OneOwner' /\ Answered'
  BY SameOwners, SameAnswers DEF Rows, History
<1> QED BY <1>1, <1>2, <1>3, <1>4, Assemble

LEMMA AnswerStep ==
  ASSUME MemberInv, Setting, NEW q \in Requests, Answers(q) PROVE MemberInv'
<1>1. /\ request' \in [Requests -> Request] /\ request'[q] = Idle
      /\ \A p \in Requests \ {q} : request'[p] = request[p]
  BY EndsTyped DEF Answers, MemberInv
<1>2. request'[q].at = "idle"
  BY <1>1 DEF Idle
<1> QED BY <1>1, <1>2, IdleHolds, ReadStep DEF Answers

LEMMA RollbackStep ==
  ASSUME MemberInv, Setting, NEW q \in Requests, Rollback(q) PROVE MemberInv'
<1>1. /\ request' \in [Requests -> Request] /\ request'[q] = Idle
      /\ \A p \in Requests \ {q} : request'[p] = request[p]
      /\ \A p \in Requests : request'[p].at # "idle" =>
              request'[p].by \in Users /\ request'[p].who \in Users /\ request'[p].id \in Ids
  BY EndsTyped DEF Rollback, MemberInv
<1>2. /\ \A u \in Users : rowLock[u] \in Requests \ {q} => rowLock'[u] = rowLock[u]
      /\ \A i \in Ids : invLock[i] \in Requests \ {q} => invLock'[i] = invLock[i]
      /\ rowLock' \in [Users -> Requests \union {None}]
      /\ invLock' \in [Ids -> Requests \union {None}]
  BY UnlockRespects DEF Rollback, MemberInv
<1>3. Typed'
  BY <1>1, <1>2 DEF MemberInv, Typed, Rollback, Rows, History
<1>4. Named'
  BY <1>1 DEF MemberInv, Named, Rollback, Rows, At
<1>5. Respects(q)
  BY <1>1, <1>2 DEF Respects, Rollback, Rows
<1>6. GoneIsEmpty' /\ OneOwner' /\ Answered'
  BY SameOwners, SameAnswers DEF Rollback, Rows, History
<1> QED BY <1>1, <1>3, <1>4, <1>5, <1>6, IdleHolds, Assemble

\* A request that enters.
LEMMA EnterStep ==
  ASSUME MemberInv, Setting, NEW q \in Requests, Enter(q) \/ Open(q) PROVE MemberInv'
<1>1. Rows /\ Locks /\ History
  BY DEF Enter, Open
<1>2. CASE Enter(q)
  <2>1. PICK op \in Ops \ {"decline", "dismiss", "accept"},
             by \in account, who \in Users, id \in Ids, want \in Tiers :
          /\ tier[by] \in AllowedTiers(op)
          /\ op \in {"revoke", "resend", "delete"} \/ id = 1
          /\ op \in {"invite", "patch"} \/ want = "developer"
          /\ op = "invite" => want \in Invitable
          /\ op \in {"invite", "patch", "transfer", "remove"} \/ who = by
          /\ op \in {"invite", "remove", "transfer"} => who # by
          /\ op = "leave" => tier[by] # "owner"
          /\ op \in {"invite", "resend"} => sent + Cardinality(Writing) < NumIds
          /\ request' = [request EXCEPT ![q] =
               [Idle EXCEPT !.at = "entered", !.op = op, !.by = by, !.who = who,
                            !.id = id, !.want = want, !.mine = tier[by]]]
    BY <1>2, Zenon DEF Enter
  <2> DEFINE new == [Idle EXCEPT !.at = "entered", !.op = op, !.by = by, !.who = who,
                                 !.id = id, !.want = want, !.mine = tier[by]]
  <2>2. by \in Users /\ tier[by] \in Tiers \union {"none"} /\ Typed
    BY DEF MemberInv, Typed
  <2>3. request' = [request EXCEPT ![q] = new]
    BY <2>1, Zenon
  <2>4. /\ new \in Request /\ new.at = "entered" /\ new.op = op /\ new.by = by
        /\ new.who = who /\ new.id = id /\ new.mine = tier[by]
    <3>1. op \in AllOps /\ id \in 0..NumIds /\ Idle \in Request
      BY IdleTyped DEF Setting, Ids
    <3> QED BY <2>2, <3>1 DEF Request
  <2> HIDE DEF new
  <2>5. new.mine \in AllowedTiers(new.op)
    BY <2>1, <2>4
  <2>6. request' \in [Requests -> Request] /\ request'[q] = new
        /\ \A p \in Requests \ {q} : request'[p] = request[p]
    BY <2>2, <2>3, <2>4 DEF Typed
  <2>7. Holds(q)'
    BY <2>1, <2>4, <2>6 DEF Holds
  <2>8. DecidedOn(q)'
    BY <2>1, <2>4, <2>5, <2>6 DEF DecidedOn, AllowedTiers
  <2>9. request'[q].by \in Users /\ request'[q].who \in Users /\ request'[q].id \in Ids
    BY <2>2, <2>4, <2>6
  <2> QED BY <1>1, <2>6, <2>7, <2>8, <2>9, ReadStep
<1>3. CASE Open(q)
  <2>1. PICK op \in Ops \intersect {"decline", "dismiss", "accept"}, i \in Ids :
          /\ invite[i].status # "absent"
          /\ request' = [request EXCEPT ![q] =
               [Idle EXCEPT !.at = "entered", !.op = op, !.by = invite[i].email,
                            !.who = invite[i].email, !.id = i]]
    BY <1>3 DEF Open
  <2> DEFINE new == [Idle EXCEPT !.at = "entered", !.op = op, !.by = invite[i].email,
                                 !.who = invite[i].email, !.id = i]
  <2>2. invite[i].email \in Users /\ Typed
    BY <2>1 DEF MemberInv, Named
  <2>3. request' = [request EXCEPT ![q] = new]
    BY <2>1, Zenon
  <2>4. /\ new \in Request /\ new.at = "entered" /\ new.op = op
        /\ new.by \in Users /\ new.who \in Users /\ new.id \in Ids
    <3>1. op \in AllOps /\ i \in 0..NumIds /\ Idle \in Request
      BY IdleTyped DEF Setting, Ids
    <3> QED BY <2>2, <3>1 DEF Request
  <2> HIDE DEF new
  <2>5. request' \in [Requests -> Request] /\ request'[q] = new
        /\ \A p \in Requests \ {q} : request'[p] = request[p]
    BY <2>2, <2>3, <2>4 DEF Typed
  <2>6. Holds(q)' /\ DecidedOn(q)'
    BY <2>4, <2>5 DEF Holds, DecidedOn
  <2>7. request'[q].by \in Users /\ request'[q].who \in Users /\ request'[q].id \in Ids
    BY <2>4, <2>5
  <2> QED BY <1>1, <2>5, <2>6, <2>7, ReadStep
<1> QED BY <1>2, <1>3

\* A request that has read and goes on with what it read.
LEMMA CheckStep ==
  ASSUME MemberInv, Setting, NEW q \in Requests,
         \/ InviteCheck(q) \/ ResendCheck(q) \/ DeadCheck(q) \/ DeclineCheck(q)
         \/ PatchCheck(q) \/ RemoveCheck(q) \/ LeaveCheck(q)
  PROVE  MemberInv'
<1> DEFINE r == request[q]
<1>1. /\ r \in Request /\ ~At(q, "idle") /\ r.at = "entered" /\ Typed /\ Named
      /\ r.by \in Users /\ r.who \in Users /\ r.id \in Ids
      /\ Holds(q) /\ DecidedOn(q)
  BY DEF MemberInv, Typed, Named, At, InviteCheck, ResendCheck, DeadCheck, DeclineCheck,
         PatchCheck, RemoveCheck, LeaveCheck
<1>2. CASE Answers(q)
  BY <1>2, AnswerStep
<1>3. CASE Goes(q, "decided") /\ Rows /\ Locks /\ History
           /\ r.op \in {"invite", "delete", "dismiss", "decline"}
  <2>1. /\ request' \in [Requests -> Request]
        /\ request'[q] = [request[q] EXCEPT !.at = "decided"]
        /\ \A p \in Requests \ {q} : request'[p] = request[p]
        /\ \A p \in Requests : request'[p].at # "idle" =>
              request'[p].by \in Users /\ request'[p].who \in Users /\ request'[p].id \in Ids
    BY <1>1, <1>3, GoesTyped
  <2>2. request'[q].at = "decided" /\ request'[q].op = r.op
    BY <1>1, <2>1 DEF Request
  <2>3. Holds(q)' /\ DecidedOn(q)'
    BY <1>3, <2>2 DEF Holds, DecidedOn
  <2> QED BY <1>3, <2>1, <2>3, ReadStep
<1>4. CASE ResendCheck(q) /\ ~Answers(q)
  <2> DEFINE new == [r EXCEPT !.at = "decided", !.who = invite[r.id].email,
                              !.want = invite[r.id].tier]
  <2>1. request' = [request EXCEPT ![q] = new] /\ Rows /\ Locks /\ History
        /\ invite[r.id].status # "absent" /\ r.op = "resend"
    <3>1. request' = [request EXCEPT ![q].at = "decided", ![q].who = invite[r.id].email,
                                     ![q].want = invite[r.id].tier]
      BY <1>4 DEF ResendCheck
    <3>2. request \in [Requests -> Request]
      BY <1>1 DEF Typed
    <3> QED BY <1>1, <1>4, <3>1, <3>2 DEF ResendCheck, Request
  <2>2. invite[r.id].email \in Users /\ invite[r.id].tier \in Tiers
    BY <1>1, <2>1 DEF Named, Typed, Invitation
  <2>3. new \in Request /\ new.at = "decided" /\ new.op = "resend"
        /\ new.by \in Users /\ new.who \in Users /\ new.id \in Ids
    BY <1>1, <2>1, <2>2 DEF Request
  <2> HIDE DEF new
  <2>4. request' \in [Requests -> Request] /\ request'[q] = new
        /\ \A p \in Requests \ {q} : request'[p] = request[p]
    BY <1>1, <2>1, <2>3 DEF Typed
  <2>5. Holds(q)' /\ DecidedOn(q)'
    BY <2>3, <2>4 DEF Holds, DecidedOn
  <2> QED BY <2>1, <2>3, <2>4, <2>5, ReadStep
<1>5. ASSUME NEW target \in Tiers \union {"none"},
             request' = [request EXCEPT ![q].at = "decided", ![q].seen = target],
             Rows, Locks, History,
             r.op = "patch" => MayPatch(r, target),
             r.op = "remove" => target \notin {"none", "owner"},
             r.op = "leave" => target = r.mine, r.op \in {"patch", "remove", "leave"}
      PROVE  MemberInv'
  <2> DEFINE new == [r EXCEPT !.at = "decided", !.seen = target]
  <2>1. request' = [request EXCEPT ![q] = new]
    <3>1. request \in [Requests -> Request]
      BY <1>1 DEF Typed
    <3> QED BY <1>1, <1>5, <3>1 DEF Request
  <2>2. new \in Request /\ new.at = "decided" /\ new.seen = target /\ new.op = r.op
        /\ new.by = r.by /\ new.who = r.who /\ new.id = r.id /\ new.mine = r.mine
        /\ new.want = r.want
    BY <1>1 DEF Request
  <2> HIDE DEF new
  <2>3. request' \in [Requests -> Request] /\ request'[q] = new
        /\ \A p \in Requests \ {q} : request'[p] = request[p]
    BY <1>1, <2>1, <2>2 DEF Typed
  <2>4. Holds(q)'
    BY <1>5, <2>2, <2>3 DEF Holds
  <2>5. DecidedOn(q)'
    BY <1>1, <1>5, <2>2, <2>3 DEF DecidedOn, MayPatch
  <2>6. request'[q].by \in Users /\ request'[q].who \in Users /\ request'[q].id \in Ids
    BY <1>1, <2>2, <2>3
  <2> QED BY <1>5, <2>3, <2>4, <2>5, <2>6, ReadStep
<1>6. tier[r.who] \in Tiers \union {"none"} /\ r.mine \in Tiers \union {"none"}
  BY <1>1 DEF Typed, Request
<1>7. CASE PatchCheck(q) \/ RemoveCheck(q) \/ LeaveCheck(q)
  BY <1>2, <1>5, <1>6, <1>7 DEF PatchCheck, RemoveCheck, LeaveCheck
<1> QED BY <1>2, <1>3, <1>4, <1>7 DEF InviteCheck, DeadCheck, DeclineCheck, ResendCheck

\* Where a request is, and what it may rely on.
LEMMA Caller ==
  ASSUME MemberInv, NEW q \in Requests, ~At(q, "idle")
  PROVE  /\ request[q] \in Request /\ request[q].by \in Users /\ request[q].who \in Users
         /\ request[q].id \in Ids /\ Holds(q) /\ DecidedOn(q) /\ Typed /\ Named
  BY DEF MemberInv, Typed, Named

\* A step that is done with its request, or moves it on to "cleared".
Done(q) == Ends(q) \/ Goes(q, "cleared")

LEMMA DoneTyped ==
  ASSUME MemberInv, Setting, NEW q \in Requests, At(q, "decided") \/ At(q, "entered") \/ At(q, "cleared"),
         Done(q)
  PROVE  /\ request' \in [Requests -> Request]
         /\ \A p \in Requests \ {q} : request'[p] = request[p]
         /\ \A p \in Requests : request'[p].at # "idle" =>
              request'[p].by \in Users /\ request'[p].who \in Users /\ request'[p].id \in Ids
         /\ Holds(q)' /\ DecidedOn(q)'
<1>1. ~At(q, "idle") /\ request[q] \in Request /\ Holds(q) /\ DecidedOn(q) /\ Typed /\ Named
  BY Caller DEF At
<1>2. CASE Ends(q)
  BY <1>1, <1>2, EndsTyped, IdleHolds
<1>3. CASE Goes(q, "cleared")
  <2>1. /\ request' \in [Requests -> Request]
        /\ request'[q] = [request[q] EXCEPT !.at = "cleared"]
        /\ \A p \in Requests \ {q} : request'[p] = request[p]
        /\ \A p \in Requests : request'[p].at # "idle" =>
              request'[p].by \in Users /\ request'[p].who \in Users /\ request'[p].id \in Ids
    BY <1>1, <1>3, GoesTyped
  <2>2. /\ request'[q].at = "cleared" /\ request'[q].op = request[q].op
        /\ request'[q].who = request[q].who /\ request'[q].by = request[q].by
        /\ request'[q].mine = request[q].mine
    BY <1>1, <2>1 DEF Request
  <2>3. Holds(q)' /\ DecidedOn(q)'
    BY <1>1, <2>2 DEF Holds, DecidedOn, At
  <2> QED BY <2>1, <2>3
<1> QED BY <1>2, <1>3 DEF Done

\* Steps that write the invitations outside a transaction: a row whose lock is held stays.
LEMMA InviteStep ==
  ASSUME MemberInv, Setting, NEW q \in Requests, Done(q),
         At(q, "decided") \/ At(q, "entered") \/ At(q, "cleared"),
         UNCHANGED <<tier, holder, account, crossed>>, Locks,
         invite' \in [Ids -> Invitation], sent' \in Nat, ended' \subseteq Ids, redeemed' \subseteq Ids,
         \A i \in Ids : invite'[i].status # "absent" => invite'[i].email \in Users,
         \A i \in Ids : invLock[i] # None /\ invite[i].status = "pending" => invite'[i] = invite[i],
         Answered'
  PROVE  MemberInv'
<1>1. /\ request' \in [Requests -> Request]
      /\ \A p \in Requests \ {q} : request'[p] = request[p]
      /\ \A p \in Requests : request'[p].at # "idle" =>
           request'[p].by \in Users /\ request'[p].who \in Users /\ request'[p].id \in Ids
      /\ Holds(q)' /\ DecidedOn(q)'
  BY DoneTyped
<1>2. Typed' /\ Named'
  BY <1>1 DEF MemberInv, Typed, Named, Locks, At
<1>3. Respects(q)
  BY <1>1 DEF Respects, Locks, Setting
<1>4. GoneIsEmpty' /\ OneOwner'
  BY SameOwners
<1> QED BY <1>1, <1>2, <1>3, <1>4, Assemble

LEMMA NoInviteTyped == Setting => NoInvite \in Invitation /\ NoInvite.status = "absent"
  BY DEF NoInvite, Invitation, Setting, Tiers

\* Every row of an address goes, none of them locked.
LEMMA ClearStep ==
  ASSUME MemberInv, Setting, NEW q \in Requests, Clear(q) \/ DeleteHistory(q) PROVE MemberInv'
<1> DEFINE r == request[q]
<1>1. /\ Done(q) /\ (At(q, "decided") \/ At(q, "cleared"))
      /\ UNCHANGED <<tier, holder, account>> /\ Locks /\ History
      /\ \A i \in Of(r.who) : invLock[i] = None
      /\ invite' = [i \in Ids |-> IF i \in Of(r.who) THEN NoInvite ELSE invite[i]]
  BY DEF Clear, DeleteHistory, Done
<1>2. Typed /\ Named /\ Answered
  BY DEF MemberInv
<1>3. invite' \in [Ids -> Invitation]
  BY <1>1, <1>2, NoInviteTyped DEF Typed
<1>4. \A i \in Ids : invite'[i].status # "absent" => invite'[i] = invite[i]
  BY <1>1, NoInviteTyped
<1>5. \A i \in Ids : invite'[i].status # "absent" => invite'[i].email \in Users
  BY <1>2, <1>4 DEF Named
<1>6. \A i \in Ids : invLock[i] # None => invite'[i] = invite[i]
  BY <1>1
<1>7. Answered'
  BY <1>1, <1>2, <1>3, <1>4 DEF Answered, History, Typed
<1> QED BY <1>1, <1>2, <1>3, <1>5, <1>6, <1>7, InviteStep DEF History, Typed

LEMMA InsertStep ==
  ASSUME MemberInv, Setting, NEW q \in Requests, Insert(q) PROVE MemberInv'
<1> DEFINE r == request[q]
<1>1. At(q, "cleared") /\ Done(q) /\ Locks /\ UNCHANGED <<tier, holder, account, crossed, ended, redeemed>>
  BY DEF Insert, Done
<1>2. Typed /\ Named /\ Answered /\ r \in Request /\ r.by \in Users /\ r.who \in Users
  BY <1>1, Caller DEF At, MemberInv
<1>3. CASE UNCHANGED <<invite, sent>>
  <2>1. Answered'
    BY <1>1, <1>3, SameAnswers
  <2> QED BY <1>1, <1>2, <1>3, <2>1, InviteStep DEF Typed, Named
<1>4. CASE ~UNCHANGED <<invite, sent>>
  <2> DEFINE new == [status |-> "pending", email |-> r.who, tier |-> r.want, stale |-> FALSE,
                     by |-> r.by]
  <2>1. sent' = sent + 1 /\ invite' = [invite EXCEPT ![sent + 1] = new]
    BY <1>4 DEF Insert
  <2>2. new \in Invitation /\ new.email \in Users
    BY <1>2 DEF Invitation, Request
  <2> HIDE DEF new
  <2>3. sent \in Nat /\ invite \in [Ids -> Invitation]
    BY <1>2 DEF Typed
  <2>4. \A i \in Ids : invite'[i] = IF i = sent + 1 THEN new ELSE invite[i]
    BY <2>1, <2>3
  <2>5. invite' \in [Ids -> Invitation]
    BY <2>1, <2>2, <2>3
  <2>6. \A i \in Ids : i <= sent => i # sent + 1 /\ invite'[i] = invite[i]
    BY <2>3, <2>4 DEF Ids
  <2>7. \A i \in Ids : invite[i].status # "absent" => invite'[i] = invite[i]
    BY <1>2, <2>6 DEF Answered
  <2>8. Answered'
    <3>1. \A i \in Ids : i \in ended \union redeemed => invite'[i] = invite[i]
      BY <1>2, <2>6 DEF Answered
    <3>2. ended \subseteq Ids /\ redeemed \subseteq Ids
      BY <1>2 DEF Typed
    <3>3. \A i \in Ids : i \in ended \union redeemed \/ invite'[i].status # "absent" => i <= sent + 1
      BY <1>2, <2>3, <2>4 DEF Answered, Ids
    <3> QED BY <1>1, <1>2, <2>1, <3>1, <3>2, <3>3 DEF Answered
  <2>9. \A i \in Ids : invite'[i].status # "absent" => invite'[i].email \in Users
    BY <1>2, <2>2, <2>4 DEF Named
  <2>10. \A i \in Ids : invLock[i] # None /\ invite[i].status = "pending" => invite'[i] = invite[i]
    BY <2>7
  <2>11. sent' \in Nat /\ ended' \subseteq Ids /\ redeemed' \subseteq Ids
    BY <1>1, <1>2, <2>1 DEF Typed
  <2> QED BY <1>1, <2>5, <2>8, <2>9, <2>10, <2>11, InviteStep
<1> QED BY <1>3, <1>4

\* A revocation, a refusal: a row nobody holds ends when it is pending.
LEMMA EndStep ==
  ASSUME MemberInv, Setting, NEW q \in Requests, Revoke(q) \/ Decline(q) PROVE MemberInv'
<1> DEFINE i == request[q].id
<1>1. /\ At(q, "entered") \/ At(q, "decided")
      /\ Done(q) /\ Locks /\ UNCHANGED <<tier, holder, account, sent, crossed, redeemed>>
      /\ invLock[i] = None
      /\ \/ UNCHANGED <<invite, ended>>
         \/ /\ invite[i].status = "pending" /\ ended' = ended \union {i}
            /\ \E st \in {"revoked", "declined"} : invite' = [invite EXCEPT ![i].status = st]
  BY DEF Revoke, Decline, Done
<1>2. Typed /\ Named /\ Answered /\ i \in Ids
  BY <1>1, Caller DEF At, MemberInv
<1>3. CASE UNCHANGED <<invite, ended>>
  <2>1. Answered'
    BY <1>1, <1>3, SameAnswers
  <2> QED BY <1>1, <1>2, <1>3, <2>1, InviteStep DEF Typed, Named
<1>4. CASE ~UNCHANGED <<invite, ended>>
  <2>1. PICK st \in {"revoked", "declined"} : invite' = [invite EXCEPT ![i].status = st]
    BY <1>1, <1>4
  <2>2. invite[i].status = "pending" /\ ended' = ended \union {i} /\ invite[i] \in Invitation
    BY <1>1, <1>2, <1>4 DEF Typed
  <2> HIDE DEF i
  <2>3. /\ invite' \in [Ids -> Invitation]
        /\ invite'[i].status = st /\ invite'[i].email = invite[i].email
        /\ \A k \in Ids \ {i} : invite'[k] = invite[k]
    BY <1>2, <2>1, <2>2 DEF Typed, Invitation
  <2>4. Answered'
    BY <1>1, <1>2, <2>2, <2>3 DEF Answered, Typed
  <2>5. \A k \in Ids : invite'[k].status # "absent" => invite'[k].email \in Users
    BY <1>2, <2>2, <2>3 DEF Named
  <2>6. \A k \in Ids : invLock[k] # None /\ invite[k].status = "pending" => invite'[k] = invite[k]
    BY <1>1, <2>3
  <2>7. sent' \in Nat /\ ended' \subseteq Ids /\ redeemed' \subseteq Ids
    BY <1>1, <1>2, <2>2 DEF Typed
  <2> QED BY <1>1, <2>3, <2>4, <2>5, <2>6, <2>7, InviteStep
<1> QED BY <1>3, <1>4

LEMMA DeadStep ==
  ASSUME MemberInv, Setting, NEW q \in Requests, DeadDelete(q) PROVE MemberInv'
<1> DEFINE i == request[q].id
<1>1. /\ At(q, "decided") /\ Done(q) /\ Locks /\ History
      /\ UNCHANGED <<tier, holder, account>> /\ invLock[i] = None
      /\ invite' = invite \/ invite' = [invite EXCEPT ![i] = NoInvite]
  BY DEF DeadDelete, Done
<1>2. Typed /\ Named /\ Answered /\ i \in Ids
  BY <1>1, Caller DEF At, MemberInv
<1> HIDE DEF i
<1>3. /\ invite' \in [Ids -> Invitation]
      /\ \A k \in Ids : invite'[k] = invite[k] \/ (k = i /\ invite'[k].status = "absent")
  BY <1>1, <1>2, NoInviteTyped DEF Typed
<1>4. Answered'
  BY <1>1, <1>2, <1>3 DEF Answered, History, Typed
<1>5. \A k \in Ids : invite'[k].status # "absent" => invite'[k].email \in Users
  BY <1>2, <1>3 DEF Named
<1>6. \A k \in Ids : invLock[k] # None /\ invite[k].status = "pending" => invite'[k] = invite[k]
  BY <1>1, <1>3
<1> QED BY <1>1, <1>2, <1>3, <1>4, <1>5, <1>6, InviteStep DEF History, Typed

-----------------------------------------------------------------------------
(* Transactions *)

LEMMA AcceptLockStep ==
  ASSUME MemberInv, Setting, NEW q \in Requests, AcceptLock(q) PROVE MemberInv'
<1> DEFINE i == request[q].id
<1>1. /\ ~At(q, "idle") /\ At(q, "entered") /\ request[q].op = "accept"
      /\ request[q] \in Request /\ i \in Ids /\ Typed /\ Named /\ Holds(q) /\ DecidedOn(q)
  BY Caller DEF AcceptLock, At
<1>2. CASE Answers(q)
  BY <1>2, AnswerStep
<1>3. CASE ~Answers(q)
  <2>1. /\ Live(i) /\ invite[i].tier \in Invitable /\ invLock[i] = None
        /\ invLock' = [invLock EXCEPT ![i] = q]
        /\ Goes(q, "locked") /\ Rows /\ History /\ UNCHANGED rowLock
    BY <1>3 DEF AcceptLock
  <2>2. /\ request' \in [Requests -> Request]
        /\ request'[q] = [request[q] EXCEPT !.at = "locked"]
        /\ \A p \in Requests \ {q} : request'[p] = request[p]
        /\ \A p \in Requests : request'[p].at # "idle" =>
              request'[p].by \in Users /\ request'[p].who \in Users /\ request'[p].id \in Ids
    BY <1>1, <2>1, GoesTyped
  <2>3. request'[q].at = "locked" /\ request'[q].op = "accept" /\ request'[q].id = i
    BY <1>1, <2>2 DEF Request
  <2> HIDE DEF i
  <2>4. invLock' \in [Ids -> Requests \union {None}] /\ invLock'[i] = q
        /\ \A k \in Ids \ {i} : invLock'[k] = invLock[k]
    BY <1>1, <2>1 DEF Typed
  <2>5. Typed' /\ Named'
    BY <1>1, <2>1, <2>2, <2>4 DEF Typed, Named, Rows, History, At
  <2>6. Respects(q)
    BY <2>1, <2>2, <2>4 DEF Respects, Rows, Setting
  <2>7. Holds(q)' /\ DecidedOn(q)'
    BY <2>1, <2>3, <2>4 DEF Holds, DecidedOn, Live, Rows
  <2>8. GoneIsEmpty' /\ OneOwner' /\ Answered'
    BY <2>1, SameOwners, SameAnswers DEF Rows, History
  <2> QED BY <2>5, <2>6, <2>7, <2>8, Assemble
<1> QED BY <1>2, <1>3

LEMMA RedeemStep ==
  ASSUME MemberInv, Setting, NEW q \in Requests, Redeem(q) PROVE MemberInv'
<1> DEFINE i == request[q].id
           u == request[q].by
<1>1. /\ ~At(q, "idle") /\ request[q].at = "locked" /\ request[q].op = "accept"
      /\ i \in Ids /\ u \in Users /\ Typed /\ Named /\ Holds(q) /\ Answered
      /\ GoneIsEmpty /\ OneOwner
  BY Caller DEF Redeem, At, MemberInv
<1>2. CASE Rollback(q)
  BY <1>2, RollbackStep
<1>3. CASE ~Rollback(q)
  <2>1. /\ ~IsMember(u) /\ holder # None
        /\ tier' = [tier EXCEPT ![u] = invite[i].tier]
        /\ invite' = [invite EXCEPT ![i] = NoInvite]
        /\ redeemed' = redeemed \union {i}
        /\ Unlock(q) /\ Ends(q)
        /\ UNCHANGED <<holder, account, sent, crossed, ended>>
    BY <1>3 DEF Redeem
  <2>2. invLock[i] = q /\ invite[i].status = "pending" /\ invite[i].tier \in Invitable
    BY <1>1 DEF Holds
  <2> HIDE DEF i, u
  <2>3. /\ request' \in [Requests -> Request] /\ request'[q] = Idle
        /\ \A p \in Requests \ {q} : request'[p] = request[p]
        /\ \A p \in Requests : request'[p].at # "idle" =>
              request'[p].by \in Users /\ request'[p].who \in Users /\ request'[p].id \in Ids
    BY <1>1, <2>1, EndsTyped
  <2>4. /\ \A v \in Users : rowLock[v] \in Requests \ {q} => rowLock'[v] = rowLock[v]
        /\ \A k \in Ids : invLock[k] \in Requests \ {q} => invLock'[k] = invLock[k]
        /\ rowLock' \in [Users -> Requests \union {None}]
        /\ invLock' \in [Ids -> Requests \union {None}]
    BY <1>1, <2>1, UnlockRespects
  <2>5. /\ tier' \in [Users -> Tiers \union {"none"}] /\ tier'[u] \in Invitable
        /\ tier[u] = "none" /\ \A v \in Users \ {u} : tier'[v] = tier[v]
    BY <1>1, <2>1, <2>2 DEF Typed, IsMember, Invitable, Tiers
  <2>6. /\ invite' \in [Ids -> Invitation] /\ invite'[i].status = "absent"
        /\ \A k \in Ids \ {i} : invite'[k] = invite[k]
    BY <1>1, <2>1, NoInviteTyped DEF Typed
  <2>7. Typed'
    BY <1>1, <2>1, <2>3, <2>4, <2>5, <2>6 DEF Typed
  <2>8. Named'
    BY <1>1, <2>3, <2>6 DEF Named, At
  <2>9. Respects(q)
    BY <2>2, <2>3, <2>4, <2>5, <2>6 DEF Respects
  <2>10. GoneIsEmpty' /\ OneOwner'
    BY <1>1, <2>1, <2>5 DEF GoneIsEmpty, OneOwner, Invitable
  <2>11. Answered'
    BY <1>1, <2>1, <2>2, <2>6 DEF Answered, Typed
  <2> QED BY <2>3, <2>7, <2>8, <2>9, <2>10, <2>11, IdleHolds, Assemble
<1> QED BY <1>2, <1>3

LEMMA TransferLockStep ==
  ASSUME MemberInv, Setting, NEW q \in Requests, TransferLock(q) PROVE MemberInv'
<1> DEFINE u == request[q].who
<1>1. /\ ~At(q, "idle") /\ request[q].at = "entered" /\ request[q].op = "transfer"
      /\ request[q] \in Request /\ u \in Users /\ Typed /\ Named /\ Holds(q) /\ DecidedOn(q)
  BY Caller DEF TransferLock, At
<1>2. CASE Answers(q)
  BY <1>2, AnswerStep
<1>3. CASE ~Answers(q)
  <2>1. /\ rowLock[u] = None /\ rowLock' = [rowLock EXCEPT ![u] = q]
        /\ Goes(q, "locked") /\ Rows /\ History /\ UNCHANGED invLock
    BY <1>3 DEF TransferLock
  <2>2. /\ request' \in [Requests -> Request]
        /\ request'[q] = [request[q] EXCEPT !.at = "locked"]
        /\ \A p \in Requests \ {q} : request'[p] = request[p]
        /\ \A p \in Requests : request'[p].at # "idle" =>
              request'[p].by \in Users /\ request'[p].who \in Users /\ request'[p].id \in Ids
    BY <1>1, <2>1, GoesTyped
  <2>3. request'[q].at = "locked" /\ request'[q].op = "transfer" /\ request'[q].who = u
        /\ request'[q].by = request[q].by /\ u # request[q].by
    BY <1>1, <2>2 DEF Request, Holds
  <2> HIDE DEF u
  <2>4. rowLock' \in [Users -> Requests \union {None}] /\ rowLock'[u] = q
        /\ \A v \in Users \ {u} : rowLock'[v] = rowLock[v]
    BY <1>1, <2>1 DEF Typed
  <2>5. Typed' /\ Named'
    BY <1>1, <2>1, <2>2, <2>4 DEF Typed, Named, Rows, History, At
  <2>6. Respects(q)
    BY <2>1, <2>2, <2>4 DEF Respects, Rows, Setting
  <2>7. Holds(q)' /\ DecidedOn(q)'
    BY <2>3, <2>4 DEF Holds, DecidedOn
  <2>8. GoneIsEmpty' /\ OneOwner' /\ Answered'
    BY <2>1, SameOwners, SameAnswers DEF Rows, History
  <2> QED BY <2>5, <2>6, <2>7, <2>8, Assemble
<1> QED BY <1>2, <1>3

LEMMA DemoteStep ==
  ASSUME MemberInv, Setting, NEW q \in Requests, Demote(q) PROVE MemberInv'
<1> DEFINE u == request[q].by
<1>1. /\ ~At(q, "idle") /\ request[q].at = "locked" /\ request[q].op = "transfer"
      /\ request[q] \in Request /\ u \in Users /\ Typed /\ Named /\ Holds(q) /\ DecidedOn(q)
      /\ request[q].who \in Users
  BY Caller DEF Demote, At
<1>2. CASE Rollback(q)
  BY <1>2, RollbackStep
<1>3. CASE ~Rollback(q)
  <2>1. /\ rowLock[u] = None /\ rowLock' = [rowLock EXCEPT ![u] = q] /\ tier[u] = "owner"
        /\ Goes(q, "demoted") /\ Rows /\ History /\ UNCHANGED invLock
    BY <1>3 DEF Demote
  <2>2. /\ request' \in [Requests -> Request]
        /\ request'[q] = [request[q] EXCEPT !.at = "demoted"]
        /\ \A p \in Requests \ {q} : request'[p] = request[p]
        /\ \A p \in Requests : request'[p].at # "idle" =>
              request'[p].by \in Users /\ request'[p].who \in Users /\ request'[p].id \in Ids
    BY <1>1, <2>1, GoesTyped
  <2>3. /\ request'[q].at = "demoted" /\ request'[q].op = "transfer" /\ request'[q].by = u
        /\ request'[q].who = request[q].who /\ u # request[q].who
        /\ rowLock[request[q].who] = q
    BY <1>1, <2>2 DEF Request, Holds
  <2> HIDE DEF u
  <2>4. rowLock' \in [Users -> Requests \union {None}] /\ rowLock'[u] = q
        /\ \A v \in Users \ {u} : rowLock'[v] = rowLock[v]
    BY <1>1, <2>1 DEF Typed
  <2>5. Typed' /\ Named'
    BY <1>1, <2>1, <2>2, <2>4 DEF Typed, Named, Rows, History, At
  <2>6. Respects(q)
    BY <2>1, <2>2, <2>4 DEF Respects, Rows, Setting
  <2>7. Holds(q)' /\ DecidedOn(q)'
    BY <1>1, <2>1, <2>3, <2>4 DEF Holds, DecidedOn, Rows
  <2>8. GoneIsEmpty' /\ OneOwner' /\ Answered'
    BY <2>1, SameOwners, SameAnswers DEF Rows, History
  <2> QED BY <2>5, <2>6, <2>7, <2>8, Assemble
<1> QED BY <1>2, <1>3

LEMMA PromoteStep ==
  ASSUME MemberInv, Setting, NEW q \in Requests, Promote(q) PROVE MemberInv'
<1> DEFINE u == request[q].by
           v == request[q].who
<1>1. /\ ~At(q, "idle") /\ request[q].at = "demoted"
      /\ u \in Users /\ v \in Users /\ u # v /\ tier[u] = "owner"
      /\ rowLock[u] = q /\ rowLock[v] = q
      /\ Typed /\ Named /\ GoneIsEmpty /\ OneOwner
  BY Caller DEF Promote, At, Holds, MemberInv
<1>2. /\ tier' = [tier EXCEPT ![u] = "admin", ![v] = "owner"] /\ holder' = v
      /\ Unlock(q) /\ Ends(q) /\ UNCHANGED <<account, invite>> /\ History
  BY DEF Promote
<1> HIDE DEF u, v
<1>3. /\ request' \in [Requests -> Request] /\ request'[q] = Idle
      /\ \A p \in Requests \ {q} : request'[p] = request[p]
      /\ \A p \in Requests : request'[p].at # "idle" =>
            request'[p].by \in Users /\ request'[p].who \in Users /\ request'[p].id \in Ids
  BY <1>1, <1>2, EndsTyped
<1>4. /\ \A x \in Users : rowLock[x] \in Requests \ {q} => rowLock'[x] = rowLock[x]
      /\ \A k \in Ids : invLock[k] \in Requests \ {q} => invLock'[k] = invLock[k]
      /\ rowLock' \in [Users -> Requests \union {None}]
      /\ invLock' \in [Ids -> Requests \union {None}]
  BY <1>1, <1>2, UnlockRespects
<1>5. /\ tier' \in [Users -> Tiers \union {"none"}] /\ tier'[u] = "admin" /\ tier'[v] = "owner"
      /\ \A x \in Users \ {u, v} : tier'[x] = tier[x]
  BY <1>1, <1>2 DEF Typed, Tiers
<1>6. Typed' /\ Named'
  BY <1>1, <1>2, <1>3, <1>4, <1>5 DEF Typed, Named, History, At
<1>7. Respects(q)
  BY <1>1, <1>2, <1>3, <1>4, <1>5 DEF Respects
<1>8. holder # None
  BY <1>1 DEF GoneIsEmpty
<1>9. GoneIsEmpty' /\ OneOwner'
  BY <1>1, <1>2, <1>5, <1>8 DEF GoneIsEmpty, OneOwner, Setting, History
<1>10. Answered'
  BY <1>2, SameAnswers DEF History
<1> QED BY <1>3, <1>6, <1>7, <1>9, <1>10, IdleHolds, Assemble

-----------------------------------------------------------------------------
(* Writes without a guard *)

\* Patch and DeleteMember write a row that nobody holds.
LEMMA RankStep ==
  ASSUME MemberInv, Setting, NEW q \in Requests, Patch(q) \/ DeleteMember(q) PROVE MemberInv'
<1> DEFINE r == request[q]
<1>1. /\ ~At(q, "idle") /\ At(q, "decided") /\ r.at = "decided" /\ r \in Request
      /\ r.by \in Users /\ r.who \in Users /\ Typed /\ Named /\ DecidedOn(q)
      /\ GoneIsEmpty /\ OneOwner
  BY Caller DEF Patch, DeleteMember, At, MemberInv
<1>2. /\ Done(q) /\ Locks /\ Crosses(r) /\ rowLock[r.who] = None
      /\ UNCHANGED <<holder, account, invite, sent, ended, redeemed>>
  BY DEF Patch, DeleteMember, Done
<1>3. /\ request' \in [Requests -> Request]
      /\ \A p \in Requests \ {q} : request'[p] = request[p]
      /\ \A p \in Requests : request'[p].at # "idle" =>
           request'[p].by \in Users /\ request'[p].who \in Users /\ request'[p].id \in Ids
      /\ Holds(q)' /\ DecidedOn(q)'
  BY <1>1, <1>2, DoneTyped
<1>4. PICK t \in Tiers \union {"none"} :
        /\ tier' = [tier EXCEPT ![r.who] = t]
        /\ ~IsMember(r.who) => t = "none"
        /\ IsMember(r.who) /\ r.op = "patch" => t = r.want
        /\ r.op # "patch" => t = "none"
        /\ r.op \in {"patch", "remove", "leave"}
  <2>1. CASE Patch(q)
    <3>1. CASE IsMember(r.who)
      BY <1>1, <2>1, <3>1 DEF Patch, Request
    <3>2. CASE ~IsMember(r.who)
      <4>1. tier[r.who] = "none" /\ tier' = tier /\ r.op = "patch"
        BY <2>1, <3>2 DEF Patch, IsMember
      <4>2. tier' = [tier EXCEPT ![r.who] = "none"]
        BY <1>1, <4>1 DEF Typed
      <4> QED BY <3>2, <4>1, <4>2
    <3> QED BY <3>1, <3>2
  <2>2. CASE DeleteMember(q)
    BY <2>2 DEF DeleteMember
  <2> QED BY <2>1, <2>2
<1>5. /\ tier' \in [Users -> Tiers \union {"none"}] /\ tier'[r.who] = t
      /\ \A x \in Users \ {r.who} : tier'[x] = tier[x]
  BY <1>1, <1>4 DEF Typed
<1>6. crossed' \in BOOLEAN
  BY <1>1, <1>2 DEF Crosses, Typed
<1>7. Typed' /\ Named'
  BY <1>1, <1>2, <1>3, <1>5, <1>6 DEF Typed, Named, Locks, At
<1>8. Respects(q)
  BY <1>1, <1>2, <1>3, <1>5 DEF Respects, Locks, Setting
<1>9. GoneIsEmpty'
  BY <1>1, <1>2, <1>4, <1>5 DEF GoneIsEmpty, IsMember
<1>10. OneOwner'
  <2> SUFFICES ASSUME holder # None, ~crossed'
               PROVE  \A x \in Users : tier'[x] = "owner" <=> x = holder
    BY <1>2 DEF OneOwner
  <2>1. /\ ~crossed /\ \A x \in Users : tier[x] = "owner" <=> x = holder
        /\ IsMember(r.who) => tier[r.who] = r.seen /\ tier[r.by] = r.mine
    BY <1>1, <1>2 DEF Crosses, OneOwner
  <2>2. t = "owner" <=> r.who = holder
    <3>1. CASE ~IsMember(r.who)
      BY <1>1, <1>4, <2>1, <3>1 DEF IsMember
    <3>2. CASE IsMember(r.who) /\ r.op = "patch"
      <4>1. /\ MayPatch(r, r.seen) /\ r.mine \in {"owner", "admin"} /\ t = r.want
        BY <1>1, <1>4, <3>2 DEF DecidedOn
      <4> QED BY <1>1, <2>1, <3>2, <4>1 DEF MayPatch
    <3>3. CASE IsMember(r.who) /\ r.op = "remove"
      BY <1>1, <1>4, <2>1, <3>3 DEF DecidedOn
    <3>4. CASE IsMember(r.who) /\ r.op = "leave"
      BY <1>1, <1>4, <2>1, <3>4 DEF DecidedOn
    <3> QED BY <1>4, <3>1, <3>2, <3>3, <3>4
  <2> QED BY <1>1, <1>5, <2>1, <2>2
<1>11. Answered'
  BY <1>2, SameAnswers
<1> QED BY <1>3, <1>7, <1>8, <1>9, <1>10, <1>11, Assemble

-----------------------------------------------------------------------------
(* The environment *)

LEMMA DeleteAccountStep ==
  ASSUME MemberInv, Setting, NEW u \in Users, DeleteAccount(u) PROVE MemberInv'
<1>1. Typed /\ Named /\ Answered /\ GoneIsEmpty /\ OneOwner
  BY DEF MemberInv
<1>2. /\ \A v \in Users : tier'[v] = tier[v] \/ tier'[v] = "none"
      /\ tier' \in [Users -> Tiers \union {"none"}]
  BY <1>1 DEF DeleteAccount, Typed
<1>3. /\ invite' \in [Ids -> Invitation]
      /\ \A i \in Ids : invite'[i] = invite[i] \/ invite'[i].status = "absent"
  BY <1>1, NoInviteTyped DEF DeleteAccount, Typed
<1>4. holder' \in Users \union {None} /\ account' \subseteq Users
  BY <1>1 DEF DeleteAccount, Typed
<1>5. Typed' /\ Named'
  BY <1>1, <1>2, <1>3, <1>4 DEF DeleteAccount, Typed, Named, Locks, History, At
<1>6. Respects(None)
  BY DEF DeleteAccount, Respects, Locks, Setting
<1>7. GoneIsEmpty'
  BY <1>1, <1>2 DEF DeleteAccount, GoneIsEmpty, Typed
<1>8. OneOwner'
  <2> SUFFICES ASSUME holder' # None, ~crossed'
               PROVE  \A x \in Users : tier'[x] = "owner" <=> x = holder'
    BY DEF OneOwner
  <2>1. holder # u /\ holder # None /\ holder' = holder /\ ~crossed
    BY DEF DeleteAccount, History
  <2>2. \A x \in Users : tier'[x] = IF x = u THEN "none" ELSE tier[x]
    BY <2>1 DEF DeleteAccount
  <2> QED BY <1>1, <2>1, <2>2 DEF OneOwner
<1>9. Answered'
  BY <1>1, <1>3 DEF Answered, DeleteAccount, History, Typed
<1>10. None \notin Requests
  BY DEF Setting
<1> QED BY <1>5, <1>6, <1>7, <1>8, <1>9, <1>10, Assemble

LEMMA ExpireStep ==
  ASSUME MemberInv, Setting, NEW i \in Ids, Expire(i) PROVE MemberInv'
<1>1. Typed /\ Named /\ Answered
  BY DEF MemberInv
<1>2. /\ invite' \in [Ids -> Invitation]
      /\ \A k \in Ids : /\ invite'[k].status = invite[k].status
                        /\ invite'[k].email = invite[k].email /\ invite'[k].tier = invite[k].tier
  BY <1>1, ZenonT(40) DEF Expire, Typed, Invitation
<1>3. Typed' /\ Named'
  BY <1>1, <1>2 DEF Expire, Typed, Named, Locks, History, At
<1>4. Respects(None)
  BY <1>2 DEF Expire, Respects, Locks
<1>5. GoneIsEmpty' /\ OneOwner'
  BY SameOwners DEF Expire, History
<1>6. Answered'
  BY <1>1, <1>2 DEF Answered, Expire, History, Typed
<1>7. None \notin Requests
  BY DEF Setting
<1> QED BY <1>3, <1>4, <1>5, <1>6, <1>7, Assemble

-----------------------------------------------------------------------------
(* The theorems *)

LEMMA MemberInit == ASSUME Setting, Init PROVE MemberInv
<1>1. PICK o \in Users :
        /\ tier \in [Users -> Tiers \union {"none"}]
        /\ \A u \in Users : tier[u] = "owner" <=> u = o
        /\ holder = o
        /\ \E legacy \in {NoInvite} \union
               [status : {x \in {"pending"} : OldRow}, email : Users \ {o}, tier : {"owner"},
                stale : {FALSE}, by : {o}] :
             /\ invite = [i \in Ids |-> IF i = 1 THEN legacy ELSE NoInvite]
             /\ sent = IF legacy = NoInvite THEN 0 ELSE 1
  BY DEF Init
<1>2. PICK legacy \in {NoInvite} \union
             [status : {x \in {"pending"} : OldRow}, email : Users \ {o}, tier : {"owner"},
              stale : {FALSE}, by : {o}] :
        /\ invite = [i \in Ids |-> IF i = 1 THEN legacy ELSE NoInvite]
        /\ sent = IF legacy = NoInvite THEN 0 ELSE 1
  BY <1>1
<1>3. legacy \in Invitation /\ (legacy.status # "absent" => legacy.email \in Users)
  <2>1. CASE legacy = NoInvite
    BY <2>1, NoInviteTyped
  <2>2. CASE legacy \in [status : {x \in {"pending"} : OldRow}, email : Users \ {o},
                         tier : {"owner"}, stale : {FALSE}, by : {o}]
    <3>1. /\ legacy = [status |-> legacy.status, email |-> legacy.email, tier |-> legacy.tier,
                       stale |-> legacy.stale, by |-> legacy.by]
          /\ legacy.status = "pending" /\ legacy.email \in Users /\ legacy.tier \in Tiers
          /\ legacy.by \in Users
      BY <2>2 DEF Tiers
    <3>2. legacy.stale \in BOOLEAN
      BY <2>2
    <3> QED BY <3>1, <3>2 DEF Invitation
  <2> QED BY <2>1, <2>2
<1>4. invite \in [Ids -> Invitation] /\ sent \in Nat
      /\ \A i \in Ids : invite[i].status # "absent" => invite[i].email \in Users /\ i <= sent
  BY <1>2, <1>3, NoInviteTyped DEF Ids
<1>5. request = [q \in Requests |-> Idle] /\ Idle \in Request
  BY IdleTyped DEF Init
<1>6. /\ account = Users /\ rowLock = [u \in Users |-> None] /\ invLock = [i \in Ids |-> None]
      /\ crossed = FALSE /\ ended = {} /\ redeemed = {}
  BY DEF Init
<1>7. Typed
  BY <1>1, <1>4, <1>5, <1>6 DEF Typed
<1>8. Named /\ \A q \in Requests : Holds(q) /\ DecidedOn(q)
  BY <1>4, <1>5 DEF Named, At, Holds, DecidedOn, Idle
<1>9. GoneIsEmpty /\ OneOwner
  BY <1>1 DEF GoneIsEmpty, OneOwner, Setting
<1>10. Answered
  BY <1>4, <1>6 DEF Answered
<1> QED BY <1>7, <1>8, <1>9, <1>10 DEF MemberInv

LEMMA MemberStep == Setting /\ MemberInv /\ [Next]_vars => MemberInv'
<1> SUFFICES ASSUME Setting, MemberInv, [Next]_vars PROVE MemberInv'
  OBVIOUS
<1>1. CASE UNCHANGED vars
  BY <1>1 DEF vars, MemberInv, Typed, Named, Holds, DecidedOn, MayPatch, GoneIsEmpty, OneOwner,
              Answered, At
<1>2. ASSUME NEW q \in Requests, Serve(q) PROVE MemberInv'
  <2>1. CASE TransferFails(q) \/ Deadlocked(q)
    BY <2>1, RollbackStep DEF TransferFails, Deadlocked
  <2> QED BY <1>2, <2>1, CheckStep, ClearStep, InsertStep, EndStep, DeadStep, AcceptLockStep,
             RedeemStep, RankStep, TransferLockStep, DemoteStep, PromoteStep DEF Serve
<1>3. ASSUME NEW q \in Requests, Enter(q) \/ Open(q) PROVE MemberInv'
  BY <1>3, EnterStep
<1>4. ASSUME NEW q \in Requests, Die(q) PROVE MemberInv'
  BY <1>4, RollbackStep DEF Die
<1> QED BY <1>1, <1>2, <1>3, <1>4, DeleteAccountStep, ExpireStep DEF Next

LEMMA MemberInvariant == ASSUME Setting PROVE Spec => []MemberInv
<1>1. Init => MemberInv
  BY MemberInit
<1>2. MemberInv /\ [Next]_vars => MemberInv'
  BY MemberStep
<1> QED BY <1>1, <1>2, PTL DEF Spec

\* For all users, requests and invitations: the project has one owner, the one
\* projects.user_id names, whatever transfers, deaths, deadlocks, acceptances and
\* deleted accounts meet, until a PATCH, a removal or a departure lands that was
\* decided on a tier that has moved since. (members.ts:468-471)
THEOREM OwnerIsOne == ASSUME Setting PROVE Spec => []OneOwner
<1>1. MemberInv => OneOwner
  BY DEF MemberInv
<1> QED BY <1>1, MemberInvariant, PTL

\* For all users, requests and invitations: an invitation makes a member or is
\* revoked or declined, never both. (invitations.ts:102, members.ts:359)
THEOREM AnsweredIsOnce == ASSUME Setting PROVE Spec => []AnsweredOnce
<1>1. MemberInv => AnsweredOnce
  BY DEF MemberInv, Answered, AnsweredOnce
<1> QED BY <1>1, MemberInvariant, PTL

------------------------------------------------------------------------------
(* The reader *)

\* What the page and the API say in place of a package is not the name of one.
NamesApart == {Nothing, Latest, Missing, "gone"} \intersect Packages = {}

(* The marks *)

MarkTypes ==
  /\ saved \in [Packages -> SUBSET Sections] /\ made \in [Packages -> SUBSET Sections]
  /\ items \in [Packages -> SUBSET Sections]
  /\ marks \in SUBSET Sections /\ marksOf \in Packages \union {Nothing}
  /\ pending \in Save \union {NoSave} /\ puts \in SUBSET Save

\* A save that waits or is on its way holds marks of its own package.
OwnMarks(w) == w.marks \subseteq made[w.for]

\* Wherever marks are, in the table, the answer of the fetch, the page, the save that
\* waits or the saves on their way, they were made in their package; and nothing
\* waits to be saved unless the stored marks were read.
MarksInv ==
  /\ \A p \in Packages : saved[p] \subseteq made[p] /\ items[p] \subseteq made[p]
  /\ marksOf \in Packages => marks \subseteq made[marksOf]
  /\ pending # NoSave => OwnMarks(pending)
  /\ \A w \in puts : OwnMarks(w)
  /\ progress # "loaded" => pending = NoSave
  /\ ~open => progress = "off"

\* Another package on screen brings its own marks, and they alone are saved.
LEMMA MarksForKeeps ==
  ASSUME MarkTypes, MarksInv, NEW p, NEW loaded \in BOOLEAN,
         NEW stored \in [Packages -> SUBSET Sections],
         \A x \in Packages : stored[x] \subseteq made[x], MarksFor(p, loaded, stored)
  PROVE  /\ marks' \in SUBSET Sections /\ marksOf' \in Packages \union {Nothing}
         /\ pending' \in Save \union {NoSave}
         /\ marksOf' \in Packages => marks' \subseteq made[marksOf']
         /\ pending' # NoSave => pending'.marks \subseteq made[pending'.for]
         /\ ~loaded => pending' = pending
<1>1. CASE p \in Packages /\ loaded
  <2> DEFINE m == IF marksOf = p THEN marks \union stored[p] ELSE stored[p]
  <2>1. m \subseteq Sections /\ m \subseteq made[p]
    BY <1>1 DEF MarkTypes, MarksInv
  <2>2. marks' = m /\ marksOf' = p /\ pending' = [for |-> p, marks |-> m]
    BY <1>1 DEF MarksFor
  <2> HIDE DEF m
  <2>3. [for |-> p, marks |-> m] \in Save
    BY <1>1, <2>1 DEF Save
  <2> QED BY <1>1, <2>1, <2>2, <2>3
<1>2. CASE ~(p \in Packages /\ loaded)
  BY <1>2 DEF MarksFor, MarkTypes, MarksInv, OwnMarks
<1> QED BY <1>1, <1>2

\* A step that changes what is shown, or fetches, touches the marks through MarksFor only.
LEMMA FetchKeeps ==
  ASSUME MarkTypes, MarksInv, NEW p, NEW loaded \in BOOLEAN,
         NEW stored \in [Packages -> SUBSET Sections],
         \A x \in Packages : stored[x] \subseteq made[x],
         MarksFor(p, loaded, stored) \/ UNCHANGED <<marks, marksOf, pending>>,
         items' = stored \/ UNCHANGED items, UNCHANGED <<saved, made, puts>>,
         loaded <=> progress' = "loaded", progress = "loaded" => loaded,
         ~open' => progress' = "off"
  PROVE  MarkTypes' /\ MarksInv'
<1>1. /\ marks' \in SUBSET Sections /\ marksOf' \in Packages \union {Nothing}
      /\ pending' \in Save \union {NoSave}
      /\ marksOf' \in Packages => marks' \subseteq made[marksOf']
      /\ pending' # NoSave => pending'.marks \subseteq made[pending'.for]
      /\ ~loaded => pending' = pending
  <2>1. CASE MarksFor(p, loaded, stored)
    BY <2>1, MarksForKeeps
  <2>2. CASE UNCHANGED <<marks, marksOf, pending>>
    BY <2>2 DEF MarkTypes, MarksInv, OwnMarks
  <2> QED BY <2>1, <2>2
<1>2. MarkTypes'
  BY <1>1 DEF MarkTypes
<1>3. MarksInv'
  BY <1>1 DEF MarksInv, MarkTypes, OwnMarks
<1> QED BY <1>2, <1>3

\* The marks stay as they are.
LEMMA SameMarks ==
  ASSUME MarkTypes, MarksInv, UNCHANGED <<saved, made, items, marks, marksOf, pending, puts, progress, open>>
  PROVE  MarkTypes' /\ MarksInv'
  BY DEF MarkTypes, MarksInv, OwnMarks

\* An answer of the API on screen.
LEMMA ShowKeeps ==
  ASSUME MarkTypes, MarksInv, NEW p, NEW f, NEW h, Show(p, f, h),
         UNCHANGED <<saved, made, items, puts, progress, open>>
  PROVE  MarkTypes' /\ MarksInv'
<1>1. MarksFor(p, progress = "loaded", items) \/ UNCHANGED <<marks, marksOf, pending>>
  BY DEF Show
<1>2. /\ items \in [Packages -> SUBSET Sections] /\ \A x \in Packages : items[x] \subseteq made[x]
      /\ (progress = "loaded") \in BOOLEAN /\ (~open' => progress' = "off")
  BY DEF MarkTypes, MarksInv
<1> QED BY <1>1, <1>2, FetchKeeps

LEMMA MarksStep ==
  ASSUME MarkTypes, MarksInv, [ReaderNext]_readerVars PROVE MarkTypes' /\ MarksInv'
<1>1. CASE UNCHANGED readerVars
  BY <1>1, SameMarks DEF readerVars, serverVars, markVars, history
<1>2. CASE OpenReader
  <2>1. /\ UNCHANGED <<saved, made, pending, puts>> /\ progress' = "loading" /\ open' = TRUE
        /\ items' = NoMarks /\ marks' = {} /\ marksOf' = Nothing /\ ~open
    BY <1>2 DEF OpenReader, serverVars
  <2>2. pending = NoSave
    BY <2>1 DEF MarksInv
  <2> QED BY <2>1, <2>2 DEF MarkTypes, MarksInv, OwnMarks, NoMarks
<1>3. CASE Close
  <2>1. /\ UNCHANGED <<saved, made, items, marks, marksOf>> /\ progress' = "off" /\ pending' = NoSave
        /\ puts' = puts \/ (pending # NoSave /\ puts' = puts \union {pending})
    BY <1>3 DEF Close, serverVars, history, Flushed
  <2> QED BY <2>1 DEF MarkTypes, MarksInv, OwnMarks
<1>4. CASE ProgressLands
  <2>1. /\ UNCHANGED <<saved, made, puts, open>> /\ progress = "loading" /\ progress' = "loaded"
        /\ items' = saved /\ MarksFor(shown, TRUE, saved) /\ open
    BY <1>4 DEF ProgressLands, serverVars, history, MarksInv
  <2>2. saved \in [Packages -> SUBSET Sections] /\ \A x \in Packages : saved[x] \subseteq made[x]
    BY DEF MarkTypes, MarksInv
  <2> QED BY <2>1, <2>2, FetchKeeps
<1>5. CASE ProgressFails
  <2>1. /\ UNCHANGED <<saved, made, puts, open, marks, marksOf, pending>>
        /\ progress = "loading" /\ progress' = "failed" /\ items' = NoMarks
    BY <1>5 DEF ProgressFails, serverVars, history
  <2> QED BY <2>1 DEF MarkTypes, MarksInv, OwnMarks, NoMarks
<1>6. CASE LoadLands
  BY <1>6, ShowKeeps DEF LoadLands, serverVars
<1>7. CASE RolePollLands
  BY <1>7, ShowKeeps DEF RolePollLands, serverVars
<1>8. ASSUME NEW s \in Selections, PollAnswered(s) PROVE MarkTypes' /\ MarksInv'
  <2>1. CASE PollLands(s) /\ open
    BY <2>1, ShowKeeps DEF PollLands, serverVars
  <2>2. CASE PollLands(s) /\ ~open
    BY <2>2, SameMarks DEF PollLands, serverVars
  <2>3. CASE PollFails(s)
    BY <2>3, SameMarks DEF PollFails, serverVars, markVars, history
  <2> QED BY <1>8, <2>1, <2>2, <2>3 DEF PollAnswered
<1>9. ASSUME NEW x \in Sections, ToggleRead(x) PROVE MarkTypes' /\ MarksInv'
  <2> DEFINE on == x \notin marks
             m  == IF on THEN marks \union {x} ELSE marks \ {x}
  <2>1. /\ shown \in Packages /\ marksOf = shown /\ progress = "loaded" /\ open
        /\ marks' = m /\ pending' = [for |-> shown, marks |-> m]
        /\ made' = IF on THEN [made EXCEPT ![shown] = @ \union {x}] ELSE made
        /\ UNCHANGED <<saved, items, marksOf, puts, open, progress>>
    BY <1>9 DEF ToggleRead, serverVars
  <2>2. /\ made' \in [Packages -> SUBSET Sections] /\ m \subseteq Sections
        /\ \A p \in Packages : made[p] \subseteq made'[p]
        /\ m \subseteq made'[shown]
    BY <2>1 DEF MarkTypes, MarksInv
  <2> HIDE DEF m, on
  <2>3. pending' \in Save /\ pending'.for = shown /\ pending'.marks = m
    BY <2>1, <2>2 DEF Save
  <2>4. MarkTypes'
    BY <2>1, <2>2, <2>3 DEF MarkTypes
  <2>5. MarksInv'
    <3>1. \A w \in puts : w.for \in Packages
      BY DEF MarkTypes, Save
    <3> QED BY <2>1, <2>2, <2>3, <3>1 DEF MarksInv, OwnMarks
  <2> QED BY <2>4, <2>5
<1>10. CASE DebounceFires
  <2>1. /\ UNCHANGED <<saved, made, items, marks, marksOf, open, progress>> /\ pending' = NoSave
        /\ puts' = puts \/ (pending # NoSave /\ puts' = puts \union {pending})
    BY <1>10 DEF DebounceFires, serverVars, history, Flushed
  <2> QED BY <2>1 DEF MarkTypes, MarksInv, OwnMarks
<1>11. ASSUME NEW w \in puts, PutLands(w) PROVE MarkTypes' /\ MarksInv'
  <2>1. /\ UNCHANGED <<made, items, marks, marksOf, pending, open, progress>>
        /\ puts' = puts \ {w} /\ saved' = [saved EXCEPT ![w.for] = w.marks]
    BY <1>11 DEF PutLands, history
  <2>2. w \in Save /\ OwnMarks(w)
    BY DEF MarkTypes, MarksInv
  <2> QED BY <2>1, <2>2 DEF MarkTypes, MarksInv, OwnMarks, Save
<1>12. CASE UNCHANGED <<saved, made, items, marks, marksOf, pending, puts, progress, open>>
  BY <1>12, SameMarks
<1>13. CASE \/ Retry \/ LoadFails \/ PollTick \/ ArmAgain \/ RolePollTimesOut
            \/ \E s \in Selections : Select(s)
            \/ \E p \in Packages : GenerateRole(p) \/ GenerationEnds(p) \/ AdoptDefault(p)
  BY <1>12, <1>13 DEF Retry, LoadFails, PollTick, ArmAgain, RolePollTimesOut, Select, GenerateRole,
                      GenerationEnds, AdoptDefault, serverVars, markVars, history
<1> QED BY <1>1, <1>2, <1>3, <1>4, <1>5, <1>6, <1>7, <1>8, <1>9, <1>10, <1>11, <1>13 DEF ReaderNext

LEMMA MarksInit == ReaderInit => MarkTypes /\ MarksInv
  BY DEF ReaderInit, Closed, NoMarks, MarkTypes, MarksInv, OwnMarks

\* For all packages and sections, and any failures: a mark is saved only for the package
\* it was made in, and a visit that could not read the stored marks saves none.
THEOREM MarksAreApart == ReaderSpec => []MarksStayApart
<1>1. MarkTypes /\ MarksInv => MarksStayApart
  BY DEF MarksInv, MarksStayApart, OwnMarks
<1> QED BY <1>1, MarksInit, MarksStep, PTL DEF ReaderSpec

-----------------------------------------------------------------------------
(* The pane *)

PaneInv ==
  /\ sel \in Selections /\ exists \in SUBSET Packages /\ finished \in SUBSET Packages
  /\ ShownIsSelected

\* The API answers a selection with what was asked for, or nothing of the kind.
LEMMA AnswerFits ==
  ASSUME NamesApart, NEW s \in Selections, Answer(s) # "gone", exists \in SUBSET Packages
  PROVE  s = Latest \/ Answer(s) = s
<1>1. CASE s \in Packages
  BY <1>1 DEF Answer
<1> QED BY <1>1 DEF Selections

\* The answer to what is selected is on screen.
LEMMA AnswerShown ==
  ASSUME NamesApart, PaneInv, Answer(sel) # "gone", shown' = Answer(sel), UNCHANGED sel
  PROVE  ShownIsSelected'
<1>1. sel = Latest \/ shown' = sel
  BY AnswerFits DEF PaneInv
<1>2. sel # Latest => shown' \in Packages
  BY <1>1 DEF PaneInv, Selections
<1>3. shown' \in Packages => Pane' = "content"
  BY DEF Pane
<1> QED BY <1>1, <1>2, <1>3 DEF ShownIsSelected

LEMMA PaneStep == ASSUME NamesApart, PaneInv, [ReaderNext]_readerVars PROVE PaneInv'
<1>1. CASE UNCHANGED <<open, loading, late, shown, sel, error, exists, finished>>
  BY <1>1 DEF PaneInv, ShownIsSelected, Pane
<1>2. ASSUME loading' \/ ~open' PROVE ShownIsSelected'
  BY <1>2 DEF ShownIsSelected
<1>3. CASE UNCHANGED readerVars
  BY <1>1, <1>3 DEF readerVars, serverVars, paneVars, history
<1>4. ASSUME NEW s \in Selections, Select(s) PROVE PaneInv'
  BY <1>4, <1>2 DEF Select, Load, PaneInv, serverVars
<1>5. CASE OpenReader \/ Retry
  BY <1>5, <1>2 DEF OpenReader, Retry, Load, PaneInv, serverVars
<1>6. CASE Close
  BY <1>6, <1>2 DEF Close, PaneInv, serverVars
<1>7. CASE LoadLands
  BY <1>7, AnswerShown DEF LoadLands, Show, PaneInv, serverVars
<1>8. CASE LoadFails
  <2>1. shown' = Nothing /\ error' # Nothing /\ ~loading' /\ UNCHANGED <<sel, exists, finished>>
    BY <1>8 DEF LoadFails, Nothing, serverVars
  <2>2. shown' \notin Packages
    BY <2>1 DEF NamesApart
  <2>3. Pane' = "error"
    BY <2>1, <2>2 DEF Pane
  <2> QED BY <2>1, <2>2, <2>3 DEF ShownIsSelected, PaneInv
<1>9. ASSUME NEW s \in Selections, PollAnswered(s) PROVE PaneInv'
  <2>1. CASE PollLands(s) /\ open /\ s = sel
    BY <2>1, AnswerShown DEF PollLands, Show, PaneInv, serverVars
  <2>2. CASE PollLands(s) /\ open /\ s # sel
    <3>1. late' /\ UNCHANGED <<sel, exists, finished>>
      BY <2>2 DEF PollLands, serverVars
    <3> QED BY <3>1 DEF ShownIsSelected, PaneInv
  <2>3. CASE PollLands(s) /\ ~open
    <3>1. ~open' /\ UNCHANGED <<sel, exists, finished>>
      BY <2>3 DEF PollLands, serverVars
    <3> QED BY <1>2, <3>1 DEF PaneInv
  <2>4. CASE PollFails(s)
    BY <1>1, <2>4 DEF PollFails, serverVars, paneVars, history
  <2> QED BY <1>9, <2>1, <2>2, <2>3, <2>4 DEF PollAnswered
<1>10. CASE RolePollLands
  BY <1>10, <1>2 DEF RolePollLands, PaneInv, Selections, serverVars
<1>11. ASSUME NEW p \in Packages, GenerateRole(p) \/ GenerationEnds(p) PROVE PaneInv'
  <2>1. /\ UNCHANGED <<open, loading, late, shown, sel, error>>
        /\ exists' \in SUBSET Packages /\ finished' \in SUBSET Packages
    BY <1>11 DEF GenerateRole, GenerationEnds, paneVars, history, PaneInv
  <2> QED BY <2>1 DEF PaneInv, ShownIsSelected, Pane
<1>12. ASSUME NEW p \in Packages, AdoptDefault(p) PROVE PaneInv'
  <2>1. UNCHANGED <<open, late, shown, exists, finished>> /\ sel' \in Selections
    BY <1>12 DEF AdoptDefault, Load, serverVars, history, PaneInv, Selections
  <2>2. UNCHANGED <<sel, loading, error>> \/ loading' \/ ~open'
    BY <1>12 DEF AdoptDefault, Load
  <2> QED BY <1>2, <2>1, <2>2 DEF PaneInv, ShownIsSelected, Pane
<1>13. CASE \/ ProgressLands \/ ProgressFails \/ PollTick \/ ArmAgain \/ RolePollTimesOut
            \/ DebounceFires \/ (\E x \in Sections : ToggleRead(x)) \/ (\E w \in puts : PutLands(w))
  BY <1>1, <1>13 DEF ProgressLands, ProgressFails, PollTick, ArmAgain, RolePollTimesOut,
                     DebounceFires, ToggleRead, PutLands, serverVars, paneVars, history
<1> QED BY <1>3, <1>4, <1>5, <1>6, <1>7, <1>8, <1>9, <1>10, <1>11, <1>12, <1>13 DEF ReaderNext

\* For all packages, polls and failures: once a load has settled the pane shows the
\* package that is selected, and offers "Generate" only when there is none, unless a
\* poll sent for an earlier selection answered last.
THEOREM SelectionIsShown == ASSUME NamesApart PROVE ReaderSpec => []ShownIsSelected
<1>1. ReaderInit => PaneInv
  BY DEF ReaderInit, Closed, PaneInv, ShownIsSelected, Selections
<1>2. PaneInv /\ [ReaderNext]_readerVars => PaneInv'
  BY PaneStep
<1>3. PaneInv => ShownIsSelected
  BY DEF PaneInv
<1> QED BY <1>1, <1>2, <1>3, PTL DEF ReaderSpec
==============================================================================
