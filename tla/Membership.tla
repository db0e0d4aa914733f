----------------------------- MODULE Membership -----------------------------
(***************************************************************************)
(* The members of one project and the invitations to it                    *)
(* (api/routes/members.ts, api/routes/invitations.ts). Redeeming an        *)
(* invitation and passing ownership on are transactions that lock rows;    *)
(* every other route reads, decides, and writes in a later statement. One  *)
(* action is one statement, or a run of reads; consecutive reads of one    *)
(* route are one action, because what lands between them can land after    *)
(* the last with the same effect, or only makes the route answer early.    *)
(* An address belongs to the user of that name.                            *)
(***************************************************************************)
EXTENDS Naturals, FiniteSets

CONSTANTS Users, Requests, NumIds, None,
  Ops,       \* what is asked of the API in an instance
  OldRow     \* may the table hold a row from before tiers were checked?

AllOps == {"invite", "revoke", "resend", "delete", "patch", "transfer", "leave",
           "remove", "decline", "dismiss", "accept"}
Ids == 1..NumIds            \* bounds the invitations ever sent
Tiers == {"owner", "admin", "developer"}
Invitable == {"admin", "developer"}

VARIABLES
  tier,      \* project_members: the tier of each member, "none" without a row
  holder,    \* projects.user_id; None once the project is deleted
  account,   \* the users that still have an account
  invite,    \* project_invitations
  rowLock,   \* who holds the lock of a member's row
  invLock,   \* who holds the lock of an invitation
  request,
  sent,      \* how many invitations were written: ids are never used twice
  crossed,   \* history: an unguarded write met a tier other than the one its route read
  ended,     \* history: invitations revoked or declined
  redeemed   \* history: invitations that made somebody a member

vars == <<tier, holder, account, invite, rowLock, invLock, request, sent, crossed, ended, redeemed>>

NoInvite == [status |-> "absent", email |-> None, tier |-> "developer", stale |-> FALSE, by |-> None]

Invitation ==
  [status : {"absent", "pending", "revoked", "declined"}, email : Users \union {None},
   tier : Tiers, stale : BOOLEAN, by : Users \union {None}]

Idle == [at |-> "idle", op |-> "none", by |-> None, who |-> None, id |-> 0,
         want |-> "developer", mine |-> "none", seen |-> "none"]

Request ==
  [at : {"idle", "entered", "decided", "cleared", "locked", "demoted"},
   op : AllOps \union {"none"},
   by : Users \union {None}, who : Users \union {None}, id : 0..NumIds,
   want : Tiers, mine : Tiers \union {"none"}, seen : Tiers \union {"none"}]

\* A project has one owner and the members that joined before; a row from before the
\* tier of an invitation was checked may still promise ownership.
Init ==
  /\ \E o \in Users :
       /\ tier \in [Users -> Tiers \union {"none"}]
       /\ \A u \in Users : tier[u] = "owner" <=> u = o
       /\ holder = o
       /\ \E legacy \in {NoInvite} \union
              [status : {x \in {"pending"} : OldRow}, email : Users \ {o}, tier : {"owner"},
               stale : {FALSE}, by : {o}] :
            /\ invite = [i \in Ids |-> IF i = 1 THEN legacy ELSE NoInvite]
            /\ sent = IF legacy = NoInvite THEN 0 ELSE 1
  /\ account = Users
  /\ rowLock = [u \in Users |-> None]
  /\ invLock = [i \in Ids |-> None]
  /\ request = [q \in Requests |-> Idle]
  /\ crossed = FALSE
  /\ ended = {}
  /\ redeemed = {}

-----------------------------------------------------------------------------
(* Helpers *)

IsMember(u) == tier[u] # "none"
Live(i) == invite[i].status = "pending" /\ ~invite[i].stale
Of(u) == {i \in Ids : invite[i].status # "absent" /\ invite[i].email = u}
At(q, place) == request[q].at = place
Ends(q) == request' = [request EXCEPT ![q] = Idle]
Goes(q, place) == request' = [request EXCEPT ![q].at = place]
History == UNCHANGED <<sent, crossed, ended, redeemed>>
Rows == UNCHANGED <<tier, holder, account, invite>>
Locks == UNCHANGED <<rowLock, invLock>>

\* COMMIT and ROLLBACK give back every lock of the transaction.
Unlock(q) ==
  /\ rowLock' = [u \in Users |-> IF rowLock[u] = q THEN None ELSE rowLock[u]]
  /\ invLock' = [i \in Ids |-> IF invLock[i] = q THEN None ELSE invLock[i]]

\* The way out of a transaction forgets the ROLLBACK.
RollbackForgotten(q) == Locks /\ Ends(q) /\ Rows /\ History

Rollback(q) == Unlock(q) /\ Ends(q) /\ Rows /\ History

\* A route that only read answers and changes nothing.
Answers(q) == Ends(q) /\ Rows /\ Locks /\ History

-----------------------------------------------------------------------------
(* What may be asked, and by whom *)

AllowedTiers(op) ==
  IF op = "leave" THEN Tiers ELSE IF op = "transfer" THEN {"owner"} ELSE {"owner", "admin"}

\* The requests that may still write an invitation.
Writing == {q \in Requests : request[q].op \in {"invite", "resend"}}

\* requireProjectAccess: the tier of the caller is read once, here.
Enter(q) ==
  /\ At(q, "idle")
  /\ holder # None
  /\ \E op \in Ops \ {"decline", "dismiss", "accept"},
        by \in account, who \in Users, id \in Ids, want \in Tiers :
       /\ tier[by] \in AllowedTiers(op)
       /\ op \in {"revoke", "resend", "delete"} \/ id = 1
       /\ op \in {"invite", "patch"} \/ want = "developer"
       /\ op = "invite" => want \in Invitable
       /\ op \in {"invite", "patch", "transfer", "remove"} \/ who = by
       /\ op \in {"invite", "remove", "transfer"} => who # by
       /\ op = "leave" => tier[by] # "owner"
       /\ op \in {"invite", "resend"} => sent + Cardinality(Writing) < NumIds
       /\ request' = [request EXCEPT ![q] =
            [Idle EXCEPT !.at = "entered", !.op = op, !.by = by, !.who = who,
                         !.id = id, !.want = want, !.mine = tier[by]]]
  /\ Rows /\ Locks /\ History

\* The invitee's routes need no membership.
Open(q) ==
  /\ At(q, "idle")
  /\ \E op \in Ops \intersect {"decline", "dismiss", "accept"}, i \in Ids :
       /\ invite[i].status # "absent" /\ invite[i].email \in account
       /\ request' = [request EXCEPT ![q] =
            [Idle EXCEPT !.at = "entered", !.op = op, !.by = invite[i].email,
                         !.who = invite[i].email, !.id = i]]
  /\ Rows /\ Locks /\ History

-----------------------------------------------------------------------------
(* Invitations from the project's side *)

InviteCheck(q) ==
  LET r == request[q] IN
  /\ At(q, "entered") /\ r.op = "invite"
  /\ IF IsMember(r.who) \/ \E i \in Of(r.who) : Live(i)
     THEN Answers(q)
     ELSE Goes(q, "decided") /\ Rows /\ Locks /\ History

ResendCheck(q) ==
  LET r == request[q]
      old == invite[r.id] IN
  /\ At(q, "entered") /\ r.op = "resend"
  /\ IF old.status = "absent" \/ old.tier \notin Invitable \/ IsMember(old.email)
     THEN Answers(q)
     ELSE /\ request' = [request EXCEPT ![q].at = "decided", ![q].who = old.email,
                                        ![q].want = old.tier]
          /\ Rows /\ Locks /\ History

\* DELETE every row of the address; it waits for a row an acceptance has locked.
Clear(q) ==
  LET r == request[q] IN
  /\ At(q, "decided") /\ r.op \in {"invite", "resend"}
  /\ \A i \in Of(r.who) : invLock[i] = None
  /\ invite' = [i \in Ids |-> IF i \in Of(r.who) THEN NoInvite ELSE invite[i]]
  /\ Goes(q, "cleared")
  /\ UNCHANGED <<tier, holder, account>> /\ Locks /\ History

\* The partial unique index admits one pending row per address, live or not.
Insert(q) ==
  LET r == request[q] IN
  /\ At(q, "cleared") /\ r.op \in {"invite", "resend"}
  /\ IF (\E i \in Of(r.who) : invite[i].status = "pending") \/ holder = None \/ r.by \notin account
     THEN UNCHANGED <<invite, sent>>
     ELSE /\ invite' = [invite EXCEPT ![sent + 1] =
                 [status |-> "pending", email |-> r.who, tier |-> r.want, stale |-> FALSE, by |-> r.by]]
          /\ sent' = sent + 1
  /\ Ends(q)
  /\ UNCHANGED <<tier, holder, account, crossed, ended, redeemed>> /\ Locks

Revoke(q) ==
  LET i == request[q].id IN
  /\ At(q, "entered") /\ request[q].op = "revoke"
  /\ invLock[i] = None
  /\ IF invite[i].status = "pending"
     THEN invite' = [invite EXCEPT ![i].status = "revoked"] /\ ended' = ended \union {i}
     ELSE UNCHANGED <<invite, ended>>
  /\ Ends(q)
  /\ UNCHANGED <<tier, holder, account, sent, crossed, redeemed>> /\ Locks

\* DELETE .../:invitationId on either side: read, then a write that looks again.
DeadCheck(q) ==
  LET i == request[q].id IN
  /\ At(q, "entered") /\ request[q].op \in {"delete", "dismiss"}
  /\ IF invite[i].status = "absent" \/ Live(i)
     THEN Answers(q)
     ELSE Goes(q, "decided") /\ Rows /\ Locks /\ History

DeadDelete(q) ==
  LET i == request[q].id IN
  /\ At(q, "decided") /\ request[q].op \in {"delete", "dismiss"}
  /\ invLock[i] = None
  /\ invite' = IF Live(i) THEN invite ELSE [invite EXCEPT ![i] = NoInvite]
  /\ Ends(q)
  /\ UNCHANGED <<tier, holder, account>> /\ Locks /\ History

-----------------------------------------------------------------------------
(* The invitee answers *)

DeclineCheck(q) ==
  /\ At(q, "entered") /\ request[q].op = "decline"
  /\ IF invite[request[q].id].status # "pending"
     THEN Answers(q)
     ELSE Goes(q, "decided") /\ Rows /\ Locks /\ History

Decline(q) ==
  LET i == request[q].id IN
  /\ At(q, "decided") /\ request[q].op = "decline"
  /\ invLock[i] = None
  /\ IF invite[i].status = "pending"
     THEN invite' = [invite EXCEPT ![i].status = "declined"] /\ ended' = ended \union {i}
     ELSE UNCHANGED <<invite, ended>>
  /\ Ends(q)
  /\ UNCHANGED <<tier, holder, account, sent, crossed, redeemed>> /\ Locks

\* A SELECT without FOR UPDATE.
AcceptRead(q) ==
  LET i == request[q].id IN
  /\ At(q, "entered") /\ request[q].op = "accept"
  /\ IF Live(i) /\ invite[i].tier \in Invitable
     THEN Goes(q, "locked") /\ Rows /\ History /\ Locks
     ELSE Answers(q)

\* SELECT ... FOR UPDATE: it waits for the row and reads it as it is then.
AcceptLock(q) ==
  LET i == request[q].id IN
  /\ At(q, "entered") /\ request[q].op = "accept"
  /\ invLock[i] = None
  /\ IF Live(i) /\ invite[i].tier \in Invitable
     THEN /\ invLock' = [invLock EXCEPT ![i] = q]
          /\ Goes(q, "locked")
          /\ Rows /\ History /\ UNCHANGED rowLock
     ELSE Answers(q)

\* The row goes and the membership comes, in one commit.
Redeem(q) ==
  LET i == request[q].id
      u == request[q].by IN
  /\ At(q, "locked") /\ request[q].op = "accept"
  /\ IF IsMember(u) \/ u \notin account \/ holder = None
     THEN Rollback(q)
     ELSE /\ tier' = [tier EXCEPT ![u] = invite[i].tier]
          /\ invite' = [invite EXCEPT ![i] = NoInvite]
          /\ redeemed' = redeemed \union {i}
          /\ Unlock(q) /\ Ends(q)
          /\ UNCHANGED <<holder, account, sent, crossed, ended>>

-----------------------------------------------------------------------------
(* Tiers *)

\* The guards of PATCH /:userId on the caller's and the target's tiers.
MayPatch(r, target) ==
  /\ target # "none"
  /\ ~(target = "owner" /\ r.who = r.by /\ r.want # "owner")
  /\ r.mine = "admin" => target = "developer" /\ r.want = "developer"
  /\ ~(r.mine = "owner" /\ r.want = "owner" /\ r.who # r.by)

PatchCheck(q) ==
  LET r == request[q] IN
  /\ At(q, "entered") /\ r.op = "patch"
  /\ IF MayPatch(r, tier[r.who])
     THEN /\ request' = [request EXCEPT ![q].at = "decided", ![q].seen = tier[r.who]]
          /\ Rows /\ Locks /\ History
     ELSE Answers(q)

\* A write without a guard crosses a change when a tier it was decided on has moved.
Crosses(r) == crossed' = (crossed \/ (IsMember(r.who) /\ (tier[r.who] # r.seen \/ tier[r.by] # r.mine)))

Patch(q) ==
  LET r == request[q] IN
  /\ At(q, "decided") /\ r.op = "patch"
  /\ rowLock[r.who] = None
  /\ tier' = IF IsMember(r.who) THEN [tier EXCEPT ![r.who] = r.want] ELSE tier
  /\ Crosses(r)
  /\ Ends(q)
  /\ UNCHANGED <<holder, account, invite, sent, ended, redeemed>> /\ Locks

RemoveCheck(q) ==
  LET r == request[q]
      target == tier[r.who] IN
  /\ At(q, "entered") /\ r.op = "remove"
  /\ IF target \in {"none", "owner"} \/ (r.mine = "admin" /\ target # "developer")
     THEN Answers(q)
     ELSE /\ request' = [request EXCEPT ![q].at = "decided", ![q].seen = target]
          /\ Rows /\ Locks /\ History

\* DELETE /me decided on what the middleware read.
LeaveCheck(q) ==
  /\ At(q, "entered") /\ request[q].op = "leave"
  /\ request' = [request EXCEPT ![q].at = "decided", ![q].seen = request[q].mine]
  /\ Rows /\ Locks /\ History

DeleteMember(q) ==
  LET r == request[q] IN
  /\ At(q, "decided") /\ r.op \in {"leave", "remove"}
  /\ rowLock[r.who] = None
  /\ tier' = [tier EXCEPT ![r.who] = "none"]
  /\ Crosses(r)
  /\ Goes(q, "cleared")
  /\ UNCHANGED <<holder, account, invite, sent, ended, redeemed>> /\ Locks

DeleteHistory(q) ==
  LET r == request[q] IN
  /\ At(q, "cleared") /\ r.op \in {"leave", "remove"}
  /\ \A i \in Of(r.who) : invLock[i] = None
  /\ invite' = [i \in Ids |-> IF i \in Of(r.who) THEN NoInvite ELSE invite[i]]
  /\ Ends(q)
  /\ UNCHANGED <<tier, holder, account>> /\ Locks /\ History

-----------------------------------------------------------------------------
(* Ownership *)

TransferLock(q) ==
  LET r == request[q] IN
  /\ At(q, "entered") /\ r.op = "transfer"
  /\ rowLock[r.who] = None
  /\ IF IsMember(r.who)
     THEN /\ rowLock' = [rowLock EXCEPT ![r.who] = q]
          /\ Goes(q, "locked")
          /\ Rows /\ History /\ UNCHANGED invLock
     ELSE Answers(q)

\* The demotion is a statement of its own: it is there before the promotion.
DemoteNow(q) ==
  LET r == request[q] IN
  /\ At(q, "locked") /\ r.op = "transfer"
  /\ rowLock[r.by] = None
  /\ IF tier[r.by] = "owner"
     THEN /\ rowLock' = [rowLock EXCEPT ![r.by] = q]
          /\ tier' = [tier EXCEPT ![r.by] = "admin"]
          /\ Goes(q, "demoted")
          /\ History /\ UNCHANGED <<invLock, holder, account, invite>>
     ELSE Rollback(q)

\* The demotion waits for the caller's row and only takes an owner.
Demote(q) ==
  LET r == request[q] IN
  /\ At(q, "locked") /\ r.op = "transfer"
  /\ rowLock[r.by] = None
  /\ IF tier[r.by] = "owner"
     THEN /\ rowLock' = [rowLock EXCEPT ![r.by] = q]
          /\ Goes(q, "demoted")
          /\ Rows /\ History /\ UNCHANGED invLock
     ELSE Rollback(q)

\* Promotion, projects.user_id and COMMIT: others see them together.
Promote(q) ==
  LET r == request[q] IN
  /\ At(q, "demoted")
  /\ tier' = [tier EXCEPT ![r.by] = "admin", ![r.who] = "owner"]
  /\ holder' = r.who
  /\ Unlock(q) /\ Ends(q)
  /\ UNCHANGED <<account, invite>> /\ History

\* The new owner has imported the repository already, or a statement fails.
TransferFails(q) == At(q, "demoted") /\ Rollback(q)

\* Two transfers wait for each other's row: the server aborts one.
Deadlocked(q) ==
  /\ At(q, "locked") /\ request[q].op = "transfer"
  /\ LET other == rowLock[request[q].by] IN
       /\ other \in Requests \ {q} /\ At(other, "locked")
       /\ rowLock[request[other].by] = q
  /\ Rollback(q)

-----------------------------------------------------------------------------
(* The environment *)

\* deleteAccountTx: invitations sent, owned projects with all they hold, the user.
DeleteAccount(u) ==
  /\ u \in account
  /\ \A v \in Users : rowLock[v] = None
  /\ \A i \in Ids : invLock[i] = None
  /\ account' = account \ {u}
  /\ tier' = [v \in Users |-> IF holder \in {u, None} \/ v = u THEN "none" ELSE tier[v]]
  /\ invite' = [i \in Ids |-> IF holder \in {u, None} \/ invite[i].by = u THEN NoInvite ELSE invite[i]]
  /\ holder' = IF holder = u THEN None ELSE holder
  /\ UNCHANGED request /\ Locks /\ History

Expire(i) ==
  /\ Live(i)
  /\ invite' = [invite EXCEPT ![i].stale = TRUE]
  /\ UNCHANGED <<tier, holder, account, request>> /\ Locks /\ History

\* The API process dies: the connection closes and its transaction is rolled back.
Die(q) == request[q].at # "idle" /\ Rollback(q)

Serve(q) ==
  \/ InviteCheck(q) \/ ResendCheck(q) \/ Clear(q) \/ Insert(q) \/ Revoke(q)
  \/ DeadCheck(q) \/ DeadDelete(q) \/ DeclineCheck(q) \/ Decline(q)
  \/ AcceptLock(q) \/ Redeem(q) \/ PatchCheck(q) \/ Patch(q) \/ RemoveCheck(q)
  \/ LeaveCheck(q) \/ DeleteMember(q) \/ DeleteHistory(q)
  \/ TransferLock(q) \/ Demote(q) \/ Promote(q) \/ TransferFails(q) \/ Deadlocked(q)

Next ==
  \/ \E q \in Requests : Enter(q) \/ Open(q) \/ Serve(q) \/ Die(q)
  \/ \E u \in Users : DeleteAccount(u)
  \/ \E i \in Ids : Expire(i)

Spec == Init /\ [][Next]_vars
FairSpec == Spec /\ \A q \in Requests : SF_vars(Serve(q))

-----------------------------------------------------------------------------
(* What the module promises *)

\* Every row, lock and request keeps its type.
TypeOK ==
  /\ tier \in [Users -> Tiers \union {"none"}]
  /\ holder \in Users \union {None}
  /\ account \subseteq Users
  /\ invite \in [Ids -> Invitation]
  /\ rowLock \in [Users -> Requests \union {None}]
  /\ invLock \in [Ids -> Requests \union {None}]
  /\ request \in [Requests -> Request]
  /\ sent \in 0..NumIds
  /\ crossed \in BOOLEAN
  /\ ended \subseteq Ids /\ redeemed \subseteq Ids

\* One owner, and it is who projects.user_id names (members.ts:468-471): two transfers
\* of one caller, a transfer that meets another coming back, a death between its
\* statements, an invitation from before the tier check: none makes two or none.
\* Only a PATCH, a removal or a departure that was decided on a tier that has moved
\* since can (ExactlyOneOwner).
OneOwner ==
  holder # None /\ ~crossed => \A u \in Users : tier[u] = "owner" <=> u = holder

\* The write is the arbiter (invitations.ts:102, members.ts:359): an invitation makes
\* a member or is revoked or declined, never both, whoever reads before whom.
AnsweredOnce == ended \intersect redeemed = {}

\* A membership comes from an invitation that was redeemed as it stood: a removal's
\* clean-up, a re-send or a dismissal never takes a row an acceptance is working on.
RowStays == \A i \in Ids : invLock[i] # None /\ invLock'[i] = invLock[i] =>
              invite'[i] = [invite[i] EXCEPT !.stale = invite'[i].stale]
LockedRowStays == [][RowStays]_<<invite, invLock>>

\* Every request is answered: row locks are granted in turn and a deadlock of two
\* transfers is broken by the server.
RequestsEnd == \A q \in Requests : ~At(q, "idle") ~> At(q, "idle")

-----------------------------------------------------------------------------
(* What the code's comments say and the code does not keep *)

\* There is exactly one owner per project (permissionTiers.ts:17).
ExactlyOneOwner == holder # None => Cardinality({u \in Users : tier[u] = "owner"}) = 1

\* At most one invitation row per (project, email) (members.ts:218).
OneRowPerAddress == \A u \in Users : Cardinality(Of(u)) <= 1

=============================================================================
