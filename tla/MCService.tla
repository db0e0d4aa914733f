----------------------------- MODULE MCService -----------------------------
(* The service and one of its pages, for TLC: the members of a project      *)
(* under invitations, and under changes of ownership and tiers with the     *)
(* locks those take; and the reader of a member.  A behaviour is one scene. *)
EXTENDS Membership, Reader

CONSTANTS u1, p1, p2

VARIABLES scene

memberVars == <<tier, holder, account, invite, rowLock, invLock, request, sent, crossed, ended, redeemed>>
allVars    == <<scene, memberVars, readerVars>>

\* What is asked for in the scenes; Ops and OldRow are those of the first.
ByInvitation == {"invite", "resend", "revoke", "delete", "decline", "dismiss", "accept", "remove"}
AtRanks == INSTANCE Membership WITH NumIds <- 1, OldRow <- FALSE, Ops <- {"transfer", "patch"}
AtTiers == INSTANCE Membership WITH NumIds <- 1, OldRow <- TRUE,
               Ops <- {"transfer", "invite", "accept", "leave"}

Later(p, q) == p = p2 /\ q = p1

\* Users are interchangeable, so u1 may own the project.
SceneInit ==
    /\ holder = u1
    /\ \/ scene = "guests" /\ Init
       \/ scene = "ranks" /\ AtRanks!Init
       \/ scene = "tiers" /\ AtTiers!Init
       \/ scene = "reader" /\ AtRanks!Init /\ \A u \in Users \ {u1} : tier[u] = "none"
    /\ IF scene = "reader" THEN ReaderInit ELSE Unread

Members == /\ UNCHANGED <<scene, readerVars>>
           /\ \/ scene = "guests" /\ Next
              \/ scene = "ranks" /\ AtRanks!Next
              \/ scene = "tiers" /\ AtTiers!Next
Read == UNCHANGED <<scene, memberVars>> /\ scene = "reader" /\ ReaderNext
SceneNext == Members \/ Read

\* The fairness of Reader, and of the requests about members.
SceneSpec ==
    /\ SceneInit /\ [][SceneNext]_allVars
    /\ \A q \in Requests : SF_memberVars(scene = "tiers" /\ AtTiers!Serve(q))
    /\ WF_readerVars(scene = "reader" /\ LoadLands)
    /\ WF_readerVars(scene = "reader" /\ PollTick)
    /\ WF_readerVars(scene = "reader" /\ RolePollLands)
    /\ \A s \in Selections : WF_readerVars(scene = "reader" /\ PollAnswered(s))
    /\ \A p \in Packages : WF_readerVars(scene = "reader" /\ GenerationEnds(p))

------------------------------------------------------------------------------
\* Every request is answered: locks are granted in turn and a deadlock of two
\* transfers is broken by the server.
RoutesEnd == \A q \in Requests : scene = "tiers" /\ request[q].at # "idle" ~> request[q].at = "idle"
==============================================================================
