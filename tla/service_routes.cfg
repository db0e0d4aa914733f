\* Two users, two requests at a time and two invitations, one of which may be of before tiers were
\* checked (the other scenes are in MCService); two packages, one section, three clicks and three failures.
CONSTANTS
  u1 = u1
  Users = {u1, u2}
  Requests = {q1, q2}
  NumIds = 2
  None = None
  Ops <- ByInvitation
  OldRow = TRUE
  p1 = p1  p2 = p2
  Packages = {p1, p2}
  Sections = {s1}
  Newer <- Later
  MaxClicks = 3
  MaxFaults = 3
  MaxPolls = 1
SPECIFICATION SceneSpec
INVARIANTS OneOwner AnsweredOnce MarksStayApart 
PROPERTIES RoutesEnd 
\* Once every invitation is spent and the project is gone nobody can ask for anything.
CHECK_DEADLOCK FALSE
