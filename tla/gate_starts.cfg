SPECIFICATION FairSpec
CONSTANTS
  p1 = p1  p2 = p2  u1 = u1  u2 = u2
  Projects = {p1, p2}
  Users = {u1}
  Owner <- MCOwner
  Commits = {c1}
  Heads = {h1}
  NumRows = 2
  Requests = {q1, q2}
  PoolMax = 2
  MaxConcurrent = 1
  MaxClicks = 2
  MaxFaults = 1
INVARIANT TuplesExclusive
INVARIANT CreditKept
 
PROPERTY RequestsEnd
\* The run ends when the rows are settled and the clicks are spent.
CHECK_DEADLOCK FALSE
