SPECIFICATION FairSpec
CONSTANTS
  full = full  repair = repair  one = one  two = two
  Jobs = {repair, one}
  Kind <- MCKind
  Entries = {e1, e2}
  Sections = {s1}
  Built = TRUE
  StopBehavior = "pause"
  Concurrency = 2
  MaxRecovery = 1
  MaxRateLimit = 1
  MaxStalled = 1
  MaxClicks = 1
  MaxReviews = 1
  MaxCrashes = 1
  MaxFaults = 0
  MaxLost = 0
  MaxCommits = 1
INVARIANT ScopeKept
 
\* The run ends when the rows are settled and the bounds are spent.
CHECK_DEADLOCK FALSE
