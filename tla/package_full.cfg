SPECIFICATION FairSpec
CONSTANTS
  full = full  repair = repair  one = one  two = two
  Jobs = {full}
  Kind <- MCKind
  Entries = {e1, e2}
  Sections = {s1, s2}
  Built = FALSE
  StopBehavior = "degrade"
  Concurrency = 1
  MaxRecovery = 1
  MaxRateLimit = 1
  MaxStalled = 1
  MaxClicks = 2
  MaxReviews = 0
  MaxCrashes = 1
  MaxFaults = 2
  MaxLost = 1
  MaxCommits = 0
 
 
PROPERTY GenerationSettles
\* The run ends when the rows are settled and the bounds are spent.
CHECK_DEADLOCK FALSE
