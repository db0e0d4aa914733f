SPECIFICATION FairSpec
CONSTANTS
  NumRows = 1
  Entries = {e1, e2}
  Sweepers = {s1}
  Requests = {q1}
  MaxRecovery = 1
  MaxRateLimit = 1
  MaxStalled = 1
  MaxClicks = 1
  MaxCrashes = 1
  MaxThrows = 1
PROPERTY RunSettles
\* The run ends when the row is settled and the clicks are spent.
CHECK_DEADLOCK FALSE
