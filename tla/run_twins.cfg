SPECIFICATION Spec
CONSTANTS
  NumRows = 2
  Entries = {e1, e2, e3}
  Sweepers = {}
  Requests = {q1}
  MaxRecovery = 0
  MaxRateLimit = 1
  MaxStalled = 0
  MaxClicks = 2
  MaxCrashes = 0
  MaxThrows = 2
SYMMETRY Symmetry
INVARIANT SnapshotHonest
 
 
\* The run ends when the rows are settled and the clicks are spent.
CHECK_DEADLOCK FALSE
