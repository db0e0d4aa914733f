SPECIFICATION Spec
CONSTANTS
  NumRows = 1
  Entries = {e1, e2}
  Sweepers = {s1, s2}
  Requests = {q1}
  MaxRecovery = 1
  MaxRateLimit = 0
  MaxStalled = 1
  MaxClicks = 1
  MaxCrashes = 4
  MaxThrows = 0
SYMMETRY Symmetry
INVARIANT ExclusiveClaims
INVARIANT RecoveryCap
INVARIANT PoisonBound
PROPERTY ImplementsContract
\* The run ends when the row is settled and the clicks are spent.
CHECK_DEADLOCK FALSE
