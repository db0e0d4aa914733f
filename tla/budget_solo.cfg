\* One job, one executor, a cap of three calls on two lanes; four symbols to pack; two batches with one hedge.
SPECIFICATION PartSpec
CONSTANTS
  Jobs = {j1}
  Executors = {x1}
  Cap = 3
  Fanout = 2
  FlushEvery = 2
  StopBehavior = "fail"
  Prior = 1
  MaxClicks = 3
  MaxCrashes = 1
  MaxFaults = 1
  N = 4
  MaxSymbols = 3
  MaxTokens = 10
  Overhead = 1
  Facts = 1
  Pointer = 0
  Costs = {1, 4}
  Plan <- TwoAndOne
  Leaf = 1
  InFlight = 2
  HedgeMax = 1
INVARIANTS AllowanceKept LifetimeKept 
PROPERTIES KillSwitchHonoured TripsOnlyWhenSpent PassEnds
\* A part that is over stops.
CHECK_DEADLOCK FALSE
