\* Two calls and one slot, a fallback model, one retry and two waits of one or two ticks; two producers and two writers of vectors with a queue of one chunk.
SPECIFICATION PartSpec
CONSTANTS
  c1 = c1  c2 = c2  c3 = c3  k1 = k1  k2 = k2
  Calls = {c1, c2}
  Clients = {k1, k2}
  ClientOf <- MCClientOf
  Limit = 1
  Behaviors = {"retry", "degrade", "pause"}
  NumModels = 2
  MaxRetries = 1
  MaxWaits = 2
  MaxCooldown = 2
  MaxAborts = 1
  NItems = 4
  BatchSize = 2
  ChunkSize = 1
  QueueMax = 1
  NProducers = 2
  NWriters = 2
  ReportEvery = 2
  MaxRuns = 2
  MaxFaults = 2
INVARIANTS SlotsHonest PaidOnce NeverOversleeps
PROPERTIES VectorsKept CallsEnd
\* A part that is over stops.
CHECK_DEADLOCK FALSE
