\* One loop in the background, three iterations.
CONSTANTS
  t1 = t1
  Ids = {t1}
  OneShots = {}
  Durable = {}
  Inline = {}
  BackgroundLoops = TRUE
  FreshEvery = 2
  MaxRevision = 4
  Nothing = Nothing
  MaxGeneration = 0
  MaxRuns = 3
  MaxQueue = 0
SPECIFICATION Spec
INVARIANTS
  LoopSingleFlight
  OverlapOnlyAfterFailure
  ChainKeepsPrompt
  ChainBounded
\* A stopped actor is done, and the versions are bounded.
CHECK_DEADLOCK FALSE
