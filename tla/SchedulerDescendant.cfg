\* A descendant of an iteration that failed.
CONSTANTS
  t1 = t1
  Ids = {t1}
  OneShots = {}
  Durable = {}
  Inline = {}
  BackgroundLoops = TRUE
  FreshEvery = 2
  MaxRevision = 5
  Nothing = Nothing
  MaxGeneration = 0
  MaxRuns = 2
  MaxQueue = 0
SPECIFICATION Spec
INVARIANTS
  DescendantSkipsFire
\* A stopped actor is done, and the versions are bounded.
CHECK_DEADLOCK FALSE
