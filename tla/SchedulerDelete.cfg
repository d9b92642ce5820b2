\* Durable removals against the writer, the consumer, shutdown and restarts.
CONSTANTS
  t1 = t1
  t2 = t2
  Ids = {t1, t2}
  OneShots = {t2}
  Durable = {t1}
  Inline = {t1, t2}
  BackgroundLoops = FALSE
  FreshEvery = 2
  MaxRevision = 2
  Nothing = Nothing
  MaxGeneration = 2
  MaxRuns = 0
  MaxQueue = 2
SPECIFICATION Spec
INVARIANTS
  TypeOK
  DeletedStaysDeleted
  ReservationFresh

PROPERTIES VersionsAdvance
\* A stopped actor is done, and the versions are bounded.
CHECK_DEADLOCK FALSE
