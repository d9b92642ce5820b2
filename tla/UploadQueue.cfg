\* Two artifacts for one object: every entry point, one slot, one place in the
\* channel, one crash.
CONSTANTS
  a1 = a1
  a2 = a2
  Nobody = Nobody
  Items = {a1, a2}
  Twins = {a1, a2}
  Kinds = {"enqueue", "bytes", "blocking", "file_blocking", "reference"}
  Capacity = 1
  MaxConcurrent = 1
  MaxBytes = 1
  MaxAttempts = 2
  Threshold = 1
  MaxCrashes = 1
SYMMETRY Symmetry
SPECIFICATION Spec
INVARIANTS
  TypeOK
  FlushTruthful
  DurablyAccepted
  FilesFollowItem
  MarkExact
  NoStall
\* Every artifact is enqueued once: at the end there is nothing left to do.
CHECK_DEADLOCK FALSE
