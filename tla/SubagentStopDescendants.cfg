\* A late spawn of a finished child against a stopped root.
CONSTANTS
  i1 = i1
  i2 = i2
  i3 = i3
  r1 = r1
  p1 = p1
  Ids = {i1, i2, i3}
  Roots = {r1}
  Runs = {}
  Task = Task
  Prompts = {p1}
  Clients = {}
  Kinds = {"background", "foreground"}
  MaxConcurrent = 1
  QueueAtLimit = TRUE
  BufferCompletions = FALSE
  CompletedCap = 1
  BufferCap = 1
  MaxClock = 2
  MaxStopped = 1
SYMMETRY Symmetry
SPECIFICATION Spec
INVARIANTS
  StopReachesDescendants
