\* Where results go: a client waits on children, a workflow run is cancelled, completions are buffered.
CONSTANTS
  i1 = i1
  i2 = i2
  r1 = r1
  p1 = p1
  c1 = c1
  c2 = c2
  w1 = w1
  Ids = {i1, i2}
  Roots = {r1}
  Runs = {w1}
  Task = Task
  Prompts = {p1}
  Clients = {c1, c2}
  Kinds = {"background", "foreground", "workflow"}
  MaxConcurrent = 1
  QueueAtLimit = TRUE
  BufferCompletions = TRUE
  CompletedCap = 1
  BufferCap = 1
  MaxClock = 2
  MaxStopped = 2
SYMMETRY Symmetry
SPECIFICATION Spec
INVARIANTS
  NoStrandedWaiter
  ResultDelivered
  TornDownNotBuffered
  StopHolds
