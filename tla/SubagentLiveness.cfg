\* Answers that depend on the timer alone, and progress of the queue when children end their runs.
CONSTANTS
  i1 = i1
  i2 = i2
  r1 = r1
  p1 = p1
  c1 = c1
  Ids = {i1, i2}
  Roots = {r1}
  Runs = {}
  Task = Task
  Prompts = {p1}
  Clients = {c1}
  Kinds = {"foreground"}
  MaxConcurrent = 1
  QueueAtLimit = TRUE
  BufferCompletions = FALSE
  CompletedCap = 1
  BufferCap = 1
  MaxClock = 2
  MaxStopped = 2
SPECIFICATION TimedSpec
PROPERTIES
  ForegroundAnswered
  QueryAnswered
  QueuedResolves
