\* Every interleaving of check() and record() of two threads; probes are lost.
CONSTANTS
  t1 = t1
  t2 = t2
  Threads = {t1, t2}
  MaxProbes = 1
  OpenDuration = 1
  WindowDuration = 0
  MinSamples = 1
  RateNum = 1
  RateDen = 2
  MaxEntries = 1
  Width = 2
  MaxStall = 1
SPECIFICATION FairSpec
INVARIANTS
  TypeOK
  ProbeBudget
  
PROPERTIES
  OneTakeover
  CoolDown
  LeavesHalfOpen
