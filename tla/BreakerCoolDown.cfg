\* A check() between the two stores of trip().
CONSTANTS
  t1 = t1
  t2 = t2
  Threads = {t1, t2}
  MaxProbes = 1
  OpenDuration = 2
  WindowDuration = 1
  MinSamples = 1
  RateNum = 1
  RateDen = 2
  MaxEntries = 2
  Width = 2
  MaxStall = 1
SYMMETRY Symmetry
SPECIFICATION Spec
PROPERTIES
  FullCoolDown
