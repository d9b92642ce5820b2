\* Two moves of one session between two cwds, failures at any step.
CONSTANTS
  c1 = c1
  c2 = c2
  Cwds = {c1, c2}
  Nothing = Nothing
  MaxGen = 2
SPECIFICATION FairSpec
INVARIANTS
  TypeOK
  NeverLost
  ViewServesWhole
PROPERTIES
  AtomicMove
  RecoveryFinishes
