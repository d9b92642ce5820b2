\* Recovery after a rollback that was interrupted while it removed the target.
CONSTANTS
  c1 = c1
  c2 = c2
  Cwds = {c1, c2}
  Nothing = Nothing
  MaxGen = 1
SPECIFICATION FairSpec
PROPERTIES
  RecoverAllFinalizes
