CONSTANTS
  N = 4
  Room = 2
  Rounds = 2
  MaxFaults = 2
SPECIFICATION FairSpec
INVARIANTS ForksExclusive SuccessMeansAllAte NothingLeftBehind
PROPERTIES FamilyEnds
CHECK_DEADLOCK FALSE
