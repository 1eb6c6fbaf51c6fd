CONSTANTS
  s1 = s1
  s2 = s2
  None = None
  Ids <- TwoInstances
  FirstDisk <- SmallDisk
  Names = {"Commands.dat", "x"}
  MaxRequests = 1
  MaxMoves = 7
SPECIFICATION Spec
PROPERTY DeletionTakesOneEntry
CHECK_DEADLOCK FALSE
