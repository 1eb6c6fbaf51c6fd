CONSTANTS
  p1 = p1
  p2 = p2
  workshopJson = workshopJson
  rocketXml = rocketXml
  Original = Original
  Torn = Torn
  None = None
  Writers <- TwoWriters
  Paths <- TwoPaths
  KindsAt <- AllKindsAt
SPECIFICATION FairSpec
INVARIANTS
  TypeOK
  WritersExclude
  LocksAreHeld
PROPERTIES
  TornOnlyByRollback
  ReplacedIsBackedUp
  WritersEnd
