CONSTANTS
  s1 = s1
  s2 = s2
  m1 = m1
  m2 = m2
  Absent = Absent
  Servers = {s1, s2}
  Disks <- MCDisks
  OtherCommands <- MCOtherCommands
  OtherTxt <- MCOtherTxt
  Names <- MCNames
  Cooldowns <- MCCooldowns
  Items <- MCItems
  Finds <- MCFinds
  ItemIds <- MCItemIds
  PAGE_SIZE = 1
  MaxEvents = 2
  MaxLoads = 2
  MaxMoves = 4
SPECIFICATION Spec
INVARIANT TypeOK
PROPERTY CommandsSavedAsShown
PROPERTY TxtSavedAsShown
CHECK_DEADLOCK FALSE
