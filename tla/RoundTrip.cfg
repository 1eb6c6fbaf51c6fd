CONSTANTS
  None = None
  Missing = Missing
  Broken = Broken
  Kinds = {"rocket", "unturned", "permissions", "plugin"}
  MaxHands = 1
SPECIFICATION Spec
PROPERTIES
  RoundTripIsEquivalent
CHECK_DEADLOCK FALSE
