CONSTANTS
  c1 = c1
  c2 = c2
  m1 = m1
  m2 = m2
  Torn = Torn
  None = None
  Clients <- TwoClients
  Mods <- OneMod
  Kinds <- AllRequests
SPECIFICATION Spec
INVARIANTS
  TypeOK
  DeletedIsGone
  ApplyInstalls
PROPERTIES
  OnlyDeletionLosesFiles
  NamedHasFiles
SYMMETRY ClientSymmetry
