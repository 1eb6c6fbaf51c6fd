CONSTANTS
  c1 = c1
  c2 = c2
  m1 = m1
  m2 = m2
  Torn = Torn
  None = None
  Clients <- OneClient
  Mods <- TwoMods
  Kinds <- Everything
SPECIFICATION FairSpec
PROPERTIES
  ContentIsNamed
  StagedIsInstalled
