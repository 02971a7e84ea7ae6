SPECIFICATION Spec
CONSTANTS
  Hosts = {h1, h2}
  Claims = {c}
  None = None
  Torn = Torn
  PageLimit = 2
  MaxJournal = 3
  MaxEpoch = 2
  MaxShared = 2
SYMMETRY Symmetry
CONSTRAINT BoundedSharing
INVARIANTS
  CacheInv
  ServedIsRecent
