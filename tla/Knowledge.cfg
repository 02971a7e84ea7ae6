SPECIFICATION Spec
CONSTANTS
  Claims = {old, new}
  Codes = {k1, k2}
  old = old
  new = new
  k1 = k1
  k2 = k2
  clean1 = clean1
  dirty1 = dirty1
  clean3 = clean3
  Workers = {w1, w2}
  Budget = 1
  Timeout = 2
  Resolving = 2
  RetryMax = 1
  Backoff = 1
  MaxBackoff = 3
  RetryAfters = {3}
  doc = doc
  code = code
  blob = blob
  script = script
  Paths <- MCPaths
  Scoped = {doc, code, blob}
  Bare = {script}
  HeadFiles <- MCHeadFiles
  Checkout <- MCCheckout
  MaxFiles = 3
  MaxFileBytes = 2
  MaxTotalBytes = 3
  Parent <- MCParent
  ClaimOrder <- MCClaimOrder
  Ranked <- MCRanked
  Replaces <- MCReplaces
  PerClaim = 2
  MaxCandidates = 2
  MaxCompared = 2
  Missing = {2}
  None = None
  Cuts <- MCCuts
  Builds = {"default"}
  MaxCommands = 3
  MaxBatches = 2
  MaxChanges = 2
  MaxFaults = 1
CONSTRAINT BatchesComeEarly
CHECK_DEADLOCK FALSE
INVARIANTS
  KnowledgeInv
  ReplacementsFollowGit
  CompleteIsDecided
  EndsInTime
PROPERTY
  BatchEnds
