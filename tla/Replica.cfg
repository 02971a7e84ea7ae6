SPECIFICATION Spec
CONSTANTS
  Readers = {r1, r2}
  Skipped = {2}
  PageSize = 2
  MaxAttempts = 2
  None = None
  MaxEvents = 3
  MaxFaults = 1
  MaxReplaced = 1
CONSTRAINTS ShortSource TriedAgainBefore
INVARIANTS
  ReplicaInv
  SuccessIsFresh
  OneHistoryUnlessReplacedAhead

  
