SPECIFICATION ServerSpec
CONSTANTS
  Conns = {c1, c2}
  PageSize = 1
  QueueCap = 1
  NoCursor = NoCursor
  MaxHead = 2
  RequestPermits = 1
  SsePermits = 1
  MaxFaults = 1
CHECK_DEADLOCK FALSE
INVARIANTS
  ServerInv
  OnlyUnheardEventsAreSkipped
PROPERTIES
  NewestIsSent
  ShutdownCompletes
