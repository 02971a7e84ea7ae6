SPECIFICATION LaneSpec
CONSTANTS
  Threads = {t1, t2}
  Messages = {m1, m2}
  NoFile = NoFile
  MaxFaults = 1
CHECK_DEADLOCK FALSE
INVARIANTS
  SessionInv
  TurnsAreKeptUnlessChatsMeet
PROPERTIES
  SessionIsIngested
