CONSTANTS
  Workspaces = {"w1"}
  Clients = {"codex", "claude"}
  HandWritten <- MCHandWritten
  Requests <- MCRequests
  FirstFiles <- MCFirstFiles
  MaxCommands = 3
  MaxTroubles = 1
SPECIFICATION Spec
CHECK_DEADLOCK FALSE
INVARIANTS
  InstallInv
  AdaptersAreServable
PROPERTIES
  UserContentIsKept
  ReinstallChangesNothing
