CONSTANTS
  Processes = {p1, p2}
  Configs <- MCConfigs
  DefaultConfig = "plain"
  Selections = {"none", "mirror"}
  FirstConfigs = {"missing"}
  MaxVersion = 1
  MaxEdits = 1
  Dirs = {d1, d2}
  Backups = {d2}
  Roots = {r1}
  MaxCommands = 2
  MaxTroubles = 1
SPECIFICATION Spec
SYMMETRY MCSymmetry
CHECK_DEADLOCK FALSE
INVARIANTS
  BackupInv
  RestoresAreSound
PROPERTIES
  ExistingIsKept
