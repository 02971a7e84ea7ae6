SPECIFICATION Spec
CONSTANTS
  c1 = c1
  c2 = c2
  code = code
  s1 = s1
  Claims = {c1, c2}
  Codes = {code}
  Sources = {s1, s2}
  ClaimOrder <- ByIdentifier
  Ranking <- ByRank
  PageSize = 1
  None = None
  FirstEvents <- Indexed
  MaxJournal = 5
  MaxCut = 2
  MaxReplaced = 1
INVARIANTS
  ReadsAreSound
