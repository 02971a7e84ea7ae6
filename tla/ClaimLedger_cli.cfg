SPECIFICATION Spec
CONSTANTS
  a = a
  b = b
  c = c
  d1 = d1
  d2 = d2
  p1 = p1
  p2 = p2
  MaxJournal = 9
  None = None
  Claims = {a, b, c}
  Bodies = {d1, d2}
  Slots = {p1}
  Extract <- TwoBodies
  Trees <- CliTrees
  Transcripts = {}
  Subject <- OneSubject
  Text <- Distinct
  Replaces = {b}
  Contradicts = {}
  Order <- D1BeforeD2
  SemanticsEnabled = FALSE
  ModelEnabled = FALSE
CONSTRAINT BoundedJournal
INVARIANTS
  TypeOK
  OnlyInterruptionLosesClaims
PROPERTIES
  ConflictsOpenBetweenCurrentClaims
  ImplementsClaimTruth
