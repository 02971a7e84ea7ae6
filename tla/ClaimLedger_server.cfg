SPECIFICATION Spec
CONSTANTS
  a = a
  b = b
  c = c
  d1 = d1
  d2 = d2
  p1 = p1
  p2 = p2
  MaxJournal = 7
  None = None
  Claims = {a, b, c}
  Bodies = {d1, d2}
  Slots = {p1, p2}
  Extract <- TwoBodies
  Trees = {}
  Transcripts = {d1, d2}
  Subject <- OneSubject
  Text <- Distinct
  Replaces = {c}
  Contradicts = {}
  Order <- Unbound
  SemanticsEnabled = FALSE
  ModelEnabled = TRUE
SYMMETRY Threads
CONSTRAINT BoundedJournal
INVARIANTS
  DecisionsConcernRecordedClaims
  NothingIsRepeated
PROPERTIES
  DecidedForever
