SPECIFICATION Spec
CONSTANTS
  N = 3
  Threads = {t1}
  Serving = FALSE
  Budgets = {1, 2}
  Policies = {"wide", "narrow"}
  Similar <- MostPairs
  LastIndex = 1
  Order <- Branched
  Others = {"policy", "rejudge", "open", "supersede"}
CONSTRAINT OneByHand
CHECK_DEADLOCK FALSE
INVARIANTS
  TypeOK
  CompleteIsSettled
  OrderIsRespected
PROPERTIES
  AuthorityIsForever
