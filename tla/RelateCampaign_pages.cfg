SPECIFICATION LiveSpec
CONSTANTS
  N = 3
  Threads = {t1}
  Serving = FALSE
  Budgets = {1}
  Policies = {"wide"}
  Similar <- EveryPair
  LastIndex = 2
  Order <- Turned
  Others = {"record", "index", "settle"}
CHECK_DEADLOCK FALSE
INVARIANTS
  PublicationsAreSound
PROPERTIES
  CampaignCompletes
  RecognisedWhenDone
