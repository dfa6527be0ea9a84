SPECIFICATION FairSpec
CONSTANTS
  Pid = {1, 2}
  BUCKET_BOUNDS <- NoBounds
  Requests <- OneRequest
  MIN_EMPTY = 99
  Calls <- OneScraper
  Env = {"crash", "reuse", "foreign"}
  Ordered = TRUE
  MaxRecords = 2
  MaxStarts = 3
  MaxGen = 2
PROPERTIES
  DeadShardPruned CountersNeverReset
CHECK_DEADLOCK FALSE
