SPECIFICATION Spec
CONSTANTS
  Pid = {1, 2}
  BUCKET_BOUNDS <- NoBounds
  Requests <- OneRequest
  MIN_EMPTY = 99
  Calls <- RecordAndScrape
  Env = {"fork"}
  Ordered = TRUE
  MaxRecords = 2
  MaxStarts = 2
  MaxGen = 1
INVARIANTS
  OwnShardOnly
CHECK_DEADLOCK FALSE
