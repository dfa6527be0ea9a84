SPECIFICATION Spec
CONSTANTS
  Pid = {1, 2}
  BUCKET_BOUNDS <- NoBounds
  Requests <- OneRequest
  MIN_EMPTY = 99
  Calls <- RecordAndScrape
  Env = {"crash", "reuse"}
  Ordered = TRUE
  MaxRecords = 2
  MaxStarts = 3
  MaxGen = 2
INVARIANTS
  OwnCounts
CHECK_DEADLOCK FALSE
