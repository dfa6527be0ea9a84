SPECIFICATION Spec
CONSTANTS
  Pid = {1, 2}
  BUCKET_BOUNDS <- NoBounds
  Requests <- OneRequest
  MIN_EMPTY = 99
  Calls <- OneScraper
  Env = {"crash", "fork", "read_error"}
  Ordered = FALSE
  MaxRecords = 2
  MaxStarts = 2
  MaxGen = 1
INVARIANTS
  SkewBounded
CHECK_DEADLOCK FALSE
