SPECIFICATION Spec
CONSTANTS
  Pid = {1, 2}
  BUCKET_BOUNDS <- MCBounds
  Requests <- MCRequests
  MIN_EMPTY = 99
  Calls <- AllCalls
  Env = {"crash", "open_error"}
  Ordered = TRUE
  MaxRecords = 2
  MaxStarts = 2
  MaxGen = 1
INVARIANTS
  TypeOK OwnShardOnly LiveShardListed NoLostRequests OwnCounts SkewBounded QuiescentCoherent HeaderFirst
CHECK_DEADLOCK FALSE
