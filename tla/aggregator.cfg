SPECIFICATION Spec
CONSTANTS
  Worker = {w1, w2}
  BUCKET_BOUNDS <- MCBounds
  Requests <- MCRequests
  MIN_EMPTY = 99
  MAX_REQUESTS = 3
  MaxRecords = 4
SYMMETRY Workers
INVARIANTS
  AggregatorTypeOK MergedExact EstimateInBucket PercentilesOrdered
