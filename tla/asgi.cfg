SPECIFICATION Spec
CONSTANTS
  Worker = {w1, w2}
  Request = {r1, r2, r3}
  Apps = {"asgi"}
  Requests <- MCRequests
  BUCKET_BOUNDS <- NoBounds
  MIN_EMPTY = 99
  MAX_REQUESTS = 1
SYMMETRY Names
INVARIANTS
  HandlerServes


