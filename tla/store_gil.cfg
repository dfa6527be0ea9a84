SPECIFICATION Spec
CONSTANTS
  Thread = {t1, t2}
  DEFAULT_MAX_REQUESTS = 3
  Caps = {0, 1, 2, 4}
  GIL = TRUE
  MaxRecords = 7
SYMMETRY Threads
INVARIANTS
  StoreTypeOK NewestKept WithinCap
PROPERTIES
  Retention
