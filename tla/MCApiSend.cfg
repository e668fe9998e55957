SPECIFICATION Spec
CONSTANTS
  k1 = k1
  ip = ip
  None = None
  me = me
  ann = ann
  bob = bob
  cal = cal
  bare = bare
  da = da
  db = db
  ha1 = ha1
  ha2 = ha2
  CAPACITY = 2
  REFILL = 1
  COST_OK = 1
  COST_AUTH_FAILURE = 3
  IDLE_EVICTION = 4
  MAX_BUCKETS = 2
  Starts <- MCStarts
  NameOrder <- MCNameOrder
  Exchangers = {ha1, ha2}
  Domain <- MCDomain
  mx_records <- MCRecords
  ReservedHeaders = {"bcc"}
INVARIANTS TypeOK FairLimit TwiceOnlyAfterLoss RecordTruthful
CHECK_DEADLOCK FALSE
