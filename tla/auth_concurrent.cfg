SPECIFICATION Spec
CONSTANTS
  n1 = n1
  n2 = n2
  Validators = {v1, v2}
  NoRequest = NoRequest
  Requests <- Traffic
  Nonces = {n1, n2}
  Second = 2
  MaxTimestampDrift = 2
  NonceTTL = 4
  NonceCacheSize = 1
  SweepPeriod = 3
  DurationLimit = 64
  MaxClock = 10
  MaxRecords = 4
SYMMETRY AnyValidator
CHECK_DEADLOCK FALSE
PROPERTIES
  RepeatOnlyAfterTTL
