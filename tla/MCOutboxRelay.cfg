SPECIFICATION FairRelaySpec
CONSTANTS
  Rows = {e1, e2}
  CreatedAt <- SameInstant
  Ticks = {t1, t2}
  Nobody = Nobody
  Batch = 1
  MaxAttempts = 2
  MaxFaults = 1
  MaxSlow = 1
INVARIANTS
  DeliveredWhenProcessed
  RepeatsAreCounted
PROPERTIES
  EveryRowCloses
