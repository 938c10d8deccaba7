SPECIFICATION SettlementSpec
CONSTANTS
  Rows = {e1}
  CreatedAt <- SameInstant
  Ticks = {t1, t2}
  Nobody = Nobody
  Batch = 1
  MaxAttempts = 2
  MaxFaults = 1
  MaxSlow = 1
  Payments = {p1}
  PaymentOf <- OnePayment
  Admins = {a1}
  MaxAged = 1
SYMMETRY SettlementSymmetry
INVARIANTS
  MadeIsRecorded
  ProcessedMeansPaid
  KeptOnlyIfRaced
