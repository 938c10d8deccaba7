SPECIFICATION SettlementSpec
CONSTANTS
  Rows = {e1}
  CreatedAt <- SameInstant
  Ticks = {t1}
  Nobody = Nobody
  Batch = 1
  MaxAttempts = 1
  MaxFaults = 0
  MaxSlow = 0
  Payments = {p1}
  PaymentOf <- OnePayment
  Admins = {a1}
  MaxAged = 0
INVARIANT PayoutNotForgotten
