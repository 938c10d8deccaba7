SPECIFICATION FairCheckoutSpec
CONSTANTS
  Orders = {o1}
  Items = {i1}
  MaxQty = 1
  InitialStock <- OneUnitEach
  Runs = {r1, r2}
  Admins = {a1}
  MaxFaults = 1
  MaxAged = 0
  OutsideRefunds = FALSE
PROPERTIES
  ReservationResolved
  CaptureRecorded
  RefundRecorded
\* An order may end with nothing left to do: delivered, cancelled or refunded.
CHECK_DEADLOCK FALSE
