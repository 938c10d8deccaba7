SPECIFICATION CheckoutSpec
CONSTANTS
  Orders = {o1}
  Items = {i1}
  MaxQty = 1
  InitialStock <- OneUnitEach
  Runs = {r1, r2}
  Admins = {a1, a2}
  MaxFaults = 1
  MaxAged = 1
  OutsideRefunds = TRUE
SYMMETRY ActorSymmetry
INVARIANTS
  RecordedIsReal
  ProcessedIsComplete
  RefundLands
  SignalledOnce
  StockConserved
\* An order may end with nothing left to do: delivered, cancelled or refunded.
CHECK_DEADLOCK FALSE
