CONSTANTS
  Orders = {o1}
  Items <- EventsOfStore
  MaxQty = 2
  InitialStock <- TwoSeatsEach
  Suppliers = {"ana", "bia"}
  SupplierOf <- Agreement
  Price <- CentsEach
  UnitPayout <- PartEach
  ApplicationBps = 1000
  WooviFee = 3
  Charged = {1, 2}
  Settlements = {3}
  MaxSettled = 3
  Listed = {"ana", "bia"}
SPECIFICATION StatementSpec
INVARIANT MatchesTheTab
CHECK_DEADLOCK FALSE
