SPECIFICATION TxSpec
CONSTANTS
  Orders = {o1, o2}
  Items = {i1, i2}
  MaxQty = 1
  InitialStock <- MCStock
  Txs = {t1, t2}
  ItemId <- MCItemId
SYMMETRY TxSymmetry
CONSTRAINT OneProvider
INVARIANTS
  DeadlockNeedsCancellation
  StockConserved
PROPERTY RepoSpec
