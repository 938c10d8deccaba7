SPECIFICATION PixSpec
CONSTANTS
  Stores = {t1}
  Keys = {k1, k2}
  Saves = {v1}
  Settlers = {w1}
  MaxProofs = 1
  MaxCharges = 1
SYMMETRY PixSymmetry
INVARIANT NothingLeftBehind
CHECK_DEADLOCK FALSE
