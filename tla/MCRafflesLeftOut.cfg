SPECIFICATION RafflesSpec
CONSTANTS
  MaxRaffles = 2
  MaxDonations = 2
  Admins = {a1}
  Relays = {w1}
  Amount <- MCAmount
  Prices = {1}
  MaxNumbers = 1
  PrizeCount = 1
  MaxTime = 2
  MaxRequests = 2
INVARIANT NobodyLeftOut
CHECK_DEADLOCK FALSE
