\* Donations
CONSTANTS
  Cards = {c1}
  Pixes = {p1}
  Monthlies = {m1}
  Runs = {v1, v2}
  Cancellers = {k1}
  MaxGifts = 1
  MaxCycles = 2
  MaxRefunds = 1
  MaxFaults = 1
\* Raffles
CONSTANTS
  MaxRaffles = 2
  MaxDonations = 2
  Admins = {v1, v2}
  Relays = {r1}
  Amount <- MCAmount
  Prices = {1}
  MaxNumbers = 1
  PrizeCount = 1
  MaxTime = 2
  MaxRequests = 2
SPECIFICATION GivingSpec
SYMMETRY GivingSymmetry
VIEW GivingView
INVARIANTS
  CountedIsHeld
  ProcessedIsBooked
  WindowsDisjoint
  NumbersOnce
  Auditable
PROPERTIES
  LedgerKept
  DrawStands
\* A donation may end with nothing left to do, and the clock of the raffles stops.
CHECK_DEADLOCK FALSE
