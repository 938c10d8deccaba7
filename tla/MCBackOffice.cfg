\* Agenda
CONSTANTS
  BatchIds = {b1, b2}
  Organisers = {u1, u2}
  Buyers = {o1}
  FormSeats = {1}
  Windows <- SaleWindows
  MaxForms = 2
  LastHour = 1
\* Interests
CONSTANTS
  People = {v1, v2}
  Notifiers = {u1, u2}
  MaxCalls = 2
  MaxAsks = 2
  LastMs = 1
\* Billing
CONSTANTS
  Subs = {u1, u2}
  Workers = {v1, v2}
  MaxPeriod = 1
  MaxChanges = 3
  MaxDecisions = 1
\* StoreTeam
CONSTANTS
  Owner = owner
  Persons = {owner, p1}
  Clicks = {u1, u2}
  MaxInvites = 2
  MaxTokens = 3
\* PixKey
CONSTANTS
  Stores = {u1, u2}
  Keys = {v1, v2}
  Saves = {s1}
  Settlers = {w1}
  MaxProofs = 1
  MaxCharges = 1
\* Sessions
CONSTANTS
  Tabs = {u1, u2}
  MaxRefreshTokens = 3
\* Campaigns
CONSTANTS
  Admins = {u1, u2}
  Photos = {p1}
  MaxDonations = 1
\* Onboarding
CONSTANTS
  Openers = {u1, u2}
  Watchers = {w1}
  MaxAccounts = 2
  MaxUpdates = 2
\* Accounts
CONSTANTS
  Emails = {e1}
  Phones = {v1, v2}
  Forms = {u1, u2}
  Signups = {w1}
  Logins = {g1}
  MaxUsers = 3
  MaxLinks = 1
\* Catalogue
CONSTANTS
  Prices = {10, 15}
  Values = {14, 9000}
  FeeBps = 1000
  Editors = {u1, u2}
  Sales = {s1}
  Quantities = {1, 2}
  MaxEdits = 2
\* Categories
CONSTANTS
  Drawers = {b1, b2, b3}
  Names = {n1}
  Desks = {u1, u2}
  MaxDesks = 5
\* Pages
CONSTANTS
  MaxRows = 3
  Instants = {1, 2}
  Amounts = {1, 2}
  PageSizes = {1, 2}
  MaxTouches = 1
\* Statement, and the OrdersRepository under it
CONSTANTS
  Orders = {o1}
  Items <- EventsOfStore
  MaxQty = 2
  InitialStock <- TwoSeatsEach
  Suppliers = {"ana", "bia"}
  SupplierOf <- Agreement
  Price <- CentsEach
  UnitPayout <- PartEach
  ApplicationBps = 1000
  WooviFee = 3
  Charged = {1, 2}
  Settlements = {3}
  MaxSettled = 3
  Listed = {"ana"}
SPECIFICATION BackOfficeSpec
SYMMETRY Symmetry
INVARIANTS
  SoldBatchStays OrderOfSale NewsIsNotice OwnerStands ProvedByItsHolder ArchivedIsClosed
  SessionSurvives SettledCapabilities SoldAtNoLoss ListedOnce WholeOrder ScreensAgree
PROPERTIES OnlyItsOwnSuspends FormsSpareAccounts
CHECK_DEADLOCK FALSE
