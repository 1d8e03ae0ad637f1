SPECIFICATION ServicesSpec
CONSTANTS
  m3 = m3
  q1 = q1
  People = {m1, m2, m3}
  MaxCapacity = 2
  Unreliable <- OneUnreliable
  k3 = k3
  BookingIds = {k1, k3}
  Horizon = 3
  UnreliableCharge <- OneUnreliableBooking
  Jobs = {1, 2}
  Machines = {x1, x2}
  Printers = {x1}
  QueueCapacity = 1
  Initial = 1
  NoMachine = NoMachine
  Workers = {w1, w2}
  Assets = {1, 2, 3, 4}
  ProductOf <- AssetProducts
  OutAssets = {3, 4}
  Borrowers = {1}
  BorrowerOf <- WhoHolds
  RequesterOf <- WhoAsked
  Boxes = {1}
  Content <- BoxContent
  LockRequests = {1}
  AssignedBox <- RequestBox
  Persons = {q1, q2}
  MembershipRequests = {1}
  MemberLimit = 2
  StaffLimit = 2
  Emails = {e1}
  DeliveryWorkers = {d1, d2}
  EmailLimit = 1
  MaxRetries = 1
  MaxTasks = 2
  MaxDoubts = 2
  Sweeps = {c1, c2, c3}
  MaxDues = 2
  A = A
  B = B
  h1 = h1
  n1 = n1
  Nothing = Nothing
  Spaces <- TwoSpaces
  Shelves = {h1}
  ShelfSpace <- ShelfInA
  Units = {n1}
  Codes = {2, 3}
  Purchases = {i1}
  BuyerOf <- BuyerB
  InitialRows <- PlainRows
  InitialUnits <- StartUnits
  InitialCodes <- StartCodes
  MaxRows = 3
  BoughtQty = 1
SYMMETRY Interchangeable
INVARIANTS
  ServicesTypeOK
  CapacityKept
  NoIdleSeat
  OnlySeatsOwe
  NoDoubleBooking
  OnlyBookingsOwe
  OneJobPerMachine
  PoolExplained
  OrderedNeverDeadlock
  RevokedStaysOut
  PresentAreMembers
  DeliveredOnce
  RemindedOnce
  StockAccounted
  CodesFollowTargets
PROPERTIES
  FirstComeFirstSeated
CHECK_DEADLOCK FALSE
