SPECIFICATION RowLocksSpec
CONSTANTS
  Workers = {w1, w2}
  Assets = {1, 2, 3, 4}
  ProductOf <- AssetProducts
  OutAssets = {3, 4}
  Borrowers = {1}
  BorrowerOf <- WhoHolds
  RequesterOf <- WhoAsked
  Boxes = {1}
  Content <- BoxContent
  LockRequests = {1}
  AssignedBox <- RequestBox
INVARIANT HandoutsNeverDeadlock
CHECK_DEADLOCK FALSE
