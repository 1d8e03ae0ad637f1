SPECIFICATION Spec
CONSTANTS
  p = p
  s = s
  a1 = a1
  a2 = a2
  b1 = b1
  None = None
  Products <- QProducts
  Assets <- QAssets
  Boxes = {b1}
  Requests = {r1, r2}
  IssuePhotos = {i1, i2}
  ReturnPhotos = {e1, e2}
  AssetProduct <- QAssetProduct
  ProductBox <- QProductBox
  AssetBox <- QAssetBox
  Subtree <- FlatBoxes
  InitialStock <- QStock
  InitialTracking <- QTracking
  InitialAsset <- QAsset
  MaxQty = 2
  MaxDelta = 0
  MaxTotal = 2
SYMMETRY LendingSymmetry
INVARIANTS
  AssetOnOneLoan
  LoansBacked
  LoanMatchesRequest
PROPERTY UnitsInCustody
CHECK_DEADLOCK FALSE
