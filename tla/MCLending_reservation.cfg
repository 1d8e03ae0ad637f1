SPECIFICATION Spec
CONSTANTS
  p = p
  s = s
  a1 = a1
  a2 = a2
  b1 = b1
  None = None
  Products <- SProducts
  Assets <- SAssets
  Boxes = {b1}
  Requests = {r1, r2}
  IssuePhotos = {i1, i2}
  ReturnPhotos = {e1, e2}
  AssetProduct <- SAssetProduct
  ProductBox <- SProductBox
  AssetBox <- SAssetBox
  Subtree <- FlatBoxes
  InitialStock <- SStock
  InitialTracking <- STracking
  InitialAsset <- SAsset
  MaxQty = 2
  MaxDelta = 0
  MaxTotal = 2
SYMMETRY LendingSymmetry
INVARIANT IndividualReservationsKept
CHECK_DEADLOCK FALSE
