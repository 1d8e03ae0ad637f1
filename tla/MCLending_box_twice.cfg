SPECIFICATION Spec
CONSTANTS
  p = p
  s = s
  a1 = a1
  a2 = a2
  b1 = b1
  None = None
  Products <- QProducts
  Assets <- NoAssets
  Boxes = {b1}
  Requests = {r1, r2}
  IssuePhotos = {i1, i2}
  ReturnPhotos = {e1, e2}
  AssetProduct <- NoFunction
  ProductBox <- QProductBox
  AssetBox <- NoFunction
  Subtree <- FlatBoxes
  InitialStock <- QStock
  InitialTracking <- QTracking
  InitialAsset <- NoFunction
  MaxQty = 2
  MaxDelta = 1
  MaxTotal = 2
SYMMETRY LendingSymmetry
INVARIANT BoxOutOnce
CHECK_DEADLOCK FALSE
