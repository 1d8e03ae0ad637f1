SPECIFICATION ConsoleSpec
CONSTANTS
  s = s
  a1 = a1
  b1 = b1
  None = None
  Products <- SProducts
  Assets <- SAssets
  Boxes = {b1}
  Requests = {r1, r2}
  IssuePhotos = {i1, i2}
  ReturnPhotos = {e1}
  AssetProduct <- SAssetProduct
  ProductBox <- SProductBox
  AssetBox <- SAssetBox
  Subtree <- FlatBoxes
  InitialStock <- SStock
  InitialTracking <- STracking
  InitialAsset <- SAsset
  MaxQty = 1
  MaxDelta = 0
  MaxTotal = 2
  FixSessions = {f1}
  EditSessions = {d1}
SYMMETRY ConsoleSymmetry
PROPERTY OnlyFreeAssetsShelved
CHECK_DEADLOCK FALSE
