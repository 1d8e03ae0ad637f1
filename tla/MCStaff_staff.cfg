SPECIFICATION StaffSpec
CONSTANTS
  p = p
  a1 = a1
  b1 = b1
  None = None
  Products <- OneProduct
  Assets <- OneAsset
  Boxes = {b1}
  Requests = {r1}
  IssuePhotos = {i1}
  ReturnPhotos = {e1}
  AssetProduct <- AProduct
  ProductBox <- PBox
  AssetBox <- ABox
  Subtree <- FlatBoxes
  InitialStock <- PStock
  InitialTracking <- QTracking
  InitialAsset <- NoAssetYet
  MaxQty = 1
  MaxDelta = 0
  MaxTotal = 2
  Sessions = {t1}
  MaxLines = 2
  FixSessions = {f1}
  EditSessions = {d1}
  o1 = o1
  PiiRows = {1, 2}
  Triggered = {1}
  MaxOperations = 2
  Writers = {s1}
  KeyVersions = 2
  Files = {o1, o2}
  UploadCalls = {u1, u2}
  NoFile = NoFile
  MaxBytes <- SizeLimits
  StorageLimit = 2
  Updaters = {y1, y2}
  MaxReleases = 2
  NoForm = NoForm
CONSTRAINT NoOverlapYet
INVARIANTS
  BucketsWithinTotal
  RollbackComplete
  WritesUseLiveKey
  AttachedIsStored
  UsageExplained
  MarkerIsRunning
PROPERTIES
  CountedIsStocked
  BucketsFollowAssets
  QuietWhenClosed
CHECK_DEADLOCK FALSE
