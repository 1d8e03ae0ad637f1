SPECIFICATION UploadsSpec
CONSTANTS
  Files = {o1}
  UploadCalls = {u1, u2}
  NoFile = NoFile
  MaxBytes <- SizeLimits
  StorageLimit = 2
INVARIANT ServiceFilesStay
CHECK_DEADLOCK FALSE
