SPECIFICATION Spec
CONSTANTS
  Path <- OnePath
  Content = {v1, v2}
  NoRecord = NoRecord
  NoHash = NoHash
  NoFile = NoFile
  Device = {A, B}
  Client = {A}
  Slot = {1}
  SizeLimits <- RoomForTwo
  Limit = 2
  BusyEdits = TRUE
  MaxEdits = 2
  MaxPlans = 2
  MaxRetries = 1
  MaxFaults = 2
SYMMETRY VersionSymmetry
INVARIANT TypeOK
PROPERTY ImplementsSharedFolder
CHECK_DEADLOCK FALSE
