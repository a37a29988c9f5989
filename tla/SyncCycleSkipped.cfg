SPECIFICATION Spec
CONSTANTS
  Path <- OnePath
  Content = {v1, v2}
  NoRecord = NoRecord
  NoHash = NoHash
  NoFile = NoFile
  Device = {A, B}
  Client = {A}
  Slot = {1}
  SizeLimits <- RoomForOne
  Limit = 2
  BusyEdits = FALSE
  MaxEdits = 1
  MaxPlans = 2
  MaxRetries = 0
  MaxFaults = 0
PROPERTY SkippedOnlyWhenFull
CHECK_DEADLOCK FALSE
