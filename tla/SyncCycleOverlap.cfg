SPECIFICATION Spec
CONSTANTS
  Path <- TwoPaths
  Content = {v1, v2}
  NoRecord = NoRecord
  NoHash = NoHash
  NoFile = NoFile
  Device = {A, B}
  Client = {A, B}
  Slot = {s1, s2}
  SizeLimits <- RoomForOne
  Limit = 2
  BusyEdits = FALSE
  MaxEdits = 1
  MaxPlans = 1
  MaxRetries = 0
  MaxFaults = 1
SYMMETRY OverlapSymmetry
PROPERTIES LimitRespected LastCopyKept
CHECK_DEADLOCK FALSE
CONSTRAINT OneVersionOfSecond
