SPECIFICATION FairSpec
CONSTANTS
  Path <- TwoPaths
  Content = {v1}
  NoRecord = NoRecord
  NoHash = NoHash
  NoFile = NoFile
  Device = {A, B}
  Client = {A}
  Slot = {1}
  SizeLimits <- RoomForOneOrTwo
  Limit = 1
  BusyEdits = FALSE
  MaxEdits = 1
  MaxPlans = 3
  MaxRetries = 1
  MaxFaults = 1
PROPERTIES DoneMeansCopied Settles
CHECK_DEADLOCK FALSE
