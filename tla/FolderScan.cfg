SPECIFICATION Spec
CONSTANTS
  Path <- TwoPaths
  Content = {v1, v2}
  NoRecord = NoRecord
  NoHash = NoHash
  NoFile = NoFile
  NoPath = NoPath
  Device = {A}
  Task = {t1, t2}
  Scanner = {t1}
  MaxRequests = 3
  MaxEdits = 2
SYMMETRY VersionSymmetry
INVARIANTS TypeOK UndisturbedScanIsExact
PROPERTY MissingIsTrue
CHECK_DEADLOCK FALSE
