SPECIFICATION Spec
CONSTANTS
  Path <- MCPath
  Content = {c1, c2}
  NoRecord = NoRecord
  NoHash = NoHash
  MaxRounds = 3
INVARIANTS
  TypeOK
  MirrorPlans
  SettledAfterOneCycle
  AgreesWithClassification
PROPERTY NoRecordOverwritten
CHECK_DEADLOCK FALSE
