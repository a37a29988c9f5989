SPECIFICATION Spec
CONSTANTS
  MaxWord = 255
  MaxPercent = 255
  MaxBytes <- SomeLimits
  Percents <- SomePercents
  Sizes <- SomeSizes
  Times <- TwoTimes
  MaxTransfers = 3
INVARIANTS
  TypeOK
  SumIsExact
  AcceptedFit
  NothingThatFitsIsSkipped
  OldestFirst
  WarningAccurate
CHECK_DEADLOCK FALSE
