SPECIFICATION Spec
CONSTANTS
  Path <- TwoPaths
  c1 = c1
  c2 = c2
  Content = {c1, c2}
  NoRecord = NoRecord
  NoHash = NoHash
  Device = {d1, d2}
  Agent = {a1}
  Resolver = {u1}
  Manifests <- TwoPathManifests
  Limit = 2
  MaxPlans = 2
  MaxRetries = 1
SYMMETRY PeerSymmetry
INVARIANTS
  TypeOK
  LastPlanKept
  BatchWithinLimit
  OutcomeRecorded
  KindMatchesStatus
  OneBlockedPerPath
  ReplacementsAreUserChosen
PROPERTY DoneIsFinal
CHECK_DEADLOCK FALSE
