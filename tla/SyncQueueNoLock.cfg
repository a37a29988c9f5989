SPECIFICATION Spec
CONSTANTS
  Path <- OnePath
  c1 = c1
  c2 = c2
  Content = {c1, c2}
  NoRecord = NoRecord
  NoHash = NoHash
  Device = {d1}
  Agent = {a1, a2}
  Resolver = {}
  Manifests <- OnePathManifests
  Limit = 2
  MaxPlans = 2
  MaxRetries = 1
PROPERTY DoneIsFinal
CHECK_DEADLOCK FALSE
