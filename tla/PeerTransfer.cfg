SPECIFICATION Spec
CONSTANTS
  a1 = a1
  a2 = a2
  s1 = s1
  s2 = s2
  Agent = {a1, a2}
  Secret = {s1, s2}
  Contents <- SomeContents
  ChunkSize = 2
  TagSize = 1
  MaxTransfers = 2
  MaxEdits = 2
  MaxPairings = 1
  MaxFaults = 1
  NoFile = NoFile
  Partial = Partial
  Live = Live
SYMMETRY Symmetry
INVARIANTS
  TypeOK
  FailsOnlyWhenDisturbed
  LeftoverOnlyAfterFault
PROPERTY PublishedIsVerified
CHECK_DEADLOCK FALSE
