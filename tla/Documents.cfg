SPECIFICATION Spec
CONSTANTS
  p1 = p1
  p2 = p2
  d1 = d1
  d2 = d2
  s1 = s1
  s2 = s2
  f1 = f1
  f2 = f2
  Process = {p1, p2}
  Device = {d1, d2}
  Secret = {s1, s2}
  Folder = {f1, f2}
  Limit = {0, 1}
  MaxCommands = 3
  Absent = Absent
  Empty = Empty
  Torn = Torn
SYMMETRY Symmetry
INVARIANTS
  TypeOK
  DocumentsReadable
  AcknowledgedKept
  OneEntryPerKey
  ConfiguredIsInitialised
CHECK_DEADLOCK FALSE
