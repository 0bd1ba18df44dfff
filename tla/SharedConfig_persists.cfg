SPECIFICATION Spec
CONSTANTS
  Connections = {c1}
  Models = {m1}
  Names = {n1, n2}
  NoModel = NoModel
  Settings = {s1, s2}
  m1 = m1
  n1 = n1
  n2 = n2
  s1 = s1
  s2 = s2
  Contents <- MCContents
  MaxRequests = 2
  MaxReads = 1
  MaxFaults = 0
INVARIANTS
  SwitchPersists
CHECK_DEADLOCK FALSE
