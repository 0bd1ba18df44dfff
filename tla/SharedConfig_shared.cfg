SPECIFICATION FairSpec
CONSTANTS
  Connections = {c1, c2}
  Models = {m1}
  Names = {n1, n2}
  NoModel = NoModel
  Settings = {s1, s2}
  m1 = m1
  n1 = n1
  n2 = n2
  s1 = s1
  s2 = s2
  Contents <- MCContents
  MaxRequests = 3
  MaxReads = 1
  MaxFaults = 1
INVARIANTS
  TypeOK
  AgreeWhenCalm
PROPERTIES
  OnlyCrossingsBlock
CHECK_DEADLOCK FALSE
