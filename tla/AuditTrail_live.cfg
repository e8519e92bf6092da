SPECIFICATION FairSpec
CONSTANTS
  r1 = r1
  r2 = r2
  r3 = r3
  sup = sup
  inv = inv
  NoId = NoId
  Request = {r1, r2, r3}
  Kind <- LiveKinds
  User = {sup}
  Role <- SoleRole
  CaseNumber = {1}
  Time = {0}
  TicksPerMicro = 1
  MaxConnections = 2
  LedgerMode = "fabric"
CHECK_DEADLOCK FALSE
PROPERTIES
  EveryCallEnds
