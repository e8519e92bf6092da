SPECIFICATION Spec
CONSTANTS
  r1 = r1
  r2 = r2
  r3 = r3
  sup = sup
  inv = inv
  NoId = NoId
  Request = {r1, r2, r3}
  Kind <- AllKinds
  User = {sup, inv}
  Role <- MCRole
  CaseNumber = {1}
  Time = {0, 1}
  TicksPerMicro = 2
  MaxConnections = 2
  LedgerMode = "fabric"
SYMMETRY RequestSymmetry
VIEW Relevant
CHECK_DEADLOCK FALSE
INVARIANTS
  ChainLinked
  AuditMatchesData
  ChainCausal
  InvestigatorScoped
  CaseNumbersUnique
  OnlyRoundingAccused
  TamperLocated
PROPERTIES
  ChainSpec
