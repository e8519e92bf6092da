SPECIFICATION ViewsSpec
CONSTANTS
  r1 = r1
  r2 = r2
  r3 = r3
  g1 = g1
  sup = sup
  inv = inv
  NoId = NoId
  Request = {r1, r2, r3}
  Opening = r1
  Kind <- MCKinds
  User = {sup, inv}
  Role <- MCRole
  CaseNumber = {1}
  Time = {0}
  TicksPerMicro = 1
  MaxConnections = 2
  LedgerMode = "mock"
  Reader = {g1}
  View <- MCViews
SYMMETRY LaterSymmetry
VIEW RelevantViews
CHECK_DEADLOCK FALSE
INVARIANTS
  LedgerBacked
  AnsweredMeansRecorded
  ReaderScoped
  AnsweredWritesShown
  NothingSkipped
  CustodyHasOrigin
  DownloadServesFile
