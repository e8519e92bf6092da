SPECIFICATION Spec
CONSTANTS
  k1 = k1
  k2 = k2
  c1 = c1
  c2 = c2
  Call <- MCCall
  Case <- MCCase
  Orgs = {"other"}
  MaxTime = 2
  MaxEntries = 2
  MaxEdits = 1
SYMMETRY Symmetry
INVARIANTS
  NoFalseAlarm
  TamperReported
  AckedCovered
