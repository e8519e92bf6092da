SPECIFICATION Spec
CONSTANTS
  e1 = e1
  e2 = e2
  e3 = e3
  EntryId = {e1, e2, e3}
  Case = {k1}
  NoCase = NoCase
  Action = {"UPLOAD"}
  Timestamp = {1, 2}
  MaxSuffixes = 1
SYMMETRY EntrySymmetry
INVARIANTS
  StoreConsistent
  TamperExposed
  RestoreWouldHeal
PROPERTIES
  DurableSpec
