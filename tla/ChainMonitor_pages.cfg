SPECIFICATION Spec
CONSTANTS
  Job <- MCJob
  MaxEntries = 1
  MaxChanges = 2
INVARIANTS
  VerdictTrue
PROPERTIES
  SpinnersEnd
