SPECIFICATION Spec
CONSTANTS
  Job <- MCJob
  MaxCases = 2
  MaxWrites = 1
INVARIANTS
  OwnWritesShown
  OneDossier
  SubmitOnce
  FlagsHaveCause
  NoRowTwice
CHECK_DEADLOCK FALSE
