SPECIFICATION Spec
CONSTANTS
  t1 = t1
  t2 = t2
  a1 = a1
  a2 = a2
  k1 = k1
  k2 = k2
  Tab = {t1, t2}
  Account = {a1, a2}
  Token = {k1, k2}
  MaxCalls = 2
  Evaluation = Evaluation
  None = None
SYMMETRY Renaming
INVARIANTS
  ActsAsShown
  EvaluationPowerless
  SpinnerHasCause
