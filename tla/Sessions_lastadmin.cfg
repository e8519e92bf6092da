SPECIFICATION Spec
CONSTANTS
  q1 = q1
  q2 = q2
  q3 = q3
  q4 = q4
  q5 = q5
  Request = {q1, q2, q3, q4}
  Email = {"a", "b"}
  Kind = {"register", "patch"}
  Overlap = 2
  None = None
SYMMETRY CallSymmetry
VIEW Relevant
CHECK_DEADLOCK FALSE
PROPERTIES
  AdminRemains
