CONSTANTS
  u1 = u1
  u2 = u2
  e1 = e1
  e2 = e2
  p1 = p1
  p2 = p2
  User <- MCUser
  Email = {e1, e2}
  Password = {p1, p2}
  Request = {r1, r2}
  None = None
  Inputs <- MCInputs
  InitialUsers <- TwoUsers
  InitialStar <- MCUser
SPECIFICATION Spec
SYMMETRY Symmetry
PROPERTY UpdateKeepsAdmin
