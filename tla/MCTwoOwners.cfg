SPECIFICATION Spec
CONSTANTS
  OwnerIds = {k1}
  Callers = {c1, c2}
  Procs = {p1, p2, p3, p4}
  None = None
  Expiring = {k1}
  Faulty = {}
  CanFail = FALSE
INVARIANTS OneProcessPerOwner
SYMMETRY ManagerSymmetry
CHECK_DEADLOCK FALSE
