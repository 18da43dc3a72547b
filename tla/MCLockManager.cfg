SPECIFICATION Spec
CONSTANTS
  OwnerIds = {k1, k2}
  Callers = {c1, c2}
  Procs = {p1, p2, p3, p4}
  None = None
  Expiring = {k1}
  Faulty = {k1}
  CanFail = TRUE
INVARIANTS TypeOK LockableServed SteadyOwnerOneProcess
SYMMETRY ManagerSymmetry
CHECK_DEADLOCK FALSE
PROPERTIES ProcessesAreOwners
