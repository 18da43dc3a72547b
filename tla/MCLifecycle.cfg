SPECIFICATION LifecycleSpec
CONSTANTS
  OwnerIds = {k1}
  Callers = {c1}
  Procs = {p1, p2}
  None = None
  Expiring = {k1}
  Faulty = {}
  CanFail = TRUE
  Ttl = 2
  Period = 3
INVARIANTS LifecycleTypeOK
PROPERTIES GoneOwnerEvicted ZeroTtlReturns DropEndsProcesses ReturnsWithoutCoordinator IdleOwnerExits
CHECK_DEADLOCK FALSE
