SPECIFICATION LifecycleSpec
CONSTANTS
  OwnerIds = {k1}
  Callers = {c1}
  Procs = {p1, p2}
  None = None
  Expiring = {k1}
  Faulty = {}
  CanFail = FALSE
  Ttl = 5
  Period = 1
PROPERTIES IdleOwnerExits
CHECK_DEADLOCK FALSE
