SPECIFICATION Spec
CONSTANTS
  Clients = {c1}
  MaxCalls = 1
  MaxIds = 1
  LockThreads = {t1}
  NoThread = NoThread
  FdLimit = 20
  MaxOneshots = 4
  Ops = {"Register"}
  Acts = {"Write"}
INVARIANTS RegisterSeesBrokenPipe
CHECK_DEADLOCK FALSE
