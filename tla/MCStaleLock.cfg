SPECIFICATION Spec
CONSTANTS
  Clients = {c1}
  MaxCalls = 2
  MaxIds = 2
  LockThreads = {t1}
  NoThread = NoThread
  FdLimit = 20
  MaxOneshots = 4
  Ops = {"Register", "SetLk", "SetLkw"}
  Acts = {"Write", "Unlock"}
PROPERTIES LocksOnlyForCalls
CHECK_DEADLOCK FALSE
