SPECIFICATION Spec
CONSTANTS
  Clients = {c1, c2}
  MaxCalls = 3
  MaxIds = 3
  LockThreads = {t1, t2}
  NoThread = NoThread
  FdLimit = 20
  MaxOneshots = 5
  Ops = {"Register", "Unregister", "SetLkw"}
  Acts = {"Write"}
INVARIANTS TypeOK LockableKeepsProcess NoUseAfterUnregister LockNeedsDescriptor InterruptsOwnCall NoInterruptLeak
SYMMETRY ClientSymmetry
CHECK_DEADLOCK FALSE
