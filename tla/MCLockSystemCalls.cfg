SPECIFICATION Spec
CONSTANTS
  Clients = {c1}
  MaxCalls = 3
  MaxIds = 3
  LockThreads = {t1, t2}
  NoThread = NoThread
  FdLimit = 3
  MaxOneshots = 4
  Ops = {"Ping", "Register", "Unregister", "GetLk", "SetLk", "SetLkw"}
  Acts = {"Read", "Write", "Unlock"}
INVARIANTS PendingOnlyFirst DoneAnswersCall DropClosesFile
PROPERTIES ImplementsOwner
CHECK_DEADLOCK FALSE
