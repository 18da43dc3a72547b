SPECIFICATION FairSpec
CONSTANTS
  Clients = {c1, c2}
  MaxCalls = 2
  MaxIds = 2
  LockThreads = {t1}
  NoThread = NoThread
  FdLimit = 3
  MaxOneshots = 4
  Ops = {"Register", "Unregister", "SetLkw", "StopTracker"}
  Acts = {"Write"}
PROPERTIES TrackersAreGates StoppedCallReturns CallReturns TrackerStopReturns DroppedCallReturns UnregisterEnds HangUpEndsProcess
CHECK_DEADLOCK FALSE
