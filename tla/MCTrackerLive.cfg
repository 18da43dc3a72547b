SPECIFICATION FairSpec
CONSTANTS
  t1 = t1  t2 = t2  g1 = g1  g2 = g2
  Free = Free
  Guards = {g1, g2}
  Pthreads = {t1, t2}
  Host <- HostApart
  Stoppers = {s1}
  Interrupters = {h1}
  Target <- TargetFirst
  BackoffLimit = 1
PROPERTIES ImplementsGate StopReturns HandleStopReturns
CHECK_DEADLOCK FALSE
