SPECIFICATION Spec
CONSTANTS
  t1 = t1  t2 = t2  g1 = g1  g2 = g2
  Free = Free
  Guards = {g1, g2}
  Pthreads = {t1}
  Host <- HostShared
  Stoppers = {s1}
  Interrupters = {}
  Target <- TargetFirst
  BackoffLimit = 1
INVARIANT StopMeansStopped
CHECK_DEADLOCK FALSE
