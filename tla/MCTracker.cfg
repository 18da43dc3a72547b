SPECIFICATION Spec
CONSTANTS
  t1 = t1  t2 = t2  g1 = g1  g2 = g2
  Free = Free
  Guards = {g1, g2}
  Pthreads = {t1, t2}
  Host <- HostApart
  Stoppers = {s1, s2}
  Interrupters = {h1, h2}
  Target <- TargetFirst
  BackoffLimit = 2
INVARIANTS TypeOK StopMeansStopped HandleStopMeansExited SignalsReachLiveThreads
SYMMETRY CallerSymmetry
CHECK_DEADLOCK FALSE
