SPECIFICATION FairSpec
CONSTANTS
  r1 = r1
  r2 = r2
  n1 = n1
  n2 = n2
  h1 = h1
  h2 = h2
  Route = {r1, r2}
  Namespace = {n1, n2}
  Host = {h1, h2}
  RouteNs <- TwoNamespaces
  Timer = {t1, t2}
  NoTimer = NoTimer
  MaxEvents = 2
  MaxCrashes = 0
PROPERTIES FinalizerReleased UpdateExecuted
CHECK_DEADLOCK FALSE
