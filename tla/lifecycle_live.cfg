\* Liveness, and serving: one start of the hosting process, a stop, and a CA
\* mutation.
CONSTANTS
  s1 = s1
  t1 = t1
  m1 = m1
  Starts = {s1}
  Routed = {}
  Stops = {t1}
  Mutators = {m1}
  None = None
  ServingMayFail = TRUE
  ListsMayChange = TRUE
SPECIFICATION FairSpec
INVARIANT
  RunningRuntimeServes
PROPERTIES
  StopReturns
  StartReturns
  GoroutinesEnd
