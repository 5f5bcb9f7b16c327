\* One start that reaches the owner through its router.
CONSTANTS
  s1 = s1
  t1 = t1
  Starts = {s1}
  Routed = {s1}
  Stops = {t1}
  Mutators = {}
  None = None
  ServingMayFail = FALSE
  ListsMayChange = FALSE
SPECIFICATION Spec
INVARIANT
  RunningRuntimeServes
