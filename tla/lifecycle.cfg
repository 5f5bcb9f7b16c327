\* Two starts whose clients may go away, one stop, a CA mutation.
CONSTANTS
  s1 = s1
  s2 = s2
  t1 = t1
  m1 = m1
  Starts = {s1, s2}
  Routed = {s1, s2}
  Stops = {t1}
  Mutators = {m1}
  None = None
  ServingMayFail = TRUE
  ListsMayChange = FALSE
SPECIFICATION Spec
SYMMETRY Interchangeable
INVARIANTS
  LifecycleInv
  FailedStartLeavesNothing
  FulfilledCleanupHolds
  StopLeavesNothing
  PACEndpointProven
PROPERTY
  ImplementsGateway
