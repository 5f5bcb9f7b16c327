\* Two deliveries and a cleanup over two services, one outside change.
CONSTANTS
  n1 = n1
  n2 = n2
  e1 = e1
  d1 = d1
  d2 = d2
  c1 = c1
  Services = {n1, n2}
  Endpoints = {e1}
  Stale = Stale
  Deliveries = {d1, d2}
  Cleanups = {c1}
  None = None
  MaxEdits = 1
SPECIFICATION Spec
SYMMETRY Interchangeable
PROPERTIES
  ForeignSurvives
  FulfilledCleanupIsClean
  DeliveryReachesAll
