\* A changing list against an uninstall.  They can block each other for good, which
\* is what this run is to show, as a property rather than as a deadlock.
SPECIFICATION FairSpec
CHECK_DEADLOCK FALSE
CONSTANTS
  Lists = {l1}
  Contents <- EmptyOrOne
  SemanticsOf <- MCSemantics
  FacadesOf <- MCFacades
  Installs = {}
  Uninstalls = {u1}
  Assessors = {a1, a2}
  Watcher = watcher
  Deadline = deadline
  CAs = {ca1}
  None = none
PROPERTIES
  StatusAvailable
