\* A changing list, an assessment, the deadline, an install and an uninstall.
\* The code can stand still here (see signals_standoff.cfg), so a deadlock is
\* no error.
SPECIFICATION Spec
CHECK_DEADLOCK FALSE
SYMMETRY Symmetric
CONSTANTS
  Lists = {l1}
  Contents <- EmptyOrFacades
  SemanticsOf <- MCSemantics
  FacadesOf <- MCFacades
  Installs = {i1}
  Uninstalls = {u1}
  Assessors = {a1}
  Watcher = watcher
  Deadline = deadline
  CAs = {ca1, ca2}
  None = none
INVARIANTS
  ServesCurrentFacts
  RequestNeverLost
  MutationWithdrawn
  UsesInstalledCA
PROPERTIES
  DeadlineSparesNewer
