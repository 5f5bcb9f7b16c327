\* A file with two contents, four changes of it or its directory, and two watchers
\* that fail.  An observation that waits for the next change is at rest.
SPECIFICATION FairSpec
CHECK_DEADLOCK FALSE
CONSTANTS
  Contents = {v1, v2}
  Missing = missing
  Irregular = irregular
  ReadError = readError
  StoppedError = stoppedError
  Nothing = nothing
  MaxChanges = 4
  MaxFailures = 2
INVARIANT
  NeverSilentlyStale
PROPERTIES
  Settles
  CloseReturns
