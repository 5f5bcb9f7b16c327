\* Any three of a start, a serve, a stop and a CA command, and an owner that may
\* die.  Nothing happens any more once all commands have returned
\* (CommandsReturn says that they do).
SPECIFICATION MCSpec
CHECK_DEADLOCK FALSE
CONSTANTS
  s1 = s1
  h1 = h1
  t1 = t1
  c1 = c1
  Starts = {s1}
  Serves = {h1}
  Stops = {t1}
  CACommands = {c1}
  MaxCrashes = 1
  MaxCalls = 3
  None = none
INVARIANTS
  OwnershipInv
  WorkIsOwned
  Discoverable
PROPERTIES
  RoutingKept
  StopEndsOwner
  CommandsReturn
