\* Two starts, one of which hosts.
SPECIFICATION Spec
CHECK_DEADLOCK FALSE
CONSTANTS
  s1 = s1
  s2 = s2
  Starts = {s1, s2}
  Serves = {}
  Stops = {}
  CACommands = {}
  MaxCrashes = 0
  MaxCalls = 2
  None = none
PROPERTIES
  RuntimePreserved
