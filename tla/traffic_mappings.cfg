\* Two lists, one UserCA, and no requests.
SPECIFICATION Spec
CONSTANTS
  Hostnames <- MCHostnames
  Parent <- MCParent
  Sources = 2
  Files <- MCFiles
  Undecodable = undecodable
  CAs = {ca1}
  None = None
  Origin = "page"
  Requests = {}
  Replies = {}
  Relative = relative
  Capacity = 2
  Targets = {}
INVARIANT
  ServedMappingsAreCurrent
