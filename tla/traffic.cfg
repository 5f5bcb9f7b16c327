\* Two lists, two UserCAs, one HTTPS connection at a time, and a cache for one
\* hostname less than are visited.
SPECIFICATION Spec
SYMMETRY Interchangeable
CONSTANTS
  Hostnames <- MCHostnames
  Parent <- MCParent
  Sources = 2
  Files <- MCFiles
  Undecodable = undecodable
  ca1 = ca1
  ca2 = ca2
  CAs = {ca1, ca2}
  None = None
  Origin = "page"
  Requests <- MCRequests
  Replies <- MCReplies
  Relative = relative
  Capacity = 2
  Targets <- MCTargets
INVARIANTS
  RoutedAsDocumented
  AnswersAreReadable
  RedirectsStayOnFacade
  LeafCertificatesMatch
PROPERTIES
  SwitchesToDocumentedUpstreams
  OrderIsIrrelevant
