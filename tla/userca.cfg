CONSTANTS
  Authorities = {a1, a2, a3}
  Foreign = {f}
  Absent = Absent
  Torn = Torn
SPECIFICATION Spec
SYMMETRY AuthoritySymmetry
INVARIANTS
  NextCommandReconciles
  RefusedTrustLeavesNothing
  ReportedOutcomeHolds
  TrustHasPair
PROPERTIES
  NoOverlap
  ForeignUntouched
  ValidPairKept
