----------------------------- MODULE MCSystemPAC -----------------------------
(***************************************************************************)
(* Small sets of services for TLC.                                         *)
(***************************************************************************)
EXTENDS SystemPAC, TLC

\* Services, and calls of one kind, may be exchanged.
Interchangeable ==
  Permutations(Services) \cup Permutations(Deliveries) \cup Permutations(Cleanups)
=============================================================================
