----------------------------- MODULE MCLifecycle -----------------------------
(***************************************************************************)
(* Small owners for TLC.                                                   *)
(***************************************************************************)
EXTENDS LifecycleRefinement, TLC

\* Starts that nothing tells apart (all routed, or none) may be exchanged, and
\* so may stops and mutators.
Interchangeable ==
  Permutations(Starts) \cup Permutations(Stops) \cup Permutations(Mutators)
=============================================================================
