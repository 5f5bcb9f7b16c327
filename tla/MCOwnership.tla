---------------------------- MODULE MCOwnership ----------------------------
(***************************************************************************)
(* A few processes for TLC, of which at most MaxCalls run their command:    *)
(* every choice of that many kinds of process is explored by one run.      *)
(* Nobody has to call, so this leaves out no obligation of fairness.       *)
(***************************************************************************)
EXTENDS OwnershipInvariant, TLC

CONSTANT MaxCalls

Called == {x \in Procs : pc[x] # "idle"}

MCNext == Next /\ Cardinality(Called') <= MaxCalls

MCSpec == Init /\ [][MCNext]_vars /\ Fairness
=============================================================================
