---------------------------- MODULE MCUserCAStore ----------------------------
(* Three authorities: the stored one, one left by another Gateway or a failed  *)
(* removal, and a new one.                                                     *)
EXTENDS UserCAStore, TLC

AuthoritySymmetry == Permutations(Authorities)
==============================================================================
