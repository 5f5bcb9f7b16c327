------------------------- MODULE MCFileObservation -------------------------
(***************************************************************************)
(* A file with a few contents for TLC.                                     *)
(***************************************************************************)
EXTENDS FileObservation
=============================================================================
