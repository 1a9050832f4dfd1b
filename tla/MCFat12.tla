------------------------------- MODULE MCFat12 -------------------------------
(* Fat12 for TLC: the geometry and inputs are given in the .cfg files. *)
EXTENDS Fat12
=============================================================================
