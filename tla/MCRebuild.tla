------------------------------- MODULE MCRebuild -------------------------------
(***************************************************************************)
(* Two rebuilds of one projection.                                         *)
(***************************************************************************)
EXTENDS RebuildCoordinator, TLC

Symmetry == Permutations(Job)
================================================================================
