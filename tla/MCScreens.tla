----------------------------- MODULE MCScreens -----------------------------
(***************************************************************************)
(* Screens over a few evenings, which nothing tells apart: no property     *)
(* checked with this symmetry is a liveness property.                      *)
(***************************************************************************)
EXTENDS Screens, TLC

Symmetry == Permutations(Evenings)
=============================================================================
