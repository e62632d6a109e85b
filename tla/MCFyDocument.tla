---------------------------- MODULE MCFyDocument ----------------------------
(***************************************************************************)
(* Small documents for TLC.  Which place a node is in makes no difference, *)
(* so the places are interchangeable.                                      *)
(***************************************************************************)
EXTENDS FyDocument

PlaceSymmetry == Permutations(Nodes)

=============================================================================
