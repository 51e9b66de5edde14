---------------------------- MODULE MCDepthDeck ----------------------------
(***************************************************************************)
(* Model values for DepthDeck.  The deck starts empty and is explored      *)
(* without end.                                                            *)
(***************************************************************************)
EXTENDS DepthDeck, TLC

Symmetry == Permutations(Window)
=============================================================================
