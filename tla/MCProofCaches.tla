---------------------------- MODULE MCProofCaches ----------------------------
(***************************************************************************)
(* Two branches that part after the second block.                          *)
(***************************************************************************)
EXTENDS ProofCaches, TLC

MCChains == {<<1, 2, 3, 4>>, <<1, 2, 13, 14, 15>>}
=============================================================================
