--------------------------- MODULE MCHeaderMerkle ---------------------------
(***************************************************************************)
(* Two branches that part after the fourth header.                         *)
(***************************************************************************)
EXTENDS HeaderMerkle, TLC

MCChains == {<<1, 2, 3, 4, 5, 6, 7>>, <<1, 2, 3, 4, 15, 16, 17, 18>>}
=============================================================================
