----------------------------- MODULE MCChainSync -----------------------------
(***************************************************************************)
(* Three branches, one of which parts after block 1, the others after 3:   *)
(* the windows of calc_reorg_range find the fork at once or when they get  *)
(* wider, or reach genesis first.                                          *)
(***************************************************************************)
EXTENDS ChainSync, TLC

CONSTANTS g, a1, a2, a3, a4, b2, b3, b4, b5, c4, c5, c6

LOCAL tree ==
    g  :> NoTip @@ a1 :> g @@ a2 :> a1 @@ a3 :> a2 @@ a4 :> a3 @@
    b2 :> a1 @@ b3 :> b2 @@ b4 :> b3 @@ b5 :> b4 @@
    c4 :> a3 @@ c5 :> c4 @@ c6 :> c5

MCPrev == [b \in Block |-> tree[b]]
=============================================================================
