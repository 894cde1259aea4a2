------------------------------ MODULE MCMempool ------------------------------
(***************************************************************************)
(* A chain of three unconfirmed transactions t1, t2, t3, and t4 which      *)
(* conflicts with the second.  The branch of b is longer, and t4 takes the *)
(* place of t2 and t3 in it: x loses its history in a reorg, and no block  *)
(* of that branch touches it.  Only t1 touches z.                          *)
(***************************************************************************)
EXTENDS Mempool, TLC

CONSTANTS x, y, z, g, a1, a2, b2, b3, r, t1, t2, t3, t4

MCPay == r :> z @@ t1 :> y @@ t2 :> x @@ t3 :> y @@ t4 :> y
MCIns == r :> {} @@ t1 :> {r} @@ t2 :> {t1} @@ t3 :> {t2} @@ t4 :> {t1}

MCPrev == [b \in Block |-> (g :> NoTip @@ a1 :> g @@ a2 :> a1 @@ b2 :> a1 @@ b3 :> b2)[b]]
MCTxs == [b \in Block |-> (g :> {r} @@ a1 :> {t1} @@ a2 :> {t2, t3} @@ b2 :> {t4} @@ b3 :> {})[b]]
=============================================================================
