------------------------------ MODULE MCSessions ------------------------------
(***************************************************************************)
(* t2 spends t1, so that the status of y, which only t2 touches, changes   *)
(* when t1 is confirmed.  With t2 the history of y is too large.  t0 is a  *)
(* coinbase, in no mempool: its input is null, which nobody can have, as   *)
(* the output that it spends is spent by r.  The branch of b confirms t1   *)
(* later, and t2 not at all: there only a1, below the fork, touches y.     *)
(***************************************************************************)
EXTENDS Sessions, TLC

CONSTANTS x, y, g, a1, a2, a3, b2, b3, r, null, t0, t1, t2

MCPay == r :> x @@ null :> x @@ t0 :> y @@ t1 :> x @@ t2 :> y
MCIns == r :> {r} @@ null :> {r} @@ t0 :> {null} @@ t1 :> {} @@ t2 :> {t1}

MCPrev == [b \in Block |-> (g :> NoTip @@ a1 :> g @@ a2 :> a1 @@ a3 :> a2 @@ b2 :> a1 @@ b3 :> b2)[b]]
MCTxs == [b \in Block |-> (g :> {r} @@ a1 :> {t0} @@ a2 :> {t1} @@ a3 :> {t2} @@ b2 :> {} @@ b3 :> {t1})[b]]
=============================================================================
