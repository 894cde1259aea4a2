---------------------------- MODULE MCIndexStore ----------------------------
(***************************************************************************)
(* Two branches that fork after genesis, with blocks of one or two         *)
(* transactions so that a tx_num means a different thing on each.  A       *)
(* configuration takes the blocks of an instance from this tree.           *)
(***************************************************************************)
EXTENDS IndexLedger, TLC

CONSTANTS x, y, g, a1, a2, a3, b1, b2

LOCAL tree ==
    g  :> <<NoTip, 0, <<{x}>>>> @@
    a1 :> <<g,     1, <<{y}, {x}>>>> @@
    a2 :> <<a1,    3, <<{x, y}>>>> @@
    a3 :> <<a2,    4, <<{y}>>>> @@
    b1 :> <<g,     1, <<{x}>>>> @@
    b2 :> <<b1,    2, <<{y}, {x, y}>>>>

MCPrev == [b \in Block |-> tree[b][1]]
MCFirstTx == [b \in Block |-> tree[b][2]]
MCTxs == [b \in Block |-> tree[b][3]]
=============================================================================
