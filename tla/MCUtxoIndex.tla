----------------------------- MODULE MCUtxoIndex -----------------------------
(***************************************************************************)
(* Two branches after genesis.  t1 is in both, under different numbers; t3 *)
(* spends an output of its own block; c5 has a name; nearly all hashes     *)
(* share their first bytes.  In l2, which only LTORBlockProcessor takes,   *)
(* t3 comes before the transaction it spends.  The first blocks of the     *)
(* branches spend as many outputs, but different ones.                     *)
(***************************************************************************)
EXTENDS UtxoIndex, TLC

CONSTANTS x, y, z, g, a1, a2, l2, b1, b2, b3, c0, c1, c2, c3, c4, c5, t1, t2, t3, t4

MCIns ==
    t1 :> <<<<c0, 1>>>> @@
    t2 :> <<<<t1, 1>>, <<c0, 2>>>> @@
    t3 :> <<<<t2, 1>>, <<t1, 2>>>> @@
    t4 :> <<<<c0, 2>>>> @@
    [t \in Tx |-> <<>>]

MCOuts ==
    c0 :> <<x, y, Unspendable>> @@
    t1 :> <<y, x>> @@
    t2 :> <<x>> @@
    t3 :> <<Unspendable, x>> @@
    [t \in Tx |-> <<x>>]

MCNames == [t \in Tx |-> IF t = c5 THEN {z} ELSE {}]

MCShort == [t \in Tx |-> IF t = t3 THEN "s3" ELSE "s"]

LOCAL tree ==
    g  :> <<NoTip, <<c0>>>> @@
    a1 :> <<g,     <<c1, t1>>>> @@
    a2 :> <<a1,    <<c2, t2, t3>>>> @@
    l2 :> <<a1,    <<c2, t3, t2>>>> @@
    b1 :> <<g,     <<c3, t4>>>> @@
    b2 :> <<b1,    <<c4, t1>>>> @@
    b3 :> <<b2,    <<c5>>>>

MCPrev == [b \in Block |-> tree[b][1]]
MCTxs == [b \in Block |-> tree[b][2]]

MCFirstTx[b \in Block] ==
    IF MCPrev[b] = NoTip THEN 0 ELSE MCFirstTx[MCPrev[b]] + Len(MCTxs[MCPrev[b]])

MCUnspent[b \in Block] ==
    LET before == IF MCPrev[b] = NoTip THEN {} ELSE MCUnspent[MCPrev[b]]
        txs == MCTxs[b]
        created == {[out |-> <<txs[i], k>>, tx_num |-> MCFirstTx[b] + i - 1] :
                        <<i, k>> \in {p \in (1 .. Len(txs)) \X (1 .. 3) :
                            /\ p[2] <= Len(MCOuts[txs[p[1]]])
                            /\ MCOuts[txs[p[1]]][p[2]] # Unspendable}}
        spent == UNION {{MCIns[txs[i]][k] : k \in 1 .. Len(MCIns[txs[i]])} : i \in 1 .. Len(txs)}
    IN  {c \in before \cup created : c.out \notin spent}
=============================================================================
