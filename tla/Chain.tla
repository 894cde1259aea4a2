-------------------------------- MODULE Chain --------------------------------
(***************************************************************************)
(* Blocks as the indexer sees them.  A block is identified by its hash; it *)
(* names its predecessor (coin.header_prevhash) and carries a non-empty    *)
(* list of transactions, of which only the set of hashXs each one touches  *)
(* (the script hashes of its outputs and of the outputs it spends) matters *)
(* here.  A chain is the sequence of blocks from genesis to the tip.       *)
(*                                                                         *)
(* Because a block determines its ancestors it also determines the global  *)
(* number of its first transaction (tx_num in the code), so FirstTx is a   *)
(* constant function with its defining equation as an assumption.          *)
(***************************************************************************)
EXTENDS Integers, Sequences

CONSTANTS
    HashX,      \* address identifiers
    Block,      \* all blocks of all branches
    NoTip,      \* b'\0' * 32, the predecessor of genesis
    Prev,       \* block -> its predecessor's hash
    Txs,        \* block -> for each of its txs the hashXs it touches
    FirstTx     \* block -> tx_num of its first tx

\* tx_num just after the block's last transaction.
End(b) == FirstTx[b] + Len(Txs[b])

ASSUME BlockAssumption ==
    /\ NoTip \notin Block
    /\ Prev \in [Block -> Block \cup {NoTip}]
    /\ Txs \in [Block -> Seq(SUBSET HashX)]
    /\ FirstTx \in [Block -> Nat]
    /\ \A b \in Block :
        /\ Len(Txs[b]) > 0
        /\ FirstTx[b] = IF Prev[b] = NoTip THEN 0 ELSE End(Prev[b])

-----------------------------------------------------------------------------
\* The history entries <<hashX, tx_num>> that a block gives rise to.
Entries(b) ==
    {e \in HashX \X (FirstTx[b] .. End(b) - 1) :
        e[1] \in Txs[b][e[2] - FirstTx[b] + 1]}

\* The history of every address over a whole chain.
HistoryOf(c) == UNION {Entries(c[i]) : i \in 1 .. Len(c)}

\* The hashXs a block touches.
Touches(b) == UNION {Txs[b][i] : i \in 1 .. Len(Txs[b])}

\* The hash of the tip of a chain and its number of transactions.
TipOf(c) == IF c = <<>> THEN NoTip ELSE c[Len(c)]
TxCountOf(c) == IF c = <<>> THEN 0 ELSE End(c[Len(c)])

\* Every block names the one before it, the first one names NoTip.
Linked(c) ==
    \A i \in 1 .. Len(c) : Prev[c[i]] = IF i = 1 THEN NoTip ELSE c[i - 1]

\* The transaction with number n in the blocks of bs: <<block, index>>.
TxNumbered(bs, n) ==
    LET i == CHOOSE i \in 1 .. Len(bs) : n \in FirstTx[bs[i]] .. End(bs[i]) - 1
    IN  <<bs[i], n - FirstTx[bs[i]] + 1>>

\* A file (a sequence of fixed-size items) after data is written at an offset.
Written(file, offset, data) ==
    [i \in 1 .. IF offset + Len(data) > Len(file)
                THEN offset + Len(data) ELSE Len(file) |->
        IF i > offset /\ i <= offset + Len(data)
        THEN data[i - offset] ELSE file[i]]
=============================================================================
