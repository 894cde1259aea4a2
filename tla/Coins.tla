-------------------------------- MODULE Coins --------------------------------
(***************************************************************************)
(* Transactions as the UTXO index sees them: what each one spends and      *)
(* creates, and what is unspent after each block.  An output (an outpoint) *)
(* is <<tx hash, index>>; a coin is an output with the number (tx_num) its *)
(* transaction has on a chain.  The same transaction may be in blocks of   *)
(* two branches, under different numbers.                                  *)
(*                                                                         *)
(* As in Chain, a block determines its ancestors, so that the coins left   *)
(* unspent by it are a constant function with its defining equation as an  *)
(* assumption: the daemon only serves valid blocks.                        *)
(***************************************************************************)
EXTENDS Integers, Sequences

CONSTANTS
    HashX,        \* address identifiers
    Unspendable,  \* the script of an output that is never stored
    Tx,           \* transaction hashes
    Ins,          \* tx -> the outputs it spends (a coinbase: none)
    Outs,         \* tx -> hashX, or Unspendable, of each of its outputs
    Names,        \* tx -> hashXs of its name scripts (coins with a name index)
    Short,        \* tx -> the first COMP_TXID_LEN bytes of its hash
    Block, NoTip, \* blocks of all branches, predecessor of genesis
    Prev,         \* block -> its predecessor's hash
    Txs,          \* block -> its transactions
    FirstTx,      \* block -> tx_num of its first transaction
    Unspent       \* block -> the coins unspent after it

HashXOf(o) == Outs[o[1]][o[2]]

\* The outputs of a transaction that are stored.
Stored(t) == {<<t, k>> : k \in {k \in 1 .. Len(Outs[t]) : Outs[t][k] # Unspendable}}

TxNum(b, i) == FirstTx[b] + i - 1
Coin(o, m) == [out |-> o, tx_num |-> m]

\* Coins that a block creates, by those of its transactions up to the k-th.
Created(b, k) ==
    UNION {{Coin(o, TxNum(b, i)) : o \in Stored(Txs[b][i])} : i \in 1 .. k}

\* Outputs spent by the transactions of a block up to input n of the i-th.
SpentUpTo(b, i, n) ==
    (UNION {{Ins[Txs[b][j]][k] : k \in 1 .. Len(Ins[Txs[b][j]])} : j \in 1 .. i - 1})
    \cup IF i > Len(Txs[b]) THEN {} ELSE {Ins[Txs[b][i]][k] : k \in 1 .. n}

\* What is unspent after a chain with this tip.
UnspentAt(hash) == IF hash = NoTip THEN {} ELSE Unspent[hash]

\* The coins there are when input n of the i-th transaction of a block has
\* been spent: with ltor all outputs of the block are created first.
Midway(b, i, n, ltor) ==
    {c \in UnspentAt(Prev[b]) \cup Created(b, IF ltor THEN Len(Txs[b]) ELSE i - 1) :
        c.out \notin SpentUpTo(b, i, n)}

\* Every input is unspent when its transaction's turn comes.
Valid(b, ltor) ==
    \A i \in 1 .. Len(Txs[b]) : \A n \in 1 .. Len(Ins[Txs[b][i]]) :
        \E c \in Midway(b, i, n - 1, ltor) : c.out = Ins[Txs[b][i]][n]

ASSUME CoinAssumption ==
    /\ NoTip \notin Block /\ Unspendable \notin HashX
    /\ Outs \in [Tx -> Seq(HashX \cup {Unspendable})]
    /\ Ins \in [Tx -> Seq(UNION {Stored(t) : t \in Tx})]
    /\ Names \in [Tx -> SUBSET HashX]
    /\ DOMAIN Short = Tx
    /\ Prev \in [Block -> Block \cup {NoTip}]
    /\ Txs \in [Block -> Seq(Tx)]
    /\ FirstTx \in [Block -> Nat]
    /\ \A b \in Block :
        /\ Len(Txs[b]) > 0
        /\ FirstTx[b] = IF Prev[b] = NoTip THEN 0
                        ELSE FirstTx[Prev[b]] + Len(Txs[Prev[b]])
        \* every output of the block is new, and it is valid for a coin
        \* whose blocks may hold their transactions in any order
        /\ \A c \in UnspentAt(Prev[b]), d \in Created(b, Len(Txs[b])) : c.out # d.out
        /\ \A i, j \in 1 .. Len(Txs[b]) : Txs[b][i] = Txs[b][j] => i = j
        /\ Valid(b, TRUE)
        /\ Unspent[b] = {c \in UnspentAt(Prev[b]) \cup Created(b, Len(Txs[b])) :
                            c.out \notin SpentUpTo(b, Len(Txs[b]) + 1, 0)}

-----------------------------------------------------------------------------
\* The hashXs in the history of a transaction: of its outputs, of the outputs
\* it spends, and of its names.
HashXsOf(t) ==
    {HashXOf(o) : o \in Stored(t)}
    \cup {HashXOf(Ins[t][n]) : n \in 1 .. Len(Ins[t])}
    \cup Names[t]

\* Blocks in the terms of Chain, of which this is a refinement of the data.
TouchedBy == [b \in Block |-> [i \in 1 .. Len(Txs[b]) |-> HashXsOf(Txs[b][i])]]
H == INSTANCE Chain WITH Txs <- TouchedBy
=============================================================================
