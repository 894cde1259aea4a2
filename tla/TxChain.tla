-------------------------------- MODULE TxChain --------------------------------
(***************************************************************************)
(* The transactions and the tree of blocks that the modules on the mempool *)
(* and on the sessions share.  A transaction has one output, which pays to *)
(* Pay[t]; Ins[t] are the transactions whose outputs it spends.            *)
(***************************************************************************)
EXTENDS BlockTree

CONSTANTS
    HashX,            \* address identifiers
    Tx, Pay, Ins,     \* transactions, the hashX they pay to, their parents
    Genesis, Txs      \* the first block, and the contents of each

ASSUME TxChainAssumption ==
    /\ IsFiniteSet(Tx) /\ Pay \in [Tx -> HashX] /\ Ins \in [Tx -> SUBSET Tx]
    /\ Genesis \in Block /\ \A b \in Block : Prev[b] = NoTip <=> b = Genesis
    /\ Txs \in [Block -> SUBSET Tx]

Confirmed == [b \in Block |-> UNION {Txs[a] : a \in {c \in Block : OnChain(c, b)}}]
Spent(ts) == UNION {Ins[t] : t \in ts}
Unspent(b) == Confirmed[b] \ Spent(Confirmed[b])

\* The hashXs of a transaction's outputs and inputs.
Touch(t) == {Pay[t]} \cup {Pay[p] : p \in Ins[t]}
Touched(ts) == UNION {Touch(t) : t \in ts}
Touching(ts, x) == {t \in ts : x \in Touch(t)}

\* What a mempool can hold above a chain: the inputs of its transactions are
\* there, and not spent by the chain.
CanHold(b, ts) ==
    \A t \in ts : /\ t \notin Confirmed[b] /\ Ins[t] \cap Spent(Confirmed[b]) = {}
                 /\ Ins[t] \subseteq Confirmed[b] \cup ts

\* As many of the transactions as it can hold.
Acceptable(b, ts) == UNION {s \in SUBSET ts : CanHold(b, s)}

ConflictFree(ts) == \A t, u \in ts : t # u => Ins[t] \cap Ins[u] = {}

\* The daemon's blocks are valid.
ASSUME BlocksValid == \A b \in Block : ConflictFree(Confirmed[b])
=============================================================================
