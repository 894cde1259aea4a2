------------------------------ MODULE BlockTree ------------------------------
(***************************************************************************)
(* The tree of all blocks.  A block is its hash and names its predecessor. *)
(***************************************************************************)
EXTENDS Integers, Sequences, FiniteSets

CONSTANTS
    Block,          \* all blocks of all branches
    NoTip,          \* b'\0' * 32, the predecessor of genesis
    Prev            \* block -> its predecessor

ASSUME TreeAssumption ==
    /\ NoTip \notin Block
    /\ Prev \in [Block -> Block \cup {NoTip}]
    \* a hash names only blocks that were there before it
    /\ \A bs \in SUBSET Block : bs # {} => \E b \in bs : Prev[b] \notin bs

\* The chain that ends with b, from genesis.
ChainOf[b \in Block \cup {NoTip}] == IF b = NoTip THEN <<>> ELSE Append(ChainOf[Prev[b]], b)
Height(b) == Len(ChainOf[b]) - 1
BlockAt(b, h) == ChainOf[b][h + 1]
OnChain(a, b) == \E i \in DOMAIN ChainOf[b] : ChainOf[b][i] = a
=============================================================================
