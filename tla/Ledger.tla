------------------------------- MODULE Ledger -------------------------------
(***************************************************************************)
(* What the index promises across crashes, with none of its machinery: the *)
(* chain that a restart resumes from and the history it serves.            *)
(*                                                                         *)
(* A full flush appends blocks and all their history at once.  A backup    *)
(* removes up to a chunk of blocks at once, but the history of those       *)
(* blocks goes first: Unindex is the one weakness of the promise.          *)
(***************************************************************************)
EXTENDS Chain

CONSTANT ChunkSize

VARIABLES
    blocks,     \* the committed chain
    indexed     \* the committed history, pairs <<hashX, tx_num>>

ledger == <<blocks, indexed>>

Init ==
    /\ blocks = <<>>
    /\ indexed = {}

\* A full flush: blocks that link onto the tip, with all their history.
Commit ==
    /\ Len(blocks') > Len(blocks)
    /\ SubSeq(blocks', 1, Len(blocks)) = blocks
    /\ Linked(blocks')
    /\ indexed' = indexed \cup
         UNION {Entries(blocks'[i]) : i \in Len(blocks) + 1 .. Len(blocks')}

\* A backup loses the history of the last blocks, of a chunk at most ...
Unindex ==
    \E n \in 1 .. Len(blocks) :
        /\ n >= Len(blocks) - ChunkSize
        /\ indexed' = indexed \cap HistoryOf(SubSeq(blocks, 1, n))
        /\ UNCHANGED blocks

\* ... and then the blocks themselves, but never genesis.
Retract ==
    \E n \in 1 .. Len(blocks) - 1 :
        /\ n >= Len(blocks) - ChunkSize
        /\ blocks' = SubSeq(blocks, 1, n)
        /\ indexed \subseteq HistoryOf(blocks')
        /\ UNCHANGED indexed

Next == Commit \/ Unindex \/ Retract

Spec == Init /\ [][Next]_ledger
=============================================================================
