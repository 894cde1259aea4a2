----------------------------- MODULE IndexLedger -----------------------------
(***************************************************************************)
(* The index implements the ledger: the chain of the ledger is what the    *)
(* UTXO tables contain, its history what the history DB is left with when  *)
(* it is reopened.                                                         *)
(***************************************************************************)
EXTENDS IndexStore

L == INSTANCE Ledger WITH blocks <- utxo_table, indexed <- Recovered

\* Every step of the index, a crash and a restart included, is a commit, an
\* unindexing or a retraction of the ledger, or changes nothing that lasts.
LedgerSpec == L!Spec
=============================================================================
