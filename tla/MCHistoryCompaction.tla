------------------------ MODULE MCHistoryCompaction ------------------------
(***************************************************************************)
(* Two prefixes and rows of two entries: a history of five transactions    *)
(* takes three rows, one more than the flush ids 0 and 1 can hold.         *)
(***************************************************************************)
EXTENDS HistoryCompaction
=============================================================================
