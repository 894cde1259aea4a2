-------------------------- MODULE HistoryCompaction --------------------------
(***************************************************************************)
(* The history DB between the two programs that write it: the server       *)
(* (History in history.py, flushed and backed up by db.py) and the offline *)
(* tool electrumx_compact_history.py.  Only one of them runs at a time;    *)
(* either may be killed between any two batches, and either may be started *)
(* next.                                                                   *)
(*                                                                         *)
(* A hashX is the number of its two-byte prefix, so comp_cursor counts     *)
(* hashXs.  rows[h][i] is the row whose key is h and the flush id i, a     *)
(* sequence of tx_nums; there is no row where it is empty.  A chain is the *)
(* sequence of the sets of hashXs its transactions touch.                  *)
(***************************************************************************)
EXTENDS Integers, Sequences, FiniteSets, SequencesExt, FiniteSetsExt

CONSTANTS
    NumPrefixes,       \* number of prefixes (65536)
    MaxRowEntries,  \* entries of a compacted row (max_hist_row_entries)
    Careful,        \* SmallFlushes and CompletedCompaction hold
    MaxFlushId,     \* bound on the flush ids (65535)
    MaxTx           \* bound on the length of the chain

ASSUME CompactionAssumption ==
    /\ {NumPrefixes, MaxRowEntries, MaxTx} \subseteq Nat \ {0}
    /\ MaxFlushId \in Nat \ {0}
    /\ Careful \in BOOLEAN

HashX == 0 .. NumPrefixes - 1
FlushId == 0 .. MaxFlushId

VARIABLES
    rows, hist,      \* on disk: the rows of the history DB and its state
    utxo,            \* on disk: the state of the UTXO DB
    flush_count, comp_flush_count, comp_cursor, unflushed,  \* History object
    utxo_flush_count,                                       \* DB object
    tx_count,        \* BlockProcessor.tx_count
    pc,              \* which program runs, and where it is
    txs              \* what the transactions of the current chain touch

diskVars == <<rows, hist, utxo>>
memVars == <<flush_count, comp_flush_count, comp_cursor, unflushed, utxo_flush_count, tx_count>>
vars == <<diskVars, memVars, pc, txs>>

NoRows == [h \in HashX |-> <<>>]
State(fc, cfc, cc) == [flush_count |-> fc, comp_flush_count |-> cfc, comp_cursor |-> cc]

\* A process that is not running has no memory.
Forgotten ==
    /\ flush_count' = 0 /\ comp_flush_count' = -1 /\ comp_cursor' = -1
    /\ unflushed' = NoRows /\ utxo_flush_count' = 0 /\ tx_count' = 0
    /\ pc' = "down"

Init ==
    /\ rows = [h \in HashX |-> [i \in FlushId |-> <<>>]]
    /\ hist = State(0, -1, -1)
    /\ utxo = [flush_count |-> 0, tx_count |-> 0]
    /\ flush_count = 0 /\ comp_flush_count = -1 /\ comp_cursor = -1
    /\ unflushed = NoRows /\ utxo_flush_count = 0 /\ tx_count = 0
    /\ pc = "down" /\ txs = <<>>

-----------------------------------------------------------------------------
(* Rows *)

\* What get_txnums yields without a limit.
HistoryIn(rs, h) == FlattenSeq([i \in 1 .. MaxFlushId + 1 |-> rs[h][i - 1]])

\* The rows that clear_excess leaves.
KeptRows ==
    IF hist.flush_count <= utxo.flush_count THEN rows
    ELSE [h \in HashX |-> [i \in FlushId |-> IF i > utxo.flush_count THEN <<>> ELSE rows[h][i]]]

KeptFlushCount == Min({hist.flush_count, utxo.flush_count})

\* Number of rows that n entries are distributed over.
NumRows(n) == (n + MaxRowEntries - 1) \div MaxRowEntries

\* Mutant of CompactHashX: the row that is not full is forgotten.
CompactHashXFull(hist_list) ==
    [i \in FlushId |-> IF (i + 1) * MaxRowEntries > Len(hist_list) THEN <<>>
                       ELSE SubSeq(hist_list, i * MaxRowEntries + 1, (i + 1) * MaxRowEntries)]

\* _compact_hashX: full rows from flush id 0, and the remainder.
CompactHashX(hist_list) ==
    [i \in FlushId |-> SubSeq(hist_list, i * MaxRowEntries + 1,
                              Min({(i + 1) * MaxRowEntries, Len(hist_list)}))]

\* The row numbers that compaction gives to the history of h.
LastRow(rs, h) == NumRows(Len(HistoryIn(rs, h))) - 1

\* Mutant of CompFlushCount: a prefix with fewer rows lowers it.
CompFlushCountLast(hs) ==
    LET used == {LastRow(rows, h) : h \in hs} \ {-1}
    IN  IF used = {} THEN comp_flush_count ELSE Max(used)

\* comp_flush_count after the prefixes hs have been compacted.
CompFlushCount(hs) == Max({comp_flush_count} \cup {LastRow(rows, h) : h \in hs})

\* bisect_left: the number of entries of a sorted row before n.
BisectLeft(entries, n) == Max({0} \cup {k \in 1 .. Len(entries) : entries[k] < n})

\* History.backup of one hashX: from the last row down, entries from n on are
\* removed, until a row keeps one.
Trimmed(row, n) ==
    LET keeps == {i \in FlushId : BisectLeft(row[i], n) > 0}
    IN  [i \in FlushId |-> IF keeps # {} /\ i < Max(keeps) THEN row[i]
                           ELSE SubSeq(row[i], 1, BisectLeft(row[i], n))]

-----------------------------------------------------------------------------
(* Opening the databases *)

\* _open_dbs and History.open_db: the excess is cleared in a batch of its own,
\* which keeps the state of the compaction.
OpenDbs ==
    /\ rows' = KeptRows
    /\ hist' = [hist EXCEPT !.flush_count = KeptFlushCount]
    /\ flush_count' = KeptFlushCount
    /\ utxo_flush_count' = KeptFlushCount
    /\ tx_count' = utxo.tx_count
    /\ txs' = SubSeq(txs, 1, utxo.tx_count)
    /\ unflushed' = NoRows
    /\ UNCHANGED utxo

\* The UTXO DB does not promise flushes that the history DB is yet to write, as
\* it does after a compaction that was killed before set_flush_count: such a
\* flush would not be cleared if it were interrupted.
CompletedCompaction == hist.flush_count >= utxo.flush_count

\* Mutant of CancelCompaction: an interrupted compaction is not cancelled.
CancelCompactionNot == comp_flush_count' = hist.comp_flush_count /\ comp_cursor' = hist.comp_cursor

\* _cancel_compaction, in memory only.
CancelCompaction == comp_flush_count' = -1 /\ comp_cursor' = -1

StartServer ==
    /\ pc = "down"
    /\ Careful => CompletedCompaction
    /\ OpenDbs
    /\ CancelCompaction
    /\ pc' = "serving"

\* The start of compact_history: an interrupted compaction goes on.
StartCompaction ==
    /\ pc = "down"
    /\ utxo.tx_count > 0      \* assert not db.first_sync
    /\ OpenDbs
    /\ comp_cursor' = IF hist.comp_cursor = -1 THEN 0 ELSE hist.comp_cursor
    /\ comp_flush_count' = Max({hist.comp_flush_count, 1})
    /\ pc' = "compacting"

\* The process ends: killed, or stopped between two batches.
Kill ==
    /\ pc # "down"
    /\ Forgotten
    /\ UNCHANGED <<diskVars, txs>>

-----------------------------------------------------------------------------
(* The server *)

\* A flush has no more entries of a hashX than a compacted row holds (12500).
\* Else compaction could need more rows than there were flushes: the flushes
\* after an interrupted compaction would replace these, or clear_excess delete
\* them.
SmallFlushes == \A h \in HashX : Len(unflushed[h]) <= MaxRowEntries

\* advance_txs of one transaction, and add_unflushed.
Advance(touched) ==
    /\ pc = "serving"
    /\ tx_count < MaxTx
    /\ txs' = Append(txs, touched)
    /\ unflushed' = [h \in HashX |-> IF h \in touched THEN Append(unflushed[h], tx_count)
                                     ELSE unflushed[h]]
    /\ tx_count' = tx_count + 1
    /\ Careful => SmallFlushes'
    /\ UNCHANGED <<diskVars, flush_count, comp_flush_count, comp_cursor, utxo_flush_count, pc>>

\* flush_history: one batch of the history DB.
FlushHistory ==
    /\ pc = "serving"
    /\ tx_count > utxo.tx_count
    /\ flush_count < MaxFlushId
    /\ flush_count' = flush_count + 1
    /\ rows' = [h \in HashX |-> IF unflushed[h] = <<>> THEN rows[h]
                                ELSE [rows[h] EXCEPT ![flush_count + 1] = unflushed[h]]]
    /\ hist' = State(flush_count + 1, comp_flush_count, comp_cursor)
    /\ unflushed' = NoRows
    /\ pc' = "flushed"
    /\ UNCHANGED <<utxo, comp_flush_count, comp_cursor, utxo_flush_count, tx_count, txs>>

\* The batch of the UTXO DB that ends a flush_dbs with flush_utxos.
FlushUtxos ==
    /\ pc = "flushed"
    /\ utxo' = [flush_count |-> flush_count, tx_count |-> tx_count]
    /\ utxo_flush_count' = flush_count
    /\ pc' = "serving"
    /\ UNCHANGED <<rows, hist, flush_count, comp_flush_count, comp_cursor, unflushed, tx_count, txs>>

\* The one that ends a flush_dbs without: flush_state alone.
FlushState ==
    /\ pc = "flushed"
    /\ utxo' = [utxo EXCEPT !.flush_count = utxo_flush_count]
    /\ pc' = "serving"
    /\ UNCHANGED <<rows, hist, memVars, txs>>

\* flush_backup of a reorg to the first n transactions, after a full flush.
\* What a kill between its two batches does is in IndexStore.
BackUp(n) ==
    /\ pc = "serving"
    /\ n < tx_count /\ tx_count = utxo.tx_count
    /\ flush_count < MaxFlushId
    /\ flush_count' = flush_count + 1
    /\ rows' = [h \in HashX |-> IF \E i \in n + 1 .. tx_count : h \in txs[i]
                                THEN Trimmed(rows[h], n) ELSE rows[h]]
    /\ hist' = State(flush_count + 1, comp_flush_count, comp_cursor)
    /\ utxo' = [flush_count |-> flush_count + 1, tx_count |-> n]
    /\ utxo_flush_count' = flush_count + 1
    /\ tx_count' = n
    /\ txs' = SubSeq(txs, 1, n)
    /\ UNCHANGED <<comp_flush_count, comp_cursor, unflushed, pc>>

-----------------------------------------------------------------------------
(* The compaction tool *)

\* Mutant of CursorAfter: the final batch does not reset the cursor.
CursorAfterKept(cursor) == cursor

\* The cursor that _flush_compaction stores.
CursorAfter(cursor) == IF cursor = NumPrefixes THEN -1 ELSE cursor

\* _compact_history and _flush_compaction: the prefixes up to cursor, as many
\* as the limit on written bytes allows, in one batch.
CompactHistory(cursor) ==
    /\ pc = "compacting"
    /\ comp_cursor < cursor
    /\ LET hs == comp_cursor .. cursor - 1
           done == cursor = NumPrefixes
           cfc == CompFlushCount(hs)
       IN  /\ rows' = [h \in HashX |-> IF h \in hs THEN CompactHashX(HistoryIn(rows, h)) ELSE rows[h]]
           /\ flush_count' = IF done THEN cfc ELSE flush_count
           /\ comp_flush_count' = IF done THEN -1 ELSE cfc
           /\ comp_cursor' = CursorAfter(cursor)
           /\ hist' = State(flush_count', comp_flush_count', comp_cursor')
           /\ pc' = IF done THEN "compacted" ELSE "compacting"
    /\ UNCHANGED <<utxo, unflushed, utxo_flush_count, tx_count, txs>>

\* DB.set_flush_count, after which the tool ends.
SetFlushCount ==
    /\ pc = "compacted"
    /\ utxo' = [utxo EXCEPT !.flush_count = flush_count]
    /\ Forgotten
    /\ UNCHANGED <<rows, hist, txs>>

-----------------------------------------------------------------------------
Next ==
    \/ StartServer
    \/ \E touched \in (SUBSET HashX) \ {{}} : Advance(touched)
    \/ FlushHistory
    \/ FlushUtxos
    \/ FlushState
    \/ \E n \in 0 .. MaxTx : BackUp(n)
    \/ StartCompaction
    \/ \E cursor \in 1 .. NumPrefixes : CompactHistory(cursor)
    \/ SetFlushCount
    \/ Kill

Spec == Init /\ [][Next]_vars

-----------------------------------------------------------------------------
(* Properties *)

\* Each variable has its type.
TypeOK ==
    /\ rows \in [HashX -> [FlushId -> Seq(0 .. MaxTx - 1)]]
    /\ hist \in [flush_count : FlushId, comp_flush_count : FlushId \cup {-1},
                 comp_cursor : HashX \cup {-1}]
    /\ utxo \in [flush_count : FlushId, tx_count : 0 .. MaxTx]
    /\ flush_count \in FlushId /\ utxo_flush_count \in FlushId
    /\ comp_flush_count \in FlushId \cup {-1} /\ comp_cursor \in HashX \cup {-1}
    /\ unflushed \in [HashX -> Seq(0 .. MaxTx - 1)]
    /\ tx_count \in 0 .. MaxTx
    /\ pc \in {"down", "serving", "flushed", "compacting", "compacted"}
    /\ txs \in Seq(SUBSET HashX)

\* The history of h over the first n transactions of the chain.
HistoryOf(h, n) ==
    LET first[k \in 0 .. n] ==
            IF k = 0 THEN <<>> ELSE first[k - 1] \o (IF h \in txs[k] THEN <<k - 1>> ELSE <<>>)
    IN  first[n]

\* Reopened at any moment, the history DB holds exactly the history of the
\* chain of the UTXO DB.
ReopensExactly == \A h \in HashX : HistoryIn(KeptRows, h) = HistoryOf(h, utxo.tx_count)

\* Rows and unflushed together are the history of the chain of the processor.
ServesExactly ==
    pc \in {"serving", "flushed"} =>
        \A h \in HashX : HistoryIn(rows, h) \o unflushed[h] = HistoryOf(h, tx_count)

\* However flushes, reorgs, compactions and their interruption follow one
\* another, no history is lost, doubled or out of order, provided that flushes
\* are small and that a compaction killed before set_flush_count is run to its
\* end before the server.
HistoryExact == ReopensExactly /\ ServesExactly

\* No row has a flush id that a later flush will use: the server takes the one
\* after flush_count ("a parallel history flush must first increment this").
FlushIdsFresh ==
    pc = "serving" => \A h \in HashX : \A i \in FlushId : rows[h][i] # <<>> => i <= flush_count

\* Compaction picks up where it left off: what the cursor in the history DB
\* says is compacted is in full rows numbered from 0, none beyond the flush
\* count the final batch will set, whatever ran since it was interrupted.
CursorHonest ==
    /\ hist.comp_cursor # -1 =>
        \A h \in 0 .. hist.comp_cursor - 1 :
            /\ rows[h] = CompactHashX(HistoryIn(rows, h))
            /\ LastRow(rows, h) <= hist.comp_flush_count
    /\ pc = "compacted" => \A h \in HashX : rows[h] = CompactHashX(HistoryIn(rows, h))
=============================================================================
