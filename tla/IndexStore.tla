----------------------------- MODULE IndexStore -----------------------------
(***************************************************************************)
(* The index on disk and the one process that writes it: BlockProcessor    *)
(* (block_processor.py), DB (db.py) and History (history.py), at the grain *)
(* at which a killed process leaves its traces.  Each durable write - a    *)
(* metadata file, a batch of the history DB, a batch of the UTXO DB - is a *)
(* step of its own; the process may die between any two of them and is     *)
(* reopened by _open_dbs.                                                  *)
(*                                                                         *)
(* What the UTXO tables hold is abstracted to the sequence of blocks whose *)
(* effect they contain: utxo_table on disk, chain with the unflushed cache *)
(* (utxo_cache, db_deletes) applied.  A row of the history DB, keyed by    *)
(* hashX and flush id, is the set of records with that hashX and flush_id. *)
(***************************************************************************)
EXTENDS Chain

CONSTANTS
    ChunkSize,    \* blocks backed up per flush_backup (50 in reorg_chain)
    MaxFlushId,   \* largest flush id a 2-byte key suffix can hold (65535)
    FlushBound    \* model bound: no reorg starts that could go beyond it

ASSUME ParameterAssumption ==
    /\ ChunkSize \in Nat \ {0}
    /\ MaxFlushId \in Nat \ {0}
    /\ FlushBound \in Nat

VARIABLES
    \* --- on disk: they survive a crash
    headers_file, tx_counts_file, hashes_file,   \* meta/ files
    utxo_state, utxo_table,                      \* UTXO DB
    hist_flush_count, hist_rows,                 \* history DB
    \* --- DB object
    db_height, db_tx_count, db_tip, fs_height, fs_tx_count, tx_counts,
    utxo_flush_count, first_sync,
    \* --- History object
    flush_count, unflushed,
    \* --- BlockProcessor object
    height, tip, tx_count, headers, chain, touched, caught_up,
    \* --- control
    pc,           \* where the block processor is
    flush_utxos,  \* argument of the flush in progress
    next,         \* what follows the flush in progress
    todo,         \* blocks still to be backed up by reorg_chain
    chunk,        \* of these, the ones of the current chunk
    stopping,     \* the task was cancelled: a clean shutdown is under way
    \* --- history variable, read by no action of the system
    lost          \* tx_nums whose history was removed for a backup that has
                  \* not been committed

fileVars == <<headers_file, tx_counts_file, hashes_file>>
utxoVars == <<utxo_state, utxo_table>>
rowVars == <<hist_flush_count, hist_rows>>
dbVars == <<db_height, db_tx_count, db_tip, fs_height, fs_tx_count, tx_counts,
            utxo_flush_count, first_sync>>
histVars == <<flush_count, unflushed>>
bpVars == <<height, tip, tx_count, headers, chain, touched, caught_up>>
reorgVars == <<todo, chunk>>
ctlVars == <<pc, flush_utxos, next, todo, chunk, stopping>>
vars == <<fileVars, utxoVars, rowVars, dbVars, histVars, bpVars, ctlVars, lost>>

Row == [hashX : HashX, flush_id : Nat, tx_num : Nat]

\* Where the block processor can be.
Phase == {"down", "idle", "advanced", "flush", "headers", "counts", "files",
          "history", "flushed", "reorg", "backing", "backed", "unwritten"}

\* The continuations of a flush: check_and_advance_blocks, reorg_chain,
\* _first_caught_up and the clean shutdown of fetch_and_process_blocks.
Continuation == {"blocks", "reorg", "serve", "exit"}

-----------------------------------------------------------------------------
\* A process that is not running has no memory: these are the values its
\* objects are constructed with.
Forgotten ==
    /\ db_height' = -1 /\ db_tx_count' = 0 /\ db_tip' = NoTip
    /\ fs_height' = -1 /\ fs_tx_count' = 0 /\ tx_counts' = <<>>
    /\ utxo_flush_count' = 0 /\ first_sync' = TRUE
    /\ flush_count' = 0 /\ unflushed' = {}
    /\ height' = -1 /\ tip' = NoTip /\ tx_count' = 0 /\ headers' = <<>>
    /\ chain' = <<>> /\ touched' = {} /\ caught_up' = FALSE
    /\ pc' = "down" /\ flush_utxos' = FALSE /\ next' = "blocks"
    /\ todo' = 0 /\ chunk' = 0 /\ stopping' = FALSE

Init ==
    /\ headers_file = <<>> /\ tx_counts_file = <<>> /\ hashes_file = <<>>
    /\ utxo_state = [height |-> -1, tx_count |-> 0, tip |-> NoTip,
                     utxo_flush_count |-> 0, first_sync |-> TRUE]
    /\ utxo_table = <<>>
    /\ hist_flush_count = 0 /\ hist_rows = {}
    /\ db_height = -1 /\ db_tx_count = 0 /\ db_tip = NoTip
    /\ fs_height = -1 /\ fs_tx_count = 0 /\ tx_counts = <<>>
    /\ utxo_flush_count = 0 /\ first_sync = TRUE
    /\ flush_count = 0 /\ unflushed = {}
    /\ height = -1 /\ tip = NoTip /\ tx_count = 0 /\ headers = <<>>
    /\ chain = <<>> /\ touched = {} /\ caught_up = FALSE
    /\ pc = "down" /\ flush_utxos = FALSE /\ next = "blocks"
    /\ todo = 0 /\ chunk = 0 /\ stopping = FALSE
    /\ lost = {}

-----------------------------------------------------------------------------
(* Opening the databases *)

\* Mutant of KeptRows: clear_excess is not called.
KeptRowsAll == hist_rows

\* The rows that clear_excess leaves: those of flushes the UTXO DB knows of.
KeptRows ==
    IF hist_flush_count <= utxo_state.utxo_flush_count THEN hist_rows
    ELSE {r \in hist_rows : r.flush_id <= utxo_state.utxo_flush_count}

\* The flush count that History.open_db returns.
KeptFlushCount ==
    IF hist_flush_count <= utxo_state.utxo_flush_count THEN hist_flush_count
    ELSE utxo_state.utxo_flush_count

\* _open_dbs: read_utxo_state, History.open_db (clear_excess commits its own
\* batch) and _read_tx_counts.
OpenDbs ==
    /\ db_height' = utxo_state.height
    /\ db_tx_count' = utxo_state.tx_count
    /\ db_tip' = utxo_state.tip
    /\ first_sync' = utxo_state.first_sync
    /\ fs_height' = utxo_state.height
    /\ fs_tx_count' = utxo_state.tx_count
    /\ hist_rows' = KeptRows
    /\ hist_flush_count' = KeptFlushCount
    /\ flush_count' = KeptFlushCount
    /\ utxo_flush_count' = KeptFlushCount
    /\ tx_counts' = SubSeq(tx_counts_file, 1, utxo_state.height + 1)

\* _first_open_dbs in a new process.
Restart ==
    /\ pc = "down"
    /\ OpenDbs
    /\ height' = utxo_state.height
    /\ tip' = utxo_state.tip
    /\ tx_count' = utxo_state.tx_count
    /\ chain' = utxo_table
    /\ pc' = "idle"
    /\ UNCHANGED <<fileVars, utxoVars, unflushed, headers, touched, caught_up,
                   flush_utxos, next, reorgVars, stopping, lost>>

\* The process is killed, or an exception other than a cancellation ends it.
Crash ==
    /\ pc # "down"
    /\ Forgotten
    /\ UNCHANGED <<fileVars, utxoVars, rowVars, lost>>

-----------------------------------------------------------------------------
(* Advancing *)

\* One iteration of advance_blocks, on a block that links onto the tip (the
\* test of check_and_advance_blocks).  The batch goes on with the next block
\* or ends in _maybe_flush.
AdvanceBlock(b) ==
    /\ pc \in {"idle", "advanced"}
    /\ pc = "idle" => ~stopping
    /\ Prev[b] = tip
    /\ chain' = Append(chain, b)
    /\ touched' = touched \cup Touches(b)
    /\ unflushed' = unflushed \cup
         {e \in HashX \X (tx_count .. tx_count + Len(Txs[b]) - 1) :
             e[1] \in Txs[b][e[2] - tx_count + 1]}
    /\ tx_count' = tx_count + Len(Txs[b])
    /\ tx_counts' = Append(tx_counts, tx_count')
    /\ height' = height + 1
    /\ headers' = Append(headers, b)
    /\ tip' = b
    /\ pc' = "advanced"
    /\ UNCHANGED <<fileVars, utxoVars, rowVars, db_height, db_tx_count, db_tip,
                   fs_height, fs_tx_count, utxo_flush_count, first_sync,
                   flush_count, caught_up, flush_utxos, next, reorgVars,
                   stopping, lost>>

\* Entering flush_dbs, with the state lock taken.
BeginFlush(utxos, continuation) ==
    /\ pc' = "flush"
    /\ flush_utxos' = utxos
    /\ next' = continuation

\* Mutant of MaybeFlush: the cache size decides even once caught up.
MaybeFlushBySize ==
    /\ pc = "advanced"
    /\ ~stopping
    /\ \/ /\ \E utxos \in BOOLEAN : BeginFlush(utxos, "blocks")
          /\ UNCHANGED touched
       \/ /\ touched' = {}
          /\ pc' = "idle"
          /\ UNCHANGED <<flush_utxos, next>>
    /\ UNCHANGED <<fileVars, utxoVars, rowVars, dbVars, histVars, height, tip,
                   tx_count, headers, chain, caught_up, reorgVars, stopping,
                   lost>>

\* _maybe_flush: everything once caught up, else what check_cache_size says.
MaybeFlush ==
    /\ pc = "advanced"
    /\ ~stopping
    /\ \/ /\ \E utxos \in IF caught_up THEN {TRUE} ELSE BOOLEAN :
                BeginFlush(utxos, "blocks")
          /\ UNCHANGED touched
       \/ /\ ~caught_up
          /\ touched' = {}
          /\ pc' = "idle"
          /\ UNCHANGED <<flush_utxos, next>>
    /\ UNCHANGED <<fileVars, utxoVars, rowVars, dbVars, histVars, height, tip,
                   tx_count, headers, chain, caught_up, reorgVars, stopping,
                   lost>>

\* After the flush: on_block once caught up, and a new touched set.
BlocksDone ==
    /\ pc = "flushed" /\ next = "blocks"
    /\ ~stopping
    /\ touched' = {}
    /\ pc' = "idle"
    /\ UNCHANGED <<fileVars, utxoVars, rowVars, dbVars, histVars, height, tip,
                   tx_count, headers, chain, caught_up, flush_utxos, next,
                   reorgVars, stopping, lost>>

\* _first_caught_up, when the height is the daemon's (which has a genesis at
\* least): flush everything, with first_sync cleared.
FirstCaughtUp ==
    /\ pc = "idle"
    /\ height >= 0
    /\ ~caught_up
    /\ ~stopping
    /\ first_sync' = FALSE
    /\ BeginFlush(TRUE, "serve")
    /\ UNCHANGED <<fileVars, utxoVars, rowVars, db_height, db_tx_count, db_tip,
                   fs_height, fs_tx_count, tx_counts, utxo_flush_count,
                   histVars, bpVars, reorgVars, stopping, lost>>

\* Then open_for_serving closes the databases and opens them again.
OpenForServing ==
    /\ pc = "flushed" /\ next = "serve"
    /\ ~stopping
    /\ OpenDbs
    /\ caught_up' = TRUE
    /\ pc' = "idle"
    /\ UNCHANGED <<fileVars, utxoVars, unflushed, height, tip, tx_count,
                   headers, chain, touched, flush_utxos, next, reorgVars,
                   stopping, lost>>

-----------------------------------------------------------------------------
(* flush_dbs: the metadata files, then the history DB, then the UTXO DB *)

\* Nothing has been processed since the last full flush: assert_flushed.
NothingToFlush ==
    /\ pc = "flush"
    /\ height = db_height
    /\ pc' = "flushed"
    /\ UNCHANGED <<fileVars, utxoVars, rowVars, dbVars, histVars, bpVars,
                   flush_utxos, next, reorgVars, stopping, lost>>

\* The assertions that flush_fs starts with.
FlushFsAssertions ==
    /\ height = fs_height + Len(headers)
    /\ tx_count = IF tx_counts = <<>> THEN 0 ELSE tx_counts[Len(tx_counts)]
    /\ Len(tx_counts) = height + 1

\* flush_fs writes the headers ...
FlushHeaders ==
    /\ pc = "flush"
    /\ height # db_height
    /\ FlushFsAssertions
    /\ headers_file' = Written(headers_file, fs_height + 1, headers)
    /\ pc' = "headers"
    /\ UNCHANGED <<tx_counts_file, hashes_file, utxoVars, rowVars, dbVars,
                   histVars, bpVars, flush_utxos, next, reorgVars, stopping,
                   lost>>

\* Mutant of FlushTxCounts: written from the last flushed height on.
FlushTxCountsEarly ==
    /\ pc = "headers"
    /\ tx_counts_file' =
         Written(tx_counts_file, IF fs_height < 0 THEN 0 ELSE fs_height,
                 SubSeq(tx_counts, fs_height + 2, Len(tx_counts)))
    /\ pc' = "counts"
    /\ UNCHANGED <<headers_file, hashes_file, utxoVars, rowVars, dbVars,
                   histVars, bpVars, flush_utxos, next, reorgVars, stopping,
                   lost>>

\* ... the cumulative tx counts ...
FlushTxCounts ==
    /\ pc = "headers"
    /\ tx_counts_file' =
         Written(tx_counts_file, fs_height + 1,
                 SubSeq(tx_counts, fs_height + 2, Len(tx_counts)))
    /\ pc' = "counts"
    /\ UNCHANGED <<headers_file, hashes_file, utxoVars, rowVars, dbVars,
                   histVars, bpVars, flush_utxos, next, reorgVars, stopping,
                   lost>>

\* ... and the tx hashes, and moves its pointers.
FlushHashes ==
    LET prior_tx_count == IF fs_height >= 0 THEN tx_counts[fs_height + 1] ELSE 0
    IN  /\ pc = "counts"
        /\ hashes_file' =
             Written(hashes_file, prior_tx_count,
                     [i \in 1 .. tx_count - prior_tx_count |->
                         TxNumbered(headers, prior_tx_count + i - 1)])
        /\ headers' = <<>>
        /\ fs_height' = height
        /\ fs_tx_count' = tx_count
        /\ pc' = "files"
        /\ UNCHANGED <<headers_file, tx_counts_file, utxoVars, rowVars,
                       db_height, db_tx_count, db_tip, tx_counts,
                       utxo_flush_count, first_sync, histVars, height, tip,
                       tx_count, chain, touched, caught_up, flush_utxos, next,
                       reorgVars, stopping, lost>>

\* History.flush: one batch with a row per unflushed hashX and the new count.
FlushHistory ==
    /\ pc = "files"
    /\ flush_count + 1 <= MaxFlushId
    /\ flush_count' = flush_count + 1
    /\ hist_flush_count' = flush_count'
    /\ hist_rows' =
         {r \in hist_rows : ~ /\ r.flush_id = flush_count'
                              /\ \E e \in unflushed : e[1] = r.hashX}
         \cup {[hashX |-> e[1], flush_id |-> flush_count', tx_num |-> e[2]] :
                  e \in unflushed}
    /\ unflushed' = {}
    /\ pc' = "history"
    /\ UNCHANGED <<fileVars, utxoVars, dbVars, bpVars, flush_utxos, next,
                   reorgVars, stopping, lost>>

\* The record that write_utxo_state puts, from the DB object's fields.
UtxoState(h, n, t, f) ==
    [height |-> h, tx_count |-> n, tip |-> t, utxo_flush_count |-> f,
     first_sync |-> first_sync]

\* flush_utxo_db and flush_state in one batch of the UTXO DB.
FlushUtxoDb ==
    /\ utxo_flush_count' = flush_count
    /\ db_height' = height
    /\ db_tx_count' = tx_count
    /\ db_tip' = tip
    /\ utxo_table' = chain
    /\ utxo_state' = UtxoState(height, tx_count, tip, flush_count)

FlushUtxos ==
    /\ pc = "history"
    /\ flush_utxos
    /\ FlushUtxoDb
    /\ pc' = "flushed"
    /\ UNCHANGED <<fileVars, rowVars, fs_height, fs_tx_count, tx_counts,
                   first_sync, histVars, bpVars, flush_utxos, next, reorgVars,
                   stopping, lost>>

\* Mutant of FlushStateOnly: it records the new history flush as committed.
FlushStateAhead ==
    /\ pc = "history"
    /\ ~flush_utxos
    /\ utxo_flush_count' = flush_count
    /\ utxo_state' = UtxoState(db_height, db_tx_count, db_tip, flush_count)
    /\ pc' = "flushed"
    /\ UNCHANGED <<fileVars, utxo_table, rowVars, db_height, db_tx_count, db_tip,
                   fs_height, fs_tx_count, tx_counts, first_sync, histVars,
                   bpVars, flush_utxos, next, reorgVars, stopping, lost>>

\* A flush of the history only still writes the state record.
FlushStateOnly ==
    /\ pc = "history"
    /\ ~flush_utxos
    /\ utxo_state' = UtxoState(db_height, db_tx_count, db_tip, utxo_flush_count)
    /\ pc' = "flushed"
    /\ UNCHANGED <<fileVars, utxo_table, rowVars, dbVars, histVars, bpVars,
                   flush_utxos, next, reorgVars, stopping, lost>>

\* A failed assertion of flush_fs, or a flush id that pack_be_uint16 rejects,
\* raises in the middle of the flush and ends the process.
FlushFails ==
    /\ \/ pc = "flush" /\ height # db_height /\ ~FlushFsAssertions
       \/ pc = "files" /\ flush_count + 1 > MaxFlushId
    /\ Forgotten
    /\ UNCHANGED <<fileVars, utxoVars, rowVars, lost>>

-----------------------------------------------------------------------------
(* reorg_chain *)

\* A reorg, real or forced, of n blocks starts with a full flush.  The genesis
\* block is never backed up (an assertion of backup_blocks).
StartReorg(n) ==
    /\ pc = "idle"
    /\ ~stopping
    /\ n \in 1 .. height
    /\ flush_count + n <= FlushBound
    /\ todo' = n
    /\ BeginFlush(TRUE, "reorg")
    /\ UNCHANGED <<fileVars, utxoVars, rowVars, dbVars, histVars, bpVars,
                   chunk, stopping, lost>>

ReorgFlushed ==
    /\ pc = "flushed" /\ next = "reorg"
    /\ ~stopping
    /\ pc' = "reorg"
    /\ UNCHANGED <<fileVars, utxoVars, rowVars, dbVars, histVars, bpVars,
                   flush_utxos, next, reorgVars, stopping, lost>>

\* Mutant of StartChunk: every chunk is taken to be a full one.
StartFullChunk ==
    /\ pc = "reorg"
    /\ todo > 0
    /\ ~stopping
    /\ chunk' = ChunkSize
    /\ pc' = "backing"
    /\ UNCHANGED <<fileVars, utxoVars, rowVars, dbVars, histVars, bpVars,
                   flush_utxos, next, todo, stopping, lost>>

\* Mutant of StartChunk: a last chunk that is not full is never taken.
StartOnlyFullChunk ==
    /\ pc = "reorg"
    /\ todo >= ChunkSize
    /\ ~stopping
    /\ chunk' = ChunkSize
    /\ pc' = "backing"
    /\ UNCHANGED <<fileVars, utxoVars, rowVars, dbVars, histVars, bpVars,
                   flush_utxos, next, todo, stopping, lost>>

\* The next chunk of raw blocks is at hand: backup_blocks begins.
StartChunk ==
    /\ pc = "reorg"
    /\ todo > 0
    /\ ~stopping
    /\ chunk' = IF todo < ChunkSize THEN todo ELSE ChunkSize
    /\ pc' = "backing"
    /\ UNCHANGED <<fileVars, utxoVars, rowVars, dbVars, histVars, bpVars,
                   flush_utxos, next, todo, stopping, lost>>

\* One iteration of backup_blocks: the tip block is undone in memory.
BackupBlock ==
    LET b == chain[Len(chain)]
    IN  /\ pc = "backing"
        /\ b = tip
        /\ tip' = Prev[b]
        /\ touched' = touched \cup Touches(b)
        /\ chain' = SubSeq(chain, 1, Len(chain) - 1)
        /\ tx_count' = tx_count - Len(Txs[b])
        /\ height' = height - 1
        /\ tx_counts' = SubSeq(tx_counts, 1, Len(tx_counts) - 1)
        /\ chunk' = chunk - 1
        /\ todo' = todo - 1
        /\ pc' = IF chunk = 1 THEN "backed" ELSE "backing"
        /\ UNCHANGED <<fileVars, utxoVars, rowVars, db_height, db_tx_count,
                       db_tip, fs_height, fs_tx_count, utxo_flush_count,
                       first_sync, histVars, headers, caught_up, flush_utxos,
                       next, stopping, lost>>

\* Mutant of RowsBackedUp: bisect_right for bisect_left.
RowsBackedUpRight(hashXs, count) ==
    {r \in hist_rows :
        \/ r.hashX \notin hashXs
        \/ r.tx_num <= count
        \/ \E s \in hist_rows : /\ s.hashX = r.hashX
                                /\ s.flush_id > r.flush_id
                                /\ s.tx_num <= count}

\* History.backup scans the rows of a hashX from the newest: a row keeps the
\* entries below the tx count, and the scan stops at the first that keeps one.
RowsBackedUp(hashXs, count) ==
    {r \in hist_rows :
        \/ r.hashX \notin hashXs
        \/ r.tx_num < count
        \/ \E s \in hist_rows : /\ s.hashX = r.hashX
                                /\ s.flush_id > r.flush_id
                                /\ s.tx_num < count}

\* flush_backup: backup_fs moves the pointers and History.backup commits ...
BackupHistory ==
    /\ pc = "backed"
    /\ ~stopping
    /\ fs_height' = height
    /\ fs_tx_count' = tx_count
    /\ flush_count' = flush_count + 1
    /\ hist_flush_count' = flush_count'
    /\ hist_rows' = RowsBackedUp(touched, tx_count)
    /\ lost' = lost \cup (tx_count .. utxo_state.tx_count - 1)
    /\ pc' = "unwritten"
    /\ UNCHANGED <<fileVars, utxoVars, db_height, db_tx_count, db_tip,
                   tx_counts, utxo_flush_count, first_sync, unflushed, bpVars,
                   flush_utxos, next, reorgVars, stopping>>

\* ... and then the batch of the UTXO DB.
BackupUtxos ==
    /\ pc = "unwritten"
    /\ FlushUtxoDb
    /\ lost' = {n \in lost : n < tx_count}
    /\ pc' = "reorg"
    /\ UNCHANGED <<fileVars, rowVars, fs_height, fs_tx_count, tx_counts,
                   first_sync, histVars, bpVars, flush_utxos, next, reorgVars,
                   stopping>>

\* prefetcher.reset_height: back to waiting for blocks of the new branch.
ReorgDone ==
    /\ pc = "reorg"
    /\ todo = 0
    /\ ~stopping
    /\ pc' = "idle"
    /\ UNCHANGED <<fileVars, utxoVars, rowVars, dbVars, histVars, bpVars,
                   flush_utxos, next, reorgVars, stopping, lost>>

-----------------------------------------------------------------------------
(* Clean shutdown *)

\* The server task is cancelled.  Work in a thread is shielded: it goes on to
\* its end, and only then does the coroutine see the cancellation.
Cancel ==
    /\ pc # "down"
    /\ ~stopping
    /\ stopping' = TRUE
    /\ UNCHANGED <<fileVars, utxoVars, rowVars, dbVars, histVars, bpVars, pc,
                   flush_utxos, next, reorgVars, lost>>

\* fetch_and_process_blocks flushes everything ...
ShutdownFlush ==
    /\ stopping
    /\ \/ pc \in {"idle", "advanced", "reorg", "backed"}
       \/ pc = "flushed" /\ next # "exit"
    /\ BeginFlush(TRUE, "exit")
    /\ UNCHANGED <<fileVars, utxoVars, rowVars, dbVars, histVars, bpVars,
                   reorgVars, stopping, lost>>

\* ... and the process ends.
Exit ==
    /\ pc = "flushed" /\ next = "exit"
    /\ Forgotten
    /\ UNCHANGED <<fileVars, utxoVars, rowVars, lost>>

-----------------------------------------------------------------------------
Flush ==
    \/ NothingToFlush \/ FlushHeaders \/ FlushTxCounts \/ FlushHashes
    \/ FlushHistory \/ FlushUtxos \/ FlushStateOnly \/ FlushFails

Reorg ==
    \/ ReorgFlushed \/ StartChunk \/ BackupBlock \/ BackupHistory
    \/ BackupUtxos \/ ReorgDone

\* What the block processor does once it has begun, without new input.
Proceed ==
    \/ MaybeFlush \/ BlocksDone \/ OpenForServing \/ Flush \/ Reorg
    \/ ShutdownFlush \/ Exit

Next ==
    \/ Restart \/ Crash \/ Cancel
    \/ \E b \in Block : AdvanceBlock(b)
    \/ FirstCaughtUp
    \/ \E n \in 1 .. height : StartReorg(n)
    \/ Proceed

Spec == Init /\ [][Next]_vars

\* A batch of blocks is finite and a thread that has begun runs to its end.
FairSpec == Spec /\ WF_vars(Proceed)
-----------------------------------------------------------------------------
(* Properties *)

\* Every variable of the model holds a value of the kind its code counterpart
\* does; a reorg never has more blocks to undo than there are (reorg_chain).
TypeOK ==
    /\ headers_file \in Seq(Block)
    /\ tx_counts_file \in Seq(Nat)
    /\ hashes_file \in Seq(Block \X Nat)
    /\ utxo_state \in [height : Nat \cup {-1}, tx_count : Nat,
                       tip : Block \cup {NoTip}, utxo_flush_count : Nat,
                       first_sync : BOOLEAN]
    /\ utxo_table \in Seq(Block)
    /\ hist_flush_count \in Nat
    /\ hist_rows \in SUBSET Row
    /\ db_height \in Nat \cup {-1} /\ db_tx_count \in Nat
    /\ db_tip \in Block \cup {NoTip}
    /\ fs_height \in Nat \cup {-1} /\ fs_tx_count \in Nat
    /\ tx_counts \in Seq(Nat)
    /\ utxo_flush_count \in Nat /\ first_sync \in BOOLEAN
    /\ flush_count \in Nat /\ unflushed \in SUBSET (HashX \X Nat)
    /\ height \in Nat \cup {-1} /\ tip \in Block \cup {NoTip}
    /\ tx_count \in Nat
    /\ headers \in Seq(Block) /\ chain \in Seq(Block)
    /\ touched \in SUBSET HashX /\ caught_up \in BOOLEAN
    /\ pc \in Phase /\ flush_utxos \in BOOLEAN /\ next \in Continuation
    /\ todo \in Nat /\ chunk \in 0 .. ChunkSize /\ stopping \in BOOLEAN
    /\ lost \in SUBSET Nat

\* The history that a restart would serve.
Recovered == {<<r.hashX, r.tx_num>> : r \in KeptRows}

\* Killed at any instant, the process reopens with exactly the history of the
\* chain whose UTXOs are on disk: nothing of a flush that did not commit,
\* nothing of a block that was backed up, and all the rest - but for the
\* transactions of a backup that was cut off after History.backup and before
\* the batch of the UTXO DB (flush_backup in db.py).
HistoryExact == Recovered = {e \in HistoryOf(utxo_table) : e[2] \notin lost}

\* The UTXO state record describes the UTXO tables, and the metadata files
\* hold the blocks up to its height, whatever write was cut off and however
\* many branches were written over each other ("append-only", flush_fs).
FilesCoverState ==
    /\ Linked(utxo_table)
    /\ utxo_state.height = Len(utxo_table) - 1
    /\ utxo_state.tip = TipOf(utxo_table)
    /\ utxo_state.tx_count = TxCountOf(utxo_table)
    /\ Len(headers_file) >= Len(utxo_table)
    /\ Len(tx_counts_file) >= Len(utxo_table)
    /\ Len(hashes_file) >= TxCountOf(utxo_table)
    /\ \A i \in 1 .. Len(utxo_table) :
         LET b == utxo_table[i] IN
         /\ headers_file[i] = b
         /\ tx_counts_file[i] = End(b)
         /\ \A n \in FirstTx[b] .. End(b) - 1 :
              hashes_file[n + 1] = <<b, n - FirstTx[b] + 1>>

\* fs_tx_hash: bisect_right(tx_counts, n) is the height of transaction n ...
TxHeight(n) ==
    CHOOSE h \in 0 .. Len(tx_counts) :
        /\ \A i \in 1 .. h : tx_counts[i] <= n
        /\ h < Len(tx_counts) => tx_counts[h + 1] > n

\* ... and there is no hash for it if that height is not on disk yet.
FsTxHash(n) ==
    IF TxHeight(n) > db_height THEN <<>> ELSE hashes_file[n + 1]

\* A query that reads the history in a thread of its own, in between any two
\* steps of a flush or a reorg (read_history in limited_history), is never
\* given a transaction that does not touch the address; nor a wrong height,
\* except after backup_blocks has undone blocks in memory and before the
\* batch that removes them on disk.
ServedSound ==
    pc # "down" => \A r \in hist_rows :
        LET tx == FsTxHash(r.tx_num) IN
        tx # <<>> =>
            /\ r.hashX \in Txs[tx[1]][tx[2]]
            /\ height >= db_height =>
                  headers_file[TxHeight(r.tx_num) + 1] = tx[1]

\* Once caught up, the block processor does not return to waiting for blocks
\* (having notified clients, who query the DB) before all that it has
\* processed is on disk (_maybe_flush).
NotifiedIsDurable ==
    pc = "idle" /\ caught_up => /\ utxo_table = chain
                               /\ utxo_state.tip = tip
                               /\ unflushed = {}
                               /\ Recovered = {<<r.hashX, r.tx_num>> : r \in hist_rows}

\* A flush, a reorg or a shutdown that has begun comes to an end.
WorkEnds == pc \notin {"idle", "down"} ~> pc \in {"idle", "down"}

-----------------------------------------------------------------------------
(* What the documentation claims and the code does not do *)

\* "the database should not get corrupted even if the ElectrumX process if
\* forcibly killed" (docs/HOWTO.rst): a process that runs has all the history
\* of its chain.
KilledLosesNothing == pc = "idle" => Recovered = HistoryOf(utxo_table)
=============================================================================
