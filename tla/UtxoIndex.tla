------------------------------ MODULE UtxoIndex ------------------------------
(***************************************************************************)
(* The UTXO set and its undo records: what BlockProcessor does with the    *)
(* transactions of a block, and what of it reaches the two tables of the   *)
(* UTXO DB.  Advancing and backing up are modelled input by input and      *)
(* output by output, because each spend_utxo searches the cache and then   *)
(* a table whose keys are ambiguous.                                       *)
(*                                                                         *)
(* IndexStore looks at a flush or a backup write by write; here each is    *)
(* one step.  The history is a set of pairs <<hashX, tx_num>>, as in       *)
(* Ledger; the metadata files hold the hashes of db_chain, as FilesCover   *)
(* of IndexStore_proofs says.                                              *)
(***************************************************************************)
EXTENDS Coins

CONSTANTS
    ReorgLimit,   \* env.reorg_limit: for how many blocks undo info is kept
    ChunkSize,    \* blocks backed up per flush_backup (50 in reorg_chain)
    MaxHeight     \* model bound: greatest height the daemon reports

ASSUME LimitAssumption ==
    ReorgLimit \in Nat \ {0} /\ ChunkSize \in Nat \ {0} /\ MaxHeight \in Nat

VARIABLES
    \* --- on disk
    h_table,      \* [short, idx, tx_num, hashX]: key b'h', value hashX
    u_table,      \* [hashX, idx, tx_num, value]: key b'u', value the amount
    undo_table,   \* height -> undo info (key b'U')
    raw_files,    \* height -> block (files meta/block<height>)
    db_chain,     \* the chain of the state record
    history,      \* committed history
    \* --- in memory
    chain,        \* blocks processed
    utxo_cache,   \* output -> [hashX, tx_num, value]
    db_deletes,   \* pairs of an h key and a u key
    undo_infos,   \* height -> undo info not flushed yet
    touched, unflushed,
    \* --- control
    pc,
    block,        \* block being advanced or undone
    cur_tx, cur_io, \* its transaction, and input or output, that is next
    undo,         \* undo info being collected or used up
    min_height,   \* min_undo_height of the batch
    todo, chunk,  \* blocks still to be backed up, in all and in this chunk
    from_disk,    \* the raw blocks of the chunk were read from disk
    ltor,         \* the coin's is an LTORBlockProcessor, which never changes
    \* --- history variables
    seen,         \* greatest height of the daemon that was acted on
    deep          \* a block has been undone that was reorg_limit below seen

diskVars == <<h_table, u_table, undo_table, raw_files, db_chain, history>>
cacheVars == <<chain, utxo_cache, db_deletes, undo_infos, touched, unflushed>>
workVars == <<block, cur_tx, cur_io, undo, min_height>>
reorgVars == <<todo, chunk, from_disk>>
histVars == <<seen, deep>>
vars == <<ltor, diskVars, cacheVars, workVars, reorgVars, pc, histVars>>

Phase == {"down", "idle", "advance", "advanced", "reorg", "chunk", "undo",
          "backup", "failed"}

tip == H!TipOf(chain)
height == Len(chain) - 1
db_height == Len(db_chain) - 1
txid == Txs[block][cur_tx]

\* The value of an output is represented by the output itself, so that no two
\* have the same.
Item == [hashX : HashX, tx_num : Nat, value : UNION {Stored(t) : t \in Tx}]

-----------------------------------------------------------------------------
(* The cache and the tables *)

\* put_utxo of several outputs at once: a dictionary update.
Put(cache, new) ==
    [o \in DOMAIN cache \cup DOMAIN new |->
        IF o \in DOMAIN new THEN new[o] ELSE cache[o]]

\* Mutant of NewItems: unspendable outputs are stored as well.
NewItemsAll(b, k) ==
    [o \in {<<Txs[b][k], m>> : m \in 1 .. Len(Outs[Txs[b][k]])} |->
        [hashX |-> HashXOf(o), tx_num |-> TxNum(b, k), value |-> o]]

\* The cache entries of the outputs of the k-th transaction of b.
NewItems(b, k) ==
    [o \in Stored(Txs[b][k]) |->
        [hashX |-> HashXOf(o), tx_num |-> TxNum(b, k), value |-> o]]

\* The rows with the prefix b'h' + compressed tx hash + index.
Candidates(o) == {r \in h_table : r.short = Short[o[1]] /\ r.idx = o[2]}

\* fs_tx_hash: the hashes file holds the hashes of db_chain.  Beyond them the
\* result is None, which spend_utxo asserts it is not.
FsTxHash(m) ==
    LET p == H!TxNumbered(db_chain, m)
    IN  IF m < H!TxCountOf(db_chain) THEN Txs[p[1]][p[2]] ELSE NoTip

\* The u row of an h row.
SameKey(r, u) == u.hashX = r.hashX /\ u.idx = r.idx /\ u.tx_num = r.tx_num

\* Mutant of InTables: the first candidate is taken as it is.
InTablesUnresolved(o) ==
    {p \in Candidates(o) \X u_table : SameKey(p[1], p[2])}

\* What spend_utxo finds for an output that is not in the cache: a candidate,
\* resolved by the full tx hash when there are several, and its u row.
InTables(o) ==
    {p \in Candidates(o) \X u_table :
        /\ Candidates(o) # {p[1]} => FsTxHash(p[1].tx_num) = o[1]
        /\ SameKey(p[1], p[2])}

HKey(r) == <<r.short, r.idx, r.tx_num>>
UKey(u) == <<u.hashX, u.idx, u.tx_num>>

\* spend_utxo: the entry it returns and the keys it marks for deletion.  If
\* there is none it raises ChainError.
Found(o) ==
    IF o \in DOMAIN utxo_cache
    THEN {[item |-> utxo_cache[o], keys |-> {}]}
    ELSE {[item |-> [hashX |-> p[1].hashX, tx_num |-> p[1].tx_num, value |-> p[2].value],
           keys |-> {<<HKey(p[1]), UKey(p[2])>>}] : p \in InTables(o)}

SpendUtxo(o, f) ==
    /\ utxo_cache' = [p \in DOMAIN utxo_cache \ {o} |-> utxo_cache[p]]
    /\ db_deletes' = db_deletes \cup f.keys

\* The keys that flush_utxo_db deletes from each table.
MarkedForDeletion == [h |-> {d[1] : d \in db_deletes}, u |-> {d[2] : d \in db_deletes}]

\* flush_utxo_db: deletions, then puts, then undo info, and the new state.
FlushUtxoDb ==
    LET hrows == {[short |-> Short[o[1]], idx |-> o[2], tx_num |-> utxo_cache[o].tx_num,
                   hashX |-> utxo_cache[o].hashX] : o \in DOMAIN utxo_cache}
        urows == {[hashX |-> utxo_cache[o].hashX, idx |-> o[2],
                   tx_num |-> utxo_cache[o].tx_num, value |-> utxo_cache[o].value] :
                      o \in DOMAIN utxo_cache}
        hkeys == MarkedForDeletion.h \cup {HKey(r) : r \in hrows}
        ukeys == MarkedForDeletion.u \cup {UKey(u) : u \in urows}
    IN  /\ h_table' = {r \in h_table : HKey(r) \notin hkeys} \cup hrows
        /\ u_table' = {u \in u_table : UKey(u) \notin ukeys} \cup urows
        /\ undo_table' = Put(undo_table, undo_infos)
        /\ utxo_cache' = <<>> /\ db_deletes' = {} /\ undo_infos' = <<>>
        /\ db_chain' = chain

-----------------------------------------------------------------------------
(* Opening, and being killed *)

Forgotten ==
    /\ chain' = <<>> /\ utxo_cache' = <<>> /\ db_deletes' = {}
    /\ undo_infos' = <<>> /\ touched' = {} /\ unflushed' = {}
    /\ block' = NoTip /\ cur_tx' = 0 /\ cur_io' = 0 /\ undo' = <<>> /\ min_height' = 0
    /\ todo' = 0 /\ chunk' = 0 /\ from_disk' = FALSE

Init ==
    /\ h_table = {} /\ u_table = {} /\ undo_table = <<>> /\ raw_files = <<>>
    /\ db_chain = <<>> /\ history = {}
    /\ chain = <<>> /\ utxo_cache = <<>> /\ db_deletes = {}
    /\ undo_infos = <<>> /\ touched = {} /\ unflushed = {}
    /\ block = NoTip /\ cur_tx = 0 /\ cur_io = 0 /\ undo = <<>> /\ min_height = 0
    /\ todo = 0 /\ chunk = 0 /\ from_disk = FALSE
    /\ pc = "down" /\ ltor \in BOOLEAN
    /\ seen = -1 /\ deep = FALSE

\* Mutant of MinUndoHeight: undo info is kept for one block less.
MinUndoHeightLate(max_height) == max_height - ReorgLimit + 2

\* The height from which undo info is stored.
MinUndoHeight(max_height) == max_height - ReorgLimit + 1

\* What is kept of a function of heights by clear_excess_undo_info.
Recent(f) == [h \in {h \in DOMAIN f : h >= MinUndoHeight(db_height)} |-> f[h]]

\* _open_dbs: undo info and raw blocks that are too old are deleted.
OpenDbs ==
    /\ undo_table' = Recent(undo_table)
    /\ raw_files' = Recent(raw_files)

Restart ==
    /\ pc = "down"
    /\ OpenDbs
    /\ chain' = db_chain
    /\ pc' = "idle"
    /\ UNCHANGED <<h_table, u_table, db_chain, history, utxo_cache, db_deletes,
                   undo_infos, touched, unflushed, workVars, reorgVars, histVars>>

\* open_for_serving, after a flush of everything.
OpenForServing ==
    /\ pc = "idle"
    /\ chain = db_chain
    /\ OpenDbs
    /\ UNCHANGED <<h_table, u_table, db_chain, history, cacheVars, workVars,
                   reorgVars, pc, histVars>>

Crash ==
    /\ pc # "down"
    /\ Forgotten
    /\ pc' = "down"
    /\ UNCHANGED <<diskVars, histVars>>

-----------------------------------------------------------------------------
(* advance_blocks *)

\* A block that links onto the tip; daemon is the height the daemon is known
\* to be at, at least that of the block: the prefetcher asks for none above it.
\* The daemon only serves valid blocks.  LTORBlockProcessor creates all
\* outputs first.
BeginBlock(b, daemon) ==
    /\ pc \in {"idle", "advanced"}
    /\ Prev[b] = tip /\ Valid(b, ltor) /\ daemon >= Len(chain)
    /\ block' = b /\ cur_tx' = 1 /\ cur_io' = 1 /\ undo' = <<>>
    /\ min_height' = MinUndoHeight(daemon)
    /\ seen' = IF seen > daemon THEN seen ELSE daemon
    /\ utxo_cache' =
         IF ~ltor THEN utxo_cache
         ELSE Put(utxo_cache,
                  [c \in {c.out : c \in Created(b, Len(Txs[b]))} |->
                      LET k == CHOOSE k \in 1 .. Len(Txs[b]) : Txs[b][k] = c[1]
                      IN  NewItems(b, k)[c]])
    /\ pc' = "advance"
    /\ UNCHANGED <<diskVars, chain, db_deletes, undo_infos, touched, unflushed,
                   reorgVars, deep>>

\* An input of the transaction is spent; its hashX enters the history.
SpendInput ==
    /\ pc = "advance"
    /\ cur_tx <= Len(Txs[block]) /\ cur_io <= Len(Ins[txid])
    /\ \E f \in Found(Ins[txid][cur_io]) :
         /\ SpendUtxo(Ins[txid][cur_io], f)
         /\ undo' = Append(undo, f.item)
         /\ touched' = touched \cup {f.item.hashX}
         /\ unflushed' = unflushed \cup {<<f.item.hashX, TxNum(block, cur_tx)>>}
    /\ cur_io' = cur_io + 1
    /\ UNCHANGED <<diskVars, chain, undo_infos, block, cur_tx, min_height, reorgVars,
                   pc, histVars>>

\* Its outputs are created, if they are not yet.
AddOutputs ==
    LET hashXs == {HashXOf(o) : o \in Stored(txid)}
    IN  /\ pc = "advance"
        /\ cur_tx <= Len(Txs[block]) /\ cur_io > Len(Ins[txid])
        /\ utxo_cache' = IF ltor THEN utxo_cache
                         ELSE Put(utxo_cache, NewItems(block, cur_tx))
        /\ touched' = touched \cup hashXs
        /\ unflushed' = unflushed \cup {<<x, TxNum(block, cur_tx)>> : x \in hashXs}
        /\ cur_tx' = cur_tx + 1 /\ cur_io' = 1
        /\ UNCHANGED <<diskVars, chain, db_deletes, undo_infos, block, undo,
                       min_height, reorgVars, pc, histVars>>

\* The names of the block, for NameIndexBlockProcessor.
NameEntries(b) ==
    UNION {Names[Txs[b][k]] \X {TxNum(b, k)} : k \in 1 .. Len(Txs[b])}

\* Undo info and the raw block are kept near the daemon's height; writing a
\* raw block deletes the one that is too old by then.
EndBlock ==
    LET h == Len(chain)
        names == NameEntries(block)
    IN  /\ pc = "advance"
        /\ cur_tx > Len(Txs[block])
        /\ touched' = touched \cup {e[1] : e \in names}
        /\ unflushed' = unflushed \cup names
        /\ IF h >= min_height
           THEN /\ undo_infos' = Put(undo_infos, [k \in {h} |-> undo])
                /\ raw_files' =
                     [k \in (DOMAIN raw_files \cup {h}) \ {MinUndoHeight(h) - 1} |->
                         IF k = h THEN block ELSE raw_files[k]]
           ELSE UNCHANGED <<undo_infos, raw_files>>
        /\ chain' = Append(chain, block)
        /\ pc' = "advanced"
        /\ block' = NoTip /\ cur_tx' = 0 /\ cur_io' = 0 /\ undo' = <<>> /\ min_height' = 0
        /\ UNCHANGED <<h_table, u_table, undo_table, db_chain, history,
                       utxo_cache, db_deletes, reorgVars, histVars>>

\* The batch ends without a flush ...
BatchDone ==
    /\ pc = "advanced"
    /\ touched' = {}
    /\ pc' = "idle"
    /\ UNCHANGED <<diskVars, chain, utxo_cache, db_deletes, undo_infos,
                   unflushed, workVars, reorgVars, histVars>>

\* ... or with one; a reorg also starts with one.
Flush ==
    /\ pc \in {"idle", "advanced"}
    /\ chain # db_chain
    /\ history' = history \cup unflushed
    /\ unflushed' = {}
    /\ FlushUtxoDb
    /\ touched' = IF pc = "advanced" THEN {} ELSE touched
    /\ pc' = "idle"
    /\ UNCHANGED <<raw_files, chain, workVars, reorgVars, histVars>>

-----------------------------------------------------------------------------
(* reorg_chain *)

StartReorg(count) ==
    /\ pc = "idle"
    /\ chain = db_chain
    /\ count \in 1 .. height
    /\ todo' = count
    /\ pc' = "reorg"
    /\ UNCHANGED <<diskVars, cacheVars, workVars, chunk, from_disk, histVars>>

\* get_raw_blocks: from the files if there is one for each height, else from
\* the daemon by hash.
StartChunk ==
    /\ pc = "reorg"
    /\ todo > 0
    /\ chunk' = IF todo < ChunkSize THEN todo ELSE ChunkSize
    /\ from_disk' = (height - chunk' + 1 .. height \subseteq DOMAIN raw_files)
    /\ pc' = "chunk"
    /\ UNCHANGED <<diskVars, cacheVars, workVars, todo, histVars>>

\* The outputs spent by a block, in the order in which they were.
SpentBy(b) ==
    LET ins[k \in 0 .. Len(Txs[b])] ==
          IF k = 0 THEN <<>> ELSE ins[k - 1] \o Ins[Txs[b][k]]
    IN  ins[Len(Txs[b])]

\* Cache entries restored from undo info.
Restored(outs, items) == [o \in {outs[k] : k \in 1 .. Len(outs)} |->
    items[CHOOSE k \in 1 .. Len(outs) : outs[k] = o]]

\* Mutant of HashXsIn: restoring an input does not touch its hashX.
HashXsInNone(items) == {}

HashXsIn(items) == {items[k].hashX : k \in 1 .. Len(items)}

\* backup_blocks reads the undo info of the tip block.  With ltor all its
\* inputs are restored first.
BeginUndo ==
    /\ pc = "chunk"
    /\ from_disk => raw_files[height] = tip
    /\ height \in DOMAIN undo_table
    /\ block' = tip
    /\ deep' = (deep \/ height <= seen - ReorgLimit)
    /\ IF ltor
       THEN LET outs == SpentBy(tip)
                items == undo_table[height]
            IN  /\ Len(items) = Len(outs)
                /\ utxo_cache' = Put(utxo_cache, Restored(outs, items))
                /\ touched' = touched \cup HashXsIn(items)
                /\ undo' = <<>>
                /\ cur_tx' = 1
       ELSE /\ undo' = undo_table[height]
            /\ cur_tx' = Len(Txs[tip])
            /\ UNCHANGED <<utxo_cache, touched>>
    /\ cur_io' = 1
    /\ pc' = "undo"
    /\ UNCHANGED <<diskVars, chain, db_deletes, undo_infos, unflushed,
                   min_height, reorgVars, seen>>

\* An output is taken back by spending it.
UndoOutput ==
    LET o == <<txid, cur_io>>
    IN  /\ pc = "undo"
        /\ cur_tx \in 1 .. Len(Txs[block]) /\ cur_io <= Len(Outs[txid])
        /\ IF Outs[txid][cur_io] = Unspendable
           THEN UNCHANGED <<utxo_cache, db_deletes, touched>>
           ELSE \E f \in Found(o) :
                  /\ SpendUtxo(o, f)
                  /\ touched' = touched \cup {f.item.hashX}
        /\ cur_io' = cur_io + 1
        /\ UNCHANGED <<diskVars, chain, undo_infos, unflushed, block, cur_tx, undo,
                       min_height, reorgVars, pc, histVars>>

\* Mutant of LastItems: undo info is used up in the order of the block.
LastItemsFirst(infos, m) == SubSeq(infos, 1, m)

\* The last m entries of undo info.
LastItems(infos, m) == SubSeq(infos, Len(infos) - m + 1, Len(infos))

\* The outputs of a transaction are gone: its inputs are restored from the end
\* of the undo info, and the transaction before it is next.
RestoreInputs ==
    LET rest == Len(undo) - Len(Ins[txid])
        items == LastItems(undo, Len(Ins[txid]))
    IN  /\ pc = "undo"
        /\ cur_tx \in 1 .. Len(Txs[block]) /\ cur_io > Len(Outs[txid])
        /\ IF ltor
           THEN /\ cur_tx' = cur_tx + 1
                /\ UNCHANGED <<utxo_cache, touched, undo>>
           ELSE /\ rest >= 0
                /\ utxo_cache' = Put(utxo_cache, Restored(Ins[txid], items))
                /\ touched' = touched \cup HashXsIn(items)
                /\ undo' = SubSeq(undo, 1, rest)
                /\ cur_tx' = cur_tx - 1
        /\ cur_io' = 1
        /\ UNCHANGED <<diskVars, chain, db_deletes, undo_infos, unflushed,
                       block, min_height, reorgVars, pc, histVars>>

EndUndo ==
    /\ pc = "undo"
    /\ cur_tx \notin 1 .. Len(Txs[block])
    /\ undo = <<>>
    /\ chain' = SubSeq(chain, 1, Len(chain) - 1)
    /\ todo' = todo - 1
    /\ chunk' = chunk - 1
    /\ pc' = IF chunk = 1 THEN "backup" ELSE "chunk"
    /\ block' = NoTip /\ cur_tx' = 0 /\ cur_io' = 0
    /\ UNCHANGED <<diskVars, utxo_cache, db_deletes, undo_infos, touched,
                   unflushed, undo, min_height, from_disk, histVars>>

\* flush_backup: the history of the touched hashXs, then the UTXOs.
FlushBackup ==
    /\ pc = "backup"
    /\ history' = {e \in history : e[1] \in touched => e[2] < H!TxCountOf(chain)}
    /\ FlushUtxoDb
    /\ pc' = "reorg"
    /\ UNCHANGED <<raw_files, chain, touched, unflushed, workVars, reorgVars, histVars>>

ReorgDone ==
    /\ pc = "reorg"
    /\ todo = 0
    /\ pc' = "idle"
    /\ UNCHANGED <<diskVars, cacheVars, workVars, reorgVars, histVars>>

\* ChainError, or an assertion on the undo info: the process is about to end.
Fails ==
    /\ \/ /\ pc = "advance" /\ cur_tx <= Len(Txs[block]) /\ cur_io <= Len(Ins[txid])
          /\ Found(Ins[txid][cur_io]) = {}
       \/ /\ pc = "chunk"
          /\ \/ from_disk /\ raw_files[height] # tip
             \/ height \notin DOMAIN undo_table
             \/ /\ ltor /\ height \in DOMAIN undo_table
                /\ Len(undo_table[height]) # Len(SpentBy(tip))
       \/ /\ pc = "undo" /\ cur_tx \in 1 .. Len(Txs[block])
          /\ \/ /\ cur_io <= Len(Outs[txid]) /\ Outs[txid][cur_io] # Unspendable
                /\ Found(<<txid, cur_io>>) = {}
             \/ cur_io > Len(Outs[txid]) /\ ~ltor /\ Len(undo) < Len(Ins[txid])
       \/ pc = "undo" /\ cur_tx \notin 1 .. Len(Txs[block]) /\ undo # <<>>
    /\ pc' = "failed"
    /\ UNCHANGED <<diskVars, cacheVars, workVars, reorgVars, histVars>>

-----------------------------------------------------------------------------
Next ==
    /\ \/ Restart \/ OpenForServing \/ Crash
       \/ \E b \in Block, daemon \in 0 .. MaxHeight : BeginBlock(b, daemon)
       \/ SpendInput \/ AddOutputs \/ EndBlock \/ BatchDone \/ Flush
       \/ \E count \in 1 .. height : StartReorg(count)
       \/ StartChunk \/ BeginUndo \/ UndoOutput \/ RestoreInputs \/ EndUndo
       \/ FlushBackup \/ ReorgDone \/ Fails
    /\ UNCHANGED ltor

Spec == Init /\ [][Next]_vars

-----------------------------------------------------------------------------
(* Properties *)

\* Every variable of the model holds a value of the kind its code counterpart
\* does; unspendable outputs are not among them.
TypeOK ==
    /\ \A r \in h_table : r.hashX \in HashX /\ r.idx \in Nat /\ r.tx_num \in Nat
    /\ \A u \in u_table : u.hashX \in HashX /\ u.idx \in Nat /\ u.tx_num \in Nat
    /\ \A h \in DOMAIN undo_table : h \in Nat /\ undo_table[h] \in Seq(Item)
    /\ \A h \in DOMAIN raw_files : h \in Nat /\ raw_files[h] \in Block
    /\ db_chain \in Seq(Block) /\ chain \in Seq(Block)
    /\ history \subseteq HashX \X Nat /\ unflushed \subseteq HashX \X Nat
    /\ \A o \in DOMAIN utxo_cache : utxo_cache[o] \in Item
    /\ \A h \in DOMAIN undo_infos : h \in Nat /\ undo_infos[h] \in Seq(Item)
    /\ touched \subseteq HashX
    /\ pc \in Phase /\ block \in Block \cup {NoTip}
    /\ cur_tx \in Nat /\ cur_io \in Nat /\ undo \in Seq(Item)
    /\ min_height \in Int /\ todo \in Nat /\ chunk \in 0 .. ChunkSize
    /\ from_disk \in BOOLEAN /\ ltor \in BOOLEAN /\ seen \in Int /\ deep \in BOOLEAN

\* The two tables are those of the chain of the state record: one row each
\* per unspent output, under the number its transaction has on that chain,
\* with the right hashX and value, whatever hashes share their first bytes
\* (flush_utxo_db after any sequence of advances, reorgs and kills, unless a
\* reorg went beyond reorg_limit).
TablesExact ==
    LET coins == UnspentAt(H!TipOf(db_chain)) IN
    ~deep =>
        /\ h_table = {[short |-> Short[c.out[1]], idx |-> c.out[2],
                       tx_num |-> c.tx_num, hashX |-> HashXOf(c.out)] : c \in coins}
        /\ u_table = {[hashX |-> HashXOf(c.out), idx |-> c.out[2],
                       tx_num |-> c.tx_num, value |-> c.out] : c \in coins}

\* The coins there are in the eyes of spend_utxo: cached, or in the tables and
\* not marked for deletion.
Cached == {Coin(o, utxo_cache[o].tx_num) : o \in DOMAIN utxo_cache}
Kept ==
    {c \in UnspentAt(H!TipOf(db_chain)) :
        <<<<Short[c.out[1]], c.out[2], c.tx_num>>,
          <<HashXOf(c.out), c.out[2], c.tx_num>>>> \notin db_deletes}

\* At every step of advancing they are the coins unspent at that point of the
\* block, and after every block that is backed up those of its predecessor.
CacheExact ==
    pc \notin {"down", "undo", "failed"} /\ ~deep =>
        /\ Cached \cup Kept =
             IF pc = "advance" THEN Midway(block, cur_tx, cur_io - 1, ltor) ELSE UnspentAt(tip)
        /\ \A c \in Kept : c.out \notin DOMAIN utxo_cache

\* The committed history is that of the committed chain, also after backups,
\* which remove no more than the hashXs they touched, but for names: nothing
\* that is undone touches these, so that their rows stay behind.
HistoryExact ==
    LET exact == H!HistoryOf(db_chain) IN
    ~deep =>
        /\ exact \subseteq history
        /\ \A e \in history \ exact : \E t \in Tx : e[1] \in Names[t]

\* Advancing never fails to find an output, and a reorg only fails once it
\* reaches blocks that are reorg_limit or more below the greatest height acted
\* on (ChainError and the assertions of backup_txs).
ReorgsSucceed ==
    [][pc' = "failed" => deep \/ (pc = "chunk" /\ height <= seen - ReorgLimit)]_vars
=============================================================================
