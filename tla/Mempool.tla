------------------------------- MODULE Mempool -------------------------------
(***************************************************************************)
(* MemPool (mempool.py) beside the block processor and the daemon, and     *)
(* what the sessions are told of all this through Notifications.  The      *)
(* refresh of the mempool is cut at every await: at each the daemon may    *)
(* get or drop transactions and blocks, and the DB may be flushed.         *)
(*                                                                         *)
(* An unconfirmed transaction of the server is in txs from the moment its  *)
(* in_pairs are known, and in the set hashXs[x] for each x of Touch(t).    *)
(***************************************************************************)
EXTENDS TxChain, Notifications

CONSTANTS
    ChunkTxs,         \* transactions fetched at a time (200)
    MaxIterations,    \* of the deferred transactions (5)
    StartPools,       \* what the daemon's mempool may be at first
    MaxEvents         \* bound on the events at the daemon

ASSUME MempoolAssumption ==
    /\ {ChunkTxs, MaxIterations} \subseteq Nat \ {0}
    /\ MaxEvents \in Nat
    /\ \A ts \in StartPools : ts \subseteq Tx /\ ConflictFree(ts) /\ CanHold(Genesis, ts)

VARIABLES
    daemon, pool,      \* the daemon: its tip and its mempool
    cached_height,     \* Daemon.cached_height()
    events,            \* bound: events at the daemon so far
    dropped,           \* history: transactions it dropped, or whose block it left
    db,                \* the tip whose height is db_height
    utxo_db,           \* the tip whose UTXOs are in the tables
    bp, bp_touched,    \* the block processor: where it is, self.touched
    mp,                \* where _refresh_hashes is
    height, all_hashes, touched,    \* its locals
    chunks,            \* the calls of _fetch_and_accept in flight
    tx_map, utxo_map,  \* what they have deferred, and the unspent prevouts
    txs,               \* MemPool.txs
    known              \* hashX -> what the clients were last told of it

daemonVars == <<daemon, pool, cached_height, events, dropped>>
bpVars == <<db, utxo_db, bp, bp_touched>>
mpVars == <<mp, height, all_hashes, touched, chunks, tx_map, utxo_map, txs>>
vars == <<daemonVars, bpVars, mpVars, known, notifyVars>>

\* What transaction_summaries and limited_history say of x: its confirmed and
\* its unconfirmed transactions.
Status(b, ts, x) ==
    [confirmed |-> Touching(Confirmed[b], x), unconfirmed |-> Touching(ts, x)]

-----------------------------------------------------------------------------
(* The daemon *)

\* The server starts beside a daemon that may have transactions already.
Init ==
    /\ pool \in StartPools
    /\ daemon = Genesis /\ cached_height = 0 /\ events = 0 /\ dropped = {}
    /\ db = Genesis /\ utxo_db = Genesis /\ bp = "idle" /\ bp_touched = {}
    /\ mp = "sleep" /\ height = 0 /\ all_hashes = {} /\ touched = {}
    /\ chunks = {} /\ tx_map = {} /\ utxo_map = {} /\ txs = {}
    /\ known = [x \in HashX |-> Status(Genesis, {}, x)]
    /\ touched_mp = <<>> /\ touched_bp = <<>> /\ highest_block = 0 /\ lost = {}

\* The daemon's next state.
DaemonHas(b, ts) ==
    /\ events < MaxEvents /\ events' = events + 1
    /\ daemon' = b /\ pool' = ts
    /\ dropped' = dropped \cup (pool \ (ts \cup Confirmed[b]))
                          \cup UNION {Txs[c] : c \in {a \in Block : OnChain(a, daemon) /\ ~ OnChain(a, b)}}
    /\ UNCHANGED <<cached_height, bpVars, mpVars, known, notifyVars>>

\* A transaction reaches the daemon, and replaces those that spend the same.
Broadcast(t) ==
    /\ t \notin pool
    /\ LET others == {u \in pool : Ins[u] \cap Ins[t] = {}}
           new == Acceptable(daemon, others \cup {t})
       IN  t \in new /\ DaemonHas(daemon, new)

\* It drops one, with its descendants.
Evict(t) == t \in pool /\ DaemonHas(daemon, Acceptable(daemon, pool \ {t}))

\* Its chain gets longer, or gives way to a longer one.
NewTip(b) ==
    /\ Height(b) > Height(daemon)
    /\ DaemonHas(b, Acceptable(b, pool \cup Confirmed[daemon]))

\* The prefetcher asks for the height.
PollHeight ==
    /\ cached_height' = Height(daemon)
    /\ UNCHANGED <<daemon, pool, events, dropped, bpVars, mpVars, known, notifyVars>>

-----------------------------------------------------------------------------
(* The sessions *)

\* _notify_sessions: each subscriber of a touched hashX works out its status.
Tell(notices) ==
    known' = [x \in HashX |-> IF \E n \in notices : x \in n.touched THEN Status(db, txs', x) ELSE known[x]]

-----------------------------------------------------------------------------
(* The block processor, once caught up *)

\* A batch of blocks up to b is advanced and flushed; db_height is set before
\* the batch of the UTXO DB is committed.
AdvanceBlocks(b) ==
    /\ bp = "idle"
    /\ OnChain(db, b) /\ b # db /\ OnChain(b, daemon)
    /\ db' = b
    /\ bp_touched' = bp_touched \cup Touched(Confirmed[b] \ Confirmed[db])
    /\ bp' = "flushing"
    /\ UNCHANGED <<daemonVars, utxo_db, mpVars, known, notifyVars>>

CommitUtxos ==
    /\ bp = "flushing"
    /\ utxo_db' = db
    /\ bp' = "flushed"
    /\ UNCHANGED <<daemonVars, db, bp_touched, mpVars, known, notifyVars>>

\* The end of check_and_advance_blocks.
NotifyBlock ==
    /\ bp = "flushed"
    /\ UNCHANGED <<daemonVars, db, utxo_db, mpVars>>
    /\ OnBlock(bp_touched, Height(db)) /\ Tell(BlockNotices(bp_touched, Height(db)))
    /\ bp_touched' = {}
    /\ bp' = "idle"

\* Mutant of BackupTouched: what a backup touches is not kept.
BackupTouchedNot(b) == bp_touched

\* What backup_txs adds to self.touched.
BackupTouched(b) == bp_touched \cup Touched(Confirmed[db] \ Confirmed[b])

\* reorg_chain backs up to a block that the daemon has, and tells nobody.
BackupBlocks ==
    /\ bp = "idle" /\ ~ OnChain(db, daemon) /\ Height(daemon) > Height(db)
    /\ \E b \in Block :
        /\ OnChain(b, db) /\ OnChain(b, daemon)
        /\ \A c \in Block : OnChain(c, db) /\ OnChain(c, daemon) => Height(c) <= Height(b)
        /\ db' = b /\ utxo_db' = b
        /\ bp_touched' = BackupTouched(b)
    /\ UNCHANGED <<daemonVars, bp, mpVars, known, notifyVars>>

-----------------------------------------------------------------------------
(* The refresh of the mempool *)

\* cached_height is read and the hashes are asked for.
StartRefresh ==
    /\ mp = "sleep"
    /\ height' = cached_height
    /\ mp' = "hashes"
    /\ UNCHANGED <<daemonVars, bpVars, all_hashes, touched, chunks, tx_map, utxo_map, txs, known,
                   notifyVars>>

\* mempool_hashes answers.
ReceiveHashes ==
    /\ mp = "hashes"
    /\ all_hashes' = pool
    /\ mp' = "height"
    /\ UNCHANGED <<daemonVars, bpVars, height, touched, chunks, tx_map, utxo_map, txs, known,
                   notifyVars>>

\* height() answers: another height, and all is read again.
CheckHeight ==
    /\ mp = "height"
    /\ cached_height' = Height(daemon)
    /\ mp' = IF height = Height(daemon) THEN "process" ELSE "sleep"
    /\ UNCHANGED <<daemon, pool, events, dropped, bpVars, height, all_hashes, touched, chunks, tx_map,
                   utxo_map, txs, known, notifyVars>>

\* Mutant of TouchedByVanished: their hashes are taken for the hashXs.
TouchedByVanishedHashes(gone) == gone

\* The hashXs that transactions which have disappeared touch.
TouchedByVanished(gone) == Touched(gone)

\* _refresh_hashes once _process_mempool returns: without an await in between
\* the touched hashXs are handed over.
HandOver(ts) ==
    /\ OnMempool(ts, height) /\ Tell(MempoolNotices(ts, height))
    /\ touched' = {} /\ mp' = "sleep"

CutShort(next) == mp' = next /\ UNCHANGED <<known, notifyVars>>

\* Mutant of InSync: the mempool is taken as it is.
InSyncAlways == TRUE

\* The mempool is processed only if the DB is at its height.
InSync == height = Height(db)

\* Mutant of StillThere: nothing is removed.
StillThereAll == txs

\* What is left of the mempool without those that have disappeared.
StillThere == txs \cap all_hashes

\* _process_mempool up to its first await, or all of it if nothing is new.
ProcessMempool ==
    /\ mp = "process"
    /\ IF ~ InSync
       THEN CutShort("sleep") /\ UNCHANGED <<txs, touched, chunks>>      \* DBSyncError
       ELSE LET new  == all_hashes \ txs
                gone == touched \cup TouchedByVanished(txs \ all_hashes)
            IN  /\ txs' = StillThere
                /\ IF new = {} THEN HandOver(gone) ELSE CutShort("fetch") /\ touched' = gone
                /\ \E first \in SUBSET new :
                    /\ Cardinality(first) <= ChunkTxs
                    /\ Cardinality(new \ first) <= ChunkTxs
                    /\ chunks' = {[hashes |-> hs, state |-> "raw"] : hs \in {first, new \ first} \ {{}}}
    /\ tx_map' = {} /\ utxo_map' = {}
    /\ UNCHANGED <<daemonVars, bpVars, height, all_hashes>>

\* raw_transactions answers, with None for those that are not there any more;
\* a daemon with a transaction index still has those that are in a block.
ReceiveRaw ==
    /\ mp = "fetch"
    /\ \E c \in chunks :
        /\ c.state = "raw"
        /\ \E mined \in SUBSET (c.hashes \cap Confirmed[daemon]) :
            chunks' = (chunks \ {c}) \cup
                      {[hashes |-> (c.hashes \cap pool) \cup mined, state |-> "lookup"]}
    /\ UNCHANGED <<daemonVars, bpVars, mp, height, all_hashes, touched, tx_map, utxo_map, txs, known,
                   notifyVars>>

\* The sets that _accept_transactions may accept of some candidates: those
\* whose inputs are all known, and any that come after their parents in the
\* order it goes through them.
Outcomes(candidates, utxos) ==
    LET known_(s) == {t \in candidates : Ins[t] \subseteq utxos \cup txs \cup s}
    IN  {s \in SUBSET candidates : known_({}) \subseteq s /\ s \subseteq known_(s)}

\* lookup_utxos answers, and _accept_transactions runs on the chunk.
LookupAndAccept ==
    /\ mp = "fetch"
    /\ \E c \in chunks :
        /\ c.state = "lookup"
        /\ LET found == (Spent(c.hashes) \ all_hashes) \cap Unspent(utxo_db)
           IN  \E accepted \in Outcomes(c.hashes, found) :
                /\ txs' = txs \cup accepted
                /\ touched' = touched \cup Touched(accepted)
                /\ tx_map' = tx_map \cup (c.hashes \ accepted)
                /\ utxo_map' = utxo_map \cup (found \ Spent(accepted))
        /\ chunks' = chunks \ {c}
    /\ UNCHANGED <<daemonVars, bpVars, mp, height, all_hashes, known, notifyVars>>

\* All chunks are in: the deferred ones are tried again while that helps, at
\* most MaxIterations times.
AcceptDeferred ==
    /\ mp = "fetch" /\ chunks = {}
    /\ IF ~ InSync
       THEN CutShort("sleep") /\ UNCHANGED <<txs, touched>>
       ELSE LET after[n \in 0 .. MaxIterations] ==
                    IF n = 0 THEN {{}}
                    ELSE UNION {{a \cup b : b \in Outcomes(tx_map \ a, (utxo_map \ Spent(a)) \cup a)} :
                                    a \in after[n - 1]}
            IN  \E accepted \in after[MaxIterations] :
                    /\ txs' = txs \cup accepted
                    /\ HandOver(touched \cup Touched(accepted))
    /\ UNCHANGED <<daemonVars, bpVars, height, all_hashes, chunks, tx_map, utxo_map>>

-----------------------------------------------------------------------------
Daemon == (\E t \in Tx : Broadcast(t) \/ Evict(t)) \/ (\E b \in Block : NewTip(b))
BlockProcessor == (\E b \in Block : AdvanceBlocks(b)) \/ CommitUtxos \/ NotifyBlock \/ BackupBlocks
Refresh ==
    \/ StartRefresh \/ ReceiveHashes \/ CheckHeight \/ ProcessMempool
    \/ ReceiveRaw \/ LookupAndAccept \/ AcceptDeferred

Next == Daemon \/ PollHeight \/ BlockProcessor \/ Refresh

Spec == Init /\ [][Next]_vars

\* The tasks of the server run on; the daemon answers, but need not do anything
\* of its own accord.
FairSpec == Spec /\ WF_vars(PollHeight) /\ WF_vars(BlockProcessor) /\ WF_vars(Refresh)

-----------------------------------------------------------------------------
(* Properties *)

\* Each variable has its type.
TypeOK ==
    /\ {daemon, db, utxo_db} \subseteq Block
    /\ pool \subseteq Tx /\ all_hashes \subseteq Tx /\ txs \subseteq Tx
    /\ {cached_height, height, events, highest_block} \subseteq Nat
    /\ bp \in {"idle", "flushing", "flushed"}
    /\ mp \in {"sleep", "hashes", "height", "process", "fetch"}
    /\ bp_touched \subseteq HashX /\ touched \subseteq HashX
    /\ chunks \subseteq [hashes : SUBSET Tx, state : {"raw", "lookup"}]
    /\ tx_map \subseteq Tx /\ utxo_map \subseteq Tx
    /\ \A x \in HashX : known[x].confirmed \subseteq Tx /\ known[x].unconfirmed \subseteq Tx
    /\ \A h \in DOMAIN touched_mp : touched_mp[h] \subseteq HashX
    /\ \A h \in DOMAIN touched_bp : touched_bp[h] \subseteq HashX

\* No two transactions that the mempool has at any moment spend the same output,
\* although a transaction may have replaced another one while it was fetched: a
\* balance never counts both.
NoConflict == ConflictFree(txs)

Still == events = MaxEvents

\* When the daemon keeps still, the mempool becomes the one of the daemon,
\* however many refreshes were cut off or left transactions deferred.
Converges == Still ~> txs = pool

\* The docstring of Notifications, "defers notifications appropriately": each
\* client that has subscribed to a hashX ends up with its status, whatever
\* blocks, reorgs and refreshes changed it and in whichever order they came in.
\* But not where one set of touched hashXs has replaced another.
Informed == Still ~> \A x \in HashX \ lost : known[x] = Status(daemon, pool, x)

\* What that docstring says without an exception.
AllInformed == Still ~> \A x \in HashX : known[x] = Status(daemon, pool, x)

\* The comment in Notifications, "the transaction will not be in the mempool
\* after the mempool refresh": a transaction that a client was told of is
\* never taken back, unless the daemon dropped it or left its block: a client
\* does not see it vanish between the mempool and the block.
NeverVanishes ==
    [][\A x \in HashX :
          LET has(k) == k.confirmed \cup k.unconfirmed
          IN  has(known[x]) \ has(known'[x]) \subseteq dropped]_vars
=============================================================================
