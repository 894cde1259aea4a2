------------------------------- MODULE Sessions -------------------------------
(***************************************************************************)
(* What the session manager keeps of the DB for its clients (session.py):  *)
(* the history cache, the header subscription result, and for a session    *)
(* its subscriptions and the statuses it was last told.  The DB is flushed *)
(* by a thread, history first and db_height last; statuses are worked out  *)
(* by tasks that await a history from the DB.                              *)
(***************************************************************************)
EXTENDS TxChain, Notifications

CONSTANTS
    Limit,     \* a history of this length is too large
    Wanted,         \* the hashXs that clients ask for
    MaxRequests,    \* bound on the requests of clients in progress
    Prompt     \* history reads end before the next notification: see Deliver

ASSUME SessionsAssumption == {Limit, MaxRequests} \subseteq Nat /\ Prompt \in BOOLEAN /\ Wanted \subseteq HashX

VARIABLES
    daemon,             \* the tip of the daemon
    hist, db,           \* the tips up to which history is flushed, and db_height says
    bp, bp_touched,     \* where the block processor is, and its self.touched
    pool,               \* MemPool.txs
    telling,            \* _notify_sessions awaiting the header, per task that called it
    failed,             \* it raised an error, and the server stopped
    notified_height, hsub_results,
    history_cache,
    tasks,              \* status and history requests in progress
    hashX_subs, mempool_statuses,   \* of the session
    told, told_header   \* the last status of each hashX, and header, that it sent

chainVars == <<daemon, hist, db, bp, bp_touched>>
sessionVars == <<tasks, history_cache, hashX_subs, mempool_statuses, told>>
headerVars == <<notified_height, hsub_results, told_header>>
vars == <<chainVars, pool, telling, failed, headerVars, sessionVars, notifyVars>>

None == [confirmed |-> {}, unconfirmed |-> {}]
Silent == [height |-> -1, header |-> -1, touched |-> {}]

\* The confirmed part of the status of x when b is the tip.
History(b, x) == Touching(Confirmed[b], x)

\* transaction_summaries, with has_unconfirmed_inputs.
Summaries(x) == {<<t, Ins[t] \cap pool # {}>> : t \in Touching(pool, x)}

\* What the mempool can be above a block.
Pools == [b \in Block |-> {ts \in SUBSET (Tx \ Confirmed[b]) : ConflictFree(ts) /\ CanHold(b, ts)}]

Without(d, x) == Restrict(d, DOMAIN d \ {x})

Init ==
    /\ daemon = Genesis /\ hist = Genesis /\ db = Genesis /\ bp = "idle" /\ bp_touched = {}
    /\ pool = {} /\ failed = FALSE
    /\ telling = [s \in {"bp", "mp"} |-> Silent]
    /\ notified_height = 0 /\ hsub_results = Genesis /\ told_header = Genesis
    /\ history_cache = <<>> /\ tasks = {} /\ hashX_subs = {} /\ mempool_statuses = <<>>
    /\ told = [x \in HashX |-> None]
    /\ touched_mp = <<>> /\ touched_bp = <<>> /\ highest_block = 0 /\ lost = {}

-----------------------------------------------------------------------------
(* Telling the sessions *)

\* Mutant of Invalidated: the cache outlives the block.
InvalidatedNone(touched) == history_cache

\* The cache is left with the histories that are not touched.
Invalidated(touched) == Restrict(history_cache, DOMAIN history_cache \ touched)

\* A task, whoever it belongs to, with the status that it compares and the
\* history that it has read.
Task(kind, x, by) == [kind |-> kind, x |-> x, by |-> by, at |-> "start", old |-> None, history |-> {}]

\* session.notify, once for each touched subscription; then the statuses with
\* mempool transactions are looked at again if there is a new height.
Spawn(s, touched, changed) ==
    tasks' = tasks \cup {Task("touched", x, s) : x \in touched \cap hashX_subs}
                   \cup {Task("recheck", x, s) : x \in IF changed THEN hashX_subs ELSE {}}

\* The spawn of util.TaskGroup returns a task, and "await group.spawn(...)" waits
\* until it is done: whoever notifies goes on when the session was notified.
Free(s) == telling[s] = Silent /\ ~ \E t \in tasks : t.by = s

\* _notify_sessions, called by the block processor or the mempool: at a new
\* height it first awaits the header.
TellFrom(s, notices) ==
    \/ notices = {} /\ UNCHANGED <<telling, tasks>>
    \/ \E n \in notices :
        IF n.height = notified_height
        THEN Spawn(s, n.touched, FALSE) /\ UNCHANGED telling
        ELSE /\ telling' = [telling EXCEPT ![s] =
                    [height |-> n.height, header |-> Min({n.height, Height(db)}), touched |-> n.touched]]
             /\ UNCHANGED tasks

\* When Prompt, a history that was read before a flush is in the cache before
\* the sessions are told of the flush.
Deliver ==
    /\ Prompt => \A t \in tasks : t.at = "have" => t.history = History(hist, t.x)
    /\ UNCHANGED <<failed, headerVars, hashX_subs, mempool_statuses, told>>

\* Mutants of HeaderAt: the header below, and the height for the header.
HeaderAtBelow(h) == BlockAt(db, Max({0, h - 1}))
HeaderAtHeight(h) == h

\* raw_header.
HeaderAt(h) == BlockAt(db, h)

\* The header arrives, unless a reorg has left none at its height.
Told(s) ==
    /\ telling[s] # Silent
    /\ telling' = [telling EXCEPT ![s] = Silent]
    /\ LET h == telling[s].header
       IN  IF h > Height(db)
           THEN failed' = TRUE /\ UNCHANGED <<headerVars, history_cache, tasks>>
           ELSE /\ hsub_results' = HeaderAt(h) /\ notified_height' = h
                /\ told_header' = HeaderAt(h)
                /\ history_cache' = Invalidated(telling[s].touched)
                /\ Spawn(s, telling[s].touched, TRUE)
                /\ UNCHANGED failed
    /\ UNCHANGED <<chainVars, pool, hashX_subs, mempool_statuses, told, notifyVars>>

-----------------------------------------------------------------------------
(* The chain and the mempool *)

NewTip(b) ==
    /\ Height(b) > Height(daemon) /\ daemon' = b
    /\ UNCHANGED <<hist, db, bp, bp_touched, pool, telling, failed, headerVars, sessionVars, notifyVars>>

BpStep == UNCHANGED <<daemon, pool, telling, failed, headerVars, sessionVars, notifyVars>>

\* A batch of blocks up to b is advanced, and its history flushed.
FlushHistory(b) ==
    /\ bp = "idle" /\ Free("bp") /\ OnChain(db, b) /\ b # db /\ OnChain(b, daemon)
    /\ hist' = b
    /\ bp_touched' = bp_touched \cup Touched(Confirmed[b] \ Confirmed[db])
    /\ bp' = "flushing"
    /\ UNCHANGED db /\ BpStep

\* db_height is set.
FlushState ==
    /\ bp = "flushing"
    /\ db' = hist /\ bp' = "flushed"
    /\ UNCHANGED <<hist, bp_touched>> /\ BpStep

\* A block is backed up: its history goes first.
BackupHistory ==
    /\ bp = "idle" /\ Free("bp") /\ ~ OnChain(db, daemon)
    /\ hist' = Prev[db]
    /\ bp_touched' = bp_touched \cup Touched(Txs[db])
    /\ bp' = "backing"
    /\ UNCHANGED db /\ BpStep

BackupState ==
    /\ bp = "backing"
    /\ db' = hist /\ bp' = "idle"
    /\ UNCHANGED <<hist, bp_touched>> /\ BpStep

NotifyBlock ==
    /\ bp = "flushed" /\ Deliver
    /\ OnBlock(bp_touched, Height(db)) /\ TellFrom("bp", BlockNotices(bp_touched, Height(db)))
    /\ bp_touched' = {} /\ bp' = "idle"
    /\ UNCHANGED <<daemon, hist, db, pool, history_cache>>

\* A refresh of the mempool, at the height of the daemon.
RefreshMempool ==
    /\ Free("mp") /\ Height(db) = Height(daemon) /\ Deliver
    /\ \E ts \in Pools[db] :
        /\ pool' = ts
        /\ LET touched == Touched((ts \ pool) \cup (pool \ ts))
           IN  OnMempool(touched, Height(db)) /\ TellFrom("mp", MempoolNotices(touched, Height(db)))
    /\ UNCHANGED <<chainVars, history_cache>>

-----------------------------------------------------------------------------
(* The session *)

SessionStep == UNCHANGED <<chainVars, pool, telling, failed, headerVars, notifyVars>>

Unsubscribe(x) ==
    /\ x \in hashX_subs
    /\ hashX_subs' = hashX_subs \ {x}
    /\ mempool_statuses' = Without(mempool_statuses, x)
    /\ told' = [told EXCEPT ![x] = None]
    /\ UNCHANGED <<tasks, history_cache>> /\ SessionStep

\* A task goes on once limited_history returns or raises an error: a status is
\* worked out, sent and kept if it has a mempool part; a subscription that is
\* too large is dropped.
Complete(t, history) ==
    LET status == [confirmed |-> history, unconfirmed |-> Summaries(t.x)]
    IN  IF t.kind = "history" THEN UNCHANGED <<hashX_subs, mempool_statuses, told>>
        ELSE IF Cardinality(history) >= Limit
        THEN IF t.kind = "subscribe" THEN UNCHANGED <<hashX_subs, mempool_statuses, told>>
             ELSE /\ hashX_subs' = hashX_subs \ {t.x}
                  /\ mempool_statuses' = Without(mempool_statuses, t.x)
                  /\ told' = [told EXCEPT ![t.x] = None]
        ELSE /\ hashX_subs' = IF t.kind = "subscribe" THEN hashX_subs \cup {t.x} ELSE hashX_subs
             /\ mempool_statuses' = IF status.unconfirmed = {} THEN Without(mempool_statuses, t.x)
                                    ELSE With(mempool_statuses, t.x, status)
             /\ told' = IF t.kind = "mempool" /\ t.old = status THEN told
                        ELSE [told EXCEPT ![t.x] = status]

\* limited_history: the history may be in the cache, or else it is read while
\* the others go on.
Lookup(t, others) ==
    /\ IF t.x \in DOMAIN history_cache
       THEN tasks' = others /\ Complete(t, history_cache[t.x])
       ELSE /\ tasks' = others \cup {[t EXCEPT !.at = "read"]}
            /\ UNCHANGED <<hashX_subs, mempool_statuses, told>>
    /\ UNCHANGED history_cache /\ SessionStep

\* A client asks for a history, or subscribes.
Request(kind, x) ==
    /\ Cardinality({t \in tasks : t.kind \in {"history", "subscribe"}}) < MaxRequests
    /\ kind = "subscribe" => x \notin hashX_subs
    /\ Lookup(Task(kind, x, "client"), tasks)

Start(t) ==
    /\ t.at = "start" /\ t.kind # "recheck"
    /\ Lookup(t, tasks \ {t})

\* A thread reads the history, unless db_height is below some of it: then it
\* tries again later.
Read(t) ==
    /\ t.at = "read"
    /\ History(hist, t.x) \subseteq Confirmed[db]
    /\ tasks' = (tasks \ {t}) \cup {[t EXCEPT !.at = "have", !.history = History(hist, t.x)]}
    /\ UNCHANGED <<history_cache, hashX_subs, mempool_statuses, told>> /\ SessionStep

\* The task goes on and fills the cache, which may drop another entry.
Finish(t) ==
    /\ t.at = "have"
    /\ LET filled == With(history_cache, t.x, t.history)
       IN  history_cache' \in {filled} \cup {Without(filled, y) : y \in DOMAIN history_cache \ {t.x}}
    /\ tasks' = tasks \ {t}
    /\ Complete(t, t.history)
    /\ SessionStep

\* Mutant of Recheck: only touched subscriptions matter.
RecheckNone(t) == {}

\* Statuses that have a mempool part depend on other transactions too.
Recheck(t) ==
    IF t.x \in DOMAIN mempool_statuses /\ t.x \in hashX_subs
    THEN {[Task("mempool", t.x, t.by) EXCEPT !.old = mempool_statuses[t.x]]} ELSE {}

\* The touched subscriptions are done, and the others are looked at.
LookAgain(t) ==
    /\ t.kind = "recheck" /\ ~ \E u \in tasks : u.kind = "touched" /\ u.by = t.by
    /\ tasks' = (tasks \ {t}) \cup Recheck(t)
    /\ UNCHANGED <<history_cache, hashX_subs, mempool_statuses, told>> /\ SessionStep

Next ==
    /\ ~ failed
    /\ \/ \E b \in Block : NewTip(b) \/ FlushHistory(b)
       \/ FlushState \/ BackupHistory \/ BackupState \/ NotifyBlock \/ RefreshMempool
       \/ \E s \in {"bp", "mp"} : Told(s)
       \/ \E x \in Wanted : Request("history", x) \/ Request("subscribe", x) \/ Unsubscribe(x)
       \/ \E t \in tasks : Start(t) \/ Read(t) \/ Finish(t) \/ LookAgain(t)

Spec == Init /\ [][Next]_vars

-----------------------------------------------------------------------------
(* Properties *)

\* Each variable has its type.
TypeOK ==
    /\ {daemon, hist, db, hsub_results, told_header} \subseteq Block
    /\ bp \in {"idle", "flushing", "flushed", "backing"}
    /\ bp_touched \subseteq HashX /\ pool \subseteq Tx /\ hashX_subs \subseteq HashX
    /\ DOMAIN history_cache \subseteq HashX /\ DOMAIN mempool_statuses \subseteq HashX
    /\ \A x \in DOMAIN history_cache : history_cache[x] \subseteq Tx
    /\ \A t \in tasks : t.x \in HashX /\ t.kind \in {"touched", "recheck", "mempool", "history", "subscribe"}
    /\ failed \in BOOLEAN

\* Nothing is under way: the DB is at the daemon's tip, every notification was
\* delivered and every task is done.
Quiet ==
    /\ bp = "idle" /\ db = daemon
    /\ tasks = {} /\ telling["bp"] = Silent /\ telling["mp"] = Silent
    /\ touched_bp = <<>> /\ touched_mp = <<>>

\* The comment in _notify_sessions, "Invalidate our history cache for touched
\* hashXs": a history that the cache still has when all is quiet is that of the
\* chain, whenever it was read.
CacheFresh == Quiet => \A x \in DOMAIN history_cache \ lost : history_cache[x] = History(db, x)

\* When all is quiet, the last status that the client was told of each hashX it
\* has subscribed to is the present one, also where only the transactions that
\* its mempool transactions spend were confirmed.
ToldStatus ==
    Quiet => \A x \in hashX_subs \ lost :
                told[x] = [confirmed |-> History(db, x), unconfirmed |-> Summaries(x)]

\* When all is quiet, the last header that a subscriber was told is the tip.
ToldHeader == Quiet => told_header = db /\ hsub_results = db /\ notified_height = Height(db)
=============================================================================
