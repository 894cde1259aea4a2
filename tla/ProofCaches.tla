------------------------------ MODULE ProofCaches ------------------------------
(***************************************************************************)
(* The caches of the session manager for proofs that a transaction is in a *)
(* block: the transaction hashes of a height, and their merkle tree.  A    *)
(* task that serve() spawns is to clear them when a reorg is signalled.  A *)
(* block stands for its list of transaction hashes, and for their tree.    *)
(***************************************************************************)
EXTENDS Integers, Sequences, SequencesExt, Functions

CONSTANTS
    Chains,       \* the chains of blocks that the daemon may serve, not empty
    Request,      \* requests for a proof that may be in flight at once
    MaxReorgs     \* bound on the reorgs

VARIABLES
    chain,          \* the blocks up to db_height
    reorgs,         \* bound: reorgs so far
    reorg,          \* "none", "chunks" while blocks are backed up, "signalled"
    spawned,        \* how many tasks serve() has spawned
    reorg_count,
    txids_cache, merkle_cache,    \* height -> block
    req             \* what each request does, and whether a reorg came meanwhile

cacheVars == <<reorg_count, txids_cache, merkle_cache>>
vars == <<chain, reorgs, reorg, spawned, cacheVars, req>>

\* The tasks of serve(), in the order in which it spawns them.
Tasks == <<"discover_peers", "clear_stale_sessions", "handle_chain_reorgs", "recalc_concurrency",
           "log_sessions", "manage_servers">>

Runs(task) == \E i \in 1 .. spawned : Tasks[i] = task

\* The other tasks are endless loops.
MayEnd == {"discover_peers"}

Idle == [at |-> "idle", height |-> 0, count |-> 0, read |-> 0, proof |-> <<0, 0>>, undisturbed |-> TRUE]

With(d, k, v) == [i \in DOMAIN d \cup {k} |-> IF i = k THEN v ELSE d[i]]

\* A cache after d[k] = v, where another entry may have to go.
Filled(d, k, v) ==
    {With(d, k, v)} \cup {Restrict(With(d, k, v), (DOMAIN d \ {j}) \cup {k}) : j \in DOMAIN d}

Init ==
    /\ chain \in Chains
    /\ reorgs = 0 /\ reorg = "none" /\ spawned = 1
    /\ reorg_count = 0 /\ txids_cache = <<>> /\ merkle_cache = <<>>
    /\ req = [r \in Request |-> Idle]

-----------------------------------------------------------------------------
(* The server *)

\* The spawn of util.TaskGroup returns a task, and "await group.spawn(...)" waits
\* for the end of it.
SpawnNext ==
    /\ spawned < Len(Tasks) /\ Tasks[spawned] \in MayEnd
    /\ spawned' = spawned + 1
    /\ UNCHANGED <<chain, reorgs, reorg, cacheVars, req>>

AdvanceBlock ==
    /\ reorg = "none"
    /\ \E c \in Chains :
        IsStrictPrefix(chain, c) /\ chain' = SubSeq(c, 1, Len(chain) + 1)
    /\ UNCHANGED <<reorgs, reorg, spawned, cacheVars, req>>

\* A reorg backs up in one chunk of blocks or several, and is signalled.
BackUp ==
    /\ reorg # "signalled"
    /\ reorg = "none" => reorgs < MaxReorgs
    /\ \E n \in 1 .. Len(chain) - 1 :
        /\ chain' = SubSeq(chain, 1, n)
        /\ reorg' \in IF n > 1 THEN {"chunks", "signalled"} ELSE {"signalled"}
    /\ reorgs' = IF reorg = "none" THEN reorgs + 1 ELSE reorgs
    /\ req' = [r \in Request |-> IF req[r].at \in {"reading", "read"}
                                 THEN [req[r] EXCEPT !.undisturbed = FALSE] ELSE Idle]
    /\ UNCHANGED <<spawned, cacheVars>>

\* backed_up_event wakes up _handle_chain_reorgs, if it runs.
Signal ==
    /\ reorg = "signalled" /\ reorg' = "none"
    /\ IF Runs("handle_chain_reorgs")
       THEN reorg_count' = reorg_count + 1 /\ txids_cache' = <<>> /\ merkle_cache' = <<>>
       ELSE UNCHANGED cacheVars
    /\ UNCHANGED <<chain, reorgs, spawned, req>>

-----------------------------------------------------------------------------
(* Requests *)

\* The merkle tree of a block is made from its hashes unless there is one for
\* the height (only for blocks of 200 hashes or more, which is left out); an
\* answer is the hashes and the tree that were used.
Answer(r, height, block) ==
    LET tree == IF height \in DOMAIN merkle_cache THEN merkle_cache[height] ELSE block
    IN  /\ merkle_cache' \in IF height \in DOMAIN merkle_cache THEN {merkle_cache}
                             ELSE Filled(merkle_cache, height, block)
        /\ req' = [req EXCEPT ![r].at = "answered", ![r].height = height, ![r].proof = <<block, tree>>]

\* transaction_merkle or transaction_id_from_pos for a block.
Ask(r) ==
    /\ req[r].at = "idle"
    /\ \E height \in 0 .. Len(chain) - 1 :
        IF height \in DOMAIN txids_cache
        THEN Answer(r, height, txids_cache[height]) /\ UNCHANGED txids_cache
        ELSE /\ req' = [req EXCEPT ![r].at = "reading", ![r].height = height, ![r].count = reorg_count]
             /\ UNCHANGED <<txids_cache, merkle_cache>>
    /\ UNCHANGED <<chain, reorgs, reorg, spawned, reorg_count>>

\* A thread reads the hashes; a height above db_height is an error.
Read(r) ==
    /\ req[r].at = "reading"
    /\ req' = [req EXCEPT ![r] =
            IF req[r].height < Len(chain)
            THEN [@ EXCEPT !.at = "read", !.read = chain[req[r].height + 1]] ELSE Idle]
    /\ UNCHANGED <<chain, reorgs, reorg, spawned, cacheVars>>

\* "Ensure the tx_hashes are fresh before placing in the cache".
Fill(r) ==
    /\ req[r].at = "read"
    /\ IF req[r].count = reorg_count
       THEN /\ txids_cache' \in Filled(txids_cache, req[r].height, req[r].read)
            /\ Answer(r, req[r].height, req[r].read)
       ELSE /\ req' = [req EXCEPT ![r].at = "reading", ![r].count = reorg_count]
            /\ UNCHANGED <<txids_cache, merkle_cache>>
    /\ UNCHANGED <<chain, reorgs, reorg, spawned, reorg_count>>

Done(r) ==
    /\ req[r].at = "answered" /\ req' = [req EXCEPT ![r] = Idle]
    /\ UNCHANGED <<chain, reorgs, reorg, spawned, cacheVars>>

Next ==
    \/ SpawnNext \/ AdvanceBlock \/ BackUp \/ Signal
    \/ \E r \in Request : Ask(r) \/ Read(r) \/ Fill(r) \/ Done(r)

Spec == Init /\ [][Next]_vars

-----------------------------------------------------------------------------
(* Properties *)

\* The docstring of _handle_chain_reorgs, "Clear certain caches on chain reorgs":
\* a proof that is asked for and answered with no reorg in between is made of
\* the hashes and the tree of the block that the chain has at the height.
ProofsFresh ==
    \A r \in Request :
        req[r].at = "answered" /\ req[r].undisturbed /\ reorg = "none" =>
            \A i \in 1 .. 2 : req[r].proof[i] = chain[req[r].height + 1]
=============================================================================
