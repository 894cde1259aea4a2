------------------------------ MODULE ChainSync ------------------------------
(***************************************************************************)
(* How the block processor follows the chain of the daemon: the Prefetcher *)
(* and the loop of the BlockProcessor (block_processor.py), two tasks that *)
(* meet in the queue of blocks, the semaphore of fetched_height and two    *)
(* events, while the daemon moves from one tip to another between any two  *)
(* of their requests and a local RPC forces reorgs.                        *)
(*                                                                         *)
(* What the index holds is the chain up to tip: advancing and backing up   *)
(* are whole steps here, and are taken apart in IndexStore and UtxoIndex.  *)
(***************************************************************************)
EXTENDS BlockTree, FiniteSetsExt

CONSTANTS
    Tips,           \* the tips the daemon may have
    MaxFetch,       \* blocks of a request (cache_room, max_fetch_blocks)
    CacheBlocks,    \* blocks that fill the queue (min_cache_size)
    ChunkSize,      \* blocks backed up at a time (50)
    Decred,         \* BOOLEAN: DecredBlockProcessor
    ReorgCounts,    \* what force_chain_reorg is called with
    MaxForces,      \* bound on these calls
    MaxMoves        \* bound on the moves of the daemon

ASSUME SyncAssumption ==
    /\ Tips \subseteq Block
    /\ {MaxFetch, CacheBlocks, ChunkSize} \subseteq Nat \ {0}
    /\ Decred \in BOOLEAN
    /\ ReorgCounts \subseteq Nat /\ MaxForces \in Nat /\ MaxMoves \in Nat

VARIABLES
    daemon,            \* the tip of the daemon
    cached_height,     \* Daemon.cached_height()
    \* --- Prefetcher
    blocks, fetched_height, refill_event,
    pf,                \* where the prefetcher is; "hashes" and "blocks" are
                       \* inside the semaphore
    daemon_height,     \* local of _prefetch_blocks
    request, hashes,   \* locals of _prefetch_blocks: the heights whose hashes
                       \* are asked for, and the blocks that are
    \* --- BlockProcessor
    tip, blocks_event, reorg_count, caught_up,
    pc,                \* where _process_prefetched_blocks is
    batch,             \* the raw blocks at hand
    forced,            \* argument count of reorg_chain, 0 for None
    start, count,      \* locals of calc_reorg_range; then what is backed up
    \* --- bounds and history variables
    moves, forces,
    peak,              \* greatest height of the daemon before its last move
    fell,              \* its chain got shorter by some move
    moved              \* the daemon moved since calc_reorg_range began

pfVars == <<blocks, fetched_height, refill_event, pf, daemon_height, request, hashes>>
reorgVars == <<forced, start, count>>
bpVars == <<tip, blocks_event, reorg_count, caught_up, pc, batch, reorgVars>>
ghostVars == <<moves, forces, peak, fell, moved>>
vars == <<daemon, cached_height, pfVars, bpVars, ghostVars>>

\* The blocks at heights first to last of the chain of b.
Segment(b, first, last) == SubSeq(ChainOf[b], first + 1, last + 1)

Init ==
    /\ daemon \in Tips
    /\ cached_height = Height(daemon)
    /\ tip \in {NoTip} \cup Tips
    /\ blocks = <<>> /\ fetched_height = Height(tip) /\ refill_event = TRUE
    /\ pf = "idle" /\ daemon_height = 0 /\ request = <<>> /\ hashes = <<>>
    /\ blocks_event = FALSE /\ reorg_count = 0 /\ caught_up = FALSE
    /\ pc = "loop" /\ batch = <<>> /\ forced = 0 /\ start = 0 /\ count = 0
    /\ moves = 0 /\ forces = 0 /\ peak = Height(tip) /\ fell = FALSE /\ moved = FALSE

-----------------------------------------------------------------------------
(* The environment *)

\* The daemon extends its chain, or reorganises.
DaemonMoves(b) ==
    /\ moves < MaxMoves /\ b # daemon
    /\ daemon' = b
    /\ moves' = moves + 1
    /\ peak' = Max({peak, Height(daemon)})
    /\ fell' = (fell \/ Height(b) < Height(daemon))
    /\ moved' = TRUE
    /\ UNCHANGED <<cached_height, pfVars, bpVars, forces>>

\* force_chain_reorg, from the local RPC.
ForceChainReorg(n) ==
    /\ caught_up /\ pc # "stopped"
    /\ forces < MaxForces
    /\ reorg_count' = n
    /\ blocks_event' = TRUE
    /\ forces' = forces + 1
    /\ UNCHANGED <<daemon, cached_height, pfVars, tip, caught_up, pc, batch, reorgVars, moves,
                   peak, fell, moved>>

-----------------------------------------------------------------------------
(* The prefetcher *)

\* Mutant of SemaphoreFree: reset_height does not wait for a fetch.
SemaphoreAlwaysFree == TRUE

\* No fetch is in flight.
SemaphoreFree == pf \notin {"hashes", "blocks"}

\* main_loop wakes up and _prefetch_blocks asks for the height of the daemon.
PollHeight ==
    /\ pf = "idle" /\ refill_event /\ pc # "stopped"
    /\ daemon_height' = Height(daemon)
    /\ cached_height' = Height(daemon)
    /\ pf' = "polled"
    /\ UNCHANGED <<daemon, blocks, fetched_height, refill_event, request, hashes, bpVars, ghostVars>>

\* A turn of the loop inside the semaphore, up to its next request: the queue is
\* full, nothing is left to fetch, or the blocks at some heights are asked for.
FetchNext(queued, fetched) ==
    LET room == Min({daemon_height - fetched, MaxFetch})
    IN  \/ /\ Len(queued) >= CacheBlocks
           /\ refill_event' = FALSE
           /\ pf' = "idle" /\ request' = <<>>
        \/ /\ Len(queued) < CacheBlocks /\ room <= 0
           /\ pf' = "idle" /\ request' = <<>>
           /\ UNCHANGED refill_event
        \/ /\ Len(queued) < CacheBlocks
           /\ \E n \in 1 .. room : request' = [i \in 1 .. n |-> fetched + i]
           /\ pf' = "hashes"
           /\ UNCHANGED refill_event

PrefetchBlocks ==
    /\ pf = "polled" /\ pc # "stopped"
    /\ FetchNext(blocks, fetched_height)
    /\ UNCHANGED <<daemon, cached_height, blocks, fetched_height, daemon_height, hashes, bpVars,
                   ghostVars>>

\* block_hex_hashes answers, or raises DaemonError when the chain of the daemon
\* has become too short; main_loop ignores that.
ReceiveHashes ==
    /\ pf = "hashes" /\ pc # "stopped"
    /\ \/ /\ request[Len(request)] <= Height(daemon)
          /\ hashes' = [i \in DOMAIN request |-> ChainOf[daemon][request[i] + 1]]
          /\ pf' = "blocks"
       \/ /\ request[Len(request)] > Height(daemon)
          /\ pf' = "idle"
          /\ UNCHANGED hashes
    /\ request' = <<>>
    /\ UNCHANGED <<daemon, cached_height, blocks, fetched_height, refill_event, daemon_height,
                   bpVars, ghostVars>>

\* Mutant of Wake: only a processor that waits already is woken.
WakeWaiting == blocks_event' = (blocks_event \/ pc = "wait")

\* The processor is told of new blocks.
Wake == blocks_event' = TRUE

\* raw_blocks answers: the blocks are queued, and the loop goes on.
ReceiveBlocks ==
    /\ pf = "blocks" /\ pc # "stopped"
    /\ blocks' = blocks \o hashes
    /\ fetched_height' = fetched_height + Len(hashes)
    /\ hashes' = <<>>
    /\ Wake
    /\ FetchNext(blocks', fetched_height')
    /\ UNCHANGED <<daemon, cached_height, daemon_height, tip, reorg_count, caught_up, pc, batch,
                   reorgVars, ghostVars>>

-----------------------------------------------------------------------------
(* The block processor *)

\* The head of the loop, with _first_caught_up.
LoopHead ==
    /\ pc = "loop"
    /\ caught_up' = (caught_up \/ Height(tip) = cached_height)
    /\ pc' = "wait"
    /\ UNCHANGED <<daemon, cached_height, pfVars, tip, blocks_event, reorg_count, batch, reorgVars,
                   ghostVars>>

\* The event is set and no reorg is asked for: the queue is taken.
TakeBlocks ==
    /\ pc = "wait" /\ blocks_event /\ reorg_count = 0
    /\ blocks_event' = FALSE
    /\ batch' = blocks
    /\ blocks' = <<>>
    /\ refill_event' = TRUE
    /\ pc' = IF blocks = <<>> THEN "loop" ELSE "batch"
    /\ UNCHANGED <<daemon, cached_height, fetched_height, pf, daemon_height, request, hashes, tip,
                   reorg_count, caught_up, reorgVars, ghostVars>>

\* calc_reorg_range begins; n is 0 for a real reorg.
StartReorg(n) ==
    /\ forced' = n
    /\ moved' = FALSE
    /\ IF n = 0
       THEN /\ pc' = "range" /\ start' = Height(tip) - 1 /\ count' = 1
       ELSE LET from == Height(tip) - n + 1
            IN  /\ pc' = IF from < 0 THEN "stopped" ELSE "backup"
                /\ start' = IF Decred /\ from > 0 THEN from - 1 ELSE from
                /\ count' = 0

\* A reorg is asked for by force_chain_reorg.
TakeForcedReorg ==
    /\ pc = "wait" /\ blocks_event /\ reorg_count # 0
    /\ blocks_event' = FALSE
    /\ StartReorg(reorg_count)
    /\ UNCHANGED <<daemon, cached_height, pfVars, tip, reorg_count, caught_up, batch, moves, forces,
                   peak, fell>>

\* The blocks that the headers of the batch name, and those that they should.
Prevs == [i \in DOMAIN batch |-> Prev[batch[i]]]
Expected == [i \in DOMAIN batch |-> IF i = 1 THEN tip ELSE batch[i - 1]]

\* check_and_advance_blocks of blocks that follow the tip.
AdvanceBlocks ==
    /\ pc = "batch" /\ Prevs = Expected
    /\ tip' = batch[Len(batch)]
    /\ batch' = <<>>
    /\ pc' = "loop"
    /\ UNCHANGED <<daemon, cached_height, pfVars, blocks_event, reorg_count, caught_up, reorgVars,
                   ghostVars>>

\* The first of them does not: a reorg.
DetectReorg ==
    /\ pc = "batch" /\ Prevs[1] # Expected[1]
    /\ StartReorg(0)
    /\ batch' = <<>>
    /\ UNCHANGED <<daemon, cached_height, pfVars, tip, blocks_event, reorg_count, caught_up, moves,
                   forces, peak, fell>>

\* They do not form a chain: the prefetcher starts again.
RejectBatch ==
    /\ pc = "batch" /\ Prevs # Expected /\ Prevs[1] = Expected[1]
    /\ batch' = <<>>
    /\ forced' = 0
    /\ pc' = "reset"
    /\ UNCHANGED <<daemon, cached_height, pfVars, tip, blocks_event, reorg_count, caught_up, start,
                   count, ghostVars>>

\* Mutant of DiffPos: one too many.
DiffPosNext(ours, theirs) ==
    Min({Len(ours)} \cup {i : i \in {j \in DOMAIN ours : ours[j] # theirs[j]}})

\* The index of the first difference of two lists.
DiffPos(ours, theirs) ==
    Min({Len(ours)} \cup {i - 1 : i \in {j \in DOMAIN ours : ours[j] # theirs[j]}})

\* Mutant of Wider: it may reach below genesis.
WiderUnbounded == count * 2

\* The next window is twice as long, but ends at genesis.
Wider == Min({count * 2, start})

\* What calc_reorg_range returns once it knows where to start.
RangeFrom(from) ==
    /\ start' = IF Decred /\ from > 0 THEN from - 1 ELSE from
    /\ count' = 0
    /\ pc' = IF from < 0 THEN "stopped" ELSE "backup"

\* One turn of the loop of calc_reorg_range: the window of count blocks from
\* start is compared with the one of the daemon, and widened if it differs from
\* its first block on.  An error of the daemon is not caught.
CompareHashes ==
    /\ pc = "range" /\ start > 0
    /\ LET last == start + count - 1
           n == DiffPos(Segment(tip, start, last), Segment(daemon, start, last))
       IN  \/ /\ last > Height(daemon)
              /\ pc' = "stopped"
              /\ UNCHANGED <<start, count>>
           \/ /\ last <= Height(daemon) /\ n > 0
              /\ RangeFrom(start + n)
           \/ /\ last <= Height(daemon) /\ n = 0
              /\ count' = Wider
              /\ start' = start - Wider
              /\ UNCHANGED pc
    /\ UNCHANGED <<daemon, cached_height, pfVars, tip, blocks_event, reorg_count, caught_up, batch,
                   forced, ghostVars>>

\* The loop ends at genesis, which is not compared.
NothingLeftToCompare ==
    /\ pc = "range" /\ start <= 0
    /\ RangeFrom(start)
    /\ UNCHANGED <<daemon, cached_height, pfVars, tip, blocks_event, reorg_count, caught_up, batch,
                   forced, ghostVars>>

\* A chunk of the blocks from start on is backed up and flushed.  Backing up
\* genesis raises: MerkleCache.truncate takes no length of 0.
BackupChunk ==
    /\ pc = "backup" /\ start <= Height(tip)
    /\ LET left == Max({start, Height(tip) - ChunkSize + 1})
       IN  IF left = 0
           THEN pc' = "stopped" /\ UNCHANGED tip
           ELSE tip' = ChainOf[tip][left] /\ UNCHANGED pc
    /\ UNCHANGED <<daemon, cached_height, pfVars, blocks_event, reorg_count, caught_up, batch,
                   reorgVars, ghostVars>>

BackupDone ==
    /\ pc = "backup" /\ start > Height(tip)
    /\ pc' = "reset"
    /\ UNCHANGED <<daemon, cached_height, pfVars, tip, blocks_event, reorg_count, caught_up, batch,
                   reorgVars, ghostVars>>

\* reset_height, inside the semaphore.
ResetHeight ==
    /\ pc = "reset" /\ SemaphoreFree
    /\ blocks' = <<>>
    /\ fetched_height' = Height(tip)
    /\ refill_event' = TRUE
    /\ pc' = "resetting"
    /\ UNCHANGED <<daemon, cached_height, pf, daemon_height, request, hashes, tip, blocks_event, reorg_count,
                   caught_up, batch, reorgVars, ghostVars>>

\* Its request for the height of the daemon, and the end of a reorg: one that
\* was forced resets reorg_count.
ResetDone ==
    /\ pc = "resetting"
    /\ cached_height' = Height(daemon)
    /\ reorg_count' = IF forced = 0 THEN reorg_count ELSE 0
    /\ forced' = 0 /\ start' = 0
    /\ pc' = "loop"
    /\ UNCHANGED <<daemon, pfVars, tip, blocks_event, caught_up, batch, count, ghostVars>>

-----------------------------------------------------------------------------
Environment == (\E b \in Tips : DaemonMoves(b)) \/ (\E n \in ReorgCounts : ForceChainReorg(n))
Prefetcher == PollHeight \/ PrefetchBlocks \/ ReceiveHashes \/ ReceiveBlocks
Processor ==
    \/ LoopHead \/ TakeBlocks \/ TakeForcedReorg
    \/ AdvanceBlocks \/ DetectReorg \/ RejectBatch
    \/ CompareHashes \/ NothingLeftToCompare \/ BackupChunk \/ BackupDone
    \/ ResetHeight \/ ResetDone

Next == Environment \/ Prefetcher \/ Processor

Spec == Init /\ [][Next]_vars

\* The event loop runs both tasks and the daemon answers their requests; the
\* semaphore is first in, first out, so that reset_height gets it.
FairSpec == Spec /\ WF_vars(Prefetcher) /\ WF_vars(Processor) /\ SF_vars(ResetHeight)

-----------------------------------------------------------------------------
(* Properties *)

\* Each variable has its type.
TypeOK ==
    /\ daemon \in Tips /\ cached_height \in Nat
    /\ blocks \in Seq(Block) /\ fetched_height \in Nat \cup {-1}
    /\ refill_event \in BOOLEAN /\ blocks_event \in BOOLEAN /\ caught_up \in BOOLEAN
    /\ pf \in {"idle", "polled", "hashes", "blocks"}
    /\ daemon_height \in Nat
    /\ request \in Seq(Nat) /\ hashes \in Seq(Block)
    /\ tip \in Block \cup {NoTip}
    /\ reorg_count \in {0} \cup ReorgCounts
    /\ pc \in {"loop", "wait", "batch", "range", "backup", "reset", "resetting", "stopped"}
    /\ batch \in Seq(Block)
    /\ forced \in {0} \cup ReorgCounts
    /\ start \in Int /\ count \in Nat
    /\ pc = "range" => start >= -1

\* However fetches, resets and reorgs overlap, the queue goes on exactly where
\* the blocks at hand end, and these where the index ends: no block fetched for
\* an older height is ever taken for the next one.
QueueAligned ==
    pc \in {"loop", "wait", "batch"} =>
        /\ fetched_height = Height(tip) + Len(batch) + Len(blocks)
        /\ \A i \in DOMAIN (batch \o blocks) : Height((batch \o blocks)[i]) = Height(tip) + i

\* If the daemon keeps still meanwhile, a reorg backs up from the lowest block
\* that the daemon does not have, no block more and no block less, unless the
\* windows of the comparison have reached genesis.  Where the daemon has them
\* all, the tip is backed up; with Decred it is one block more.
RangeExact ==
    [][pc = "range" /\ pc' = "backup" /\ ~moved /\ start' > 0 =>
          LET low == IF Decred THEN start' + 1 ELSE start'
              ours == ChainOf[tip]
              theirs == ChainOf[daemon]
              fork == Max({i \in 1 .. Min({Len(ours), Len(theirs)}) : ours[i] = theirs[i]}) - 1
          IN  low = Min({fork + 1, Height(tip)})]_vars

\* Once the daemon has reached, for good, a block higher than any it had
\* before, the index gets there too, whatever was being fetched, rejected or
\* backed up when it did.  The server may only have stopped over genesis (a
\* reorg that reached it, or was forced to), or over a daemon whose chain got
\* shorter while it was compared.
Follows ==
    \A b \in Tips :
        daemon = b /\ moves = MaxMoves /\ Height(b) > peak
            ~> tip = b \/ (pc = "stopped" /\ (start <= 0 \/ fell))
=============================================================================
