--------------------------- MODULE ChainSync_proofs ---------------------------
(***************************************************************************)
(* Proofs about how the block processor follows the daemon: the types, the *)
(* queue of prefetched blocks, and the blocks that a reorg backs up.       *)
(***************************************************************************)
EXTENDS ChainSync, TreeTheorems

-----------------------------------------------------------------------------
(* The inductive invariant *)

\* A fetch in flight is for the heights that come after the ones fetched, also
\* while the processor backs up: reset_height waits for it.
FetchAligned ==
    /\ pf = "hashes" =>
        request # <<>> /\ \A i \in DOMAIN request : request[i] = fetched_height + i
    /\ pf = "blocks" => \A i \in DOMAIN hashes : Height(hashes[i]) = fetched_height + i

\* The batch goes on where the index ends, and the queue where the batch ends.
BlocksAligned ==
    pc \in {"loop", "wait", "batch", "resetting"} =>
        /\ fetched_height = Height(tip) + Len(batch) + Len(blocks)
        /\ \A i \in DOMAIN batch : Height(batch[i]) = Height(tip) + i
        /\ \A i \in DOMAIN blocks : Height(blocks[i]) = Height(tip) + Len(batch) + i

BatchHeld == pc = "batch" <=> batch # <<>>

\* A window of calc_reorg_range ends below the tip.  The first one does so by
\* one block; when there is another, the daemon has another block just above it.
WindowBelow ==
    /\ pc = "range" => count > 0 /\ start + count <= Height(tip)
    /\ pc = "range" /\ ~ moved /\ start + count < Height(tip) =>
        /\ start + count <= Height(daemon)
        /\ ChainOf[tip][start + count + 1] # ChainOf[daemon][start + count + 1]
    /\ pc = "backup" => start >= 0

IInv == TypeOK /\ FetchAligned /\ BlocksAligned /\ BatchHeld /\ WindowBelow

\* Constants in the form the steps below use.
LEMMA Constants ==
    /\ Tips \subseteq Branch /\ Tips \subseteq Block
    /\ MaxFetch \in Nat \ {0} /\ CacheBlocks \in Nat \ {0} /\ ChunkSize \in Nat \ {0}
    /\ Decred \in BOOLEAN /\ ReorgCounts \subseteq Nat
    /\ \A b \in Branch : Height(b) \in Int /\ Height(b) >= -1
    /\ \A b \in Block : Height(b) \in Nat /\ b \in Branch
<1>1. \A b \in Branch : Height(b) \in Int /\ Height(b) >= -1 /\ (b \in Block => Height(b) >= 0)
  BY ChainFacts
<1> QED BY <1>1, SyncAssumption DEF Branch

\* At the start the queues are empty and nothing is indexed.
LEMMA InitInv == Init => IInv
<1> SUFFICES ASSUME Init
             PROVE  IInv
  OBVIOUS
<1>1. tip \in Branch /\ daemon \in Block /\ <<>> \in Seq(Block) /\ <<>> \in Seq(Nat)
  BY Constants, EmptySeq, NoTipHeight DEF Init
<1>2. Height(tip) \in Int /\ Height(tip) >= -1 /\ Height(daemon) \in Nat
  BY <1>1, Constants
<1>3. TypeOK
  <2>1. daemon \in Tips /\ cached_height \in Nat /\ fetched_height \in Nat \cup {-1}
    BY <1>2 DEF Init
  <2>2. /\ blocks \in Seq(Block) /\ request \in Seq(Nat) /\ hashes \in Seq(Block)
        /\ batch \in Seq(Block) /\ tip \in Block \cup {NoTip}
    BY <1>1, Zenon DEF Init, Branch
  <2>3. /\ refill_event \in BOOLEAN /\ blocks_event \in BOOLEAN /\ caught_up \in BOOLEAN
        /\ pf = "idle" /\ pc = "loop"
    BY DEF Init
  <2>4. daemon_height \in Nat /\ start \in Int /\ count \in Nat /\ reorg_count = 0 /\ forced = 0
    BY DEF Init
  <2> QED BY <2>1, <2>2, <2>3, <2>4 DEF TypeOK
<1>4. FetchAligned /\ BatchHeld /\ WindowBelow
  BY DEF Init, FetchAligned, BatchHeld, WindowBelow
<1>5. BlocksAligned
  BY <1>2, EmptySeq DEF Init, BlocksAligned
<1> QED BY <1>3, <1>4, <1>5 DEF IInv

-----------------------------------------------------------------------------
(* The environment *)

\* The daemon moves: no variable of the indexer does.
LEMMA DaemonMovesInv ==
    ASSUME IInv, NEW b \in Tips, DaemonMoves(b)
    PROVE  IInv'
<1>1. UNCHANGED <<cached_height, pfVars, bpVars>> /\ daemon' = b /\ moved'
  BY DEF DaemonMoves
<1>2. TypeOK'
  BY <1>1 DEF IInv, TypeOK, pfVars, bpVars, reorgVars
<1>3. FetchAligned' /\ BlocksAligned' /\ BatchHeld'
  BY <1>1 DEF IInv, FetchAligned, BlocksAligned, BatchHeld, pfVars, bpVars, reorgVars
<1>4. WindowBelow'
  BY <1>1 DEF IInv, WindowBelow, pfVars, bpVars, reorgVars
<1> QED BY <1>2, <1>3, <1>4 DEF IInv

\* An RPC asks for a reorg: only the request is noted.
LEMMA ForceChainReorgInv ==
    ASSUME IInv, NEW n \in ReorgCounts, ForceChainReorg(n)
    PROVE  IInv'
<1>1. TypeOK'
  BY DEF IInv, ForceChainReorg, TypeOK, pfVars, reorgVars
<1>2. FetchAligned' /\ BlocksAligned' /\ BatchHeld' /\ WindowBelow'
  BY DEF IInv, ForceChainReorg, FetchAligned, BlocksAligned, BatchHeld, WindowBelow,
         pfVars, reorgVars
<1> QED BY <1>1, <1>2 DEF IInv

-----------------------------------------------------------------------------
(* The prefetcher *)

\* The prefetcher reads the height of the daemon.
LEMMA PollHeightInv ==
    ASSUME IInv, PollHeight
    PROVE  IInv'
<1>1. Height(daemon) \in Nat
  BY Constants DEF IInv, TypeOK
<1>2. TypeOK'
  BY <1>1 DEF IInv, PollHeight, TypeOK, bpVars, reorgVars, ghostVars
<1>3. FetchAligned' /\ BlocksAligned' /\ BatchHeld' /\ WindowBelow'
  BY DEF IInv, PollHeight, FetchAligned, BlocksAligned, BatchHeld, WindowBelow,
         bpVars, reorgVars, ghostVars
<1> QED BY <1>2, <1>3 DEF IInv

\* A turn of the loop asks for the heights that follow, if any.
LEMMA FetchNextAsks ==
    ASSUME NEW queued, NEW fetched \in Nat \cup {-1}, daemon_height \in Nat,
           refill_event \in BOOLEAN, FetchNext(queued, fetched)
    PROVE  /\ refill_event' \in BOOLEAN /\ pf' \in {"idle", "hashes"}
           /\ request' \in Seq(Nat)
           /\ pf' = "hashes" =>
                request' # <<>> /\ \A i \in DOMAIN request' : request'[i] = fetched + i
<1> DEFINE room == Min({daemon_height - fetched, MaxFetch})
<1>1. room \in Int
  BY Constants, MinOfTwo
<1> HIDE DEF room
<1>2. ASSUME NEW n \in 1 .. room, request' = [i \in 1 .. n |-> fetched + i]
      PROVE  /\ request' \in Seq(Nat) /\ request' # <<>>
             /\ \A i \in DOMAIN request' : request'[i] = fetched + i
  <2>1. n \in Nat /\ \A i \in 1 .. n : fetched + i \in Nat
    BY <1>1
  <2>2. request' \in [1 .. n -> Nat]
    BY <1>2, <2>1
  <2>3. request' \in Seq(Nat)
    BY <2>1, <2>2, SeqDef
  <2>4. DOMAIN request' = 1 .. n /\ 1 \in 1 .. n
    BY <1>1, <1>2
  <2> QED BY <1>2, <2>3, <2>4
<1>3. <<>> \in Seq(Nat)
  BY EmptySeq
<1> QED BY <1>2, <1>3 DEF FetchNext, room

\* The prefetcher asks for a range that starts at its fetched_height.
LEMMA PrefetchBlocksInv ==
    ASSUME IInv, PrefetchBlocks
    PROVE  IInv'
<1>1. /\ refill_event' \in BOOLEAN /\ pf' \in {"idle", "hashes"} /\ request' \in Seq(Nat)
      /\ pf' = "hashes" =>
           request' # <<>> /\ \A i \in DOMAIN request' : request'[i] = fetched_height + i
  BY FetchNextAsks DEF IInv, TypeOK, PrefetchBlocks
<1>2. UNCHANGED <<daemon, cached_height, blocks, fetched_height, daemon_height, hashes, bpVars,
                  ghostVars>>
  BY DEF PrefetchBlocks
<1>3. TypeOK'
  BY <1>1, <1>2 DEF IInv, TypeOK, bpVars, reorgVars, ghostVars
<1>4. FetchAligned'
  BY <1>1, <1>2 DEF FetchAligned
<1>5. BlocksAligned' /\ BatchHeld' /\ WindowBelow'
  BY <1>2 DEF IInv, BlocksAligned, BatchHeld, WindowBelow, bpVars, reorgVars, ghostVars
<1> QED BY <1>3, <1>4, <1>5 DEF IInv

\* The hashes of the range arrive, whichever chain the daemon is on by now.
LEMMA ReceiveHashesInv ==
    ASSUME IInv, ReceiveHashes
    PROVE  IInv'
<1>1. UNCHANGED <<daemon, cached_height, blocks, fetched_height, refill_event, daemon_height,
                  bpVars, ghostVars>> /\ request' = <<>> /\ pf = "hashes"
  BY DEF ReceiveHashes
<1>2. /\ request \in Seq(Nat) /\ request # <<>> /\ fetched_height \in Int
      /\ daemon \in Block /\ daemon \in Branch
      /\ \A i \in DOMAIN request : request[i] = fetched_height + i
  BY <1>1, Constants DEF IInv, TypeOK, FetchAligned
<1>3. /\ DOMAIN request = 1 .. Len(request) /\ Len(request) \in Nat \ {0}
      /\ \A i \in 1 .. Len(request) : request[i] \in Nat
  BY <1>2, LenProperties, EmptySeq, ElementOfSeq
<1>4. CASE request[Len(request)] <= Height(daemon)
  <2>1. hashes' = [i \in DOMAIN request |-> ChainOf[daemon][request[i] + 1]] /\ pf' = "blocks"
    <3>1. request[Len(request)] \in Nat /\ Height(daemon) \in Nat
      BY <1>2, <1>3, Constants
    <3> QED BY <1>4, <3>1 DEF ReceiveHashes
  <2>2. ASSUME NEW i \in DOMAIN request
        PROVE  hashes'[i] \in Block /\ Height(hashes'[i]) = fetched_height + i
    <3>1. request[i] + 1 \in 1 .. Height(daemon) + 1
      <4>1. request[Len(request)] = fetched_height + Len(request) /\ Height(daemon) \in Nat
        <5>1. Len(request) \in DOMAIN request
          BY <1>3
        <5> QED BY <1>2, <5>1, Constants
      <4>2. i \in 1 .. Len(request) /\ request[i] = fetched_height + i /\ request[i] \in Nat
        BY <1>2, <1>3
      <4> QED BY <1>2, <1>3, <1>4, <4>1, <4>2
    <3>2. /\ ChainOf[daemon][request[i] + 1] \in Block
          /\ Height(ChainOf[daemon][request[i] + 1]) = request[i] + 1 - 1
      BY <1>2, <3>1, ChainFacts
    <3> QED BY <1>2, <1>3, <2>1, <3>2
  <2>3. hashes' \in Seq(Block) /\ DOMAIN hashes' = DOMAIN request
    <3>1. hashes' \in [1 .. Len(request) -> Block]
      BY <1>3, <2>1, <2>2
    <3> QED BY <1>3, <2>1, <3>1, SeqDef
  <2>4. TypeOK'
    BY <1>1, <2>1, <2>3, EmptySeq DEF IInv, TypeOK, bpVars, reorgVars
  <2>5. FetchAligned'
    BY <1>1, <2>1, <2>2, <2>3 DEF FetchAligned
  <2> QED BY <1>1, <2>4, <2>5 DEF IInv, BlocksAligned, BatchHeld, WindowBelow, bpVars,
                               reorgVars, ghostVars
<1>5. CASE request[Len(request)] > Height(daemon)
  <2>1. pf' = "idle" /\ hashes' = hashes
    <3>1. request[Len(request)] \in Nat /\ Height(daemon) \in Nat
      BY <1>2, <1>3, Constants
    <3> QED BY <1>5, <3>1 DEF ReceiveHashes
  <2>2. TypeOK'
    BY <1>1, <2>1, EmptySeq DEF IInv, TypeOK, bpVars, reorgVars
  <2>3. FetchAligned'
    BY <2>1 DEF FetchAligned
  <2> QED BY <1>1, <2>2, <2>3 DEF IInv, BlocksAligned, BatchHeld, WindowBelow, bpVars,
                               reorgVars, ghostVars
<1> QED BY <1>4, <1>5 DEF ReceiveHashes

\* The blocks arrive, and are queued unless the cache was reset meanwhile.
LEMMA ReceiveBlocksInv ==
    ASSUME IInv, ReceiveBlocks
    PROVE  IInv'
<1>1. /\ pf = "blocks" /\ blocks' = blocks \o hashes
      /\ fetched_height' = fetched_height + Len(hashes)
      /\ hashes' = <<>> /\ blocks_event' = TRUE
      /\ FetchNext(blocks', fetched_height')
      /\ UNCHANGED <<daemon, cached_height, daemon_height, tip, reorg_count, caught_up, pc, batch,
                     reorgVars, ghostVars>>
  BY DEF ReceiveBlocks, Wake
<1>2. /\ blocks \in Seq(Block) /\ hashes \in Seq(Block)
      /\ fetched_height \in Nat \cup {-1}
      /\ \A i \in DOMAIN hashes : Height(hashes[i]) = fetched_height + i
  BY <1>1 DEF IInv, TypeOK, FetchAligned
<1>3. /\ Len(blocks) \in Nat /\ Len(hashes) \in Nat
      /\ DOMAIN blocks = 1 .. Len(blocks) /\ DOMAIN hashes = 1 .. Len(hashes)
  BY <1>2, LenProperties
<1>4. /\ blocks' \in Seq(Block) /\ Len(blocks') = Len(blocks) + Len(hashes)
      /\ \A i \in 1 .. Len(blocks) + Len(hashes) :
            blocks'[i] = IF i <= Len(blocks) THEN blocks[i] ELSE hashes[i - Len(blocks)]
      /\ DOMAIN blocks' = 1 .. Len(blocks')
  BY <1>1, <1>2, ConcatProperties, LenProperties
<1>5. fetched_height' \in Nat \cup {-1}
  BY <1>1, <1>2, <1>3
<1>6. /\ refill_event' \in BOOLEAN /\ pf' \in {"idle", "hashes"} /\ request' \in Seq(Nat)
      /\ pf' = "hashes" =>
           request' # <<>> /\ \A i \in DOMAIN request' : request'[i] = fetched_height' + i
  BY <1>1, <1>5, FetchNextAsks DEF IInv, TypeOK
<1>7. TypeOK'
  BY <1>1, <1>4, <1>5, <1>6, EmptySeq DEF IInv, TypeOK, reorgVars
<1>8. FetchAligned'
  BY <1>6 DEF FetchAligned
<1>9. BlocksAligned'
  <2> SUFFICES ASSUME pc \in {"loop", "wait", "batch", "resetting"}
               PROVE  /\ fetched_height' = Height(tip) + Len(batch) + Len(blocks')
                      /\ \A i \in DOMAIN batch : Height(batch[i]) = Height(tip) + i
                      /\ \A i \in DOMAIN blocks' : Height(blocks'[i]) = Height(tip) + Len(batch) + i
    BY <1>1 DEF BlocksAligned
  <2>1. /\ fetched_height = Height(tip) + Len(batch) + Len(blocks)
        /\ \A i \in DOMAIN batch : Height(batch[i]) = Height(tip) + i
        /\ \A i \in DOMAIN blocks : Height(blocks[i]) = Height(tip) + Len(batch) + i
    BY DEF IInv, BlocksAligned
  <2>2. Height(tip) \in Int /\ Len(batch) \in Nat
    BY Constants, LenProperties DEF IInv, TypeOK, Branch
  <2>3. ASSUME NEW i \in DOMAIN blocks'
        PROVE  Height(blocks'[i]) = Height(tip) + Len(batch) + i
    <3>1. CASE i <= Len(blocks)
      BY <1>3, <1>4, <2>1, <3>1
    <3>2. CASE i > Len(blocks)
      <4>1. i - Len(blocks) \in DOMAIN hashes /\ blocks'[i] = hashes[i - Len(blocks)]
        BY <1>3, <1>4, <3>2
      <4>2. Height(blocks'[i]) = fetched_height + (i - Len(blocks))
        BY <1>2, <4>1
      <4> QED BY <1>3, <1>4, <2>1, <2>2, <4>2
    <3> QED BY <1>3, <1>4, <3>1, <3>2
  <2> QED BY <1>1, <1>3, <1>4, <2>1, <2>2, <2>3
<1>10. BatchHeld' /\ WindowBelow'
  BY <1>1 DEF IInv, BatchHeld, WindowBelow, reorgVars, ghostVars
<1> QED BY <1>7, <1>8, <1>9, <1>10 DEF IInv

-----------------------------------------------------------------------------
(* The block processor *)

\* The head of the main loop.
LEMMA LoopHeadInv ==
    ASSUME IInv, LoopHead
    PROVE  IInv'
<1>1. TypeOK'
  BY DEF IInv, LoopHead, TypeOK, pfVars, reorgVars, ghostVars
<1>2. FetchAligned' /\ BlocksAligned' /\ BatchHeld' /\ WindowBelow'
  BY DEF IInv, LoopHead, FetchAligned, BlocksAligned, BatchHeld, WindowBelow, pfVars, reorgVars,
         ghostVars
<1> QED BY <1>1, <1>2 DEF IInv

\* The queue is emptied into the batch that is processed.
LEMMA TakeBlocksInv ==
    ASSUME IInv, TakeBlocks
    PROVE  IInv'
<1>1. /\ UNCHANGED <<daemon, cached_height, fetched_height, pf, daemon_height, request, hashes, tip,
                     reorg_count, caught_up, reorgVars, ghostVars>>
      /\ pc = "wait" /\ batch' = blocks /\ blocks' = <<>> /\ refill_event' = TRUE
      /\ blocks_event' = FALSE
      /\ pc' = IF blocks = <<>> THEN "loop" ELSE "batch"
  BY DEF TakeBlocks
<1>2. batch = <<>> /\ blocks \in Seq(Block) /\ tip \in Branch
  BY <1>1 DEF IInv, BatchHeld, TypeOK, Branch
<1>3. TypeOK'
  BY <1>1, <1>2, EmptySeq DEF IInv, TypeOK, reorgVars
<1>4. FetchAligned' /\ BatchHeld' /\ WindowBelow'
  BY <1>1 DEF IInv, FetchAligned, BatchHeld, WindowBelow, reorgVars, ghostVars
<1>5. BlocksAligned'
  <2>1. /\ Len(batch) = 0 /\ Len(blocks') = 0 /\ Len(blocks) \in Nat /\ Height(tip) \in Int
        /\ DOMAIN blocks' = {}
    BY <1>1, <1>2, LenProperties, EmptySeq, Constants
  <2>2. /\ fetched_height = Height(tip) + Len(batch) + Len(blocks)
        /\ \A i \in DOMAIN blocks : Height(blocks[i]) = Height(tip) + Len(batch) + i
    BY <1>1 DEF IInv, BlocksAligned
  <2>3. DOMAIN blocks = 1 .. Len(blocks)
    BY <1>2, LenProperties
  <2>4. \A i \in DOMAIN blocks : Height(blocks[i]) = Height(tip) + i
    BY <2>1, <2>2, <2>3
  <2>5. fetched_height = Height(tip) + Len(blocks) + Len(blocks')
    BY <2>1, <2>2
  <2> QED BY <1>1, <2>1, <2>4, <2>5 DEF BlocksAligned
<1> QED BY <1>3, <1>4, <1>5 DEF IInv

\* A reorg begins, asked for or found.
LEMMA StartReorgInv ==
    ASSUME IInv, NEW n \in {0} \cup ReorgCounts, StartReorg(n), n = 0 => tip \in Block,
           UNCHANGED <<daemon, cached_height, pfVars, tip, reorg_count, caught_up>>,
           blocks_event' \in BOOLEAN, batch' = <<>>
    PROVE  IInv'
<1>1. tip \in Branch /\ Height(tip) \in Int /\ (tip \in Block => Height(tip) >= 0) /\ n \in Nat
  BY Constants DEF IInv, TypeOK, Branch
<1>2. /\ forced' = n /\ moved' = FALSE
      /\ start' \in Int /\ count' \in Nat /\ pc' \in {"range", "stopped", "backup"}
      /\ pc' = "range" => start' >= -1 /\ count' = 1 /\ start' + count' = Height(tip)
      /\ pc' = "backup" => start' >= 0
  <2>1. CASE n = 0
    BY <1>1, <2>1 DEF StartReorg
  <2>2. CASE n # 0
    <3> DEFINE from == Height(tip) - n + 1
    <3>1. from \in Int
      BY <1>1
    <3>2. /\ pc' = IF from < 0 THEN "stopped" ELSE "backup"
          /\ start' = IF Decred /\ from > 0 THEN from - 1 ELSE from
          /\ count' = 0
      BY <2>2 DEF StartReorg
    <3> HIDE DEF from
    <3> QED BY <3>1, <3>2, <2>2 DEF StartReorg
  <2> QED BY <2>1, <2>2
<1>3. TypeOK'
  BY <1>2, EmptySeq DEF IInv, TypeOK, pfVars
<1>4. FetchAligned' /\ BlocksAligned' /\ BatchHeld'
  BY <1>2 DEF IInv, FetchAligned, BlocksAligned, BatchHeld, pfVars
<1>5. WindowBelow'
  BY <1>1, <1>2 DEF WindowBelow
<1> QED BY <1>3, <1>4, <1>5 DEF IInv

\* A reorg that was asked for is taken up.
LEMMA TakeForcedReorgInv ==
    ASSUME IInv, TakeForcedReorg
    PROVE  IInv'
<1>1. reorg_count \in {0} \cup ReorgCounts /\ reorg_count # 0 /\ batch = <<>>
  BY DEF IInv, TypeOK, BatchHeld, TakeForcedReorg
<1> QED BY <1>1, StartReorgInv DEF TakeForcedReorg

\* The blocks at hand, and the one that the first of them names.
LEMMA BatchFacts ==
    ASSUME IInv, pc = "batch"
    PROVE  /\ batch \in Seq(Block) /\ Len(batch) \in Nat \ {0} /\ DOMAIN batch = 1 .. Len(batch)
           /\ \A i \in 1 .. Len(batch) :
                batch[i] \in Block /\ Height(batch[i]) = Height(tip) + i
           /\ tip \in Branch /\ Height(tip) \in Int
           /\ Prevs[1] # Expected[1] => tip \in Block
<1>1. batch \in Seq(Block) /\ batch # <<>> /\ tip \in Branch
  BY DEF IInv, TypeOK, BatchHeld, Branch
<1>2. Len(batch) \in Nat \ {0} /\ DOMAIN batch = 1 .. Len(batch)
  BY <1>1, EmptySeq, LenProperties
<1>3. \A i \in 1 .. Len(batch) : batch[i] \in Block /\ Height(batch[i]) = Height(tip) + i
  BY <1>1, <1>2, ElementOfSeq DEF IInv, BlocksAligned
<1>4. Height(tip) \in Int
  BY <1>1, Constants
<1>5. tip = NoTip => Prevs[1] = Expected[1]
  <2> SUFFICES ASSUME tip = NoTip
               PROVE  Prevs[1] = Expected[1]
    OBVIOUS
  <2>1. 1 \in DOMAIN batch /\ batch[1] \in Block /\ Height(batch[1]) = 0
    BY <1>2, <1>3, NoTipHeight
  <2>2. Prev[batch[1]] \in Branch /\ Height(Prev[batch[1]]) = -1
    BY <2>1, PrevHeight, Constants
  <2>3. Prev[batch[1]] = NoTip
    BY <2>2, Constants DEF Branch
  <2> QED BY <2>1, <2>3 DEF Prevs, Expected
<1> QED BY <1>1, <1>2, <1>3, <1>4, <1>5 DEF Branch

\* A batch that links onto the tip is appended.
LEMMA AdvanceBlocksInv ==
    ASSUME IInv, AdvanceBlocks
    PROVE  IInv'
<1>1. /\ UNCHANGED <<daemon, cached_height, pfVars, blocks_event, reorg_count, caught_up, reorgVars,
                     ghostVars>>
      /\ pc = "batch" /\ tip' = batch[Len(batch)] /\ batch' = <<>> /\ pc' = "loop"
  BY DEF AdvanceBlocks
<1>2. /\ batch \in Seq(Block) /\ Len(batch) \in Nat \ {0}
      /\ tip' \in Block /\ Height(tip') = Height(tip) + Len(batch) /\ Height(tip) \in Int
  BY <1>1, BatchFacts
<1>3. TypeOK'
  BY <1>1, <1>2, EmptySeq DEF IInv, TypeOK, pfVars, reorgVars
<1>4. FetchAligned' /\ BatchHeld' /\ WindowBelow'
  BY <1>1 DEF IInv, FetchAligned, BatchHeld, WindowBelow, pfVars
<1>5. BlocksAligned'
  <2>1. Len(batch') = 0 /\ DOMAIN batch' = {} /\ Len(blocks) \in Nat /\ DOMAIN blocks = 1 .. Len(blocks)
    BY <1>1, EmptySeq, LenProperties DEF IInv, TypeOK
  <2>2. /\ fetched_height = Height(tip) + Len(batch) + Len(blocks)
        /\ \A i \in DOMAIN blocks : Height(blocks[i]) = Height(tip) + Len(batch) + i
    BY <1>1 DEF IInv, BlocksAligned
  <2>3. fetched_height = Height(tip') + Len(batch') + Len(blocks)
    BY <1>2, <2>1, <2>2
  <2>4. \A i \in DOMAIN blocks : Height(blocks[i]) = Height(tip') + Len(batch') + i
    BY <1>2, <2>1, <2>2
  <2>5. blocks' = blocks /\ fetched_height' = fetched_height
    BY <1>1 DEF pfVars
  <2> QED BY <2>1, <2>3, <2>4, <2>5 DEF BlocksAligned
<1> QED BY <1>3, <1>4, <1>5 DEF IInv

\* A batch that does not link starts the search for the fork.
LEMMA DetectReorgInv ==
    ASSUME IInv, DetectReorg
    PROVE  IInv'
<1>1. tip \in Block /\ blocks_event' \in BOOLEAN
  BY BatchFacts DEF DetectReorg, IInv, TypeOK
<1> QED BY <1>1, StartReorgInv DEF DetectReorg

\* A batch that is not a chain is dropped, and the prefetcher starts again.
LEMMA RejectBatchInv ==
    ASSUME IInv, RejectBatch
    PROVE  IInv'
<1>1. TypeOK'
  BY EmptySeq DEF IInv, RejectBatch, TypeOK, pfVars, ghostVars
<1>2. FetchAligned' /\ BlocksAligned' /\ BatchHeld' /\ WindowBelow'
  BY DEF IInv, RejectBatch, FetchAligned, BlocksAligned, BatchHeld, WindowBelow, pfVars, ghostVars
<1> QED BY <1>1, <1>2 DEF IInv

\* The first difference of two lists of the same length.
LEMMA DiffPosIsFirst ==
    ASSUME NEW ours \in Seq(Block), NEW theirs \in Seq(Block), Len(theirs) = Len(ours)
    PROVE  /\ DiffPos(ours, theirs) \in 0 .. Len(ours)
           /\ \A i \in 1 .. DiffPos(ours, theirs) : ours[i] = theirs[i]
           /\ DiffPos(ours, theirs) < Len(ours) =>
                ours[DiffPos(ours, theirs) + 1] # theirs[DiffPos(ours, theirs) + 1]
<1> DEFINE T == {Len(ours)} \cup {i - 1 : i \in {j \in DOMAIN ours : ours[j] # theirs[j]}}
           n == Min(T)
<1>1. Len(ours) \in Nat /\ DOMAIN ours = 1 .. Len(ours)
  BY LenProperties
<1>2. T \in SUBSET Int /\ T # {} /\ \A t \in T : t >= 0
  BY <1>1
<1>3. n \in T /\ \A t \in T : n <= t
  <2> HIDE DEF T
  <2>1. 0 \in Int
    OBVIOUS
  <2> QED BY <1>2, <2>1, MinIsLeast
<1> HIDE DEF n
<1>4. n \in 0 .. Len(ours)
  BY <1>1, <1>2, <1>3
<1>5. ASSUME NEW i \in 1 .. n
      PROVE  ours[i] = theirs[i]
  <2> SUFFICES ASSUME ours[i] # theirs[i]
               PROVE  FALSE
    OBVIOUS
  <2>1. i \in DOMAIN ours
    BY <1>1, <1>4
  <2>2. i - 1 \in T
    BY <2>1
  <2> QED BY <1>3, <1>4, <2>2
<1>6. ASSUME n < Len(ours)
      PROVE  ours[n + 1] # theirs[n + 1]
  <2>1. PICK i \in {j \in DOMAIN ours : ours[j] # theirs[j]} : n = i - 1
    BY <1>1, <1>3, <1>4, <1>6
  <2>2. i = n + 1
    BY <1>1, <2>1
  <2> QED BY <2>1, <2>2
<1> QED BY <1>4, <1>5, <1>6 DEF DiffPos, n

\* A window that lies within a chain.
LEMMA SegmentIs ==
    ASSUME NEW b \in Branch, NEW first \in Nat, NEW m \in Nat \ {0}, first + m - 1 <= Height(b)
    PROVE  /\ Segment(b, first, first + m - 1) \in Seq(Block)
           /\ Len(Segment(b, first, first + m - 1)) = m
           /\ \A i \in 1 .. m : Segment(b, first, first + m - 1)[i] = ChainOf[b][first + i]
<1> DEFINE s == SubSeq(ChainOf[b], first + 1, first + m)
<1>1. \A i \in first + 1 .. first + m : ChainOf[b][i] \in Block
  BY ChainFacts
<1>2. /\ s \in Seq(Block)
      /\ Len(s) = IF first + 1 <= first + m THEN first + m - (first + 1) + 1 ELSE 0
      /\ \A i \in 1 .. first + m - (first + 1) + 1 : s[i] = ChainOf[b][first + 1 + i - 1]
  BY <1>1, SubSeqProperties
<1>3. first + m - (first + 1) + 1 = m /\ first + 1 <= first + m /\ first + m - 1 + 1 = first + m
  OBVIOUS
<1>4. Len(s) = m /\ \A i \in 1 .. m : s[i] = ChainOf[b][first + i]
  BY <1>2, <1>3
<1>5. Segment(b, first, first + m - 1) = s
  BY <1>3 DEF Segment
<1> QED BY <1>2, <1>4, <1>5

\* What a turn of the loop of calc_reorg_range does.
LEMMA CompareHashesFacts ==
    ASSUME IInv, CompareHashes
    PROVE  /\ UNCHANGED <<daemon, cached_height, pfVars, tip, blocks_event, reorg_count, caught_up,
                          batch, forced, ghostVars>>
           /\ pc = "range" /\ start \in Nat \ {0} /\ count \in Nat \ {0}
           /\ tip \in Block /\ Height(tip) \in Nat /\ start + count <= Height(tip)
           /\ daemon \in Block /\ Height(daemon) \in Nat
           /\ \/ pc' = "stopped" /\ UNCHANGED <<start, count>>
              \/ \E n \in 1 .. count :
                    /\ start + count - 1 <= Height(daemon)
                    /\ ChainOf[tip][start + n] = ChainOf[daemon][start + n]
                    /\ n < count => ChainOf[tip][start + n + 1] # ChainOf[daemon][start + n + 1]
                    /\ RangeFrom(start + n)
              \/ /\ start + count - 1 <= Height(daemon)
                 /\ ChainOf[tip][start + 1] # ChainOf[daemon][start + 1]
                 /\ count' \in 1 .. start /\ start' = start - count'
                 /\ pc' = "range"
<1>1. /\ UNCHANGED <<daemon, cached_height, pfVars, tip, blocks_event, reorg_count, caught_up,
                     batch, forced, ghostVars>>
      /\ pc = "range" /\ start > 0
  BY DEF CompareHashes
<1>2. /\ start \in Nat \ {0} /\ count \in Nat \ {0}
      /\ tip \in Branch /\ Height(tip) \in Int /\ start + count <= Height(tip)
      /\ daemon \in Block /\ daemon \in Branch /\ Height(daemon) \in Nat
  BY <1>1, Constants DEF IInv, TypeOK, WindowBelow, Branch
<1>3. tip \in Block /\ Height(tip) \in Nat
  BY <1>2, ChainFacts
<1> DEFINE last == start + count - 1
           ours == Segment(tip, start, last)
           theirs == Segment(daemon, start, last)
           n == DiffPos(ours, theirs)
<1>4. last \in Nat /\ start <= last /\ last <= Height(tip)
  BY <1>2
<1>5. \/ pc' = "stopped" /\ UNCHANGED <<start, count>>
      \/ last <= Height(daemon) /\ n > 0 /\ RangeFrom(start + n)
      \/ last <= Height(daemon) /\ n = 0 /\ count' = Wider /\ start' = start - Wider /\ UNCHANGED pc
  BY DEF CompareHashes
<1>6. ASSUME last <= Height(daemon)
      PROVE  /\ n \in 0 .. count
             /\ n > 0 => ChainOf[tip][start + n] = ChainOf[daemon][start + n]
             /\ n < count => ChainOf[tip][start + n + 1] # ChainOf[daemon][start + n + 1]
  <2>1. last = start + count - 1 /\ start \in Nat /\ daemon \in Branch /\ tip \in Branch
    BY <1>2
  <2>2. /\ ours \in Seq(Block) /\ Len(ours) = count
        /\ \A i \in 1 .. count : ours[i] = ChainOf[tip][start + i]
    BY <1>2, <1>4, <2>1, SegmentIs DEF last
  <2>3. /\ theirs \in Seq(Block) /\ Len(theirs) = count
        /\ \A i \in 1 .. count : theirs[i] = ChainOf[daemon][start + i]
    BY <1>2, <1>6, <2>1, SegmentIs DEF last
  <2> HIDE DEF ours, theirs
  <2>4. /\ n \in 0 .. count
        /\ \A i \in 1 .. n : ours[i] = theirs[i]
        /\ n < count => ours[n + 1] # theirs[n + 1]
    <3>1. ours \in Seq(Block) /\ theirs \in Seq(Block) /\ Len(theirs) = Len(ours)
      BY <2>2, <2>3
    <3>2. /\ n \in 0 .. Len(ours)
          /\ \A i \in 1 .. n : ours[i] = theirs[i]
          /\ n < Len(ours) => ours[n + 1] # theirs[n + 1]
      BY <3>1, DiffPosIsFirst
    <3> QED BY <2>2, <3>2
  <2> HIDE DEF n
  <2>5. n > 0 => n \in 1 .. count /\ ours[n] = theirs[n]
    BY <1>2, <2>4
  <2>6. n < count => n + 1 \in 1 .. count /\ start + (n + 1) = start + n + 1
    BY <1>2, <2>4
  <2>7. n < count => ChainOf[tip][start + n + 1] # ChainOf[daemon][start + n + 1]
    BY <2>2, <2>3, <2>4, <2>6
  <2> QED BY <2>2, <2>3, <2>4, <2>5, <2>7
<1>7. Wider \in 1 .. start
  BY <1>2, MinOfTwo DEF Wider
<1> HIDE DEF n
<1>8. CASE last <= Height(daemon) /\ n > 0 /\ RangeFrom(start + n)
  <2>1. n \in 1 .. count
    BY <1>2, <1>6, <1>8
  <2> QED BY <1>1, <1>2, <1>3, <1>6, <1>8, <2>1
<1>9. CASE last <= Height(daemon) /\ n = 0 /\ count' = Wider /\ start' = start - Wider /\ UNCHANGED pc
  <2>1. n < count /\ start + n + 1 = start + 1
    BY <1>2, <1>9
  <2> QED BY <1>1, <1>2, <1>3, <1>6, <1>7, <1>9, <2>1
<1> QED BY <1>1, <1>2, <1>3, <1>5, <1>8, <1>9

\* What calc_reorg_range returns.
LEMMA RangeFromFacts ==
    ASSUME NEW from \in Int, RangeFrom(from)
    PROVE  /\ start' \in Int /\ count' = 0 /\ pc' \in {"stopped", "backup"}
           /\ pc' = "backup" => start' >= 0
           /\ start' = IF Decred /\ from > 0 THEN from - 1 ELSE from
<1>1. /\ start' = IF Decred /\ from > 0 THEN from - 1 ELSE from
      /\ count' = 0
      /\ pc' = IF from < 0 THEN "stopped" ELSE "backup"
  BY DEF RangeFrom
<1> QED BY <1>1

\* Hashes below the tip are compared with the daemon's.
LEMMA CompareHashesInv ==
    ASSUME IInv, CompareHashes
    PROVE  IInv'
<1>1. /\ UNCHANGED <<daemon, cached_height, pfVars, tip, blocks_event, reorg_count, caught_up,
                     batch, forced, ghostVars>>
      /\ pc = "range" /\ start \in Nat \ {0} /\ count \in Nat \ {0}
      /\ Height(tip) \in Nat /\ start + count <= Height(tip)
      /\ Height(daemon) \in Nat
  BY CompareHashesFacts
<1>2. /\ start' \in Int /\ count' \in Nat /\ pc' \in {"range", "stopped", "backup"}
      /\ pc' = "backup" => start' >= 0
      /\ pc' = "range" =>
           /\ start' \in Nat /\ count' > 0 /\ start' + count' = start
           /\ start' + count' <= Height(daemon)
           /\ ChainOf[tip][start' + count' + 1] # ChainOf[daemon][start' + count' + 1]
  <2>1. CASE pc' = "stopped" /\ UNCHANGED <<start, count>>
    BY <1>1, <2>1
  <2>2. CASE \E n \in 1 .. count : RangeFrom(start + n)
    <3>1. PICK n \in 1 .. count : RangeFrom(start + n)
      BY <2>2
    <3>2. start + n \in Int
      BY <1>1
    <3> QED BY <3>1, <3>2, RangeFromFacts
  <2>3. CASE /\ start + count - 1 <= Height(daemon)
             /\ ChainOf[tip][start + 1] # ChainOf[daemon][start + 1]
             /\ count' \in 1 .. start /\ start' = start - count'
             /\ pc' = "range"
    <3>1. start' + count' = start /\ start' \in Nat /\ count' > 0 /\ count' \in Nat
      <4>1. \A m \in 1 .. start : (start - m) + m = start /\ start - m \in Nat /\ m > 0 /\ m \in Nat
        BY <1>1
      <4> QED BY <4>1, <2>3, Zenon
    <3>2. start <= Height(daemon)
      BY <1>1, <2>3
    <3> QED BY <2>3, <3>1, <3>2
  <2> QED BY <2>1, <2>2, <2>3, CompareHashesFacts
<1>3. TypeOK'
  <2>1. pc' = "range" => start' >= -1
    BY <1>2
  <2> QED BY <1>1, <1>2, <2>1 DEF IInv, TypeOK, pfVars
<1>4. FetchAligned' /\ BlocksAligned' /\ BatchHeld'
  BY <1>1, <1>2 DEF IInv, FetchAligned, BlocksAligned, BatchHeld, pfVars
<1>5. WindowBelow'
  <2>1. pc' = "range" => start' + count' <= Height(tip)
    BY <1>1, <1>2
  <2> QED BY <1>1, <1>2, <2>1 DEF WindowBelow
<1> QED BY <1>3, <1>4, <1>5 DEF IInv

\* The comparison is over at genesis.
LEMMA NothingLeftInv ==
    ASSUME IInv, NothingLeftToCompare
    PROVE  IInv'
<1>1. /\ UNCHANGED <<daemon, cached_height, pfVars, tip, blocks_event, reorg_count, caught_up, batch,
                     forced, ghostVars>>
      /\ pc = "range" /\ RangeFrom(start)
  BY DEF NothingLeftToCompare
<1>2. /\ start' \in Int /\ count' = 0 /\ pc' \in {"stopped", "backup"}
      /\ pc' = "backup" => start' >= 0
  BY <1>1, RangeFromFacts DEF IInv, TypeOK
<1>3. TypeOK'
  BY <1>1, <1>2 DEF IInv, TypeOK, pfVars
<1>4. FetchAligned' /\ BlocksAligned' /\ BatchHeld' /\ WindowBelow'
  BY <1>1, <1>2 DEF IInv, FetchAligned, BlocksAligned, BatchHeld, WindowBelow, pfVars
<1> QED BY <1>3, <1>4 DEF IInv

\* Blocks are undone from the tip down.
LEMMA BackupChunkInv ==
    ASSUME IInv, BackupChunk
    PROVE  IInv'
<1> DEFINE left == Max({start, Height(tip) - ChunkSize + 1})
<1>1. /\ UNCHANGED <<daemon, cached_height, pfVars, blocks_event, reorg_count, caught_up, batch,
                     reorgVars, ghostVars>>
      /\ pc = "backup" /\ start <= Height(tip)
      /\ IF left = 0 THEN pc' = "stopped" /\ UNCHANGED tip
                     ELSE tip' = ChainOf[tip][left] /\ UNCHANGED pc
  BY DEF BackupChunk
<1>2. start \in Int /\ start >= 0 /\ tip \in Branch /\ Height(tip) \in Int
  BY <1>1, Constants DEF IInv, TypeOK, WindowBelow, Branch
<1>3. left \in 0 .. Height(tip)
  BY <1>1, <1>2, MaxOfTwo, Constants
<1> HIDE DEF left
<1>4. tip' \in Block \cup {NoTip} /\ pc' \in {"stopped", "backup"}
  <2>1. CASE left = 0
    BY <1>1, <2>1 DEF IInv, TypeOK
  <2>2. CASE left # 0
    <3>1. left \in 1 .. Height(tip) + 1
      BY <1>2, <1>3, <2>2
    <3> QED BY <1>1, <1>2, <2>2, <3>1, ChainFacts
  <2> QED BY <2>1, <2>2
<1>5. TypeOK'
  BY <1>1, <1>4 DEF IInv, TypeOK, pfVars, reorgVars
<1>6. FetchAligned' /\ BlocksAligned' /\ BatchHeld' /\ WindowBelow'
  BY <1>1, <1>2, <1>4 DEF IInv, FetchAligned, BlocksAligned, BatchHeld, WindowBelow, pfVars, reorgVars
<1> QED BY <1>5, <1>6 DEF IInv

\* The reorg is done.
LEMMA BackupDoneInv ==
    ASSUME IInv, BackupDone
    PROVE  IInv'
<1>1. TypeOK'
  BY DEF IInv, BackupDone, TypeOK, pfVars, reorgVars, ghostVars
<1>2. FetchAligned' /\ BlocksAligned' /\ BatchHeld' /\ WindowBelow'
  BY DEF IInv, BackupDone, FetchAligned, BlocksAligned, BatchHeld, WindowBelow, pfVars, reorgVars,
         ghostVars
<1> QED BY <1>1, <1>2 DEF IInv

\* The queue starts again at the tip, with no fetch in flight.
LEMMA ResetHeightInv ==
    ASSUME IInv, ResetHeight
    PROVE  IInv'
<1>1. /\ UNCHANGED <<daemon, cached_height, pf, daemon_height, request, hashes, tip, blocks_event,
                     reorg_count, caught_up, batch, reorgVars, ghostVars>>
      /\ pc = "reset" /\ pf \notin {"hashes", "blocks"}
      /\ blocks' = <<>> /\ fetched_height' = Height(tip) /\ refill_event' = TRUE
      /\ pc' = "resetting"
  BY DEF ResetHeight, SemaphoreFree
<1>2. batch = <<>> /\ tip \in Branch /\ Height(tip) \in Int /\ Height(tip) >= -1
  BY <1>1, Constants DEF IInv, BatchHeld, TypeOK, Branch
<1>3. TypeOK'
  <2>1. fetched_height' \in Nat \cup {-1}
    BY <1>1, <1>2
  <2> QED BY <1>1, <2>1, EmptySeq DEF IInv, TypeOK, reorgVars
<1>4. FetchAligned' /\ BatchHeld' /\ WindowBelow'
  BY <1>1, <1>2 DEF FetchAligned, BatchHeld, WindowBelow
<1>5. BlocksAligned'
  BY <1>1, <1>2, EmptySeq DEF BlocksAligned
<1> QED BY <1>3, <1>4, <1>5 DEF IInv

\* The prefetcher is reset to the height of the tip.
LEMMA ResetDoneInv ==
    ASSUME IInv, ResetDone
    PROVE  IInv'
<1>1. Height(daemon) \in Nat
  BY Constants DEF IInv, TypeOK
<1>2. TypeOK'
  BY <1>1 DEF IInv, ResetDone, TypeOK, pfVars, ghostVars
<1>3. FetchAligned' /\ BlocksAligned' /\ BatchHeld' /\ WindowBelow'
  BY DEF IInv, ResetDone, FetchAligned, BlocksAligned, BatchHeld, WindowBelow, pfVars, ghostVars
<1> QED BY <1>2, <1>3 DEF IInv

-----------------------------------------------------------------------------
\* Every step preserves the invariant.
LEMMA NextInv == IInv /\ [Next]_vars => IInv'
<1> SUFFICES ASSUME IInv, [Next]_vars
             PROVE  IInv'
  OBVIOUS
<1>1. CASE Environment
  BY <1>1, DaemonMovesInv, ForceChainReorgInv DEF Environment
<1>2. CASE Prefetcher
  BY <1>2, PollHeightInv, PrefetchBlocksInv, ReceiveHashesInv, ReceiveBlocksInv DEF Prefetcher
<1>3. CASE Processor
  BY <1>3, LoopHeadInv, TakeBlocksInv, TakeForcedReorgInv, AdvanceBlocksInv, DetectReorgInv,
     RejectBatchInv, CompareHashesInv, NothingLeftInv, BackupChunkInv, BackupDoneInv,
     ResetHeightInv, ResetDoneInv DEF Processor
<1>4. CASE UNCHANGED vars
  <2>1. TypeOK'
    BY <1>4 DEF IInv, TypeOK, vars, pfVars, bpVars, reorgVars, ghostVars
  <2>2. FetchAligned' /\ BlocksAligned' /\ BatchHeld' /\ WindowBelow'
    BY <1>4 DEF IInv, FetchAligned, BlocksAligned, BatchHeld, WindowBelow, vars, pfVars, bpVars,
                reorgVars, ghostVars
  <2> QED BY <2>1, <2>2 DEF IInv
<1> QED BY <1>1, <1>2, <1>3, <1>4 DEF Next

\* The invariant holds of every behaviour.
LEMMA InvHolds == Spec => []IInv
<1>1. IInv /\ [Next]_vars => IInv'
  BY NextInv
<1> QED BY <1>1, InitInv, PTL DEF Spec

\* Every variable of the prefetcher and the block processor keeps its type
\* (_prefetch_blocks, calc_reorg_range, reorg_chain).
THEOREM TypeCorrect == Spec => []TypeOK
<1>1. IInv => TypeOK
  BY DEF IInv
<1> QED BY <1>1, InvHolds, PTL

\* However fetches, resets and reorgs overlap, a block that was fetched for an
\* older height is never taken for the next one: the queue goes on where the
\* batch ends and the batch where the index ends (reset_height waits for the
\* semaphore that _prefetch_blocks holds).
THEOREM Aligned == Spec => []QueueAligned
<1>1. IInv => QueueAligned
  <2> SUFFICES ASSUME IInv, pc \in {"loop", "wait", "batch"}
               PROVE  /\ fetched_height = Height(tip) + Len(batch) + Len(blocks)
                      /\ \A i \in DOMAIN (batch \o blocks) :
                            Height((batch \o blocks)[i]) = Height(tip) + i
    BY DEF QueueAligned
  <2>1. /\ fetched_height = Height(tip) + Len(batch) + Len(blocks)
        /\ \A i \in DOMAIN batch : Height(batch[i]) = Height(tip) + i
        /\ \A i \in DOMAIN blocks : Height(blocks[i]) = Height(tip) + Len(batch) + i
    BY DEF IInv, BlocksAligned
  <2>2. batch \in Seq(Block) /\ blocks \in Seq(Block) /\ Height(tip) \in Int
    BY Constants DEF IInv, TypeOK, Branch
  <2>3. /\ Len(batch) \in Nat /\ Len(blocks) \in Nat
        /\ DOMAIN batch = 1 .. Len(batch) /\ DOMAIN blocks = 1 .. Len(blocks)
    BY <2>2, LenProperties
  <2>4. /\ DOMAIN (batch \o blocks) = 1 .. Len(batch) + Len(blocks)
        /\ \A i \in 1 .. Len(batch) + Len(blocks) :
              (batch \o blocks)[i] = IF i <= Len(batch) THEN batch[i] ELSE blocks[i - Len(batch)]
    BY <2>2, ConcatProperties, LenProperties
  <2>5. ASSUME NEW i \in 1 .. Len(batch) + Len(blocks)
        PROVE  Height((batch \o blocks)[i]) = Height(tip) + i
    <3>1. CASE i <= Len(batch)
      BY <2>1, <2>3, <2>4, <3>1
    <3>2. CASE i > Len(batch)
      <4>1. i - Len(batch) \in DOMAIN blocks /\ (batch \o blocks)[i] = blocks[i - Len(batch)]
        BY <2>3, <2>4, <3>2
      <4>2. Height((batch \o blocks)[i]) = Height(tip) + Len(batch) + (i - Len(batch))
        BY <2>1, <4>1
      <4> QED BY <2>2, <2>3, <4>2
    <3> QED BY <2>3, <3>1, <3>2
  <2> QED BY <2>1, <2>4, <2>5
<1> QED BY <1>1, InvHolds, PTL

-----------------------------------------------------------------------------
(* The range of a reorg *)

\* The last position where two chains agree, when they agree at one and not at
\* the next.
LEMMA ForkIs ==
    ASSUME NEW a \in Branch, NEW b \in Branch, NEW k \in Nat \ {0},
           k <= Height(a) + 1, k <= Height(b) + 1,
           ChainOf[a][k] = ChainOf[b][k]
    PROVE  LET common == {i \in 1 .. Min({Len(ChainOf[a]), Len(ChainOf[b])}) :
                             ChainOf[a][i] = ChainOf[b][i]}
           IN  /\ Max(common) \in Int /\ Max(common) >= k
               /\ k + 1 <= Height(a) + 1 /\ k + 1 <= Height(b) + 1
                  /\ ChainOf[a][k + 1] # ChainOf[b][k + 1] => Max(common) = k
               /\ k = Height(b) + 1 => Max(common) = k
<1>1. /\ Len(ChainOf[a]) = Height(a) + 1 /\ Len(ChainOf[b]) = Height(b) + 1
      /\ Height(a) \in Int /\ Height(b) \in Int
  BY ChainFacts
<1> DEFINE m == Min({Len(ChainOf[a]), Len(ChainOf[b])})
           common == {i \in 1 .. m : ChainOf[a][i] = ChainOf[b][i]}
<1>2. m = IF Height(a) <= Height(b) THEN Height(a) + 1 ELSE Height(b) + 1
  BY <1>1, MinOfTwo
<1> HIDE DEF m
<1>3. m \in Int /\ k \in common /\ common \in SUBSET Int /\ \A i \in common : i <= m
  BY <1>1, <1>2
<1>4. Max(common) \in common /\ \A i \in common : Max(common) >= i
  <2> HIDE DEF common
  <2> QED BY <1>3, MaxIsGreatest
<1>5. ASSUME k + 1 <= Height(a) + 1, k + 1 <= Height(b) + 1, ChainOf[a][k + 1] # ChainOf[b][k + 1],
             NEW i \in common
      PROVE  i <= k
  <2> SUFFICES ASSUME i > k
               PROVE  FALSE
    BY <1>3
  <2>1. i \in 1 .. Height(a) + 1 /\ i <= Height(b) + 1 /\ k + 1 \in 1 .. i
    BY <1>1, <1>2
  <2>2. ChainOf[a][k + 1] = ChainOf[b][k + 1]
    BY <2>1, CommonBelow
  <2> QED BY <1>5, <2>2
<1>6. ASSUME k = Height(b) + 1, NEW i \in common
      PROVE  i <= k
  BY <1>1, <1>2, <1>6
<1>7. Max(common) \in Int /\ Max(common) >= k
  BY <1>3, <1>4
<1>8. ASSUME \A i \in common : i <= k
      PROVE  Max(common) = k
  <2> HIDE DEF common
  <2>1. Max(common) <= k
    BY <1>4, <1>8
  <2> QED BY <1>7, <2>1
<1> QED BY <1>5, <1>6, <1>7, <1>8 DEF m

\* Unless the windows of calc_reorg_range reach genesis, and if the daemon keeps
\* still while they are compared, a reorg backs up from the lowest block that
\* the daemon does not have, or the tip where it has them all; with Decred from
\* the block below.
THEOREM BacksUpToTheFork == Spec => RangeExact
<1> DEFINE Exact ==
        LET low == IF Decred THEN start' + 1 ELSE start'
            ours == ChainOf[tip]
            theirs == ChainOf[daemon]
            fork == Max({i \in 1 .. Min({Len(ours), Len(theirs)}) : ours[i] = theirs[i]}) - 1
        IN  low = Min({fork + 1, Height(tip)})
<1>1. IInv /\ [Next]_vars =>
        [pc = "range" /\ pc' = "backup" /\ ~moved /\ start' > 0 => Exact]_vars
  <2> SUFFICES ASSUME IInv, Next, pc = "range", pc' = "backup", ~moved, start' > 0
               PROVE  Exact
    OBVIOUS
  <2>1. CompareHashes \/ NothingLeftToCompare
    <3>1. ~ Environment
      BY DEF Environment, DaemonMoves, ForceChainReorg, bpVars
    <3>2. ~ Prefetcher
      BY DEF Prefetcher, PollHeight, PrefetchBlocks, ReceiveHashes, ReceiveBlocks, bpVars
    <3>3. Processor
      BY <3>1, <3>2 DEF Next
    <3> QED BY <3>3 DEF Processor, LoopHead, TakeBlocks, TakeForcedReorg, AdvanceBlocks, DetectReorg,
                        RejectBatch, BackupChunk, BackupDone, ResetHeight, ResetDone
  <2>2. ~ NothingLeftToCompare
    <3> SUFFICES ASSUME NothingLeftToCompare
                 PROVE  FALSE
      OBVIOUS
    <3>1. start \in Int /\ start <= 0 /\ RangeFrom(start)
      BY DEF NothingLeftToCompare, IInv, TypeOK
    <3>2. start' = start
      BY <3>1, RangeFromFacts
    <3> QED BY <3>1, <3>2
  <2>3. CompareHashes
    BY <2>1, <2>2
  <2>4. /\ start \in Nat \ {0} /\ count \in Nat \ {0}
        /\ tip \in Block /\ Height(tip) \in Nat /\ start + count <= Height(tip)
        /\ daemon \in Block /\ Height(daemon) \in Nat
    BY <2>3, CompareHashesFacts
  <2>5. PICK n \in 1 .. count :
            /\ start + count - 1 <= Height(daemon)
            /\ ChainOf[tip][start + n] = ChainOf[daemon][start + n]
            /\ n < count => ChainOf[tip][start + n + 1] # ChainOf[daemon][start + n + 1]
            /\ RangeFrom(start + n)
    <3>1. pc' # "stopped" /\ pc' # "range"
      OBVIOUS
    <3> QED BY <2>3, <3>1, CompareHashesFacts
  <2> DEFINE k == start + n
             common == {i \in 1 .. Min({Len(ChainOf[tip]), Len(ChainOf[daemon])}) :
                           ChainOf[tip][i] = ChainOf[daemon][i]}
  <2>6. k \in Nat \ {0} /\ k <= start + count /\ k <= Height(tip) /\ k <= Height(daemon) + 1
    BY <2>4, <2>5
  <2>7. (IF Decred THEN start' + 1 ELSE start') = k
    <3>1. start' = IF Decred /\ k > 0 THEN k - 1 ELSE k
      BY <2>5, <2>6, RangeFromFacts
    <3> HIDE DEF k
    <3> QED BY <2>6, <3>1, Constants
  <2>8. /\ Max(common) \in Int /\ Max(common) >= k
        /\ k + 1 <= Height(tip) + 1 /\ k + 1 <= Height(daemon) + 1
           /\ ChainOf[tip][k + 1] # ChainOf[daemon][k + 1] => Max(common) = k
        /\ k = Height(daemon) + 1 => Max(common) = k
    <3>1. tip \in Branch /\ daemon \in Branch /\ k <= Height(tip) + 1
      BY <2>4, <2>6 DEF Branch
    <3>2. ChainOf[tip][k] = ChainOf[daemon][k]
      BY <2>5
    <3> HIDE DEF k
    <3> QED BY <2>6, <3>1, <3>2, ForkIs
  <2>9. k = Min({Max(common) - 1 + 1, Height(tip)})
    <3>1. CASE n < count
      <4>1. ChainOf[tip][k + 1] # ChainOf[daemon][k + 1] /\ k < Height(tip) /\ k <= Height(daemon)
        BY <2>4, <2>5, <3>1
      <4> HIDE DEF k, common
      <4>2. Max(common) = k
        BY <2>4, <2>6, <2>8, <4>1
      <4> QED BY <2>4, <2>6, <4>1, <4>2, MinOfTwo
    <3>2. CASE n = count /\ start + count = Height(tip)
      <4>1. k = Height(tip)
        BY <3>2
      <4> HIDE DEF k, common
      <4> QED BY <2>4, <2>8, <4>1, MinOfTwo
    <3>3. CASE n = count /\ start + count < Height(tip)
      <4>1. /\ start + count <= Height(daemon)
            /\ ChainOf[tip][start + count + 1] # ChainOf[daemon][start + count + 1]
        BY <3>3 DEF IInv, WindowBelow
      <4>2. k < Height(tip) /\ k <= Height(daemon) /\ ChainOf[tip][k + 1] # ChainOf[daemon][k + 1]
        BY <3>3, <4>1
      <4> HIDE DEF k, common
      <4>3. Max(common) = k
        BY <2>4, <2>6, <2>8, <4>2
      <4> QED BY <2>4, <2>6, <4>2, <4>3, MinOfTwo
    <3> QED BY <2>4, <2>5, <3>1, <3>2, <3>3
  <2> HIDE DEF k
  <2> QED BY <2>7, <2>9
<1> QED BY <1>1, InvHolds, PTL DEF Spec, RangeExact
=============================================================================
