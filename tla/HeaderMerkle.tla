----------------------------- MODULE HeaderMerkle -----------------------------
(***************************************************************************)
(* MerkleCache (merkle.py) as the DB uses it for header proofs: requests   *)
(* of the sessions extend it and read it, and the block processor, on a    *)
(* thread of its own, truncates it when it backs up.                       *)
(*                                                                         *)
(* Hashes are injective, so the root of a segment of headers stands for    *)
(* the segment: level is a sequence of segments, and a root is right if    *)
(* the level that it is computed from is.                                  *)
(***************************************************************************)
EXTENDS Integers, Sequences, SequencesExt, FiniteSetsExt

CONSTANTS
    Chains,        \* the chains of headers that the daemon may serve
    ReorgLimit,
    Request,       \* the requests that may be in flight at once
    Exclusive      \* requests come one at a time, and not during a backup

\* The headers of all chains.
Header == UNION {{c[i] : i \in DOMAIN c} : c \in Chains}

\* Of the constants; Services assumes it.
HeaderMerkleAssumption ==
    /\ ReorgLimit \in Nat /\ Exclusive \in BOOLEAN
    /\ \A c \in Chains : c \in Seq(Header) \ {<<>>}

VARIABLES
    chain,         \* the headers up to db_height
    backing,       \* header count that a backup goes down to, 0 if there is none
    initialized,   \* whether the cache has been populated
    length, level, depth_higher,    \* the cache
    req            \* what each request does, and whether a reorg came meanwhile

cache == <<initialized, length, level, depth_higher>>
vars == <<chain, backing, cache, req>>

Idle == [at |-> "idle", length |-> 0, index |-> 0, start |-> 0, end |-> 0,
         hashes |-> <<>>, leaves |-> <<>>, result |-> <<>>, undisturbed |-> TRUE]

\* hashes[start:end], counted from 0.
Slice(hashes, start, end) == SubSeq(hashes, start + 1, end)

\* 1 << d.
PowerOfTwo[d \in Nat] == IF d = 0 THEN 1 ELSE 2 * PowerOfTwo[d - 1]

\* ceil(log(n, 2)), the least exponent that reaches n.
BranchLength(n) == Min({d \in 0 .. n : PowerOfTwo[d] >= n})
TreeDepth(n) == BranchLength(n) + 1

\* Merkle.level: a segment for every PowerOfTwo[depth] hashes.
Segments(hashes, depth) ==
    LET size == PowerOfTwo[depth]
    IN  [i \in 1 .. (Len(hashes) + size - 1) \div size |->
            Slice(hashes, (i - 1) * size, Min({i * size, Len(hashes)}))]

SegmentLength == PowerOfTwo[depth_higher]
Segment(index) == index \div SegmentLength

LeafStart(index) == Segment(index) * SegmentLength

Active(r) == req[r].at \notin {"idle", "answered", "failed"}

\* What a reorg does to the requests in flight; the others are over.
Disturbed ==
    [r \in Request |-> IF Active(r) THEN [req[r] EXCEPT !.undisturbed = FALSE] ELSE Idle]

-----------------------------------------------------------------------------
Init ==
    /\ chain \in UNION {{SubSeq(c, 1, n) : n \in 1 .. Len(c)} : c \in Chains}
    /\ backing = 0
    /\ initialized = FALSE /\ length = 0 /\ level = <<>> /\ depth_higher = 0
    /\ req = [r \in Request |-> Idle]

\* populate_header_merkle_cache, once the server has caught up.
Populate ==
    /\ ~ initialized
    /\ initialized' = TRUE
    /\ length' = Max({1, Len(chain) - 1 - ReorgLimit})
    /\ depth_higher' = TreeDepth(length') \div 2
    /\ level' = Segments(Slice(chain, 0, length'), depth_higher')
    /\ UNCHANGED <<chain, backing, req>>

\* A flush sets db_height when its headers are on disk.
Flush ==
    /\ backing = 0
    /\ \E c \in Chains : IsPrefix(chain, c) /\ Len(chain) < Len(c) /\ chain' = SubSeq(c, 1, Len(chain) + 1)
    /\ UNCHANGED <<backing, cache, req>>

\* Mutant of Truncated: the length is not rounded down to a segment.
TruncatedPartly(n) ==
    IF n >= length THEN <<length, level>> ELSE <<n, SubSeq(level, 1, Segment(n))>>

\* MerkleCache.truncate: the length and the level it leaves.
Truncated(n) ==
    IF n >= length THEN <<length, level>>
    ELSE <<LeafStart(n), SubSeq(level, 1, Segment(n))>>

\* flush_backup truncates the cache in backup_fs ...
BackupFs ==
    /\ backing = 0 /\ initialized
    /\ Exclusive => \A r \in Request : ~ Active(r)
    /\ \E n \in 1 .. Len(chain) - 1 :
        /\ n >= Len(chain) - ReorgLimit
        /\ backing' = n
        /\ length' = Truncated(n)[1] /\ level' = Truncated(n)[2]
    /\ req' = Disturbed
    /\ UNCHANGED <<chain, initialized, depth_higher>>

\* ... and lowers db_height after the history and the UTXOs were flushed.
BackupState ==
    /\ backing > 0
    /\ chain' = SubSeq(chain, 1, backing)
    /\ backing' = 0
    /\ req' = Disturbed
    /\ UNCHANGED cache

-----------------------------------------------------------------------------
Becomes(r, q) == req' = [req EXCEPT ![r] = q]

\* fs_block_hashes(start, end - start) is called, and a thread reads the disk
\* at some later moment.
Awaiting(q, at, start, end) == [q EXCEPT !.at = at, !.start = start, !.end = end, !.hashes = <<>>]

LeafEnd(start, n) == Min({start + SegmentLength, n})

\* The read of the leaf hashes that the branch of q.index needs.
AwaitingLeaves(q) == Awaiting(q, "leaves", LeafStart(q.index), LeafEnd(LeafStart(q.index), q.length))

\* Mutant of ExtendsFrom: only what is new is read.
ExtendsFromEnd == length

\* Where an extension starts: at the final segment, which may be partial.
ExtendsFrom == LeafStart(length)

\* _merkle_proof checks the heights, and branch_and_root begins.
Ask(r) ==
    /\ initialized /\ ~ Active(r)
    /\ Exclusive => backing = 0 /\ \A s \in Request : ~ Active(s)
    /\ \E n \in 1 .. Len(chain), index \in 0 .. Len(chain) - 1 :
        /\ index < n
        /\ LET begun == [Idle EXCEPT !.length = n, !.index = index, !.undisturbed = (backing = 0)]
           IN  Becomes(r, IF n <= length THEN AwaitingLeaves(begun)
                          ELSE Awaiting(begun, "extend", ExtendsFrom, n))
    /\ UNCHANGED <<chain, backing, cache>>

\* The read ends, in an error if the headers are not there.
Read(r) ==
    /\ req[r].at \in {"extend", "leaves", "last"} /\ req[r].hashes = <<>>
    /\ Becomes(r, IF req[r].end <= Len(chain)
                  THEN [req[r] EXCEPT !.hashes = Slice(chain, req[r].start, req[r].end)]
                  ELSE [req[r] EXCEPT !.at = "failed"])
    /\ UNCHANGED <<chain, backing, cache>>

Has(r, at) == req[r].at = at /\ req[r].hashes # <<>>

\* The rest of _extend_to; assigning to a slice beyond the end appends.
Extend(r) ==
    /\ Has(r, "extend")
    /\ LET kept == Min({Segment(req[r].start), Len(level)})
       IN  level' = SubSeq(level, 1, kept) \o Segments(req[r].hashes, depth_higher)
    /\ length' = req[r].length
    /\ Becomes(r, AwaitingLeaves(req[r]))
    /\ UNCHANGED <<chain, backing, initialized, depth_higher>>

\* branch_and_root_from_level on a level, an error unless the leaves agree.
Conclude(r, lvl, leaves) ==
    LET i == Segment(req[r].index) + 1
    IN  Becomes(r, IF i <= Len(lvl) /\ lvl[i] = leaves
                   THEN [req[r] EXCEPT !.at = "answered", !.result = lvl]
                   ELSE [req[r] EXCEPT !.at = "failed"])

\* The leaves are in: a short tree needs no level, a length other than that of
\* the cache needs its last segment.
Combine(r) ==
    /\ Has(r, "leaves")
    /\ LET n == req[r].length
           leaves == req[r].hashes
       IN  IF n < SegmentLength THEN Becomes(r, [req[r] EXCEPT !.at = "answered", !.result = <<leaves>>])
           ELSE IF n = length THEN Conclude(r, level, leaves)
           ELSE Becomes(r, [Awaiting(req[r], "last", LeafStart(n), LeafEnd(LeafStart(n), n)) EXCEPT
                               !.leaves = leaves,
                               !.result = SubSeq(level, 1, Min({Segment(n), Len(level)}))])
    /\ UNCHANGED <<chain, backing, cache>>

\* An empty last segment is not read.
NothingLast(r) == req[r].at = "last" /\ req[r].start = req[r].end

FinishLevel(r) ==
    /\ Has(r, "last") \/ NothingLast(r)
    /\ Conclude(r, req[r].result \o Segments(req[r].hashes, depth_higher), req[r].leaves)
    /\ UNCHANGED <<chain, backing, cache>>

Next ==
    \/ Populate \/ Flush \/ BackupFs \/ BackupState
    \/ \E r \in Request : Ask(r) \/ Read(r) \/ Extend(r) \/ Combine(r) \/ FinishLevel(r)

Spec == Init /\ [][Next]_vars

-----------------------------------------------------------------------------
(* Properties *)

\* Each variable has its type.
TypeOK ==
    /\ \E c \in Chains : IsPrefix(chain, c) /\ chain # <<>>
    /\ backing \in 0 .. Len(chain) - 1
    /\ length \in Nat /\ depth_higher \in Nat
    /\ \A r \in Request :
        /\ req[r].at \in {"idle", "extend", "leaves", "last", "answered", "failed"}
        /\ req[r].index \in 0 .. Max({0, req[r].length - 1})
        /\ req[r].start <= req[r].end

\* Between requests and reorgs the cache is the level of the headers that it
\* covers, whatever extensions and truncations it went through.
CacheExact ==
    backing = 0 /\ initialized /\ (\A r \in Request : ~ Active(r)) =>
        /\ length <= Len(chain)
        /\ level = Segments(Slice(chain, 0, length), depth_higher)

\* "Return a merkle branch and root. Length is the number of hashes used to
\* calculate the merkle root": a request that no reorg disturbs is answered
\* from the first length headers of the chain, and never with an error.
AnswersRight ==
    \A r \in Request : req[r].undisturbed =>
        /\ req[r].at # "failed"
        /\ req[r].at = "answered" =>
            req[r].result = Segments(Slice(chain, 0, req[r].length), depth_higher)
=============================================================================
