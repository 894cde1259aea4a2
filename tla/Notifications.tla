---------------------------- MODULE Notifications ----------------------------
(***************************************************************************)
(* The Notifications object (controller.py), which pairs the touched       *)
(* hashXs of blocks with those of mempool refreshes by height before it    *)
(* tells the sessions.  Its two dictionaries are functions over the        *)
(* heights they have an entry for.                                         *)
(***************************************************************************)
EXTENDS Integers, FiniteSets, FiniteSetsExt, Functions

VARIABLES
    touched_mp,      \* _touched_mp: height -> hashXs touched by a refresh
    touched_bp,      \* _touched_bp: height -> hashXs touched by blocks
    highest_block,   \* _highest_block
    lost             \* history: hashXs whose set was replaced by one without them

notifyVars == <<touched_mp, touched_bp, highest_block, lost>>

\* A dictionary after d[height] = value.
With(d, height, value) == [h \in DOMAIN d \cup {height} |-> IF h = height THEN value ELSE d[h]]

\* The height that _maybe_notify settles on, none if it returns early.
Due(tmp, tbp, highest) ==
    LET common == DOMAIN tmp \cap DOMAIN tbp
    IN  IF common # {} THEN {Max(common)}
        ELSE {h \in DOMAIN tmp : h = Max(DOMAIN tmp) /\ h = highest}

\* The entries that are left when those up to the height are taken out.
Above(d, due) == Restrict(d, {h \in DOMAIN d : \A k \in due : h > k})

\* What the sessions are told for a height: the refresh of that height and all
\* blocks up to it.
Gathered(tmp, tbp, height) ==
    tmp[height] \cup UNION {tbp[h] : h \in {k \in DOMAIN tbp : k <= height}}

\* The call of notify, if there is one.
Notices(tmp, tbp, highest) ==
    {[height |-> h, touched |-> Gathered(tmp, tbp, h)] : h \in Due(tmp, tbp, highest)}

MaybeNotify(tmp, tbp, highest) ==
    /\ touched_mp' = Above(tmp, Due(tmp, tbp, highest))
    /\ touched_bp' = Above(tbp, Due(tmp, tbp, highest))
    /\ highest_block' = highest

\* What a dictionary forgets by d[height] = touched.
Overwritten(d, height, touched) == IF height \in DOMAIN d THEN d[height] \ touched ELSE {}

\* on_mempool and on_block, and what they notify of.
OnMempool(touched, height) ==
    /\ lost' = lost \cup Overwritten(touched_mp, height, touched)
    /\ MaybeNotify(With(touched_mp, height, touched), touched_bp, highest_block)
MempoolNotices(touched, height) == Notices(With(touched_mp, height, touched), touched_bp, highest_block)

OnBlock(touched, height) ==
    /\ lost' = lost \cup Overwritten(touched_bp, height, touched)
    /\ MaybeNotify(touched_mp, With(touched_bp, height, touched), height)
BlockNotices(touched, height) == Notices(touched_mp, With(touched_bp, height, touched), height)
=============================================================================
