---------------------------- MODULE Sessions_proofs ----------------------------
(***************************************************************************)
(* That when all is quiet the clients know the chain and the mempool: the  *)
(* history cache is fresh, the statuses and the header that were told last *)
(* are the present ones.  The inductive invariant says for each thing that *)
(* is out of date who is still going to notice.                            *)
(***************************************************************************)
EXTENDS Sessions, TreeTheorems

-----------------------------------------------------------------------------
(* The inductive invariant *)

Notifier == {"bp", "mp"}
Speaks(s) == telling[s] # Silent
Served(s) == \E t \in tasks : t.by = s

Notes(d) == UNION {d[h] : h \in DOMAIN d}

\* What blocks have touched and nobody was told of yet.
Lagging == bp_touched \cup Notes(touched_bp)

\* What _notify_sessions has in hand.
Telling == telling["bp"].touched \cup telling["mp"].touched

StatusType == [confirmed : SUBSET Tx, unconfirmed : SUBSET (Tx \X BOOLEAN)]

\* Clients ask for histories and subscribe; the rest is done for who notifies.
TaskType ==
    {t \in [kind : {"touched", "recheck", "mempool", "history", "subscribe"}, x : HashX,
            by : {"bp", "mp", "client"}, at : {"start", "read", "have"}, old : StatusType, history : SUBSET Tx] :
        t.by = "client" <=> t.kind \in {"history", "subscribe"}}

\* A dictionary of hashXs by height.
Dict(d) ==
    /\ d = [h \in DOMAIN d |-> d[h]] /\ DOMAIN d \subseteq Nat
    /\ \A h \in DOMAIN d : d[h] \subseteq HashX

\* Each variable has its type: those of the chain and the notifications, and
\* those of the sessions.
ChainType ==
    /\ {daemon, hist, db, hsub_results, told_header} \subseteq Block
    /\ bp \in {"idle", "flushing", "flushed", "backing"}
    /\ bp_touched \subseteq HashX /\ pool \subseteq Tx /\ failed \in BOOLEAN /\ lost \subseteq HashX
    /\ telling \in [Notifier -> [height : Int, header : Int, touched : SUBSET HashX]]
    /\ notified_height \in Nat /\ highest_block \in Nat
    /\ Dict(touched_mp) /\ Dict(touched_bp)

SessionType ==
    /\ history_cache = [x \in DOMAIN history_cache |-> history_cache[x]]
    /\ DOMAIN history_cache \subseteq HashX
    /\ \A x \in DOMAIN history_cache : history_cache[x] \subseteq Tx
    /\ tasks \subseteq TaskType /\ hashX_subs \subseteq HashX
    /\ mempool_statuses = [x \in DOMAIN mempool_statuses |-> mempool_statuses[x]]
    /\ DOMAIN mempool_statuses \subseteq HashX
    /\ \A x \in DOMAIN mempool_statuses : mempool_statuses[x] \in StatusType
    /\ told \in [HashX -> StatusType]

TypeInv == ChainType /\ SessionType

\* Where the DB is, and that it is below the daemon unless it is on its chain.
TreeInv ==
    /\ bp \in {"idle", "flushed"} => hist = db
    /\ bp = "flushing" => OnChain(db, hist) /\ db # hist
                          /\ (OnChain(hist, daemon) \/ Height(hist) < Height(daemon))
    /\ bp = "backing" => db # Genesis /\ hist = Prev[db] /\ Height(db) < Height(daemon)
    /\ OnChain(db, daemon) \/ Height(db) < Height(daemon)

\* No height that is told or noted is above the daemon's.
HeightInv ==
    /\ notified_height <= Height(daemon) /\ highest_block <= Height(daemon)
    /\ \A h \in DOMAIN touched_bp : h <= Height(daemon)
    /\ \A s \in Notifier : Speaks(s) =>
          /\ telling[s].height = telling[s].header
          /\ telling[s].header \in 0 .. Height(daemon)

\* The DB has caught up once the block at the daemon's height was noted.
CaughtUp == bp = "idle" /\ db = daemon /\ bp_touched = {}

BlockInv ==
    /\ (highest_block = Height(daemon) \/ Height(daemon) \in DOMAIN touched_bp) => CaughtUp
    /\ bp = "idle" /\ Height(db) = Height(daemon) => highest_block = Height(daemon)

\* A refresh waits for the block of its height only while that one is flushed,
\* and then nothing is being told.
WaitInv ==
    DOMAIN touched_mp # {} =>
        /\ bp = "flushed" /\ DOMAIN touched_mp = {Height(db)}
        /\ \A h \in DOMAIN touched_bp : h <= Height(db)
        /\ \A s \in Notifier : ~ Speaks(s)
        /\ notified_height # Height(db)
        /\ Height(db) = Height(daemon) => pool \in Pools[daemon]

\* While the block processor tells of a block, or waits for those it has told,
\* that block is the tip of the DB; so it is for the mempool.
TellInv ==
    /\ Speaks("bp") => bp = "idle" /\ telling["bp"].header = Height(db)
    /\ Served("bp") => bp = "idle" /\ notified_height = Height(db)
    /\ (Speaks("bp") \/ Served("bp")) /\ Speaks("mp") => telling["mp"].header = Height(db)

\* Somebody is told of the daemon's height.
TipTold == notified_height = Height(daemon) \/ \E s \in Notifier : Speaks(s) /\ telling[s].header = Height(daemon)

\* Then everything is in place.
TipInv ==
    /\ TipTold =>
          /\ CaughtUp /\ DOMAIN touched_bp = {} /\ pool \in Pools[daemon]
          /\ \A s \in Notifier : Speaks(s) => telling[s].header = Height(daemon)
    /\ notified_height = Height(daemon) => hsub_results = daemon /\ told_header = daemon
    /\ bp = "idle" /\ db = daemon => Height(daemon) \in DOMAIN touched_bp \/ TipTold

\* A history that was read is that of the DB, or somebody will be told.
CacheInv ==
    /\ \A x \in DOMAIN history_cache :
          history_cache[x] = History(hist, x) \/ x \in Lagging \cup Telling \cup lost
    /\ \A t \in tasks : t.at = "have" => t.history = History(hist, t.x) \/ t.x \in Lagging \cup lost

Right(x) == told[x] = [confirmed |-> History(hist, x), unconfirmed |-> Summaries(x)]

\* The status of x will be worked out anew, or x is lost.
Excused(x) ==
    \/ x \in Lagging \cup Notes(touched_mp) \cup Telling \cup lost
    \/ \E t \in tasks : t.kind = "touched" /\ t.x = x

\* It will be looked at again.
Revisited(x) ==
    /\ x \in DOMAIN mempool_statuses
    /\ \/ DOMAIN touched_mp # {} \/ \E s \in Notifier : Speaks(s)
       \/ \E t \in tasks : t.kind \in {"recheck", "mempool"} /\ t.x = x

StatusInv ==
    /\ \A x \in hashX_subs : Right(x) \/ Excused(x) \/ Revisited(x)
    /\ \A x \in hashX_subs : told[x].unconfirmed # {} => x \in DOMAIN mempool_statuses
    /\ \A x \in DOMAIN mempool_statuses :
          /\ mempool_statuses[x].unconfirmed # {}
          /\ x \in hashX_subs => mempool_statuses[x] = told[x] \/ Excused(x)
    /\ \A t \in tasks : t.kind = "mempool" =>
          /\ t.old.unconfirmed # {}
          /\ t.x \in hashX_subs => t.old = told[t.x] \/ Right(t.x) \/ Excused(t.x)

NoteInv == HeightInv /\ BlockInv /\ WaitInv /\ TellInv /\ TipInv

IInv ==
    /\ TypeInv
    /\ failed => Height(db) < Height(daemon)
    /\ ~ failed => TreeInv /\ NoteInv
    /\ ~ failed /\ Prompt => CacheInv /\ StatusInv

-----------------------------------------------------------------------------
(* Chains, histories and mempools *)

\* A block and the one that it names.
LEMMA ConfirmedStep ==
    ASSUME NEW b \in Block, b # Genesis
    PROVE  /\ Prev[b] \in Block /\ Height(Prev[b]) = Height(b) - 1
           /\ Confirmed[b] = Txs[b] \cup Confirmed[Prev[b]]
<1>1. Prev[b] \in Block /\ Prev[b] # NoTip
  BY TreeAssumption, TxChainAssumption
<1>2. Height(b) = Height(Prev[b]) + 1 /\ Height(b) \in Nat /\ Height(Prev[b]) \in Nat
  BY <1>1, PrevHeight, HeightNat
<1>3. \A a \in Block : OnChain(a, b) <=> a = b \/ OnChain(a, Prev[b])
  BY <1>1, OnChainStep
<1>4. Confirmed[b] = Txs[b] \cup Confirmed[Prev[b]]
  BY <1>1, <1>3 DEF Confirmed
<1> QED BY <1>1, <1>2, <1>4

\* What a chain confirms, the longer ones that go on from it confirm too.
LEMMA ConfirmedGrows ==
    ASSUME NEW a \in Block, NEW b \in Block, OnChain(a, b)
    PROVE  Confirmed[a] \subseteq Confirmed[b]
<1>1. \A c \in Block : OnChain(c, a) => OnChain(c, b)
  BY OnChainTrans
<1> QED BY <1>1 DEF Confirmed

\* Only transactions are confirmed.
LEMMA HistoryType ==
    ASSUME NEW b \in Block
    PROVE  /\ Confirmed[b] \in SUBSET Tx
           /\ \A x \in HashX : History(b, x) \in SUBSET Tx
BY TxChainAssumption DEF Confirmed, History, Touching

\* On its chain a block is alone at its height.
LEMMA AloneAtHeight ==
    ASSUME NEW a \in Block, NEW b \in Block, OnChain(a, b)
    PROVE  /\ Height(a) <= Height(b)
           /\ Height(a) = Height(b) => a = b
<1>1. Height(a) <= Height(b) /\ ChainOf[b][Height(a) + 1] = a
  BY OnChainIs
<1>2. ChainOf[b][Height(b) + 1] = b
  BY ChainFacts DEF Branch
<1> QED BY <1>1, <1>2

\* What transactions touch is hashXs.
LEMMA TouchedIn ==
    ASSUME NEW ts \in SUBSET Tx
    PROVE  Touched(ts) \in SUBSET HashX
BY TxChainAssumption DEF Touched, Touch

\* The history of a hashX stays the same where no transaction that comes or
\* goes touches it.
LEMMA HistorySame ==
    ASSUME NEW a \in Block, NEW b \in Block, NEW ts, NEW x,
           Confirmed[a] \ Confirmed[b] \subseteq ts, Confirmed[b] \ Confirmed[a] \subseteq ts,
           x \notin Touched(ts)
    PROVE  History(a, x) = History(b, x)
<1>1. \A t \in ts : x \notin Touch(t)
  BY DEF Touched
<1> QED BY <1>1 DEF History, Touching

\* transaction_summaries of x over a mempool.
SummariesOf(ts, x) == {<<t, Ins[t] \cap ts # {}>> : t \in Touching(ts, x)}

\* Above the same block the summaries of a hashX stay the same where no
\* transaction that comes or goes touches it: the parents of one that stays in
\* the mempool stay with it.
LEMMA SummariesSame ==
    ASSUME NEW b \in Block, NEW ts \in Pools[b], NEW us \in Pools[b], NEW x,
           x \notin Touched((ts \ us) \cup (us \ ts))
    PROVE  SummariesOf(ts, x) = SummariesOf(us, x)
<1>1. /\ ts \in SUBSET (Tx \ Confirmed[b]) /\ CanHold(b, ts)
      /\ us \in SUBSET (Tx \ Confirmed[b]) /\ CanHold(b, us)
  BY DEF Pools
<1>2. \A t \in (ts \ us) \cup (us \ ts) : x \notin Touch(t)
  BY DEF Touched
<1>3. Touching(ts, x) = Touching(us, x)
  BY <1>2 DEF Touching
<1>4. ASSUME NEW t \in Touching(ts, x)
      PROVE  Ins[t] \cap ts = Ins[t] \cap us
  <2>1. t \in ts /\ t \in us
    BY <1>3 DEF Touching
  <2>2. Ins[t] \subseteq Confirmed[b] \cup ts /\ Ins[t] \subseteq Confirmed[b] \cup us
    BY <1>1, <2>1 DEF CanHold
  <2> QED BY <1>1, <2>2
<1> QED BY <1>3, <1>4 DEF SummariesOf

-----------------------------------------------------------------------------
(* Notifications *)

\* The dictionaries remain such.
LEMMA DictWith ==
    ASSUME NEW d, Dict(d), NEW h \in Nat, NEW hs \in SUBSET HashX
    PROVE  /\ Dict(With(d, h, hs)) /\ DOMAIN With(d, h, hs) = DOMAIN d \cup {h}
           /\ Notes(With(d, h, hs)) \subseteq Notes(d) \cup hs
           /\ hs \subseteq Notes(With(d, h, hs))
           /\ Notes(d) \subseteq Notes(With(d, h, hs)) \cup Overwritten(d, h, hs)
           /\ Overwritten(d, h, hs) \subseteq Notes(d)
<1> DEFINE w == With(d, h, hs)
<1>1. DOMAIN w = DOMAIN d \cup {h} /\ \A k \in DOMAIN w : w[k] = IF k = h THEN hs ELSE d[k]
  BY DEF With
<1>2. w = [k \in DOMAIN w |-> w[k]]
  BY DEF With
<1> HIDE DEF w
<1>3. Dict(w)
  BY <1>1, <1>2 DEF Dict
<1>4. Notes(w) \subseteq Notes(d) \cup hs
  BY <1>1 DEF Notes
<1>5. hs \subseteq Notes(w)
  BY <1>1 DEF Notes
<1>6. ASSUME NEW x \in Notes(d)
      PROVE  x \in Notes(w) \cup Overwritten(d, h, hs)
  <2>1. PICK k \in DOMAIN d : x \in d[k]
    BY DEF Notes
  <2>2. CASE k = h
    BY <1>5, <2>1, <2>2 DEF Overwritten
  <2>3. CASE k # h
    BY <1>1, <2>1, <2>3 DEF Notes
  <2> QED BY <2>2, <2>3
<1>7. Overwritten(d, h, hs) \subseteq Notes(d)
  BY DEF Overwritten, Notes
<1> QED BY <1>1, <1>3, <1>4, <1>5, <1>6, <1>7 DEF w

\* What is left of a dictionary.
LEMMA DictAbove ==
    ASSUME NEW d, Dict(d), NEW due
    PROVE  /\ Dict(Above(d, due))
           /\ due = {} => Above(d, due) = d
           /\ \A h \in due : (\A k \in DOMAIN d : ~ (k > h)) => DOMAIN Above(d, due) = {}
<1>1. /\ DOMAIN Above(d, due) = {h \in DOMAIN d : \A k \in due : h > k}
      /\ Above(d, due) = [h \in {h \in DOMAIN d : \A k \in due : h > k} |-> d[h]]
  BY DEF Above, Restrict
<1>2. Dict(Above(d, due))
  BY <1>1 DEF Dict
<1>3. due = {} => Above(d, due) = d
  BY <1>1 DEF Dict
<1> QED BY <1>1, <1>2, <1>3

\* on_mempool, when no block above the height was noted and no refresh waits
\* at another height: what blocks and the refresh have touched is told at once,
\* if the block of the height was noted, or else the refresh waits.
LEMMA OnMempoolNotes ==
    ASSUME NEW h \in Nat, NEW hs \in SUBSET HashX, Dict(touched_mp), Dict(touched_bp),
           DOMAIN touched_mp \subseteq {h}, \A k \in DOMAIN touched_bp : k <= h,
           OnMempool(hs, h)
    PROVE  /\ highest_block' = highest_block /\ Dict(touched_mp') /\ Dict(touched_bp')
           /\ lost' = lost \cup Overwritten(touched_mp, h, hs)
           /\ Notes(touched_mp) \subseteq hs \cup lost'
           /\ h \in DOMAIN touched_bp \/ h = highest_block =>
                 /\ DOMAIN touched_mp' = {} /\ DOMAIN touched_bp' = {}
                 /\ MempoolNotices(hs, h) = {[height |-> h, touched |-> hs \cup Notes(touched_bp)]}
           /\ ~ (h \in DOMAIN touched_bp \/ h = highest_block) =>
                 /\ touched_bp' = touched_bp /\ DOMAIN touched_mp' = {h} /\ Notes(touched_mp') = hs
                 /\ MempoolNotices(hs, h) = {}
<1> DEFINE tmp == With(touched_mp, h, hs)
           due == Due(tmp, touched_bp, highest_block)
<1>1. DOMAIN tmp = {h} /\ tmp[h] = hs /\ Dict(tmp)
  <2>1. Dict(tmp) /\ DOMAIN tmp = DOMAIN touched_mp \cup {h}
    BY DictWith
  <2>2. tmp[h] = hs
    BY DEF With
  <2> QED BY <2>1, <2>2
<1>2. /\ touched_mp' = Above(tmp, due) /\ touched_bp' = Above(touched_bp, due)
      /\ highest_block' = highest_block /\ lost' = lost \cup Overwritten(touched_mp, h, hs)
  BY DEF OnMempool, MaybeNotify
<1>3. MempoolNotices(hs, h) = {[height |-> k, touched |-> Gathered(tmp, touched_bp, k)] : k \in due}
  BY DEF MempoolNotices, Notices
<1> HIDE DEF tmp
<1>4. Max({h}) = h
  BY MaxIsGreatest
<1>5. due = IF h \in DOMAIN touched_bp \/ h = highest_block THEN {h} ELSE {}
  <2>1. CASE h \in DOMAIN touched_bp
    <3>1. DOMAIN tmp \cap DOMAIN touched_bp = {h}
      BY <1>1, <2>1
    <3> QED BY <1>4, <2>1, <3>1 DEF Due
  <2>2. CASE h \notin DOMAIN touched_bp
    <3>1. DOMAIN tmp \cap DOMAIN touched_bp = {}
      BY <1>1, <2>2
    <3> QED BY <1>1, <1>4, <2>2, <3>1 DEF Due
  <2> QED BY <2>1, <2>2
<1> HIDE DEF due
<1>6. Dict(touched_mp') /\ Dict(touched_bp')
  BY <1>1, <1>2, DictAbove
<1>7. Notes(touched_mp) \subseteq hs \cup lost'
  BY <1>2 DEF Notes, Overwritten
<1>8. ASSUME h \in DOMAIN touched_bp \/ h = highest_block
      PROVE  /\ DOMAIN touched_mp' = {} /\ DOMAIN touched_bp' = {}
             /\ MempoolNotices(hs, h) = {[height |-> h, touched |-> hs \cup Notes(touched_bp)]}
  <2>1. due = {h}
    BY <1>5, <1>8
  <2>2. /\ \A k \in DOMAIN tmp : ~ (k > h)
        /\ \A k \in DOMAIN touched_bp : ~ (k > h)
    BY <1>1 DEF Dict
  <2>3. DOMAIN touched_mp' = {} /\ DOMAIN touched_bp' = {}
    BY <1>1, <1>2, <2>1, <2>2, DictAbove
  <2>4. {k \in DOMAIN touched_bp : k <= h} = DOMAIN touched_bp
    OBVIOUS
  <2>5. Gathered(tmp, touched_bp, h) = hs \cup Notes(touched_bp)
    BY <1>1, <2>4 DEF Gathered, Notes
  <2> QED BY <1>3, <2>1, <2>3, <2>5
<1>9. ASSUME ~ (h \in DOMAIN touched_bp \/ h = highest_block)
      PROVE  /\ touched_bp' = touched_bp /\ DOMAIN touched_mp' = {h} /\ Notes(touched_mp') = hs
             /\ MempoolNotices(hs, h) = {}
  <2>1. due = {}
    BY <1>5, <1>9
  <2>2. touched_bp' = touched_bp /\ touched_mp' = tmp
    BY <1>1, <1>2, <2>1, DictAbove
  <2>3. Notes(tmp) = hs
    BY <1>1 DEF Notes
  <2> QED BY <1>1, <1>3, <2>1, <2>2, <2>3
<1> QED BY <1>2, <1>6, <1>7, <1>8, <1>9

\* on_block: all that was touched is told if a refresh waits for the block, or
\* else noted, or lost.
LEMMA OnBlockNotes ==
    ASSUME NEW h \in Nat, NEW hs \in SUBSET HashX, Dict(touched_mp), Dict(touched_bp),
           DOMAIN touched_mp \subseteq {h},
           DOMAIN touched_mp # {} => \A k \in DOMAIN touched_bp : k <= h,
           OnBlock(hs, h)
    PROVE  /\ highest_block' = h /\ Dict(touched_mp') /\ Dict(touched_bp')
           /\ lost' = lost \cup Overwritten(touched_bp, h, hs)
           /\ DOMAIN touched_mp # {} =>
                 /\ DOMAIN touched_mp' = {} /\ DOMAIN touched_bp' = {}
                 /\ \E told_ \in SUBSET HashX :
                       /\ BlockNotices(hs, h) = {[height |-> h, touched |-> told_]}
                       /\ hs \cup Notes(touched_mp) \cup Notes(touched_bp) \subseteq told_ \cup lost'
           /\ DOMAIN touched_mp = {} =>
                 /\ touched_mp' = touched_mp /\ DOMAIN touched_bp' = DOMAIN touched_bp \cup {h}
                 /\ hs \cup Notes(touched_bp) \subseteq Notes(touched_bp') \cup lost'
                 /\ BlockNotices(hs, h) = {}
<1> DEFINE tbp == With(touched_bp, h, hs)
           due == Due(touched_mp, tbp, h)
<1>1. /\ DOMAIN tbp = DOMAIN touched_bp \cup {h} /\ Dict(tbp)
      /\ hs \cup Notes(touched_bp) \subseteq Notes(tbp) \cup Overwritten(touched_bp, h, hs)
  BY DictWith
<1>2. /\ touched_mp' = Above(touched_mp, due) /\ touched_bp' = Above(tbp, due)
      /\ highest_block' = h /\ lost' = lost \cup Overwritten(touched_bp, h, hs)
  BY DEF OnBlock, MaybeNotify
<1>3. BlockNotices(hs, h) = {[height |-> k, touched |-> Gathered(touched_mp, tbp, k)] : k \in due}
  BY DEF BlockNotices, Notices
<1> HIDE DEF tbp
<1>4. Max({h}) = h
  BY MaxIsGreatest
<1>5. due = DOMAIN touched_mp
  <2>1. CASE DOMAIN touched_mp = {}
    BY <2>1 DEF Due
  <2>2. CASE DOMAIN touched_mp = {h}
    <3>1. DOMAIN touched_mp \cap DOMAIN tbp = {h}
      BY <1>1, <2>2
    <3> QED BY <1>4, <2>2, <3>1 DEF Due
  <2> QED BY <2>1, <2>2
<1> HIDE DEF due
<1>6. Dict(touched_mp') /\ Dict(touched_bp')
  BY <1>1, <1>2, DictAbove
<1>7. ASSUME DOMAIN touched_mp # {}
      PROVE  /\ DOMAIN touched_mp' = {} /\ DOMAIN touched_bp' = {}
             /\ \E told_ \in SUBSET HashX :
                   /\ BlockNotices(hs, h) = {[height |-> h, touched |-> told_]}
                   /\ hs \cup Notes(touched_mp) \cup Notes(touched_bp) \subseteq told_ \cup lost'
  <2>1. due = {h} /\ DOMAIN touched_mp = {h}
    BY <1>5, <1>7
  <2>2. /\ \A k \in DOMAIN touched_mp : ~ (k > h)
        /\ \A k \in DOMAIN tbp : k <= h /\ ~ (k > h)
    BY <1>1, <1>7, <2>1 DEF Dict
  <2>3. DOMAIN touched_mp' = {} /\ DOMAIN touched_bp' = {}
    BY <1>1, <1>2, <2>1, <2>2, DictAbove
  <2>4. {k \in DOMAIN tbp : k <= h} = DOMAIN tbp
    BY <2>2
  <2>5. Gathered(touched_mp, tbp, h) = touched_mp[h] \cup Notes(tbp)
    BY <2>4 DEF Gathered, Notes
  <2>6. Notes(touched_mp) = touched_mp[h] /\ touched_mp[h] \in SUBSET HashX
    BY <2>1 DEF Notes, Dict
  <2>7. Notes(tbp) \in SUBSET HashX
    BY <1>1 DEF Notes, Dict
  <2>8. BlockNotices(hs, h) = {[height |-> h, touched |-> touched_mp[h] \cup Notes(tbp)]}
    BY <1>3, <2>1, <2>5
  <2>9. hs \cup Notes(touched_mp) \cup Notes(touched_bp) \subseteq (touched_mp[h] \cup Notes(tbp)) \cup lost'
    BY <1>1, <1>2, <2>6
  <2>10. touched_mp[h] \cup Notes(tbp) \in SUBSET HashX
    BY <2>6, <2>7
  <2> QED BY <2>3, <2>8, <2>9, <2>10
<1>8. ASSUME DOMAIN touched_mp = {}
      PROVE  /\ touched_mp' = touched_mp /\ DOMAIN touched_bp' = DOMAIN touched_bp \cup {h}
             /\ hs \cup Notes(touched_bp) \subseteq Notes(touched_bp') \cup lost'
             /\ BlockNotices(hs, h) = {}
  <2>1. due = {}
    BY <1>5, <1>8
  <2>2. touched_mp' = touched_mp /\ touched_bp' = tbp
    BY <1>1, <1>2, <2>1, DictAbove
  <2> QED BY <1>1, <1>2, <1>3, <2>1, <2>2
<1> QED BY <1>2, <1>6, <1>7, <1>8


-----------------------------------------------------------------------------
(* Types *)

\* A dictionary with one more entry, and with one less.
LEMMA WithOne ==
    ASSUME NEW d, d = [x \in DOMAIN d |-> d[x]], NEW k, NEW v
    PROVE  LET w == With(d, k, v)
           IN  /\ w = [x \in DOMAIN w |-> w[x]] /\ DOMAIN w = DOMAIN d \cup {k}
               /\ \A x \in DOMAIN w : w[x] = IF x = k THEN v ELSE d[x]
BY DEF With

LEMMA RestrictTo ==
    ASSUME NEW d, NEW S, S \subseteq DOMAIN d
    PROVE  LET w == Restrict(d, S)
           IN  /\ w = [x \in DOMAIN w |-> w[x]] /\ DOMAIN w = S
               /\ \A x \in S : w[x] = d[x]
BY DEF Restrict

LEMMA WithoutOne ==
    ASSUME NEW d, NEW k
    PROVE  LET w == Without(d, k)
           IN  /\ w = [x \in DOMAIN w |-> w[x]] /\ DOMAIN w = DOMAIN d \ {k}
               /\ \A x \in DOMAIN w : w[x] = d[x]
<1>1. DOMAIN d \ {k} \subseteq DOMAIN d
  OBVIOUS
<1> QED BY <1>1, RestrictTo DEF Without

\* The mempool part of a status.
LEMMA SummariesType ==
    ASSUME NEW x, pool \subseteq Tx
    PROVE  Summaries(x) \in SUBSET (Tx \X BOOLEAN) /\ Summaries(x) = SummariesOf(pool, x)
<1>1. Summaries(x) = SummariesOf(pool, x)
  BY DEF Summaries, SummariesOf
<1>2. ASSUME NEW s \in Summaries(x)
      PROVE  s \in Tx \X BOOLEAN
  <2>1. PICK t \in Touching(pool, x) : s = <<t, Ins[t] \cap pool # {}>>
    BY DEF Summaries
  <2>2. t \in Tx
    BY DEF Touching
  <2>3. (Ins[t] \cap pool # {}) \in BOOLEAN
    OBVIOUS
  <2> HIDE DEF Summaries
  <2> QED BY Zenon, <2>1, <2>2, <2>3
<1> QED BY <1>1, <1>2

LEMMA NoneType == None \in StatusType
BY DEF None, StatusType

\* A new task.
LEMMA NewTask ==
    ASSUME NEW kind, NEW x \in HashX, NEW by \in {"bp", "mp", "client"},
           kind \in {"touched", "recheck", "mempool", "history", "subscribe"},
           by = "client" <=> kind \in {"history", "subscribe"}
    PROVE  /\ Task(kind, x, by) \in TaskType
           /\ Task(kind, x, by).kind = kind /\ Task(kind, x, by).x = x /\ Task(kind, x, by).by = by
           /\ Task(kind, x, by).at = "start"
BY NoneType DEF Task, TaskType

\* A task that goes on is still the same task.
LEMMA TaskMoves ==
    ASSUME NEW t \in TaskType
    PROVE  /\ [t EXCEPT !.at = "read"] \in TaskType
           /\ [t EXCEPT !.at = "read"].at = "read"
           /\ [t EXCEPT !.at = "read"].kind = t.kind /\ [t EXCEPT !.at = "read"].x = t.x
           /\ [t EXCEPT !.at = "read"].by = t.by /\ [t EXCEPT !.at = "read"].old = t.old
           /\ \A h \in SUBSET Tx :
                 LET u == [t EXCEPT !.at = "have", !.history = h]
                 IN  /\ u \in TaskType /\ u.at = "have" /\ u.history = h
                     /\ u.kind = t.kind /\ u.x = t.x /\ u.by = t.by /\ u.old = t.old
BY DEF TaskType

\* What the fields of a task are.
LEMMA TaskFields ==
    ASSUME NEW t \in TaskType
    PROVE  /\ t.x \in HashX /\ t.history \in SUBSET Tx /\ t.old \in StatusType
           /\ t.by \in {"bp", "mp", "client"} /\ t.at \in {"start", "read", "have"}
           /\ t.kind \in {"touched", "recheck", "mempool", "history", "subscribe"}
           /\ t.by = "client" <=> t.kind \in {"history", "subscribe"}
BY DEF TaskType

\* The tasks that Spawn adds.
LEMMA SpawnTasks ==
    ASSUME SessionType, NEW s \in Notifier, NEW touched, NEW changed \in BOOLEAN,
           Spawn(s, touched, changed)
    PROVE  /\ tasks' \subseteq TaskType /\ tasks \subseteq tasks'
           /\ \A t \in tasks' : t \in tasks \/ (t.by = s /\ t.at = "start" /\ t.kind # "mempool")
           /\ \A x \in touched \cap hashX_subs : \E t \in tasks' : t.kind = "touched" /\ t.x = x
           /\ changed => \A x \in hashX_subs : \E t \in tasks' : t.kind = "recheck" /\ t.x = x
<1> DEFINE new1 == {Task("touched", x, s) : x \in touched \cap hashX_subs}
           new2 == {Task("recheck", x, s) : x \in IF changed THEN hashX_subs ELSE {}}
<1>1. tasks' = tasks \cup new1 \cup new2
  BY DEF Spawn
<1>2. hashX_subs \subseteq HashX /\ tasks \subseteq TaskType
  BY DEF SessionType
<1>3. s \in {"bp", "mp", "client"} /\ s # "client"
  BY DEF Notifier
<1>4. \A x \in HashX : LET t == Task("touched", x, s)
                       IN  t \in TaskType /\ t.kind = "touched" /\ t.x = x /\ t.by = s /\ t.at = "start"
  BY <1>3, NewTask
<1>5. \A x \in HashX : LET t == Task("recheck", x, s)
                       IN  t \in TaskType /\ t.kind = "recheck" /\ t.x = x /\ t.by = s /\ t.at = "start"
  BY <1>3, NewTask
<1>6. \A t \in new1 : t \in TaskType /\ t.kind = "touched" /\ t.by = s /\ t.at = "start"
  BY <1>2, <1>4
<1>7. \A t \in new2 : t \in TaskType /\ t.kind = "recheck" /\ t.by = s /\ t.at = "start"
  BY <1>2, <1>5
<1>8. \A x \in touched \cap hashX_subs : Task("touched", x, s) \in new1
  OBVIOUS
<1>9. changed => \A x \in hashX_subs : Task("recheck", x, s) \in new2
  OBVIOUS
<1> HIDE DEF new1, new2
<1>10. \A x \in touched \cap hashX_subs : \E t \in tasks' : t.kind = "touched" /\ t.x = x
  BY <1>1, <1>2, <1>4, <1>8
<1>11. changed => \A x \in hashX_subs : \E t \in tasks' : t.kind = "recheck" /\ t.x = x
  BY <1>1, <1>2, <1>5, <1>9
<1>12. \A t \in tasks' : t \in tasks \/ (t.by = s /\ t.at = "start" /\ t.kind # "mempool")
  BY <1>1, <1>6, <1>7
<1> QED BY <1>1, <1>2, <1>6, <1>7, <1>10, <1>11, <1>12

-----------------------------------------------------------------------------
(* The session's steps *)

\* The chain and the notifications stay as they are while the session works,
\* if it does not work for the block processor anew.
LEMMA SessionKeeps ==
    ASSUME ChainType, TreeInv, NoteInv, SessionStep,
           \A u \in tasks' : u.by = "bp" => \E t \in tasks : t.by = "bp"
    PROVE  ChainType' /\ TreeInv' /\ NoteInv'
<1> USE DEF SessionStep, chainVars, headerVars, notifyVars
<1>1. ChainType' /\ TreeInv' /\ HeightInv' /\ BlockInv'
  BY DEF NoteInv, ChainType, TreeInv, HeightInv, BlockInv, CaughtUp, Speaks, Dict
<1>2. WaitInv'
  BY DEF NoteInv, WaitInv, Speaks
<1>3. Served("bp")' => Served("bp")
  BY DEF Served
<1>4. TellInv'
  BY <1>3 DEF NoteInv, TellInv, Speaks
<1>5. TipInv'
  BY DEF NoteInv, TipInv, TipTold, CaughtUp, Speaks
<1> QED BY <1>1, <1>2, <1>4, <1>5 DEF NoteInv

\* What is known to be out of date, and of a step of the session.
LEMMA SessionSame ==
    ASSUME SessionStep
    PROVE  /\ hist' = hist /\ Lagging' = Lagging /\ Telling' = Telling /\ lost' = lost
           /\ Notes(touched_mp)' = Notes(touched_mp) /\ touched_mp' = touched_mp
           /\ \A x : Summaries(x)' = Summaries(x)
           /\ \A s : Speaks(s)' = Speaks(s)
BY DEF SessionStep, chainVars, notifyVars, Lagging, Telling, Notes, Summaries, Speaks

\* When a task goes on, begins or is replaced, the statuses stay as they are.
LEMMA TasksMove ==
    ASSUME SessionType, StatusInv, SessionStep, UNCHANGED <<hashX_subs, mempool_statuses, told>>,
           \A t \in tasks : t.x \in hashX_subs /\ t.kind \in {"touched", "recheck", "mempool"} =>
              \/ t.kind = "recheck" /\ t.x \notin DOMAIN mempool_statuses
              \/ \E u \in tasks' :
                    u.x = t.x /\ (u.kind = t.kind \/ (t.kind = "recheck" /\ u.kind = "mempool")),
           \A u \in tasks' : u.kind = "mempool" =>
              \/ \E t \in tasks : t.kind = "mempool" /\ t.x = u.x /\ t.old = u.old
              \/ u.x \in DOMAIN mempool_statuses /\ u.old = mempool_statuses[u.x]
    PROVE  StatusInv'
<1>0. /\ Lagging' = Lagging /\ Telling' = Telling /\ lost' = lost
      /\ Notes(touched_mp)' = Notes(touched_mp) /\ touched_mp' = touched_mp
      /\ \A x : Right(x)' <=> Right(x)
      /\ \A s : Speaks(s)' = Speaks(s)
  BY SessionSame DEF Right, SessionStep, chainVars
<1>1. \A x \in hashX_subs : Excused(x) => Excused(x)'
  BY <1>0 DEF Excused
<1>2. \A x \in hashX_subs : Revisited(x) => Revisited(x)'
  BY <1>0 DEF Revisited
<1>3. ASSUME NEW u \in tasks', u.kind = "mempool"
      PROVE  /\ u.old.unconfirmed # {}
             /\ u.x \in hashX_subs => u.old = told[u.x] \/ Right(u.x) \/ Excused(u.x)
  <2>1. CASE \E t \in tasks : t.kind = "mempool" /\ t.x = u.x /\ t.old = u.old
    BY <2>1 DEF StatusInv
  <2>2. CASE u.x \in DOMAIN mempool_statuses /\ u.old = mempool_statuses[u.x]
    BY <2>2 DEF StatusInv
  <2> QED BY <1>3, <2>1, <2>2
<1> QED BY <1>0, <1>1, <1>2, <1>3 DEF StatusInv

\* A status that was worked out is sent: either it is the present one, or
\* somebody will be told that the hashX was touched.
LEMMA Completed ==
    ASSUME TypeInv, StatusInv, SessionStep,
           NEW t \in TaskType, NEW history \in SUBSET Tx, Complete(t, history),
           history = History(hist, t.x) \/ t.x \in Lagging \cup Telling \cup lost,
           t \in tasks \/ t.kind = "subscribe" \/ t.kind = "history",
           tasks' \in {tasks, tasks \ {t}}
    PROVE  StatusInv'
<1> DEFINE status == [confirmed |-> history, unconfirmed |-> Summaries(t.x)]
<1>0. /\ hist' = hist /\ Lagging' = Lagging /\ Telling' = Telling /\ lost' = lost
      /\ Notes(touched_mp)' = Notes(touched_mp) /\ touched_mp' = touched_mp
      /\ \A x : Summaries(x)' = Summaries(x)
      /\ \A s : Speaks(s)' = Speaks(s)
  BY SessionSame
<1>1. /\ t.x \in HashX /\ hashX_subs \subseteq HashX /\ told \in [HashX -> StatusType]
      /\ mempool_statuses = [x \in DOMAIN mempool_statuses |-> mempool_statuses[x]]
      /\ DOMAIN mempool_statuses \subseteq HashX
  BY TaskFields DEF TypeInv, SessionType
<1> DEFINE less == Without(mempool_statuses, t.x)
           more == With(mempool_statuses, t.x, status)
<1>16. /\ DOMAIN less = DOMAIN mempool_statuses \ {t.x}
       /\ \A x \in DOMAIN less : less[x] = mempool_statuses[x]
  BY WithoutOne
<1>17. /\ DOMAIN more = DOMAIN mempool_statuses \cup {t.x} /\ more[t.x] = status
       /\ \A x \in DOMAIN mempool_statuses : x # t.x => more[x] = mempool_statuses[x]
  BY DEF With
\* Elsewhere nothing changes.
<1>2. /\ tasks' \subseteq tasks /\ \A u \in tasks : u.x # t.x => u \in tasks'
      /\ t.kind # "touched" => \A u \in tasks : u.kind = "touched" => u \in tasks'
  OBVIOUS
<1>3. /\ \A x : x # t.x => (x \in hashX_subs' <=> x \in hashX_subs)
      /\ \A x : x # t.x => (x \in DOMAIN mempool_statuses' <=> x \in DOMAIN mempool_statuses)
      /\ \A x \in DOMAIN mempool_statuses : x # t.x => mempool_statuses'[x] = mempool_statuses[x]
      /\ \A x \in HashX : x # t.x => told'[x] = told[x]
  <2>1. mempool_statuses' \in {mempool_statuses, less, more}
    BY DEF Complete
  <2>2. hashX_subs' \in {hashX_subs, hashX_subs \ {t.x}, hashX_subs \cup {t.x}}
    BY DEF Complete
  <2>3. \A x \in HashX : x # t.x => told'[x] = told[x]
    BY <1>1 DEF Complete
  <2> HIDE DEF less, more
  <2> QED BY <1>16, <1>17, <2>1, <2>2, <2>3
<1>4. ASSUME NEW x, x # t.x
      PROVE  /\ Excused(x) => Excused(x)'
             /\ Revisited(x) => Revisited(x)'
             /\ x \in HashX => (Right(x)' <=> Right(x))
  <2>1. Excused(x) => Excused(x)'
    BY <1>0, <1>2, <1>4 DEF Excused
  <2>2. Revisited(x) => Revisited(x)'
    BY <1>0, <1>2, <1>3, <1>4 DEF Revisited
  <2>3. x \in HashX => (Right(x)' <=> Right(x))
    BY <1>0, <1>3, <1>4 DEF Right
  <2> QED BY <2>1, <2>2, <2>3
<1>5. ASSUME NEW x \in hashX_subs', x # t.x
      PROVE  /\ Right(x)' \/ Excused(x)' \/ Revisited(x)'
             /\ told'[x].unconfirmed # {} => x \in DOMAIN mempool_statuses'
  BY <1>1, <1>3, <1>4, <1>5 DEF StatusInv
<1>6. ASSUME NEW x \in DOMAIN mempool_statuses', x # t.x
      PROVE  /\ mempool_statuses'[x].unconfirmed # {}
             /\ x \in hashX_subs' => mempool_statuses'[x] = told'[x] \/ Excused(x)'
  BY <1>1, <1>3, <1>4, <1>6 DEF StatusInv
<1>7. ASSUME NEW u \in tasks', u.kind = "mempool", u.x # t.x
      PROVE  /\ u.old.unconfirmed # {}
             /\ u.x \in hashX_subs' => u.old = told'[u.x] \/ Right(u.x)' \/ Excused(u.x)'
  BY <1>1, <1>2, <1>3, <1>4, <1>7 DEF StatusInv
\* What a status is, and what is known of x.
<1> DEFINE pending == t.x \in Lagging \cup Telling \cup lost
<1>8. pending => Excused(t.x)'
  BY <1>0 DEF Excused
<1>9. told'[t.x] = status => Right(t.x)' \/ Excused(t.x)'
  BY <1>0, <1>8 DEF Right
<1>10. t.kind # "touched" /\ Excused(t.x) => Excused(t.x)'
  BY <1>0, <1>2 DEF Excused
\* The four ways to go on.
<1>11. CASE UNCHANGED <<hashX_subs, mempool_statuses, told>> /\ t.kind \in {"history", "subscribe"}
  <2>1. \A u \in tasks : u.kind \in {"touched", "recheck", "mempool"} => u \in tasks'
    BY <1>11
  <2>2. tasks' \subseteq tasks
    BY <1>2
  <2> QED BY <1>11, <2>1, <2>2, TasksMove DEF TypeInv
<1>12. CASE t.x \notin hashX_subs' /\ mempool_statuses' = less
  <2> HIDE DEF less
  <2>1. t.x \notin DOMAIN mempool_statuses'
    BY <1>12, <1>16
  <2>2. \A u \in tasks' : u.kind = "mempool" => u.old.unconfirmed # {}
    BY <1>2 DEF StatusInv
  <2> QED BY <1>5, <1>6, <1>7, <1>12, <2>1, <2>2 DEF StatusInv
<1>13. CASE /\ told'[t.x] = status
            /\ mempool_statuses' = IF status.unconfirmed = {} THEN less ELSE more
  <2> HIDE DEF status, pending, less, more
  <2>1. Right(t.x)' \/ Excused(t.x)'
    BY <1>9, <1>13
  <2>2. /\ t.x \in DOMAIN mempool_statuses' <=> status.unconfirmed # {}
        /\ t.x \in DOMAIN mempool_statuses' => mempool_statuses'[t.x] = status
    BY <1>13, <1>16, <1>17
  <2>3. \A u \in tasks' : u.kind = "mempool" => u.old.unconfirmed # {}
    BY <1>2 DEF StatusInv
  <2> QED BY <1>5, <1>6, <1>7, <1>13, <2>1, <2>2, <2>3 DEF StatusInv
<1>14. CASE /\ t \in tasks /\ t.kind = "mempool" /\ t.old = status /\ told' = told /\ hashX_subs' = hashX_subs
            /\ mempool_statuses' = IF status.unconfirmed = {} THEN less ELSE more
  <2>1. /\ status.unconfirmed # {}
        /\ t.x \in hashX_subs => status = told[t.x] \/ Right(t.x) \/ Excused(t.x)
    BY <1>14 DEF StatusInv
  <2>2. Right(t.x) /\ ~ pending => told[t.x] = status
    BY DEF Right
  <2>3. t.x \in hashX_subs => told[t.x] = status \/ Excused(t.x)'
    BY <1>8, <1>10, <1>14, <2>1, <2>2
  <2> HIDE DEF status, pending, less, more
  <2>4. t.x \in DOMAIN mempool_statuses' /\ mempool_statuses'[t.x] = status
    BY <1>14, <1>17, <2>1
  <2>5. t.x \in hashX_subs => Right(t.x)' \/ Excused(t.x)'
    BY <1>9, <1>14, <2>3
  <2>6. \A u \in tasks' : u.kind = "mempool" => u.old.unconfirmed # {}
    BY <1>2 DEF StatusInv
  <2> QED BY <1>5, <1>6, <1>7, <1>14, <2>1, <2>3, <2>4, <2>5, <2>6 DEF StatusInv
<1>15. \/ UNCHANGED <<hashX_subs, mempool_statuses, told>> /\ t.kind \in {"history", "subscribe"}
       \/ t.x \notin hashX_subs' /\ mempool_statuses' = less
       \/ /\ told'[t.x] = status
          /\ mempool_statuses' = IF status.unconfirmed = {} THEN less ELSE more
       \/ /\ t \in tasks /\ t.kind = "mempool" /\ t.old = status /\ told' = told /\ hashX_subs' = hashX_subs
          /\ mempool_statuses' = IF status.unconfirmed = {} THEN less ELSE more
  <2>1. CASE t.kind = "history"
    BY <2>1 DEF Complete
  <2>2. CASE t.kind # "history" /\ Cardinality(history) >= Limit
    BY <2>2 DEF Complete
  <2>3. CASE t.kind # "history" /\ ~ Cardinality(history) >= Limit
    <3>1. /\ hashX_subs' = IF t.kind = "subscribe" THEN hashX_subs \cup {t.x} ELSE hashX_subs
          /\ mempool_statuses' = IF status.unconfirmed = {} THEN less ELSE more
          /\ told' = IF t.kind = "mempool" /\ t.old = status THEN told
                     ELSE [told EXCEPT ![t.x] = status]
      BY <2>3 DEF Complete
    <3> HIDE DEF status, less, more
    <3> QED BY <1>1, <3>1
  <2> QED BY <2>1, <2>2, <2>3
<1> QED BY <1>11, <1>12, <1>13, <1>14, <1>15

\* The variables of the session keep their types when a task goes on.
LEMMA CompleteType ==
    ASSUME TypeInv, NEW t \in TaskType, NEW history \in SUBSET Tx, Complete(t, history)
    PROVE  /\ hashX_subs' \subseteq HashX /\ told' \in [HashX -> StatusType]
           /\ mempool_statuses' = [x \in DOMAIN mempool_statuses' |-> mempool_statuses'[x]]
           /\ DOMAIN mempool_statuses' \subseteq HashX
           /\ \A x \in DOMAIN mempool_statuses' : mempool_statuses'[x] \in StatusType
<1> DEFINE status == [confirmed |-> history, unconfirmed |-> Summaries(t.x)]
           less == Without(mempool_statuses, t.x)
           more == With(mempool_statuses, t.x, status)
<1>1. /\ t.x \in HashX /\ hashX_subs \subseteq HashX /\ told \in [HashX -> StatusType]
      /\ mempool_statuses = [x \in DOMAIN mempool_statuses |-> mempool_statuses[x]]
      /\ DOMAIN mempool_statuses \subseteq HashX
      /\ \A x \in DOMAIN mempool_statuses : mempool_statuses[x] \in StatusType
      /\ pool \subseteq Tx
  BY TaskFields DEF TypeInv, SessionType, ChainType
<1>2. status \in StatusType /\ None \in StatusType
  BY <1>1, SummariesType, NoneType DEF StatusType
<1>3. /\ less = [x \in DOMAIN less |-> less[x]] /\ DOMAIN less = DOMAIN mempool_statuses \ {t.x}
      /\ \A x \in DOMAIN less : less[x] = mempool_statuses[x]
  BY WithoutOne
<1>4. /\ more = [x \in DOMAIN more |-> more[x]] /\ DOMAIN more = DOMAIN mempool_statuses \cup {t.x}
      /\ \A x \in DOMAIN more : more[x] = IF x = t.x THEN status ELSE mempool_statuses[x]
  BY DEF With
<1>5. mempool_statuses' \in {mempool_statuses, less, more}
  BY DEF Complete
<1>6. hashX_subs' \in {hashX_subs, hashX_subs \ {t.x}, hashX_subs \cup {t.x}}
  BY DEF Complete
<1>7. told' \in {told, [told EXCEPT ![t.x] = None], [told EXCEPT ![t.x] = status]}
  BY DEF Complete
<1> HIDE DEF status, less, more
<1>8. told' \in [HashX -> StatusType]
  BY <1>1, <1>2, <1>7
<1>9. hashX_subs' \subseteq HashX
  BY <1>1, <1>6
<1>10. /\ mempool_statuses' = [x \in DOMAIN mempool_statuses' |-> mempool_statuses'[x]]
       /\ DOMAIN mempool_statuses' \subseteq HashX
       /\ \A x \in DOMAIN mempool_statuses' : mempool_statuses'[x] \in StatusType
  <2>1. CASE mempool_statuses' = mempool_statuses
    BY <1>1, <2>1
  <2>2. CASE mempool_statuses' = less
    BY <1>1, <1>3, <2>2
  <2>3. CASE mempool_statuses' = more
    BY <1>1, <1>2, <1>4, <2>3
  <2> QED BY <1>5, <2>1, <2>2, <2>3
<1> QED BY <1>8, <1>9, <1>10

\* What is left to show of a step of the session.
LEMMA SessionDone ==
    ASSUME IInv, ~ failed, SessionStep, SessionType', Prompt => CacheInv' /\ StatusInv',
           \A u \in tasks' : u.by = "bp" => \E t \in tasks : t.by = "bp"
    PROVE  IInv'
<1>1. ChainType' /\ TreeInv' /\ NoteInv'
  BY SessionKeeps DEF IInv, TypeInv
<1>2. ~ failed' /\ (Prompt <=> Prompt')
  BY DEF SessionStep
<1> QED BY <1>1, <1>2 DEF IInv, TypeInv

\* What the cache and the tasks have of the DB, if only what was read gets there.
LEMMA SessionCache ==
    ASSUME CacheInv, SessionStep,
           \A x \in DOMAIN history_cache' :
              \/ x \in DOMAIN history_cache /\ history_cache'[x] = history_cache[x]
              \/ \E t \in tasks : t.at = "have" /\ t.x = x /\ t.history = history_cache'[x],
           \A u \in tasks' : u.at = "have" => u \in tasks \/ u.history = History(hist, u.x)
    PROVE  CacheInv'
<1>1. hist' = hist /\ Lagging' = Lagging /\ Telling' = Telling /\ lost' = lost
  BY SessionSame
<1>2. \A x \in DOMAIN history_cache' :
         history_cache'[x] = History(hist, x) \/ x \in Lagging \cup Telling \cup lost
  BY DEF CacheInv
<1>3. \A u \in tasks' : u.at = "have" => u.history = History(hist, u.x) \/ u.x \in Lagging \cup lost
  BY DEF CacheInv
<1> QED BY <1>1, <1>2, <1>3 DEF CacheInv

\* A lookup goes on with the history of the cache, or has to read.
LEMMA LookupStep ==
    ASSUME IInv, ~ failed, NEW t \in TaskType, NEW others \in SUBSET tasks, Lookup(t, others),
           others \in {tasks, tasks \ {t}}, t.at = "start",
           t \in tasks \/ t.kind = "subscribe" \/ t.kind = "history"
    PROVE  IInv'
<1> DEFINE reads == [t EXCEPT !.at = "read"]
<1>1. TypeInv /\ (Prompt => CacheInv /\ StatusInv) /\ SessionStep /\ history_cache' = history_cache
  BY DEF IInv, Lookup
<1>2. /\ reads \in TaskType /\ reads.at = "read" /\ reads.kind = t.kind
      /\ reads.x = t.x /\ reads.by = t.by /\ reads.old = t.old
  BY TaskMoves
<1>3. tasks \subseteq TaskType /\ others \subseteq tasks
  BY <1>1 DEF TypeInv, SessionType
<1>4. t.by = "bp" => t \in tasks
  BY TaskFields
<1>5. CASE t.x \in DOMAIN history_cache
  <2>1. tasks' = others /\ Complete(t, history_cache[t.x])
    BY <1>5 DEF Lookup
  <2>2. history_cache[t.x] \in SUBSET Tx
    BY <1>1, <1>5 DEF TypeInv, SessionType
  <2>3. SessionType'
    BY <1>1, <1>3, <2>1, <2>2, CompleteType DEF TypeInv, SessionType
  <2>4. Prompt => CacheInv'
    BY <1>1, <1>3, <2>1, SessionCache
  <2>5. Prompt => history_cache[t.x] = History(hist, t.x) \/ t.x \in Lagging \cup Telling \cup lost
    BY <1>1, <1>5 DEF CacheInv
  <2>6. Prompt => StatusInv'
    BY <1>1, <2>1, <2>2, <2>5, Completed
  <2> QED BY <1>1, <1>3, <2>1, <2>3, <2>4, <2>6, SessionDone
<1>6. CASE t.x \notin DOMAIN history_cache
  <2>1. tasks' = others \cup {reads} /\ UNCHANGED <<hashX_subs, mempool_statuses, told>>
    BY <1>6 DEF Lookup
  <2> HIDE DEF reads
  <2>2. SessionType'
    BY <1>1, <1>2, <1>3, <2>1 DEF TypeInv, SessionType
  <2>3. Prompt => CacheInv'
    <3>1. \A u \in tasks' : u.at = "have" => u \in tasks
      BY <1>2, <1>3, <2>1
    <3> QED BY <1>1, <3>1, SessionCache
  <2>4. Prompt => StatusInv'
    <3>1. \A u \in tasks : \E v \in tasks' : v.x = u.x /\ v.kind = u.kind
      BY <1>2, <2>1
    <3>2. \A v \in tasks' : v.kind = "mempool" =>
             \E u \in tasks : u.kind = "mempool" /\ u.x = v.x /\ u.old = v.old
      BY <1>2, <1>3, <2>1
    <3> QED BY <1>1, <2>1, <3>1, <3>2, TasksMove DEF TypeInv
  <2>5. \A u \in tasks' : u.by = "bp" => \E v \in tasks : v.by = "bp"
    BY <1>2, <1>3, <1>4, <2>1
  <2> QED BY <1>1, <2>2, <2>3, <2>4, <2>5, SessionDone
<1> QED BY <1>5, <1>6

\* A client asks for a history or subscribes.
LEMMA RequestStep ==
    ASSUME IInv, ~ failed, NEW kind \in {"history", "subscribe"}, NEW x \in Wanted, Request(kind, x)
    PROVE  IInv'
<1>1. /\ Task(kind, x, "client") \in TaskType /\ Task(kind, x, "client").kind = kind
      /\ Task(kind, x, "client").at = "start"
  BY NewTask, SessionsAssumption
<1>2. Lookup(Task(kind, x, "client"), tasks)
  BY DEF Request
<1> QED BY <1>1, <1>2, LookupStep

\* A task begins.
LEMMA StartStep ==
    ASSUME IInv, ~ failed, NEW t \in tasks, Start(t)
    PROVE  IInv'
<1>1. t \in TaskType /\ t.at = "start" /\ Lookup(t, tasks \ {t})
  BY DEF IInv, TypeInv, SessionType, Start
<1> QED BY <1>1, LookupStep

\* A thread reads a history.
LEMMA ReadStep ==
    ASSUME IInv, ~ failed, NEW t \in tasks, Read(t)
    PROVE  IInv'
<1> DEFINE has == [t EXCEPT !.at = "have", !.history = History(hist, t.x)]
<1>1. TypeInv /\ (Prompt => CacheInv /\ StatusInv) /\ SessionStep /\ history_cache' = history_cache
  BY DEF IInv, Read
<1>2. tasks' = (tasks \ {t}) \cup {has} /\ UNCHANGED <<hashX_subs, mempool_statuses, told>>
  BY DEF Read
<1>3. tasks \subseteq TaskType /\ t \in TaskType /\ hist \in Block
  BY <1>1 DEF TypeInv, SessionType, ChainType
<1>4. History(hist, t.x) \in SUBSET Tx
  BY <1>3, HistoryType, TaskFields
<1>5. /\ has \in TaskType /\ has.at = "have" /\ has.history = History(hist, t.x)
      /\ has.kind = t.kind /\ has.x = t.x /\ has.by = t.by /\ has.old = t.old
  BY <1>3, <1>4, TaskMoves
<1> HIDE DEF has
<1>6. SessionType'
  BY <1>1, <1>2, <1>3, <1>5 DEF TypeInv, SessionType
<1>7. Prompt => CacheInv'
  <2>1. \A u \in tasks' : u.at = "have" => u \in tasks \/ u.history = History(hist, u.x)
    BY <1>2, <1>5
  <2> QED BY <1>1, <2>1, SessionCache
<1>8. Prompt => StatusInv'
  <2>1. \A u \in tasks : \E v \in tasks' : v.x = u.x /\ v.kind = u.kind
    BY <1>2, <1>5
  <2>2. \A v \in tasks' : v.kind = "mempool" =>
           \E u \in tasks : u.kind = "mempool" /\ u.x = v.x /\ u.old = v.old
    BY <1>2, <1>5
  <2> QED BY <1>1, <1>2, <2>1, <2>2, TasksMove DEF TypeInv
<1>9. \A u \in tasks' : u.by = "bp" => \E v \in tasks : v.by = "bp"
  BY <1>2, <1>5
<1> QED BY <1>1, <1>6, <1>7, <1>8, <1>9, SessionDone

\* A task goes on with what it has read, and fills the cache.
LEMMA FinishStep ==
    ASSUME IInv, ~ failed, NEW t \in tasks, Finish(t)
    PROVE  IInv'
<1> DEFINE filled == With(history_cache, t.x, t.history)
<1>1. /\ TypeInv /\ (Prompt => CacheInv /\ StatusInv) /\ SessionStep
      /\ t.at = "have" /\ tasks' = tasks \ {t} /\ Complete(t, t.history)
  BY DEF IInv, Finish
<1>2. /\ tasks \subseteq TaskType /\ t \in TaskType /\ t.x \in HashX /\ t.history \in SUBSET Tx
      /\ history_cache = [x \in DOMAIN history_cache |-> history_cache[x]]
      /\ DOMAIN history_cache \subseteq HashX
      /\ \A x \in DOMAIN history_cache : history_cache[x] \subseteq Tx
  BY <1>1, TaskFields DEF TypeInv, SessionType
<1>3. history_cache' \in {filled} \cup {Without(filled, y) : y \in DOMAIN history_cache \ {t.x}}
  BY DEF Finish
<1>4. /\ filled = [x \in DOMAIN filled |-> filled[x]]
      /\ DOMAIN filled = DOMAIN history_cache \cup {t.x}
      /\ \A x \in DOMAIN filled : filled[x] = IF x = t.x THEN t.history ELSE history_cache[x]
  BY DEF With
<1> HIDE DEF filled
<1>5. /\ history_cache' = [x \in DOMAIN history_cache' |-> history_cache'[x]]
      /\ DOMAIN history_cache' \subseteq DOMAIN filled
      /\ \A x \in DOMAIN history_cache' : history_cache'[x] = filled[x]
  <2>1. CASE history_cache' = filled
    BY <1>4, <2>1
  <2>2. ASSUME NEW y, history_cache' = Without(filled, y)
        PROVE  <1>5!1 /\ <1>5!2 /\ <1>5!3
    <3>1. /\ Without(filled, y) = [x \in DOMAIN Without(filled, y) |-> Without(filled, y)[x]]
          /\ DOMAIN Without(filled, y) = DOMAIN filled \ {y}
          /\ \A x \in DOMAIN Without(filled, y) : Without(filled, y)[x] = filled[x]
      BY WithoutOne
    <3> QED BY <2>2, <3>1
  <2> QED BY <1>3, <2>1, <2>2
<1>6. SessionType'
  <2>1. \A x \in DOMAIN history_cache' : x \in HashX /\ history_cache'[x] \subseteq Tx
    BY <1>2, <1>4, <1>5
  <2> QED BY <1>1, <1>2, <1>5, <2>1, CompleteType DEF SessionType
<1>7. Prompt => CacheInv'
  <2>1. \A x \in DOMAIN history_cache' :
           \/ x \in DOMAIN history_cache /\ history_cache'[x] = history_cache[x]
           \/ t.at = "have" /\ t.x = x /\ t.history = history_cache'[x]
    BY <1>1, <1>4, <1>5
  <2> QED BY <1>1, <2>1, SessionCache
<1>8. Prompt => t.history = History(hist, t.x) \/ t.x \in Lagging \cup Telling \cup lost
  BY <1>1 DEF CacheInv
<1>9. Prompt => StatusInv'
  BY <1>1, <1>2, <1>8, Completed
<1> QED BY <1>1, <1>6, <1>7, <1>9, SessionDone

\* Statuses that have a mempool part are looked at again.
LEMMA LookAgainStep ==
    ASSUME IInv, ~ failed, NEW t \in tasks, LookAgain(t)
    PROVE  IInv'
<1> DEFINE again == [Task("mempool", t.x, t.by) EXCEPT !.old = mempool_statuses[t.x]]
<1>1. /\ TypeInv /\ (Prompt => CacheInv /\ StatusInv) /\ SessionStep /\ history_cache' = history_cache
      /\ t.kind = "recheck" /\ UNCHANGED <<hashX_subs, mempool_statuses, told>>
  BY DEF IInv, LookAgain
<1>2. tasks' = (tasks \ {t}) \cup (IF t.x \in DOMAIN mempool_statuses /\ t.x \in hashX_subs THEN {again} ELSE {})
  BY DEF LookAgain, Recheck
<1>3. tasks \subseteq TaskType /\ t \in TaskType /\ t.x \in HashX /\ t.by \in {"bp", "mp"}
  BY <1>1, TaskFields DEF TypeInv, SessionType
<1>4. Task("mempool", t.x, t.by) \in TaskType /\ LET u == Task("mempool", t.x, t.by) IN
         u.kind = "mempool" /\ u.x = t.x /\ u.by = t.by /\ u.at = "start"
  BY <1>3, NewTask
<1>5. t.x \in DOMAIN mempool_statuses =>
         /\ again \in TaskType /\ again.kind = "mempool" /\ again.x = t.x /\ again.by = t.by
         /\ again.at = "start" /\ again.old = mempool_statuses[t.x]
  <2>1. t.x \in DOMAIN mempool_statuses => mempool_statuses[t.x] \in StatusType
    BY <1>1 DEF TypeInv, SessionType
  <2> HIDE DEF Task
  <2> QED BY <1>4, <2>1 DEF TaskType
<1> HIDE DEF again
<1>6. SessionType'
  BY <1>1, <1>2, <1>3, <1>5 DEF TypeInv, SessionType
<1>7. Prompt => CacheInv'
  <2>1. \A u \in tasks' : u.at = "have" => u \in tasks
    BY <1>2, <1>5
  <2> QED BY <1>1, <2>1, SessionCache
<1>8. Prompt => StatusInv'
  <2>1. \A u \in tasks : u.x \in hashX_subs =>
           \/ u.kind = "recheck" /\ u.x \notin DOMAIN mempool_statuses
           \/ \E v \in tasks' : v.x = u.x /\ (v.kind = u.kind \/ (u.kind = "recheck" /\ v.kind = "mempool"))
    BY <1>1, <1>2, <1>5
  <2>2. \A v \in tasks' : v.kind = "mempool" =>
           \/ \E u \in tasks : u.kind = "mempool" /\ u.x = v.x /\ u.old = v.old
           \/ v.x \in DOMAIN mempool_statuses /\ v.old = mempool_statuses[v.x]
    BY <1>2, <1>5
  <2> QED BY <1>1, <2>1, <2>2, TasksMove DEF TypeInv
<1>9. \A u \in tasks' : u.by = "bp" => \E v \in tasks : v.by = "bp"
  BY <1>2, <1>5
<1> QED BY <1>1, <1>6, <1>7, <1>8, <1>9, SessionDone

\* A client no longer wants to know.
LEMMA UnsubscribeStep ==
    ASSUME IInv, ~ failed, NEW x \in Wanted, Unsubscribe(x)
    PROVE  IInv'
<1> DEFINE less == Without(mempool_statuses, x)
<1>1. /\ TypeInv /\ (Prompt => CacheInv /\ StatusInv) /\ SessionStep
      /\ hashX_subs' = hashX_subs \ {x} /\ mempool_statuses' = less
      /\ told' = [told EXCEPT ![x] = None] /\ tasks' = tasks /\ history_cache' = history_cache
  BY DEF IInv, Unsubscribe
<1>2. /\ less = [y \in DOMAIN less |-> less[y]] /\ DOMAIN less = DOMAIN mempool_statuses \ {x}
      /\ \A y \in DOMAIN less : less[y] = mempool_statuses[y]
  BY WithoutOne
<1> HIDE DEF less
<1>3. SessionType'
  BY <1>1, <1>2, NoneType DEF TypeInv, SessionType
<1>4. Prompt => CacheInv'
  BY <1>1, SessionCache
<1>5. Prompt => StatusInv'
  <2> SUFFICES ASSUME Prompt PROVE StatusInv'
    OBVIOUS
  <2>1. /\ hist' = hist /\ Lagging' = Lagging /\ Telling' = Telling /\ lost' = lost
        /\ Notes(touched_mp)' = Notes(touched_mp) /\ touched_mp' = touched_mp
        /\ \A y : Summaries(y)' = Summaries(y)
        /\ \A s : Speaks(s)' = Speaks(s)
    BY <1>1, SessionSame
  <2>2. hashX_subs \subseteq HashX /\ told \in [HashX -> StatusType]
    BY <1>1 DEF TypeInv, SessionType
  <2>3. ASSUME NEW y \in hashX_subs'
        PROVE  /\ y \in hashX_subs /\ told'[y] = told[y]
               /\ (Right(y)' <=> Right(y)) /\ (Excused(y)' <=> Excused(y)) /\ (Revisited(y)' <=> Revisited(y))
    <3>1. y \in hashX_subs /\ told'[y] = told[y] /\ y # x
      BY <1>1, <2>2
    <3>2. Right(y)' <=> Right(y)
      BY <2>1, <3>1 DEF Right
    <3>3. Excused(y)' <=> Excused(y)
      BY <1>1, <2>1 DEF Excused
    <3>4. Revisited(y)' <=> Revisited(y)
      BY <1>1, <1>2, <2>1, <3>1 DEF Revisited
    <3> QED BY <3>1, <3>2, <3>3, <3>4
  <2> QED BY <1>1, <1>2, <2>3 DEF StatusInv
<1> QED BY <1>1, <1>3, <1>4, <1>5, SessionDone

-----------------------------------------------------------------------------
(* The chain's steps *)

\* Every chain begins with genesis.
LEMMA GenesisBelow ==
    ASSUME NEW b \in Block
    PROVE  OnChain(Genesis, b) /\ Height(Genesis) = 0
<1>1. Genesis \in Block /\ Prev[Genesis] = NoTip
  BY TxChainAssumption
<1>2. Height(Genesis) = 0
  BY <1>1, PrevHeight, NoTipHeight
<1>3. /\ Height(b) \in Nat
      /\ ChainOf[b][1] \in Block /\ Height(ChainOf[b][1]) = 0
  BY HeightNat, ChainFacts DEF Branch
<1>4. Prev[ChainOf[b][1]] \in Branch /\ Height(Prev[ChainOf[b][1]]) = -1
  <2>1. Height(Prev[ChainOf[b][1]]) \in Int /\ Prev[ChainOf[b][1]] \in Branch
    BY <1>3, PrevHeight, ChainFacts
  <2> QED BY <1>3, <2>1, PrevHeight
<1>5. Prev[ChainOf[b][1]] = NoTip
  BY <1>4, ChainFacts DEF Branch
<1>6. ChainOf[b][1] = Genesis
  BY <1>3, <1>5, TxChainAssumption
<1> QED BY <1>1, <1>2, <1>3, <1>6, OnChainIs

\* Where the DB is.
LEMMA WhereDB ==
    ASSUME ChainType, TreeInv
    PROVE  /\ daemon \in Block /\ hist \in Block /\ db \in Block
           /\ Height(daemon) \in Nat /\ Height(hist) \in Nat /\ Height(db) \in Nat
           /\ Height(db) <= Height(daemon)
           /\ Height(db) = Height(daemon) => db = daemon
           /\ bp = "flushing" => Height(db) < Height(hist) /\ Height(hist) <= Height(daemon)
           /\ bp = "backing" => Height(hist) < Height(db) /\ Height(db) < Height(daemon)
<1>1. daemon \in Block /\ hist \in Block /\ db \in Block
  BY DEF ChainType
<1>2. Height(daemon) \in Nat /\ Height(hist) \in Nat /\ Height(db) \in Nat
  BY <1>1, HeightNat
<1>3. Height(db) <= Height(daemon) /\ (Height(db) = Height(daemon) => db = daemon)
  BY <1>1, <1>2, AloneAtHeight DEF TreeInv
<1>4. bp = "flushing" => Height(db) < Height(hist) /\ Height(hist) <= Height(daemon)
  BY <1>1, <1>2, AloneAtHeight DEF TreeInv
<1>5. bp = "backing" => Height(hist) < Height(db) /\ Height(db) < Height(daemon)
  BY <1>1, <1>2, ConfirmedStep DEF TreeInv
<1> QED BY <1>1, <1>2, <1>3, <1>4, <1>5

\* While the block processor flushes or backs up, or is elsewhere than the
\* daemon, nobody was told of the daemon's height, nor noted a block there.
LEMMA NotCaughtUp ==
    ASSUME NoteInv, ~ CaughtUp
    PROVE  /\ ~ TipTold /\ highest_block # Height(daemon) /\ Height(daemon) \notin DOMAIN touched_bp
           /\ bp # "flushed" => DOMAIN touched_mp = {}
           /\ bp # "idle" => ~ Speaks("bp") /\ ~ Served("bp")
BY DEF NoteInv, BlockInv, TipInv, WaitInv, TellInv

\* The sessions learn nothing new when the DB moves, if what the two histories
\* differ in is noted.
LEMMA DbMoves ==
    ASSUME CacheInv, StatusInv,
           UNCHANGED <<pool, telling, sessionVars, notifyVars>>, bp_touched \subseteq bp_touched',
           \A x : x \notin bp_touched' => History(hist, x)' = History(hist, x)
    PROVE  CacheInv' /\ StatusInv'
<1> USE DEF sessionVars, notifyVars
<1>1. /\ Lagging \subseteq Lagging' /\ bp_touched' \subseteq Lagging' /\ Telling' = Telling /\ lost' = lost
      /\ Notes(touched_mp)' = Notes(touched_mp)
      /\ \A x : Summaries(x)' = Summaries(x)
  BY DEF Lagging, Telling, Notes, Summaries
<1>2. \A x : x \notin Lagging' => History(hist, x)' = History(hist, x)
  BY <1>1
<1>3. \A x : Excused(x) => Excused(x)'
  BY <1>1 DEF Excused
<1>4. \A x : Right(x) => Right(x)' \/ Excused(x)'
  BY <1>1, <1>2 DEF Right, Excused
<1>5. \A x : Revisited(x) => Revisited(x)'
  BY DEF Revisited, Speaks
<1>6. CacheInv'
  BY <1>1, <1>2 DEF CacheInv
<1>7. StatusInv'
  BY <1>3, <1>4, <1>5 DEF StatusInv
<1> QED BY <1>6, <1>7

\* The daemon has a higher tip.
LEMMA NewTipStep ==
    ASSUME IInv, ~ failed, NEW b \in Block, NewTip(b)
    PROVE  IInv'
<1>1. TypeInv /\ ChainType /\ TreeInv /\ NoteInv /\ (Prompt => CacheInv /\ StatusInv)
  BY DEF IInv, TypeInv
<1> USE DEF NewTip, headerVars, sessionVars, notifyVars
<1>2. /\ Height(b) \in Nat /\ Height(daemon) < Height(b) /\ daemon' = b
      /\ Height(daemon)' = Height(b) /\ Height(db)' = Height(db) /\ Height(hist)' = Height(hist)
  BY HeightNat
<1>3. /\ Height(daemon) \in Nat /\ Height(hist) \in Nat /\ Height(db) \in Nat
      /\ Height(db) < Height(b) /\ (bp = "flushing" => Height(hist) < Height(b))
  BY <1>1, <1>2, WhereDB
<1>4. TypeInv'
  BY <1>1 DEF TypeInv, ChainType, SessionType, Dict
<1>5. TreeInv'
  BY <1>1, <1>2, <1>3 DEF TreeInv, OnChain
<1>6. HeightInv'
  BY <1>1, <1>2, <1>3 DEF NoteInv, HeightInv, Speaks, ChainType, Dict, Notifier
<1>7. /\ highest_block # Height(b) /\ Height(b) \notin DOMAIN touched_bp /\ notified_height # Height(b)
      /\ \A s \in Notifier : Speaks(s) => telling[s].header # Height(b)
  BY <1>1, <1>2, <1>3 DEF NoteInv, HeightInv, ChainType
<1>8. BlockInv'
  BY <1>2, <1>3, <1>7 DEF BlockInv
<1>9. WaitInv' /\ TellInv'
  BY <1>1, <1>2, <1>3 DEF NoteInv, WaitInv, TellInv, Speaks, Served
<1>10. ~ TipTold'
  BY <1>2, <1>7 DEF TipTold, Speaks
<1>11. TipInv'
  BY <1>2, <1>3, <1>7, <1>10 DEF TipInv
<1>12. Prompt => CacheInv' /\ StatusInv'
  <2>1. \A x : History(hist, x)' = History(hist, x)
    BY DEF History
  <2>2. UNCHANGED <<pool, telling, sessionVars, notifyVars>> /\ bp_touched' = bp_touched
    OBVIOUS
  <2> QED BY <1>1, <2>1, <2>2, DbMoves
<1> QED BY <1>1, <1>4, <1>5, <1>6, <1>8, <1>9, <1>11, <1>12 DEF IInv, NoteInv

\* What is left to show of a step of the block processor that moves the DB.
LEMMA DbSteps ==
    ASSUME IInv, ~ failed, BpStep, TreeInv',
           {hist, db}' \subseteq Block, bp' \in {"idle", "flushing", "flushed", "backing"},
           bp_touched \subseteq bp_touched', bp_touched' \subseteq HashX,
           \A x : x \notin bp_touched' => History(hist, x)' = History(hist, x),
           ~ CaughtUp, bp # "flushed",
           ~ Speaks("bp"), ~ Served("bp"),
           bp' = "idle" => Height(db)' # Height(daemon)
    PROVE  IInv'
<1>1. TypeInv /\ ChainType /\ TreeInv /\ NoteInv /\ (Prompt => CacheInv /\ StatusInv)
  BY DEF IInv, TypeInv
<1> USE DEF BpStep, headerVars, sessionVars, notifyVars
<1>2. Height(daemon)' = Height(daemon)
  OBVIOUS
<1>3. /\ ~ TipTold /\ highest_block # Height(daemon) /\ Height(daemon) \notin DOMAIN touched_bp
      /\ DOMAIN touched_mp = {}
  BY <1>1, NotCaughtUp
<1>4. TypeInv'
  BY <1>1 DEF TypeInv, ChainType, SessionType, Dict
<1>5. HeightInv'
  BY <1>1 DEF NoteInv, HeightInv, Speaks
<1>6. BlockInv'
  BY <1>2, <1>3 DEF BlockInv
<1>7. WaitInv'
  BY <1>3 DEF WaitInv
<1>8. ~ Speaks("bp")' /\ ~ Served("bp")'
  BY DEF Speaks, Served
<1>9. TellInv'
  BY <1>8 DEF TellInv
<1>10. ~ TipTold' /\ notified_height' # Height(daemon)'
  BY <1>3 DEF TipTold, Speaks
<1>11. bp' = "idle" => db' # daemon'
  OBVIOUS
<1>12. TipInv'
  BY <1>10, <1>11 DEF TipInv
<1>13. Prompt => CacheInv' /\ StatusInv'
  BY <1>1, DbMoves
<1> QED BY <1>1, <1>4, <1>5, <1>6, <1>7, <1>9, <1>12, <1>13 DEF IInv, NoteInv

\* A batch of blocks is advanced and its history flushed.
LEMMA FlushHistoryStep ==
    ASSUME IInv, ~ failed, NEW b \in Block, FlushHistory(b)
    PROVE  IInv'
<1>1. ChainType /\ TreeInv /\ NoteInv /\ hist = db
  BY DEF IInv, TypeInv, TreeInv, FlushHistory
<1>2. /\ bp = "idle" /\ ~ Speaks("bp") /\ ~ Served("bp")
      /\ OnChain(db, b) /\ b # db /\ OnChain(b, daemon)
      /\ hist' = b /\ db' = db /\ daemon' = daemon /\ bp' = "flushing" /\ BpStep
      /\ bp_touched' = bp_touched \cup Touched(Confirmed[b] \ Confirmed[db])
  BY DEF FlushHistory, Free, Speaks, Served, BpStep
<1>3. daemon \in Block /\ db \in Block /\ Height(daemon) \in Nat /\ Height(b) \in Nat /\ Height(db) \in Nat
  BY <1>1, WhereDB, HeightNat
<1>4. Height(db) < Height(b) /\ Height(b) <= Height(daemon) /\ OnChain(db, daemon)
  BY <1>2, <1>3, AloneAtHeight, OnChainTrans
<1>5. ~ CaughtUp
  BY <1>3, <1>4 DEF CaughtUp
<1>6. TreeInv'
  BY <1>2, <1>4 DEF TreeInv, OnChain
<1>7. Confirmed[db] \subseteq Confirmed[b] /\ Confirmed[b] \in SUBSET Tx
  BY <1>2, <1>3, ConfirmedGrows, HistoryType
<1>8. Touched(Confirmed[b] \ Confirmed[db]) \in SUBSET HashX
  BY <1>7, TouchedIn
<1>9. \A x : x \notin bp_touched' => History(hist, x)' = History(hist, x)
  <2>1. \A x : x \notin Touched(Confirmed[b] \ Confirmed[db]) => History(b, x) = History(db, x)
    BY <1>3, <1>7, HistorySame
  <2>2. \A x : History(hist, x)' = History(b, x)
    BY <1>2 DEF History
  <2> QED BY <1>1, <1>2, <2>1, <2>2
<1>10. bp_touched' \subseteq HashX
  BY <1>1, <1>2, <1>8 DEF ChainType
<1> QED BY <1>2, <1>3, <1>5, <1>6, <1>9, <1>10, DbSteps

\* Then db_height is set.
LEMMA FlushStateStep ==
    ASSUME IInv, ~ failed, FlushState
    PROVE  IInv'
<1>1. ChainType /\ TreeInv /\ NoteInv
  BY DEF IInv, TypeInv
<1>2. /\ bp = "flushing" /\ bp' = "flushed" /\ db' = hist /\ hist' = hist /\ daemon' = daemon
      /\ bp_touched' = bp_touched /\ BpStep
  BY DEF FlushState, BpStep
<1>3. ~ CaughtUp /\ ~ Speaks("bp") /\ ~ Served("bp")
  BY <1>1, <1>2, NotCaughtUp DEF CaughtUp
<1>4. TreeInv'
  BY <1>1, <1>2 DEF TreeInv, OnChain
<1>5. \A x : History(hist, x)' = History(hist, x)
  BY <1>2 DEF History
<1> QED BY <1>1, <1>2, <1>3, <1>4, <1>5, DbSteps DEF ChainType

\* A block is backed up, its history first.
LEMMA BackupHistoryStep ==
    ASSUME IInv, ~ failed, BackupHistory
    PROVE  IInv'
<1>1. ChainType /\ TreeInv /\ NoteInv /\ hist = db
  BY DEF IInv, TypeInv, TreeInv, BackupHistory
<1>2. /\ bp = "idle" /\ ~ Speaks("bp") /\ ~ Served("bp") /\ ~ OnChain(db, daemon)
      /\ hist' = Prev[db] /\ db' = db /\ daemon' = daemon /\ bp' = "backing" /\ BpStep
      /\ bp_touched' = bp_touched \cup Touched(Txs[db])
  BY DEF BackupHistory, Free, Speaks, Served, BpStep
<1>3. daemon \in Block /\ db \in Block
  BY <1>1, WhereDB
<1>4. db # Genesis /\ Height(db) < Height(daemon)
  BY <1>1, <1>2, <1>3, GenesisBelow DEF TreeInv
<1>5. Prev[db] \in Block /\ Confirmed[db] = Txs[db] \cup Confirmed[Prev[db]]
  BY <1>3, <1>4, ConfirmedStep
<1>6. ~ CaughtUp
  BY <1>2, <1>3, OnChainSelf DEF CaughtUp
<1>7. TreeInv'
  BY <1>2, <1>4 DEF TreeInv, OnChain
<1>8. Touched(Txs[db]) \in SUBSET HashX
  BY <1>3, TxChainAssumption, TouchedIn
<1>9. \A x : x \notin bp_touched' => History(hist, x)' = History(hist, x)
  <2>1. \A x : x \notin Touched(Txs[db]) => History(Prev[db], x) = History(db, x)
    BY <1>3, <1>5, HistorySame
  <2>2. \A x : History(hist, x)' = History(Prev[db], x)
    BY <1>2 DEF History
  <2> QED BY <1>1, <1>2, <2>1, <2>2
<1>10. bp_touched' \subseteq HashX
  BY <1>1, <1>2, <1>8 DEF ChainType
<1> QED BY <1>2, <1>3, <1>5, <1>6, <1>7, <1>9, <1>10, DbSteps

LEMMA BackupStateStep ==
    ASSUME IInv, ~ failed, BackupState
    PROVE  IInv'
<1>1. ChainType /\ TreeInv /\ NoteInv
  BY DEF IInv, TypeInv
<1>2. /\ bp = "backing" /\ bp' = "idle" /\ db' = hist /\ hist' = hist /\ daemon' = daemon
      /\ bp_touched' = bp_touched /\ BpStep
  BY DEF BackupState, BpStep
<1>3. ~ CaughtUp /\ ~ Speaks("bp") /\ ~ Served("bp")
  BY <1>1, <1>2, NotCaughtUp DEF CaughtUp
<1>4. /\ Height(db)' = Height(hist) /\ Height(daemon)' = Height(daemon)
      /\ Height(hist) < Height(daemon) /\ Height(db)' # Height(daemon)
  BY <1>1, <1>2, WhereDB
<1>5. TreeInv'
  BY <1>2, <1>4 DEF TreeInv
<1>6. \A x : History(hist, x)' = History(hist, x)
  BY <1>2 DEF History
<1> QED BY <1>1, <1>2, <1>3, <1>4, <1>5, <1>6, DbSteps DEF ChainType

-----------------------------------------------------------------------------
(* Telling the sessions *)

\* Nobody who is silent has anything in hand.
LEMMA SilentHas ==
    \A s : ~ Speaks(s) => telling[s].touched = {}
BY DEF Speaks, Silent

\* What is told of a height to the sessions who have a header of another one.
LEMMA SpeaksAnew ==
    ASSUME ChainType, NEW s \in Notifier, ~ Speaks(s), NEW h \in Nat, h = Height(db), NEW touched \in SUBSET HashX,
           h # notified_height, TellFrom(s, {[height |-> h, touched |-> touched]})
    PROVE  /\ tasks' = tasks
           /\ telling' = [telling EXCEPT ![s] = [height |-> h, header |-> h, touched |-> touched]]
           /\ telling' \in [Notifier -> [height : Int, header : Int, touched : SUBSET HashX]]
           /\ telling'[s].height = h /\ telling'[s].header = h /\ telling'[s].touched = touched
           /\ Speaks(s)' /\ \A r \in Notifier \ {s} : telling'[r] = telling[r]
           /\ Telling \subseteq Telling' /\ touched \subseteq Telling'
<1> DEFINE n == [height |-> h, touched |-> touched]
           tells == [height |-> h, header |-> h, touched |-> touched]
<1>1. tasks' = tasks /\ telling' = [telling EXCEPT ![s] =
         [height |-> h, header |-> Min({h, Height(db)}), touched |-> touched]]
  <2>1. n.height = h /\ n.touched = touched /\ TellFrom(s, {n})
    OBVIOUS
  <2> HIDE DEF n
  <2>2. {n} # {} /\ n.height # notified_height
    BY <2>1
  <2> QED BY <2>1, <2>2 DEF TellFrom
<1>2. Min({h, Height(db)}) = h
  BY MinOfTwo
<1>3. telling' = [telling EXCEPT ![s] = tells]
  BY <1>1, <1>2
<1>4. tells \in [height : Int, header : Int, touched : SUBSET HashX] /\ tells.header = h /\ tells.height = h
      /\ tells.touched = touched /\ tells # Silent
  BY DEF Silent
<1> HIDE DEF tells
<1>5. telling \in [Notifier -> [height : Int, header : Int, touched : SUBSET HashX]]
  BY DEF ChainType
<1>6. /\ telling' \in [Notifier -> [height : Int, header : Int, touched : SUBSET HashX]]
      /\ telling'[s] = tells /\ \A r \in Notifier \ {s} : telling'[r] = telling[r]
  BY <1>3, <1>4, <1>5
<1>7. telling[s].touched = {}
  BY SilentHas
<1>8. Telling \subseteq Telling' /\ touched \subseteq Telling'
  BY <1>4, <1>6, <1>7 DEF Telling, Notifier
<1> QED BY <1>1, <1>3, <1>4, <1>6, <1>8 DEF Speaks, tells

\* The cache and the statuses, when notes are passed on and none is forgotten.
LEMMA NotesMove ==
    ASSUME CacheInv, StatusInv, Deliver, Prompt,
           UNCHANGED <<hist, pool, history_cache, tasks>>,
           \A x \in Lagging : x \in Lagging' \/ x \in Telling' \/ x \in lost',
           Notes(touched_mp) \subseteq (Notes(touched_mp)' \cup Telling' \cup lost'),
           Telling \subseteq Telling', lost \subseteq lost',
           (\E s \in Notifier : Speaks(s)) => (\E s \in Notifier : Speaks(s)'),
           DOMAIN touched_mp # {} => DOMAIN touched_mp' # {} \/ \E s \in Notifier : Speaks(s)'
    PROVE  CacheInv' /\ StatusInv'
<1>1. /\ \A x : Summaries(x)' = Summaries(x)
      /\ \A x : History(hist, x)' = History(hist, x)
      /\ UNCHANGED <<hashX_subs, mempool_statuses, told>>
  BY DEF Summaries, History, Deliver
<1>2. \A x : Excused(x) => Excused(x)'
  BY DEF Excused
<1>3. \A x : Right(x) => Right(x)'
  BY <1>1 DEF Right
<1>4. \A x : Revisited(x) => Revisited(x)'
  BY <1>1 DEF Revisited
<1>5. CacheInv'
  BY <1>1 DEF CacheInv, Deliver
<1>6. StatusInv'
  BY <1>1, <1>2, <1>3, <1>4 DEF StatusInv
<1> QED BY <1>5, <1>6

\* The block processor tells of the block that was flushed.
LEMMA NotifyBlockStep ==
    ASSUME IInv, ~ failed, NotifyBlock
    PROVE  IInv'
<1> DEFINE h == Height(db)
<1>1. TypeInv /\ ChainType /\ TreeInv /\ NoteInv /\ (Prompt => CacheInv /\ StatusInv)
  BY DEF IInv, TypeInv
<1>2. /\ bp = "flushed" /\ bp' = "idle" /\ bp_touched' = {} /\ Deliver
      /\ OnBlock(bp_touched, h) /\ TellFrom("bp", BlockNotices(bp_touched, h))
      /\ UNCHANGED <<daemon, hist, db, pool, history_cache, failed, headerVars>>
      /\ UNCHANGED <<hashX_subs, mempool_statuses, told>>
  BY DEF NotifyBlock, Deliver
<1>3. /\ h \in Nat /\ Height(daemon) \in Nat /\ h <= Height(daemon) /\ (h = Height(daemon) => db = daemon)
      /\ Height(daemon)' = Height(daemon) /\ Height(db)' = h
  BY <1>1, <1>2, WhereDB
<1>4. ~ CaughtUp
  BY <1>2 DEF CaughtUp
<1>5. /\ ~ TipTold /\ highest_block # Height(daemon) /\ Height(daemon) \notin DOMAIN touched_bp
      /\ ~ Speaks("bp") /\ ~ Served("bp")
  BY <1>1, <1>2, <1>4, NotCaughtUp
<1>6. /\ bp_touched \in SUBSET HashX /\ Dict(touched_mp) /\ Dict(touched_bp) /\ DOMAIN touched_mp \subseteq {h}
      /\ DOMAIN touched_mp # {} => \A k \in DOMAIN touched_bp : k <= h
  BY <1>1 DEF ChainType, NoteInv, WaitInv
<1> HIDE DEF h
<1>7. /\ highest_block' = h /\ Dict(touched_mp') /\ Dict(touched_bp')
      /\ lost' = lost \cup Overwritten(touched_bp, h, bp_touched)
  BY <1>2, <1>3, <1>6, OnBlockNotes
<1>8. lost' \subseteq HashX
  <2>1. Overwritten(touched_bp, h, bp_touched) \subseteq HashX
    BY <1>6 DEF Overwritten, Dict
  <2> QED BY <1>1, <1>7, <2>1 DEF ChainType
<1>9. TreeInv'
  BY <1>1, <1>2 DEF TreeInv, OnChain
<1>10. db = daemon => CaughtUp'
  BY <1>2 DEF CaughtUp
<1>11. CASE DOMAIN touched_mp = {}
  <2>1. /\ touched_mp' = touched_mp /\ DOMAIN touched_bp' = DOMAIN touched_bp \cup {h}
        /\ bp_touched \cup Notes(touched_bp) \subseteq Notes(touched_bp') \cup lost'
        /\ BlockNotices(bp_touched, h) = {}
    BY <1>2, <1>3, <1>6, <1>11, OnBlockNotes
  <2>2. UNCHANGED <<telling, tasks>>
    BY <1>2, <2>1 DEF TellFrom
  <2>3. TypeInv'
    BY <1>1, <1>2, <1>3, <1>7, <1>8, <2>1, <2>2 DEF TypeInv, ChainType, SessionType, headerVars
  <2>4. HeightInv'
    BY <1>1, <1>2, <1>3, <1>7, <2>1, <2>2 DEF NoteInv, HeightInv, Speaks, headerVars
  <2>5. BlockInv'
    BY <1>2, <1>3, <1>5, <1>7, <1>10, <2>1 DEF BlockInv
  <2>6. WaitInv'
    BY <1>11, <2>1 DEF WaitInv
  <2>7. TellInv'
    BY <1>5, <2>2 DEF TellInv, Speaks, Served
  <2>8. ~ TipTold' /\ notified_height' # Height(daemon)'
    BY <1>2, <1>3, <1>5, <2>2 DEF TipTold, Speaks, headerVars
  <2>9. TipInv'
    BY <1>2, <1>3, <2>1, <2>8 DEF TipInv, h
  <2>10. ASSUME Prompt
         PROVE  CacheInv' /\ StatusInv'
    <3>1. \A x \in Lagging : x \in Lagging' \/ x \in Telling' \/ x \in lost'
      BY <2>1 DEF Lagging, Notes
    <3>2. Telling' = Telling /\ Notes(touched_mp)' = Notes(touched_mp)
      BY <2>1, <2>2 DEF Telling, Notes
    <3>3. \A s \in Notifier : Speaks(s)' = Speaks(s)
      BY <2>2 DEF Speaks
    <3> QED BY <1>1, <1>2, <1>7, <2>1, <2>2, <2>10, <3>1, <3>2, <3>3, NotesMove
  <2> QED BY <1>1, <1>2, <1>9, <2>3, <2>4, <2>5, <2>6, <2>7, <2>9, <2>10 DEF IInv, NoteInv
<1>12. CASE DOMAIN touched_mp # {}
  <2>1. /\ \A s \in Notifier : ~ Speaks(s)
        /\ notified_height # h
        /\ h = Height(daemon) => pool \in Pools[daemon]
    BY <1>1, <1>12 DEF NoteInv, WaitInv, h
  <2>2. /\ DOMAIN touched_mp' = {} /\ DOMAIN touched_bp' = {}
        /\ \E told_ \in SUBSET HashX :
              /\ BlockNotices(bp_touched, h) = {[height |-> h, touched |-> told_]}
              /\ bp_touched \cup Notes(touched_mp) \cup Notes(touched_bp) \subseteq told_ \cup lost'
    BY <1>2, <1>3, <1>6, <1>12, OnBlockNotes
  <2>3. PICK told_ \in SUBSET HashX :
              /\ BlockNotices(bp_touched, h) = {[height |-> h, touched |-> told_]}
              /\ bp_touched \cup Notes(touched_mp) \cup Notes(touched_bp) \subseteq told_ \cup lost'
    BY <2>2
  <2>4. TellFrom("bp", {[height |-> h, touched |-> told_]})
    BY <1>2, <2>3
  <2>5. "bp" \in Notifier /\ "mp" \in Notifier
    BY DEF Notifier
  <2>6. /\ tasks' = tasks
        /\ telling' \in [Notifier -> [height : Int, header : Int, touched : SUBSET HashX]]
        /\ telling'["bp"].height = h /\ telling'["bp"].header = h /\ Speaks("bp")'
        /\ \A r \in Notifier \ {"bp"} : telling'[r] = telling[r]
        /\ Telling \subseteq Telling' /\ told_ \subseteq Telling'
    BY <1>1, <1>3, <1>5, <2>1, <2>4, <2>5, SpeaksAnew DEF h
  <2>7. \A s \in Notifier : Speaks(s)' => s = "bp"
    BY <2>1, <2>6 DEF Speaks
  <2>8. TypeInv'
    BY <1>1, <1>2, <1>3, <1>7, <1>8, <2>6 DEF TypeInv, ChainType, SessionType, headerVars
  <2>9. HeightInv'
    BY <1>1, <1>2, <1>3, <1>7, <2>2, <2>6, <2>7 DEF NoteInv, HeightInv, headerVars
  <2>10. BlockInv'
    BY <1>2, <1>3, <1>7, <1>10, <2>2 DEF BlockInv
  <2>11. WaitInv'
    BY <2>2 DEF WaitInv
  <2>12. ~ Served("bp")' /\ ~ Speaks("mp")'
    <3>1. ~ Served("bp")'
      BY <1>5, <2>6 DEF Served
    <3>2. "mp" # "bp"
      OBVIOUS
    <3> QED BY <2>5, <2>7, <3>1, <3>2
  <2>13. TellInv'
    BY <1>2, <1>3, <2>6, <2>12 DEF TellInv
  <2>14. notified_height' # Height(daemon)'
    BY <1>2, <1>3, <1>5 DEF TipTold, headerVars
  <2>15. TipTold' <=> h = Height(daemon)
    BY <1>3, <2>5, <2>6, <2>7, <2>14 DEF TipTold
  <2>16. h = Height(daemon) => pool' \in Pools[daemon]'
    BY <1>2, <2>1 DEF Pools
  <2>17. TipInv'
    BY <1>2, <1>3, <1>10, <2>2, <2>6, <2>7, <2>14, <2>15, <2>16 DEF TipInv, h
  <2>18. ASSUME Prompt
         PROVE  CacheInv' /\ StatusInv'
    <3>1. \A x \in Lagging : x \in Telling' \/ x \in lost'
      BY <2>3, <2>6 DEF Lagging
    <3>2. Notes(touched_mp) \subseteq Telling' \cup lost'
      BY <2>3, <2>6
    <3> QED BY <1>1, <1>2, <1>7, <2>5, <2>6, <2>18, <3>1, <3>2, NotesMove
  <2> QED BY <1>1, <1>2, <1>9, <2>8, <2>9, <2>10, <2>11, <2>13, <2>17, <2>18 DEF IInv, NoteInv
<1> QED BY <1>11, <1>12

\* Touched hashXs apart, a refresh changes no summaries: above the same block
\* they are the same, or else only parents can have come or gone.
LEMMA SummariesStay ==
    ASSUME NEW x, NEW ts, NEW us, x \notin Touched((ts \ us) \cup (us \ ts))
    PROVE  SummariesOf(ts, x) = {} => SummariesOf(us, x) = {}
<1>1. \A t \in (ts \ us) \cup (us \ ts) : x \notin Touch(t)
  BY DEF Touched
<1>2. Touching(ts, x) = Touching(us, x)
  BY <1>1 DEF Touching
<1>3. SummariesOf(ts, x) = {} => Touching(ts, x) = {}
  BY DEF SummariesOf
<1>4. Touching(us, x) = {} => SummariesOf(us, x) = {}
  BY DEF SummariesOf
<1> QED BY <1>2, <1>3, <1>4

\* A refresh above the block whose mempool the sessions know.
LEMMA RefreshedAgain ==
    ASSUME TypeInv, CacheInv, StatusInv, Deliver, Prompt, pool \in Pools[daemon], pool' \in Pools[daemon],
           daemon \in Block,
           NEW touched, touched = Touched((pool' \ pool) \cup (pool \ pool')),
           Spawn("mp", touched, FALSE),
           UNCHANGED <<hist, history_cache, telling, bp_touched, touched_bp>>, lost \subseteq lost',
           DOMAIN touched_mp = {}
    PROVE  CacheInv' /\ StatusInv'
<1>1. /\ tasks \subseteq tasks'
      /\ \A t \in tasks' : t \in tasks \/ (t.at = "start" /\ t.kind # "mempool")
      /\ \A x \in touched \cap hashX_subs : \E t \in tasks' : t.kind = "touched" /\ t.x = x
  BY SpawnTasks DEF TypeInv, Notifier
<1>2. /\ Lagging' = Lagging /\ Telling' = Telling /\ Notes(touched_mp) = {}
      /\ \A x : History(hist, x)' = History(hist, x)
      /\ UNCHANGED <<hashX_subs, mempool_statuses, told>>
      /\ \A s : Speaks(s)' = Speaks(s)
  BY DEF Lagging, Telling, Notes, History, Deliver, Speaks
<1>3. \A x : x \notin touched => Summaries(x)' = Summaries(x)
  <2>1. \A x : x \notin touched => SummariesOf(pool, x) = SummariesOf(pool', x)
    BY SummariesSame
  <2> QED BY <2>1 DEF Summaries, SummariesOf
<1>4. \A x \in hashX_subs : Right(x) => Right(x)' \/ Excused(x)'
  BY <1>1, <1>2, <1>3 DEF Right, Excused
<1>5. \A x : Excused(x) => Excused(x)'
  BY <1>1, <1>2 DEF Excused
<1>6. \A x : Revisited(x) => Revisited(x)'
  BY <1>1, <1>2 DEF Revisited
<1>7. CacheInv'
  BY <1>1, <1>2 DEF CacheInv, Deliver
<1>8. StatusInv'
  BY <1>1, <1>2, <1>4, <1>5, <1>6 DEF StatusInv
<1> QED BY <1>7, <1>8

\* A refresh above another block, or before its block was noted: nobody has
\* work left from earlier, and the statuses with a mempool part will be looked
\* at again.
LEMMA RefreshedAnew ==
    ASSUME TypeInv, CacheInv, StatusInv, Deliver, Prompt,
           \A s \in Notifier : ~ Served(s), pool' \subseteq Tx,
           NEW touched, touched = Touched((pool' \ pool) \cup (pool \ pool')),
           UNCHANGED <<hist, history_cache, tasks>>,
           \A x \in Lagging : x \in Lagging' \/ x \in Telling' \/ x \in lost',
           Notes(touched_mp) \subseteq (Notes(touched_mp)' \cup Telling' \cup lost'),
           touched \subseteq (Notes(touched_mp)' \cup Telling'),
           Telling \subseteq Telling', lost \subseteq lost',
           DOMAIN touched_mp' # {} \/ \E s \in Notifier : Speaks(s)'
    PROVE  CacheInv' /\ StatusInv'
<1>1. /\ \A x : History(hist, x)' = History(hist, x)
      /\ UNCHANGED <<hashX_subs, mempool_statuses, told>>
  BY DEF History, Deliver
<1>2. \A t \in tasks : t.kind \in {"history", "subscribe"}
  <2>1. \A t \in tasks : t \in TaskType
    BY DEF TypeInv, SessionType
  <2> QED BY <2>1, TaskFields DEF Served, Notifier
<1>3. \A x : Excused(x) => Excused(x)'
  BY <1>2 DEF Excused
<1>4. \A x \in DOMAIN mempool_statuses : Revisited(x)'
  BY <1>1 DEF Revisited
<1>5. \A x : x \in touched => Excused(x)'
  BY DEF Excused
<1>6. ASSUME NEW x \in hashX_subs, Right(x), x \notin touched, x \notin DOMAIN mempool_statuses
      PROVE  Right(x)'
  <2>1. told[x].unconfirmed = {} /\ told[x].unconfirmed = Summaries(x)
    BY <1>6 DEF StatusInv, Right
  <2>2. SummariesOf(pool, x) = {}
    BY <2>1 DEF Summaries, SummariesOf
  <2>3. SummariesOf(pool', x) = {}
    BY <1>6, <2>2, SummariesStay
  <2>4. Summaries(x)' = {}
    BY <2>3 DEF Summaries, SummariesOf
  <2> QED BY <1>1, <1>6, <2>1, <2>4 DEF Right
<1>7. \A x \in hashX_subs : Right(x)' \/ Excused(x)' \/ Revisited(x)'
  BY <1>3, <1>4, <1>5, <1>6 DEF StatusInv, Revisited
<1>8. CacheInv'
  BY <1>1, <1>2 DEF CacheInv, Deliver
<1>9. StatusInv'
  BY <1>1, <1>2, <1>3, <1>7 DEF StatusInv
<1> QED BY <1>8, <1>9

\* The mempool is refreshed at the height of the daemon.
LEMMA RefreshMempoolStep ==
    ASSUME IInv, ~ failed, RefreshMempool
    PROVE  IInv'
<1> DEFINE h == Height(db)
           touched == Touched((pool' \ pool) \cup (pool \ pool'))
<1>1. TypeInv /\ ChainType /\ SessionType /\ TreeInv /\ NoteInv /\ (Prompt => CacheInv /\ StatusInv)
  BY DEF IInv, TypeInv
<1>2. /\ Free("mp") /\ h = Height(daemon) /\ Deliver /\ pool' \in Pools[db]
      /\ OnMempool(touched, h) /\ TellFrom("mp", MempoolNotices(touched, h))
      /\ UNCHANGED <<daemon, hist, db, bp, bp_touched, history_cache, failed, headerVars>>
      /\ UNCHANGED <<hashX_subs, mempool_statuses, told>>
  BY DEF RefreshMempool, Deliver, chainVars
<1>3. /\ h \in Nat /\ db = daemon /\ daemon \in Block /\ Height(daemon)' = h /\ Height(db)' = h
      /\ bp \notin {"flushing", "backing"}
  <2>1. /\ daemon \in Block /\ h \in Nat /\ db = daemon
        /\ bp = "flushing" => Height(db) < Height(hist) /\ Height(hist) <= Height(daemon) /\ Height(hist) \in Nat
        /\ bp = "backing" => Height(db) < Height(daemon)
    BY <1>1, <1>2, WhereDB
  <2> QED BY <1>2, <2>1
<1>4. pool' \in Pools[daemon] /\ pool' \subseteq Tx
  BY <1>2, <1>3 DEF Pools
<1>5. touched \in SUBSET HashX
  <2>1. (pool' \ pool) \cup (pool \ pool') \in SUBSET Tx
    BY <1>1, <1>4 DEF ChainType
  <2> QED BY <2>1, TouchedIn
<1>6. "bp" \in Notifier /\ "mp" \in Notifier /\ "mp" # "bp" /\ \A s \in Notifier : s = "bp" \/ s = "mp"
  BY DEF Notifier
<1>7. ~ Speaks("mp") /\ ~ Served("mp")
  BY <1>2 DEF Free, Speaks, Served
<1>8. /\ Dict(touched_mp) /\ Dict(touched_bp) /\ DOMAIN touched_mp \subseteq {h}
      /\ \A k \in DOMAIN touched_bp : k <= h
  BY <1>1, <1>2 DEF ChainType, NoteInv, WaitInv, HeightInv
<1> HIDE DEF h, touched
<1>9. /\ highest_block' = highest_block /\ Dict(touched_mp') /\ Dict(touched_bp')
      /\ lost' = lost \cup Overwritten(touched_mp, h, touched)
      /\ Notes(touched_mp) \subseteq touched \cup lost'
  BY <1>2, <1>3, <1>5, <1>8, OnMempoolNotes
<1>10. lost' \subseteq HashX
  <2>1. Overwritten(touched_mp, h, touched) \subseteq HashX
    BY <1>8 DEF Overwritten, Dict
  <2> QED BY <1>1, <1>9, <2>1 DEF ChainType
<1>11. TreeInv'
  BY <1>1, <1>2 DEF TreeInv, OnChain
<1>12. pool' \in Pools[daemon]'
  BY <1>2, <1>4 DEF Pools
<1>13. CaughtUp' = CaughtUp
  BY <1>2 DEF CaughtUp
<1>14. CASE h \in DOMAIN touched_bp \/ h = highest_block
  <2>1. CaughtUp /\ DOMAIN touched_mp = {} /\ highest_block = h
    BY <1>1, <1>2, <1>14 DEF NoteInv, BlockInv, WaitInv, CaughtUp, h
  <2>2. /\ DOMAIN touched_mp' = {} /\ DOMAIN touched_bp' = {}
        /\ MempoolNotices(touched, h) = {[height |-> h, touched |-> touched \cup Notes(touched_bp)]}
    BY <1>2, <1>3, <1>5, <1>8, <1>14, OnMempoolNotes
  <2>3. TellFrom("mp", {[height |-> h, touched |-> touched \cup Notes(touched_bp)]})
    BY <1>2, <2>2
  <2>4. touched \cup Notes(touched_bp) \in SUBSET HashX
    BY <1>5, <1>8 DEF Notes, Dict
  <2>5. WaitInv'
    BY <2>2 DEF WaitInv
  <2>6. BlockInv'
    BY <1>2, <1>3, <1>9, <1>13, <2>1 DEF BlockInv
  <2>7. CASE h = notified_height
    <3>1. TipTold /\ DOMAIN touched_bp = {} /\ pool \in Pools[daemon]
      BY <1>1, <1>2, <2>7 DEF NoteInv, TipInv, TipTold
    <3>2. Spawn("mp", touched, FALSE) /\ telling' = telling
      <4>1. touched \cup Notes(touched_bp) = touched
        BY <3>1 DEF Notes
      <4> DEFINE n == [height |-> h, touched |-> touched]
      <4>2. n.height = h /\ n.touched = touched /\ TellFrom("mp", {n})
        BY <2>3, <4>1
      <4> HIDE DEF n
      <4> QED BY <2>7, <4>2 DEF TellFrom
    <3>3. /\ tasks' \subseteq TaskType
          /\ \A t \in tasks' : t \in tasks \/ t.by = "mp"
      BY <1>1, <1>6, <3>2, SpawnTasks
    <3>4. TypeInv'
      BY <1>1, <1>2, <1>3, <1>4, <1>9, <1>10, <3>2, <3>3 DEF TypeInv, ChainType, SessionType, headerVars
    <3>5. /\ \A s : Speaks(s)' = Speaks(s)
          /\ Served("bp")' => Served("bp")
      BY <1>6, <3>2, <3>3 DEF Speaks, Served
    <3>6. HeightInv'
      BY <1>1, <1>2, <1>3, <1>9, <2>2, <3>2, <3>5 DEF NoteInv, HeightInv, headerVars
    <3>7. TellInv'
      BY <1>1, <1>2, <1>3, <3>2, <3>5 DEF NoteInv, TellInv, headerVars, h
    <3>8. TipInv'
      BY <1>1, <1>2, <1>3, <1>12, <1>13, <2>1, <2>2, <3>1, <3>2, <3>5 DEF NoteInv, TipInv, TipTold, headerVars
    <3>9. ASSUME Prompt
          PROVE  CacheInv' /\ StatusInv'
      <4>1. bp_touched' = bp_touched /\ Lagging = {}
        BY <1>2, <2>1, <3>1 DEF CaughtUp, Lagging, Notes
      <4>2. touched_bp' = touched_bp
        BY <1>8, <1>9, <2>2, <3>1 DEF Dict
      <4> QED BY <1>1, <1>2, <1>3, <1>4, <1>9, <2>1, <3>1, <3>2, <3>9, <4>2, RefreshedAgain DEF touched
    <3> QED BY <1>1, <1>2, <1>11, <2>5, <2>6, <3>4, <3>6, <3>7, <3>8, <3>9 DEF IInv, NoteInv
  <2>8. CASE h # notified_height
    <3>1. /\ tasks' = tasks
          /\ telling' \in [Notifier -> [height : Int, header : Int, touched : SUBSET HashX]]
          /\ telling'["mp"].height = h /\ telling'["mp"].header = h /\ Speaks("mp")'
          /\ \A r \in Notifier \ {"mp"} : telling'[r] = telling[r]
          /\ Telling \subseteq Telling' /\ touched \cup Notes(touched_bp) \subseteq Telling'
      BY <1>1, <1>3, <1>6, <1>7, <2>3, <2>4, <2>8, SpeaksAnew DEF h
    <3>2. telling'["bp"] = telling["bp"] /\ (Speaks("bp")' <=> Speaks("bp"))
      BY <1>6, <3>1 DEF Speaks
    <3>3. ~ Served("bp") /\ ~ Served("bp")'
      BY <1>1, <2>8, <3>1 DEF NoteInv, TellInv, Served, h
    <3>4. TypeInv'
      BY <1>1, <1>2, <1>3, <1>4, <1>9, <1>10, <3>1 DEF TypeInv, ChainType, SessionType, headerVars
    <3>5. HeightInv'
      BY <1>1, <1>2, <1>3, <1>6, <1>9, <2>2, <3>1, <3>2 DEF NoteInv, HeightInv, headerVars
    <3>6. TellInv'
      BY <1>1, <1>2, <1>3, <3>1, <3>2, <3>3 DEF NoteInv, TellInv, h
    <3>7. /\ TipTold' /\ notified_height' # Height(daemon)'
          /\ \A s \in Notifier : Speaks(s)' => telling'[s].header = h
      <4>1. Speaks("bp") => telling["bp"].header = h
        BY <1>1 DEF NoteInv, TellInv, h
      <4> QED BY <1>2, <1>3, <1>6, <2>8, <3>1, <3>2, <4>1 DEF TipTold, headerVars
    <3>8. TipInv'
      BY <1>2, <1>3, <1>12, <1>13, <2>1, <2>2, <3>7 DEF TipInv
    <3>9. ASSUME Prompt
          PROVE  CacheInv' /\ StatusInv'
      <4>1. \A s \in Notifier : ~ Served(s)
        BY <1>6, <1>7, <3>3
      <4>2. \A x \in Lagging : x \in Telling'
        BY <2>1, <3>1 DEF Lagging, CaughtUp
      <4>3. Notes(touched_mp) \subseteq Telling' \cup lost' /\ touched \subseteq Telling' /\ lost \subseteq lost'
        BY <1>9, <3>1
      <4> QED BY <1>1, <1>2, <1>4, <1>6, <3>1, <3>9, <4>1, <4>2, <4>3, RefreshedAnew DEF touched
    <3> QED BY <1>1, <1>2, <1>11, <2>5, <2>6, <3>4, <3>5, <3>6, <3>8, <3>9 DEF IInv, NoteInv
  <2> QED BY <2>7, <2>8
<1>15. CASE ~ (h \in DOMAIN touched_bp \/ h = highest_block)
  <2>1. /\ touched_bp' = touched_bp /\ DOMAIN touched_mp' = {h} /\ Notes(touched_mp') = touched
        /\ MempoolNotices(touched, h) = {}
    BY <1>2, <1>3, <1>5, <1>8, <1>15, OnMempoolNotes
  <2>2. telling' = telling /\ tasks' = tasks
    BY <2>1, <1>2 DEF TellFrom
  <2>3. bp = "flushed"
    BY <1>1, <1>2, <1>3, <1>15 DEF ChainType, NoteInv, BlockInv, h
  <2>4. ~ CaughtUp /\ ~ TipTold /\ ~ Speaks("bp") /\ ~ Served("bp")
    BY <1>1, <2>3, NotCaughtUp DEF CaughtUp
  <2>5. TypeInv'
    BY <1>1, <1>2, <1>3, <1>4, <1>9, <1>10, <2>2 DEF TypeInv, ChainType, SessionType, headerVars
  <2>6. \A s : Speaks(s)' = Speaks(s) /\ Served(s)' = Served(s)
    BY <2>2 DEF Speaks, Served
  <2>7. HeightInv'
    BY <1>1, <1>2, <1>3, <1>9, <2>1, <2>2, <2>6 DEF NoteInv, HeightInv, headerVars
  <2>8. BlockInv'
    BY <1>1, <1>2, <1>3, <1>9, <1>13, <2>1 DEF NoteInv, BlockInv
  <2>9. notified_height # h
    BY <1>2, <2>4 DEF TipTold
  <2>10. WaitInv'
    BY <1>2, <1>3, <1>6, <1>7, <1>8, <1>12, <2>1, <2>3, <2>4, <2>6, <2>9 DEF WaitInv, headerVars
  <2>11. TellInv'
    BY <2>4, <2>6 DEF TellInv
  <2>12. ~ TipTold' /\ notified_height' # Height(daemon)'
    BY <1>2, <1>3, <2>2, <2>4, <2>6, <2>9 DEF TipTold, headerVars
  <2>13. TipInv'
    BY <1>2, <2>3, <2>12 DEF TipInv
  <2>14. ASSUME Prompt
         PROVE  CacheInv' /\ StatusInv'
    <3>1. \A s \in Notifier : ~ Served(s)
      BY <1>6, <1>7, <2>4
    <3>2. Lagging' = Lagging /\ Telling' = Telling /\ Notes(touched_mp)' = touched
      BY <1>2, <2>1, <2>2 DEF Lagging, Telling, Notes
    <3>3. Notes(touched_mp) \subseteq Notes(touched_mp)' \cup lost' /\ lost \subseteq lost'
      BY <1>9, <3>2
    <3> QED BY <1>1, <1>2, <1>4, <2>1, <2>2, <2>14, <3>1, <3>2, <3>3, RefreshedAnew DEF touched
  <2> QED BY <1>1, <1>2, <1>11, <2>5, <2>7, <2>8, <2>10, <2>11, <2>13, <2>14 DEF IInv, NoteInv
<1> QED BY <1>14, <1>15

\* The header arrives and the sessions are told, or else the server stops.
LEMMA ToldStep ==
    ASSUME IInv, ~ failed, NEW s \in Notifier, Told(s)
    PROVE  IInv'
<1> DEFINE h == telling[s].header
           touched == telling[s].touched
<1>1. TypeInv /\ ChainType /\ SessionType /\ TreeInv /\ NoteInv /\ (Prompt => CacheInv /\ StatusInv)
  BY DEF IInv, TypeInv
<1>2. /\ Speaks(s) /\ telling' = [telling EXCEPT ![s] = Silent]
      /\ UNCHANGED <<daemon, hist, db, bp, bp_touched, pool, hashX_subs, mempool_statuses, told, notifyVars>>
  BY DEF Told, Speaks, chainVars
<1>3. /\ telling \in [Notifier -> [height : Int, header : Int, touched : SUBSET HashX]]
      /\ Silent \in [height : Int, header : Int, touched : SUBSET HashX]
  BY <1>1 DEF ChainType, Silent
<1>4. /\ telling' \in [Notifier -> [height : Int, header : Int, touched : SUBSET HashX]]
      /\ telling'[s] = Silent /\ \A r \in Notifier \ {s} : telling'[r] = telling[r]
  BY <1>2, <1>3
<1>5. /\ daemon \in Block /\ db \in Block /\ Height(db) \in Nat /\ Height(daemon) \in Nat
      /\ Height(daemon)' = Height(daemon) /\ Height(db)' = Height(db)
      /\ Height(db) <= Height(daemon) /\ (Height(db) = Height(daemon) => db = daemon)
  BY <1>1, <1>2, WhereDB
<1>6. h \in 0 .. Height(daemon)
  BY <1>1, <1>2 DEF NoteInv, HeightInv
<1>7. CASE h > Height(db)
  <2>1. failed' = TRUE /\ UNCHANGED <<headerVars, history_cache, tasks>>
    BY <1>7 DEF Told
  <2>2. TypeInv'
    BY <1>1, <1>2, <1>4, <2>1 DEF TypeInv, ChainType, SessionType, headerVars, notifyVars, Dict
  <2>3. Height(db)' < Height(daemon)'
    BY <1>5, <1>6, <1>7
  <2> QED BY <2>1, <2>2, <2>3 DEF IInv
<1>8. CASE ~ (h > Height(db))
  <2>1. /\ hsub_results' = BlockAt(db, h) /\ told_header' = BlockAt(db, h) /\ notified_height' = h
        /\ history_cache' = Restrict(history_cache, DOMAIN history_cache \ touched)
        /\ Spawn(s, touched, TRUE) /\ failed' = failed
    BY <1>8 DEF Told, HeaderAt, Invalidated
  <2> HIDE DEF h, touched
  <2>2. h \in 0 .. Height(db) /\ BlockAt(db, h) \in Block /\ (h = Height(db) => BlockAt(db, h) = db)
    <3>1. h \in 0 .. Height(db) /\ h + 1 \in 1 .. Height(db) + 1
      BY <1>5, <1>6, <1>8
    <3> QED BY <1>5, <3>1, ChainFacts DEF BlockAt, Branch
  <2>3. /\ tasks' \subseteq TaskType /\ tasks \subseteq tasks'
        /\ \A t \in tasks' : t \in tasks \/ (t.by = s /\ t.at = "start" /\ t.kind # "mempool")
        /\ \A x \in touched \cap hashX_subs : \E t \in tasks' : t.kind = "touched" /\ t.x = x
        /\ \A x \in hashX_subs : \E t \in tasks' : t.kind = "recheck" /\ t.x = x
    <3>1. SessionType /\ Spawn(s, touched, TRUE) /\ TRUE \in BOOLEAN
      BY <1>1, <2>1
    <3> QED BY <3>1, SpawnTasks
  <2>4. /\ history_cache' = [x \in DOMAIN history_cache' |-> history_cache'[x]]
        /\ DOMAIN history_cache' = DOMAIN history_cache \ touched
        /\ \A x \in DOMAIN history_cache' : history_cache'[x] = history_cache[x]
    <3>1. DOMAIN history_cache \ touched \subseteq DOMAIN history_cache
      OBVIOUS
    <3> DEFINE left == Restrict(history_cache, DOMAIN history_cache \ touched)
    <3>2. /\ left = [x \in DOMAIN left |-> left[x]] /\ DOMAIN left = DOMAIN history_cache \ touched
          /\ \A x \in DOMAIN left : left[x] = history_cache[x]
      BY <3>1, RestrictTo
    <3> HIDE DEF left
    <3> QED BY <2>1, <3>2 DEF left
  <2>5. ChainType'
    BY <1>1, <1>2, <1>4, <2>1, <2>2 DEF ChainType, notifyVars, Dict
  <2>6. SessionType'
    BY <1>1, <1>2, <2>3, <2>4 DEF SessionType
  <2>7. TreeInv'
    BY <1>1, <1>2 DEF TreeInv, OnChain
  <2>8. ~ Speaks(s)' /\ \A r \in Notifier : Speaks(r)' => r # s /\ Speaks(r) /\ telling'[r] = telling[r]
    BY <1>4 DEF Speaks
  <2>9. HeightInv'
    BY <1>1, <1>2, <1>5, <2>1, <2>2, <2>8 DEF NoteInv, HeightInv, notifyVars
  <2>10. BlockInv'
    BY <1>1, <1>2, <1>5 DEF NoteInv, BlockInv, CaughtUp, notifyVars
  <2>11. DOMAIN touched_mp = {} /\ touched_mp' = touched_mp /\ touched_bp' = touched_bp
    BY <1>1, <1>2 DEF NoteInv, WaitInv, notifyVars
  <2>12. WaitInv'
    BY <2>11 DEF WaitInv
  <2>13. Notifier = {"bp", "mp"} /\ "bp" # "mp"
    BY DEF Notifier
  <2>14. Served("bp")' => Served("bp") \/ s = "bp"
    BY <2>3 DEF Served
  <2>15. TellInv'
    <3>1. Speaks("bp")' => bp' = "idle" /\ telling'["bp"].header = Height(db)'
      BY <1>1, <1>2, <1>5, <2>8, <2>13 DEF NoteInv, TellInv
    <3>2. Served("bp")' => bp' = "idle" /\ notified_height' = Height(db)'
      <4>1. CASE s = "bp"
        BY <1>1, <1>2, <1>5, <2>1, <4>1 DEF NoteInv, TellInv, h
      <4>2. CASE s = "mp"
        BY <1>1, <1>2, <1>5, <2>1, <2>13, <2>14, <4>2 DEF NoteInv, TellInv, h
      <4> QED BY <2>13, <4>1, <4>2
    <3>3. (Speaks("bp")' \/ Served("bp")') /\ Speaks("mp")' => telling'["mp"].header = Height(db)'
      <4>1. Speaks("mp")' => s = "bp" /\ Speaks("mp") /\ telling'["mp"] = telling["mp"]
        BY <2>8, <2>13
      <4> QED BY <1>1, <1>2, <1>5, <4>1 DEF NoteInv, TellInv
    <3> QED BY <3>1, <3>2, <3>3 DEF TellInv
  <2>16. TipTold => h = Height(daemon)
    BY <1>1, <1>2 DEF NoteInv, TipInv, h
  <2>17. notified_height' = Height(daemon) => TipTold
    BY <1>2, <2>1 DEF TipTold, h
  <2>18. TipTold' => TipTold
    BY <1>5, <2>8, <2>17 DEF TipTold
  <2>19. TipTold => TipTold'
    BY <1>5, <2>1, <2>16 DEF TipTold
  <2>20. TipInv'
    <3>1. TipTold' =>
             /\ CaughtUp' /\ DOMAIN touched_bp' = {} /\ pool' \in Pools[daemon]'
             /\ \A r \in Notifier : Speaks(r)' => telling'[r].header = Height(daemon)'
      BY <1>1, <1>2, <1>5, <2>8, <2>11, <2>18 DEF NoteInv, TipInv, CaughtUp, Pools
    <3>2. notified_height' = Height(daemon)' => hsub_results' = daemon' /\ told_header' = daemon'
      <4>1. TipTold => db = daemon
        BY <1>1 DEF NoteInv, TipInv, CaughtUp
      <4> QED BY <1>2, <1>5, <2>1, <2>2, <2>17, <4>1
    <3>3. bp' = "idle" /\ db' = daemon' => Height(daemon)' \in DOMAIN touched_bp' \/ TipTold'
      BY <1>1, <1>2, <1>5, <2>11, <2>19 DEF NoteInv, TipInv
    <3> QED BY <3>1, <3>2, <3>3 DEF TipInv
  <2>21. ASSUME Prompt
         PROVE  CacheInv' /\ StatusInv'
    <3>1. /\ \A x : History(hist, x)' = History(hist, x)
          /\ \A x : Summaries(x)' = Summaries(x)
          /\ Lagging' = Lagging /\ lost' = lost /\ Notes(touched_mp) = {}
      BY <1>2, <2>11 DEF History, Summaries, Lagging, Notes, notifyVars
    <3>2. \A x \in Telling : x \in Telling' \/ x \in touched
      BY <1>4, <2>13 DEF Telling, touched
    <3>3. CacheInv'
      BY <1>1, <2>3, <2>4, <2>21, <3>1, <3>2 DEF CacheInv
    <3>4. \A x \in hashX_subs : Excused(x) => Excused(x)'
      BY <2>3, <3>1, <3>2 DEF Excused
    <3>5. \A x \in hashX_subs : Revisited(x) => Revisited(x)'
      BY <1>2, <2>3 DEF Revisited
    <3>6. \A x : Right(x)' <=> Right(x)
      BY <1>2, <3>1 DEF Right
    <3>7. StatusInv'
      BY <1>1, <1>2, <2>3, <2>21, <3>4, <3>5, <3>6 DEF StatusInv
    <3> QED BY <3>3, <3>7
  <2> QED BY <1>1, <1>2, <2>1, <2>5, <2>6, <2>7, <2>9, <2>10, <2>12, <2>15, <2>20, <2>21 DEF IInv, NoteInv, TypeInv
<1> QED BY <1>7, <1>8

-----------------------------------------------------------------------------
(* The theorems *)

\* The invariant holds when the server has just started.
LEMMA InitIInv == Init => IInv
<1> SUFFICES ASSUME Init
             PROVE  IInv
  OBVIOUS
<1>1. Genesis \in Block /\ Height(Genesis) = 0 /\ OnChain(Genesis, Genesis)
  BY TxChainAssumption, GenesisBelow
<1>2. Dict(<<>>) /\ DOMAIN <<>> = {}
  BY DEF Dict
<1>3. /\ telling \in [Notifier -> [height : Int, header : Int, touched : SUBSET HashX]]
      /\ \A s \in Notifier : telling[s] = Silent
  BY DEF Init, Notifier, Silent
<1>4. \A s \in Notifier : ~ Speaks(s) /\ ~ Served(s)
  BY <1>3 DEF Speaks, Served, Init
<1>5. ChainType
  BY <1>1, <1>2, <1>3 DEF Init, ChainType
<1>6. SessionType
  BY <1>2, NoneType DEF Init, SessionType
<1>7. TreeInv
  BY <1>1 DEF Init, TreeInv
<1>8. HeightInv /\ BlockInv /\ WaitInv
  BY <1>1, <1>2, <1>4 DEF Init, HeightInv, BlockInv, WaitInv, CaughtUp
<1>9. TellInv
  BY <1>4 DEF TellInv, Notifier
<1>10. {} \in Pools[Genesis]
  BY <1>1 DEF Pools, CanHold, ConflictFree
<1>11. TipInv
  <2>1. /\ daemon = Genesis /\ db = Genesis /\ bp = "idle" /\ bp_touched = {} /\ pool = {}
        /\ notified_height = 0 /\ hsub_results = Genesis /\ told_header = Genesis /\ touched_bp = <<>>
    BY DEF Init
  <2>2. CaughtUp /\ TipTold
    BY <1>1, <2>1 DEF CaughtUp, TipTold
  <2>3. pool \in Pools[daemon]
    BY <1>10, <2>1
  <2> QED BY <1>2, <1>4, <2>1, <2>2, <2>3 DEF TipInv
<1>12. CacheInv
  BY <1>2 DEF Init, CacheInv
<1>13. StatusInv
  BY <1>2 DEF Init, StatusInv
<1>14. failed = FALSE
  BY DEF Init
<1> QED BY <1>5, <1>6, <1>7, <1>8, <1>9, <1>11, <1>12, <1>13, <1>14 DEF IInv, TypeInv, NoteInv

\* Every step keeps it.
LEMMA NextIInv == IInv /\ [Next]_vars => IInv'
<1> SUFFICES ASSUME IInv, [Next]_vars
             PROVE  IInv'
  OBVIOUS
<1>1. CASE Next
  <2> USE <1>1
  <2>1. ~ failed
    BY DEF Next
  <2>2. ASSUME NEW b \in Block, NewTip(b) \/ FlushHistory(b)
        PROVE  IInv'
    BY <2>1, <2>2, NewTipStep, FlushHistoryStep
  <2>3. CASE FlushState \/ BackupHistory \/ BackupState \/ NotifyBlock \/ RefreshMempool
    BY <2>1, <2>3, FlushStateStep, BackupHistoryStep, BackupStateStep, NotifyBlockStep, RefreshMempoolStep
  <2>4. ASSUME NEW s \in {"bp", "mp"}, Told(s)
        PROVE  IInv'
    BY <2>1, <2>4, ToldStep DEF Notifier
  <2>5. ASSUME NEW x \in Wanted, Request("history", x) \/ Request("subscribe", x) \/ Unsubscribe(x)
        PROVE  IInv'
    <3>1. "history" \in {"history", "subscribe"} /\ "subscribe" \in {"history", "subscribe"}
      OBVIOUS
    <3> QED BY <2>1, <2>5, <3>1, RequestStep, UnsubscribeStep
  <2>6. ASSUME NEW t \in tasks, Start(t) \/ Read(t) \/ Finish(t) \/ LookAgain(t)
        PROVE  IInv'
    BY <2>1, <2>6, StartStep, ReadStep, FinishStep, LookAgainStep
  <2> QED BY <2>2, <2>3, <2>4, <2>5, <2>6 DEF Next
<1>2. CASE UNCHANGED vars
  <2> USE <1>2 DEF vars, chainVars, sessionVars, headerVars, notifyVars
  <2>1. ChainType' <=> ChainType
    BY DEF ChainType, Dict
  <2>2. SessionType' <=> SessionType
    BY DEF SessionType
  <2>3. TreeInv' <=> TreeInv
    BY DEF TreeInv, OnChain
  <2>4. /\ \A s : (Speaks(s)' <=> Speaks(s)) /\ (Served(s)' <=> Served(s))
        /\ CaughtUp' <=> CaughtUp
    BY DEF Speaks, Served, CaughtUp
  <2>5. TipTold' <=> TipTold
    BY <2>4 DEF TipTold
  <2>6. HeightInv' <=> HeightInv
    BY <2>4 DEF HeightInv
  <2>7. BlockInv' <=> BlockInv
    BY <2>4 DEF BlockInv
  <2>8. WaitInv' <=> WaitInv
    BY <2>4 DEF WaitInv, Pools
  <2>9. TellInv' <=> TellInv
    BY <2>4 DEF TellInv
  <2>10. TipInv' <=> TipInv
    BY <2>4, <2>5 DEF TipInv, Pools
  <2>11. CacheInv /\ StatusInv => CacheInv' /\ StatusInv'
    <3>1. \A x : History(hist, x)' = History(hist, x)
      BY DEF History
    <3>2. UNCHANGED <<pool, telling, sessionVars, notifyVars>> /\ bp_touched' = bp_touched
      OBVIOUS
    <3> QED BY <3>1, <3>2, DbMoves
  <2>12. failed' = failed /\ Height(db)' = Height(db) /\ Height(daemon)' = Height(daemon) /\ Prompt' = Prompt
    OBVIOUS
  <2> QED BY <2>1, <2>2, <2>3, <2>6, <2>7, <2>8, <2>9, <2>10, <2>11, <2>12 DEF IInv, TypeInv, NoteInv
<1> QED BY <1>1, <1>2

\* What the invariant says when nothing is under way.
LEMMA QuietIs ==
    ASSUME IInv, Quiet
    PROVE  /\ ~ failed /\ notified_height = Height(db) /\ hsub_results = db /\ told_header = db
           /\ Prompt => /\ \A x \in DOMAIN history_cache \ lost : history_cache[x] = History(db, x)
                        /\ \A x \in hashX_subs \ lost : Right(x)
           /\ hist = db
<1>1. /\ bp = "idle" /\ db = daemon /\ tasks = {} /\ DOMAIN touched_bp = {} /\ DOMAIN touched_mp = {}
      /\ \A s \in Notifier : ~ Speaks(s)
  BY DEF Quiet, Speaks, Notifier
<1>2. ~ failed /\ TreeInv /\ NoteInv /\ ChainType /\ (Prompt => CacheInv /\ StatusInv)
  <2>1. Height(db) = Height(daemon) /\ Height(db) \in Nat
    BY <1>1, HeightNat DEF IInv, TypeInv, ChainType
  <2> QED BY <2>1 DEF IInv, TypeInv
<1>3. TipTold /\ notified_height = Height(daemon)
  BY <1>1, <1>2 DEF NoteInv, TipInv, TipTold
<1>4. hsub_results = db /\ told_header = db /\ bp_touched = {} /\ hist = db
  BY <1>1, <1>2, <1>3 DEF NoteInv, TipInv, CaughtUp, TreeInv
<1>5. Lagging = {} /\ Notes(touched_mp) = {}
  BY <1>1, <1>4 DEF Lagging, Notes
<1>6. Telling = {}
  BY <1>1, SilentHas DEF Telling, Notifier
<1>7. Prompt => \A x \in DOMAIN history_cache \ lost : history_cache[x] = History(db, x)
  BY <1>2, <1>4, <1>5, <1>6 DEF CacheInv
<1>8. \A x : x \notin lost => ~ Excused(x) /\ ~ Revisited(x)
  BY <1>1, <1>5, <1>6 DEF Excused, Revisited
<1>9. Prompt => \A x \in hashX_subs \ lost : Right(x)
  BY <1>2, <1>8 DEF StatusInv
<1> QED BY <1>1, <1>2, <1>3, <1>4, <1>7, <1>9

\* In every state the server can reach, with whatever chains, mempools and
\* requests of clients, somebody is still going to notice each thing that is
\* out of date: the inductive invariant of _notify_sessions, limited_history
\* and address_status (session.py) with the Notifications of controller.py.
THEOREM Noticed == Spec => []IInv
BY InitIInv, NextIInv, PTL DEF Spec

\* The type invariant of the session manager's state.
THEOREM TypesRight == Spec => []TypeOK
<1>1. IInv => TypeOK
  <2> SUFFICES ASSUME ChainType, SessionType
               PROVE  TypeOK
    BY DEF IInv, TypeInv
  <2>1. \A t \in tasks : t.x \in HashX /\ t.kind \in {"touched", "recheck", "mempool", "history", "subscribe"}
    BY TaskFields DEF SessionType
  <2> QED BY <2>1 DEF TypeOK, ChainType, SessionType
<1> QED BY <1>1, Noticed, PTL

\* When all is quiet the last header that _notify_sessions told a subscriber,
\* and the result that a new one gets, is the tip of the chain (session.py,
\* hsub_results and notified_height), however the blocks and the refreshes of
\* the mempool came and whatever was reorganised on the way.
THEOREM HeaderTold == Spec => []ToldHeader
<1>1. IInv => ToldHeader
  BY QuietIs DEF ToldHeader
<1> QED BY <1>1, Noticed, PTL

\* When all is quiet the history cache has no history but that of the chain,
\* of the hashXs that Notifications did not lose: _notify_sessions invalidates
\* every entry that a block, or a reorg, made stale, if no history that was
\* read before a flush is put there after the notification.
THEOREM CacheIsFresh ==
    ASSUME Prompt
    PROVE  Spec => []CacheFresh
<1>1. IInv => CacheFresh
  BY QuietIs DEF CacheFresh
<1> QED BY <1>1, Noticed, PTL

\* When all is quiet a client was told the present status of each hashX that
\* it subscribes to, under the same conditions: also if it subscribed while a
\* block came in, if its status has a mempool part whose parents were
\* confirmed, or if two notifications overlap (session.py, notify).
THEOREM StatusTold ==
    ASSUME Prompt
    PROVE  Spec => []ToldStatus
<1>1. IInv => ToldStatus
  <2> SUFFICES ASSUME IInv, Quiet, NEW x \in hashX_subs \ lost
               PROVE  told[x] = [confirmed |-> History(db, x), unconfirmed |-> Summaries(x)]
    BY DEF ToldStatus
  <2>1. Right(x) /\ hist = db
    BY QuietIs
  <2> QED BY <2>1 DEF Right
<1> QED BY <1>1, Noticed, PTL
=============================================================================
