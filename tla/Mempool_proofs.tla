---------------------------- MODULE Mempool_proofs ----------------------------
(***************************************************************************)
(* Proofs about the mempool beside the daemon and the block processor: its *)
(* transactions do not conflict, and what clients were told of does not    *)
(* vanish between the mempool and a block.                                 *)
(***************************************************************************)
EXTENDS Mempool, TreeTheorems, FiniteSetTheorems

-----------------------------------------------------------------------------
(* Transactions of chains and of mempools *)

\* What is confirmed, by the block it is in.
LEMMA ConfirmedIn ==
    ASSUME NEW b \in Block
    PROVE  /\ Confirmed[b] \subseteq Tx
           /\ \A t \in Confirmed[b] : \E c \in Block : OnChain(c, b) /\ t \in Txs[c]
           /\ \A c \in Block : OnChain(c, b) => Txs[c] \subseteq Confirmed[b]
BY TxChainAssumption DEF Confirmed

\* What the daemon may hold above b: transactions that are not confirmed there
\* and spend nothing that is spent.
LEMMA AcceptableIn ==
    ASSUME NEW b \in Block, NEW ts \in SUBSET Tx
    PROVE  /\ Acceptable(b, ts) \subseteq ts \ Confirmed[b]
           /\ \A t \in Acceptable(b, ts) : Ins[t] \cap Spent(Confirmed[b]) = {}
BY DEF Acceptable, CanHold

\* What the daemon holds does not conflict, nor spend what the chain has spent.
PoolValid(b, ts) ==
    /\ ts \subseteq Tx /\ ConflictFree(ts)
    /\ \A t \in ts : t \notin Confirmed[b] /\ Ins[t] \cap Spent(Confirmed[b]) = {}

\* It stays so when its chain is replaced: transactions of left blocks return
\* to the mempool.
LEMMA AcceptableValid ==
    ASSUME NEW b \in Block, NEW ts \in SUBSET Tx, ConflictFree(ts)
    PROVE  PoolValid(b, Acceptable(b, ts))
BY AcceptableIn DEF PoolValid, ConflictFree

\* After a reorg the daemon has a valid mempool: what it had, with the
\* transactions of the blocks it left, as far as that is acceptable.
LEMMA ReturnsValid ==
    ASSUME NEW a \in Block, NEW b \in Block, NEW ts, PoolValid(a, ts)
    PROVE  PoolValid(b, Acceptable(b, ts \cup Confirmed[a]))
<1>1. ConflictFree(Confirmed[a]) /\ Confirmed[a] \subseteq Tx /\ ts \subseteq Tx
  BY BlocksValid, ConfirmedIn DEF PoolValid
<1>2. ASSUME NEW t \in ts, NEW u \in Confirmed[a]
      PROVE  Ins[t] \cap Ins[u] = {}
  <2>1. Ins[u] \subseteq Spent(Confirmed[a])
    BY DEF Spent
  <2> QED BY <2>1 DEF PoolValid
<1>3. ASSUME NEW t \in ts \cup Confirmed[a], NEW u \in ts \cup Confirmed[a], t # u
      PROVE  Ins[t] \cap Ins[u] = {}
  <2>1. CASE t \in ts /\ u \in ts
    BY <1>3, <2>1 DEF PoolValid, ConflictFree
  <2>2. CASE t \in ts /\ u \in Confirmed[a]
    BY <1>2, <2>2
  <2>3. CASE t \in Confirmed[a] /\ u \in ts
    BY <1>2, <2>3
  <2>4. CASE t \in Confirmed[a] /\ u \in Confirmed[a]
    BY <1>1, <1>3, <2>4 DEF ConflictFree
  <2> QED BY <2>1, <2>2, <2>3, <2>4
<1>4. ConflictFree(ts \cup Confirmed[a])
  BY <1>3 DEF ConflictFree
<1> QED BY <1>1, <1>4, AcceptableValid

\* Only candidates are accepted.
LEMMA OutcomesIn ==
    ASSUME NEW candidates, NEW utxos, NEW s \in Outcomes(candidates, utxos)
    PROVE  s \subseteq candidates
BY DEF Outcomes

\* _accept_transactions on the deferred transactions, a number of times, only
\* accepts some of them.
LEMMA DeferredIn ==
    ASSUME AcceptDeferred, InSync
    PROVE  \E accepted \in SUBSET tx_map :
               txs' = txs \cup accepted /\ HandOver(touched \cup Touched(accepted))
<1> DEFINE more(as) == UNION {{a \cup b : b \in Outcomes(tx_map \ a, (utxo_map \ Spent(a)) \cup a)} : a \in as}
           N == MaxIterations
           UpTo(f, n) == f = [i \in 0 .. n |-> IF i = 0 THEN {{}} ELSE more(f[i - 1])]
           after == CHOOSE f : UpTo(f, N)
<1>1. N \in Nat
  BY MempoolAssumption
<1>2. \E accepted \in after[N] : txs' = txs \cup accepted /\ HandOver(touched \cup Touched(accepted))
  BY DEF AcceptDeferred
<1>3. ASSUME NEW as, as \subseteq SUBSET tx_map
      PROVE  more(as) \subseteq SUBSET tx_map
  <2> SUFFICES ASSUME NEW s \in more(as)
               PROVE  s \subseteq tx_map
    OBVIOUS
  <2>1. PICK a \in as : \E b \in Outcomes(tx_map \ a, (utxo_map \ Spent(a)) \cup a) : s = a \cup b
    OBVIOUS
  <2>2. PICK b \in Outcomes(tx_map \ a, (utxo_map \ Spent(a)) \cup a) : s = a \cup b
    BY <2>1
  <2>3. b \subseteq tx_map \ a
    BY OutcomesIn
  <2> QED BY <1>3, <2>2, <2>3
<1> HIDE DEF more, N
<1> DEFINE S == {n \in Nat : \E f : UpTo(f, n)}
<1>4. 0 \in S
  <2>1. UpTo([i \in 0 .. 0 |-> {{}}], 0)
    OBVIOUS
  <2> QED BY <2>1
<1>5. ASSUME NEW n \in Nat, n \in S
      PROVE  n + 1 \in S
  <2>1. PICK f : UpTo(f, n)
    BY <1>5
  <2> DEFINE g == [i \in 0 .. n + 1 |-> IF i = n + 1 THEN more(f[n]) ELSE f[i]]
  <2>2. \A i \in 0 .. n : f[i] = IF i = 0 THEN {{}} ELSE more(f[i - 1])
    BY <2>1
  <2>3. \A i \in 0 .. n : g[i] = f[i]
    OBVIOUS
  <2>4. ASSUME NEW i \in 0 .. n + 1
        PROVE  g[i] = IF i = 0 THEN {{}} ELSE more(g[i - 1])
    <3>1. CASE i = n + 1
      <4>1. g[n] = f[n] /\ i - 1 = n /\ i # 0
        BY <2>3, <3>1
      <4>2. g[i] = more(f[n])
        BY <3>1
      <4> HIDE DEF g
      <4> QED BY <4>1, <4>2
    <3>2. CASE i = 0
      <4>1. 0 \in 0 .. n /\ g[0] = f[0]
        BY <2>3
      <4> HIDE DEF g
      <4> QED BY <2>2, <3>2, <4>1
    <3>3. CASE i \in 1 .. n
      <4>1. i - 1 \in 0 .. n /\ i \in 0 .. n /\ i # 0
        BY <3>3
      <4>2. g[i] = f[i] /\ g[i - 1] = f[i - 1]
        BY <2>3, <4>1
      <4> HIDE DEF g
      <4> QED BY <2>2, <4>1, <4>2
    <3> QED BY <3>1, <3>2, <3>3
  <2>5. g = [i \in 0 .. n + 1 |-> g[i]]
    OBVIOUS
  <2> HIDE DEF g
  <2>6. UpTo(g, n + 1)
    BY <2>4, <2>5
  <2> QED BY <2>6
<1>6. \E f : UpTo(f, N)
  <2> HIDE DEF UpTo
  <2>1. Nat \subseteq S
    <3> HIDE DEF S
    <3> QED BY <1>4, <1>5, NatInductive
  <2> QED BY <1>1, <2>1
<1>7. UpTo(after, N)
  <2> HIDE DEF UpTo
  <2> QED BY <1>6
<1> HIDE DEF after
<1>8. \A i \in 0 .. N : after[i] = IF i = 0 THEN {{}} ELSE more(after[i - 1])
  BY <1>7
<1> DEFINE D == {n \in Nat : n <= N => after[n] \subseteq SUBSET tx_map}
<1>9. 0 \in D
  <2>1. 0 \in 0 .. N
    BY <1>1
  <2>2. after[0] = {{}}
    BY <1>8, <2>1
  <2> QED BY <2>2
<1>10. ASSUME NEW n \in Nat, n \in D
       PROVE  n + 1 \in D
  <2> SUFFICES ASSUME n + 1 <= N
               PROVE  after[n + 1] \subseteq SUBSET tx_map
    OBVIOUS
  <2>1. PICK i \in 0 .. N : i = n + 1
    BY <1>1
  <2>2. i # 0 /\ i - 1 = n /\ n <= N
    BY <1>1, <2>1
  <2>3. after[i] = more(after[i - 1])
    BY <1>8, <2>2
  <2>4. after[n] \subseteq SUBSET tx_map
    BY <1>10, <2>2
  <2>5. more(after[n]) \subseteq SUBSET tx_map
    BY <1>3, <2>4
  <2> QED BY <2>1, <2>2, <2>3, <2>5
<1>11. Nat \subseteq D
  <2> HIDE DEF D
  <2> QED BY <1>9, <1>10, NatInductive
<1>12. after[N] \subseteq SUBSET tx_map
  BY <1>1, <1>11
<1> QED BY <1>2, <1>12

-----------------------------------------------------------------------------
(* The inductive invariant *)

Has(k) == k.confirmed \cup k.unconfirmed

\* The transactions that the daemon has, or had.
Alive == pool \cup Confirmed[daemon] \cup dropped

\* A refresh fetches and accepts only what the daemon had at one moment.
FromOneMempool ==
    /\ PoolValid(daemon, pool)
    /\ ConflictFree(all_hashes) /\ ConflictFree(txs)
    /\ mp = "fetch" =>
        txs \subseteq all_hashes /\ tx_map \subseteq all_hashes /\ \A c \in chunks : c.hashes \subseteq all_hashes
    /\ txs \subseteq Alive /\ all_hashes \subseteq Alive

\* Heights are no greater than the daemon's.  An index that is not on its chain
\* is lower, and the daemon has left those blocks.
Behind ==
    /\ cached_height <= Height(daemon) /\ height <= Height(daemon)
    /\ ~ OnChain(db, daemon) => Height(db) < Height(daemon)
    /\ \A c \in Block : OnChain(c, db) /\ ~ OnChain(c, daemon) => Txs[c] \subseteq dropped

\* t is in a block that the index has, or will have before it gets to height.
WillBeIndexed(t) ==
    \E c \in Block : /\ OnChain(c, daemon) /\ t \in Txs[c] /\ Height(c) <= height
                     /\ OnChain(c, db) \/ Height(db) < height

\* What has disappeared from the daemon's mempool is in its chain, or dropped,
\* if no block came meanwhile: this is what the check of the height is for.
Mined ==
    (mp = "height" /\ height = Height(daemon)) \/ mp = "process" =>
        \A t \in txs \ all_hashes : t \in dropped \/ WillBeIndexed(t)

\* What clients were told of is in the index, in the mempool, or dropped.
Remembered == \A x \in HashX : Has(known[x]) \subseteq Touching(Confirmed[db] \cup txs \cup dropped, x)

IInv == TypeOK /\ FromOneMempool /\ Behind /\ Mined /\ Remembered

-----------------------------------------------------------------------------
(* Types *)

\* What transactions touch are hashXs.
LEMMA TouchedIn ==
    ASSUME NEW ts \in SUBSET Tx
    PROVE  Touched(ts) \subseteq HashX
BY TxChainAssumption DEF Touched, Touch

\* What transactions spend are outputs of transactions.
LEMMA SpentIn ==
    ASSUME NEW ts \in SUBSET Tx
    PROVE  Spent(ts) \subseteq Tx
BY TxChainAssumption DEF Spent

\* A dictionary of touched hashXs by height.
Touches(d) == \A h \in DOMAIN d : d[h] \subseteq HashX

\* An entry of touched hashXs may be added.
LEMMA WithTouches ==
    ASSUME NEW d, NEW h, NEW value \in SUBSET HashX, Touches(d)
    PROVE  Touches(With(d, h, value))
BY DEF Touches, With

\* Notifications keep their types, whatever is due.
LEMMA MaybeNotifyType ==
    ASSUME NEW tmp, NEW tbp, NEW highest \in Nat, Touches(tmp), Touches(tbp),
           MaybeNotify(tmp, tbp, highest)
    PROVE  Touches(touched_mp') /\ Touches(touched_bp') /\ highest_block' \in Nat
<1>1. ASSUME NEW d, NEW due, Touches(d)
      PROVE  Touches(Above(d, due))
  BY <1>1 DEF Touches, Above, Restrict
<1>2. /\ touched_mp' = Above(tmp, Due(tmp, tbp, highest))
      /\ touched_bp' = Above(tbp, Due(tmp, tbp, highest))
      /\ highest_block' = highest
  BY DEF MaybeNotify
<1> QED BY <1>1, <1>2

\* Whoever is told is told the present status.
LEMMA TellsStatus ==
    ASSUME NEW notices, Tell(notices), NEW x \in HashX
    PROVE  known'[x] = known[x] \/ known'[x] = Status(db, txs', x)
BY DEF Tell

\* A status is made of transactions, those of the hashX.
LEMMA StatusType ==
    ASSUME NEW b \in Block, NEW ts \in SUBSET Tx, NEW x \in HashX
    PROVE  /\ Status(b, ts, x).confirmed \subseteq Tx /\ Status(b, ts, x).unconfirmed \subseteq Tx
           /\ Has(Status(b, ts, x)) = Touching(Confirmed[b] \cup ts, x)
BY ConfirmedIn DEF Status, Has, Touching

\* Telling clients keeps the types, and what clients know is remembered if it
\* was before, apart from what left the mempool.
LEMMA TellInv ==
    ASSUME NEW notices, Tell(notices), TypeOK, db' = db, txs' \subseteq Tx, dropped' = dropped,
           \A x \in HashX : Has(known[x]) \subseteq Touching(Confirmed[db] \cup txs' \cup dropped, x)
    PROVE  /\ \A x \in HashX : known'[x].confirmed \subseteq Tx /\ known'[x].unconfirmed \subseteq Tx
           /\ Remembered'
           /\ \A x \in HashX : Has(known[x]) \ Has(known'[x]) \subseteq dropped
<1> SUFFICES ASSUME NEW x \in HashX
             PROVE  /\ known'[x].confirmed \subseteq Tx /\ known'[x].unconfirmed \subseteq Tx
                    /\ Has(known'[x]) \subseteq Touching(Confirmed[db] \cup txs' \cup dropped, x)
                    /\ Has(known[x]) \ Has(known'[x]) \subseteq dropped
  BY DEF Remembered, Has, Touching
<1>1. db \in Block
  BY DEF TypeOK
<1>2. CASE known'[x] = known[x]
  BY <1>2 DEF TypeOK
<1>3. CASE known'[x] = Status(db, txs', x)
  <2>1. /\ known'[x].confirmed \subseteq Tx /\ known'[x].unconfirmed \subseteq Tx
        /\ Has(known'[x]) = Touching(Confirmed[db] \cup txs', x)
    BY <1>1, <1>3, StatusType
  <2> QED BY <2>1 DEF Touching
<1> QED BY <1>2, <1>3, TellsStatus

-----------------------------------------------------------------------------
(* The daemon *)

\* A new server, in sight of the genesis block.
LEMMA InitInv == Init => IInv
<1> SUFFICES ASSUME Init
             PROVE  IInv
  OBVIOUS
<1>1. Genesis \in Block /\ Prev[Genesis] = NoTip
  BY TxChainAssumption
<1>2. Height(Genesis) = 0 /\ OnChain(Genesis, Genesis)
  BY <1>1, PrevHeight, NoTipHeight, OnChainSelf
<1>3. pool \subseteq Tx /\ PoolValid(Genesis, pool)
  BY <1>1, MempoolAssumption DEF Init, PoolValid, CanHold
<1> DEFINE status(x) == Status(Genesis, {}, x)
<1>4. \A x \in HashX : /\ status(x).confirmed \subseteq Tx /\ status(x).unconfirmed \subseteq Tx
                       /\ Has(status(x)) = Touching(Confirmed[Genesis] \cup {}, x)
  BY <1>1, StatusType
<1>5. \A x \in HashX : known[x] = status(x)
  BY DEF Init
<1> HIDE DEF status
<1>6. TypeOK
  BY <1>1, <1>3, <1>4, <1>5 DEF Init, TypeOK
<1>7. FromOneMempool
  BY <1>3 DEF Init, FromOneMempool, ConflictFree
<1>8. Behind
  BY <1>2 DEF Init, Behind
<1>9. Mined
  BY DEF Init, Mined
<1>10. Remembered
  BY <1>4, <1>5 DEF Init, Remembered, Touching
<1> QED BY <1>6, <1>7, <1>8, <1>9, <1>10 DEF IInv

\* Whatever the daemon does, it comes to have a valid block and mempool.
LEMMA DaemonHasInv ==
    ASSUME IInv, NEW b \in Block, NEW ts, DaemonHas(b, ts), PoolValid(b, ts),
           b = daemon \/ Height(b) > Height(daemon)
    PROVE  IInv'
<1>1. /\ events' = events + 1 /\ daemon' = b /\ pool' = ts
      /\ dropped' = dropped \cup (pool \ (ts \cup Confirmed[b]))
                      \cup UNION {Txs[c] : c \in {a \in Block : OnChain(a, daemon) /\ ~ OnChain(a, b)}}
      /\ UNCHANGED <<cached_height, db, utxo_db, bp, bp_touched, mp, height, all_hashes, touched, chunks,
                     tx_map, utxo_map, txs, known, touched_mp, touched_bp, highest_block>>
  BY DEF DaemonHas, bpVars, mpVars, notifyVars
<1>2. TypeOK /\ daemon \in Block /\ db \in Block
  BY DEF IInv, TypeOK
<1>3. dropped \subseteq dropped'
  BY <1>1
<1>4. \A c \in Block : OnChain(c, daemon) /\ ~ OnChain(c, b) => Txs[c] \subseteq dropped'
  BY <1>1
<1>5. Alive \subseteq ts \cup Confirmed[b] \cup dropped'
  <2>1. pool \subseteq ts \cup Confirmed[b] \cup dropped'
    BY <1>1
  <2>2. ASSUME NEW t \in Confirmed[daemon]
        PROVE  t \in Confirmed[b] \cup dropped'
    <3>1. PICK c \in Block : OnChain(c, daemon) /\ t \in Txs[c]
      BY <1>2, ConfirmedIn
    <3> QED BY <1>4, <3>1, ConfirmedIn
  <2> QED BY <1>3, <2>1, <2>2 DEF Alive
<1>6. TypeOK'
  BY <1>1, <1>2 DEF TypeOK, PoolValid
<1>7. FromOneMempool'
  BY <1>1, <1>5 DEF IInv, FromOneMempool, Alive
<1>8. Height(daemon) <= Height(b) /\ Height(daemon) \in Nat /\ Height(b) \in Nat /\ Height(db) \in Nat
  BY <1>2, HeightNat
<1>9. Behind'
  <2>1. cached_height <= Height(b) /\ height <= Height(b)
    BY <1>2, <1>8 DEF IInv, Behind, TypeOK
  <2>2. ASSUME ~ OnChain(db, b)
        PROVE  Height(db) < Height(b)
    <3>1. CASE OnChain(db, daemon)
      <4>1. Height(db) <= Height(daemon) /\ b # daemon
        BY <1>2, <2>2, <3>1, OnChainIs
      <4> QED BY <1>8, <4>1
    <3>2. CASE ~ OnChain(db, daemon)
      <4>1. Height(db) < Height(daemon)
        BY <3>2 DEF IInv, Behind
      <4> QED BY <1>8, <4>1
    <3> QED BY <3>1, <3>2
  <2>3. \A c \in Block : OnChain(c, db) /\ ~ OnChain(c, b) => Txs[c] \subseteq dropped'
    BY <1>3, <1>4 DEF IInv, Behind
  <2> QED BY <1>1, <2>1, <2>2, <2>3 DEF Behind
<1>10. Mined'
  <2> SUFFICES ASSUME (mp = "height" /\ height = Height(b)) \/ mp = "process",
                      NEW t \in txs \ all_hashes
               PROVE  \/ t \in dropped'
                      \/ \E c \in Block : /\ OnChain(c, b) /\ t \in Txs[c] /\ Height(c) <= height
                                          /\ OnChain(c, db) \/ Height(db) < height
    BY <1>1 DEF Mined, WillBeIndexed
  <2>1. mp = "height" => height = Height(daemon)
    BY <1>2, <1>8 DEF IInv, Behind, TypeOK
  <2>2. t \in dropped \/ WillBeIndexed(t)
    BY <2>1 DEF IInv, Mined
  <2> QED BY <1>3, <1>4, <2>2 DEF WillBeIndexed
<1>11. Remembered'
  BY <1>1, <1>3 DEF IInv, Remembered, Touching
<1> QED BY <1>6, <1>7, <1>9, <1>10, <1>11 DEF IInv

\* A transaction enters the daemon's mempool.
LEMMA BroadcastInv ==
    ASSUME IInv, NEW t \in Tx, Broadcast(t)
    PROVE  IInv'
<1> DEFINE others == {u \in pool : Ins[u] \cap Ins[t] = {}}
           new == Acceptable(daemon, others \cup {t})
<1>1. daemon \in Block /\ pool \subseteq Tx /\ ConflictFree(pool)
  BY DEF IInv, TypeOK, FromOneMempool, PoolValid
<1>2. DaemonHas(daemon, new)
  BY DEF Broadcast
<1>3. ConflictFree(others \cup {t})
  BY <1>1 DEF ConflictFree
<1>4. others \cup {t} \in SUBSET Tx
  BY <1>1
<1> HIDE DEF others
<1>5. PoolValid(daemon, new)
  BY <1>1, <1>3, <1>4, AcceptableValid
<1> QED BY <1>1, <1>2, <1>5, DaemonHasInv

\* A transaction leaves it, with what spends it.
LEMMA EvictInv ==
    ASSUME IInv, NEW t \in Tx, Evict(t)
    PROVE  IInv'
<1>1. daemon \in Block /\ pool \subseteq Tx /\ ConflictFree(pool)
  BY DEF IInv, TypeOK, FromOneMempool, PoolValid
<1>2. ConflictFree(pool \ {t}) /\ pool \ {t} \in SUBSET Tx
  BY <1>1 DEF ConflictFree
<1>3. PoolValid(daemon, Acceptable(daemon, pool \ {t}))
  BY <1>1, <1>2, AcceptableValid
<1> QED BY <1>1, <1>3, DaemonHasInv DEF Evict

\* The daemon has a new tip.
LEMMA NewTipInv ==
    ASSUME IInv, NEW b \in Block, NewTip(b)
    PROVE  IInv'
<1>1. daemon \in Block /\ PoolValid(daemon, pool)
  BY DEF IInv, TypeOK, FromOneMempool
<1>2. PoolValid(b, Acceptable(b, pool \cup Confirmed[daemon]))
  BY <1>1, ReturnsValid
<1> QED BY <1>2, DaemonHasInv DEF NewTip

\* The block processor reads the daemon's height.
LEMMA PollHeightInv ==
    ASSUME IInv, PollHeight
    PROVE  IInv'
<1>1. /\ cached_height' = Height(daemon)
      /\ UNCHANGED <<daemon, pool, events, dropped, db, utxo_db, bp, bp_touched, mp, height, all_hashes,
                     touched, chunks, tx_map, utxo_map, txs, known, touched_mp, touched_bp, highest_block>>
  BY DEF PollHeight, bpVars, mpVars, notifyVars
<1>2. Height(daemon) \in Nat
  BY HeightNat DEF IInv, TypeOK
<1>3. TypeOK'
  BY <1>1, <1>2 DEF IInv, TypeOK
<1>4. FromOneMempool'
  BY <1>1 DEF IInv, FromOneMempool, Alive
<1>5. Behind'
  BY <1>1, <1>2 DEF IInv, Behind
<1>6. Mined'
  BY <1>1 DEF IInv, Mined, WillBeIndexed
<1>7. Remembered'
  BY <1>1 DEF IInv, Remembered
<1> QED BY <1>3, <1>4, <1>5, <1>6, <1>7 DEF IInv

-----------------------------------------------------------------------------
(* The block processor *)

\* The index gets to a block of the daemon's chain, and loses only blocks that
\* the daemon has left.
LEMMA IndexMoves ==
    ASSUME IInv, NEW b \in Block, OnChain(b, daemon), db' = b, TypeOK',
           Confirmed[db] \subseteq Confirmed[b] \cup dropped,
           UNCHANGED <<daemon, pool, cached_height, dropped, mp, height, all_hashes, chunks, tx_map, txs, known>>
    PROVE  IInv'
<1>1. daemon \in Block /\ height \in Nat /\ Height(b) \in Nat
  BY HeightNat DEF IInv, TypeOK
<1>2. FromOneMempool'
  BY DEF IInv, FromOneMempool, Alive
<1>3. Behind'
  <2>1. \A c \in Block : OnChain(c, b) => OnChain(c, daemon)
    BY <1>1, OnChainTrans
  <2> QED BY <2>1 DEF IInv, Behind
<1>4. Mined'
  <2> SUFFICES ASSUME (mp = "height" /\ height = Height(daemon)) \/ mp = "process",
                      NEW t \in txs \ all_hashes, t \notin dropped
               PROVE  \E c \in Block : /\ OnChain(c, daemon) /\ t \in Txs[c] /\ Height(c) <= height
                                       /\ OnChain(c, b) \/ Height(b) < height
    BY DEF Mined, WillBeIndexed
  <2>1. PICK c \in Block : OnChain(c, daemon) /\ t \in Txs[c] /\ Height(c) <= height
    BY DEF IInv, Mined, WillBeIndexed
  <2>2. Height(c) \in Nat
    BY HeightNat
  <2>3. Height(c) <= Height(b) \/ Height(b) < height
    BY <1>1, <2>1, <2>2
  <2>4. OnChain(c, b) \/ Height(b) < height
    BY <1>1, <2>1, <2>3, SameChain
  <2> QED BY <2>1, <2>4
<1>5. Remembered'
  BY DEF IInv, Remembered, Touching
<1> QED BY <1>2, <1>3, <1>4, <1>5 DEF IInv

\* The block processor advances.
LEMMA AdvanceBlocksInv ==
    ASSUME IInv, NEW b \in Block, AdvanceBlocks(b)
    PROVE  IInv'
<1>1. /\ OnChain(db, b) /\ OnChain(b, daemon)
      /\ db' = b /\ bp' = "flushing"
      /\ bp_touched' = bp_touched \cup Touched(Confirmed[b] \ Confirmed[db])
      /\ UNCHANGED <<daemon, pool, cached_height, events, dropped, utxo_db, mp, height, all_hashes,
                     touched, chunks, tx_map, utxo_map, txs, known, touched_mp, touched_bp, highest_block>>
  BY DEF AdvanceBlocks, daemonVars, mpVars, notifyVars
<1>2. TypeOK /\ db \in Block
  BY DEF IInv, TypeOK
<1>3. Touched(Confirmed[b] \ Confirmed[db]) \subseteq HashX
  BY ConfirmedIn, TouchedIn
<1>4. TypeOK'
  BY <1>1, <1>2, <1>3 DEF TypeOK
<1>5. Confirmed[db] \subseteq Confirmed[b]
  <2>1. \A c \in Block : OnChain(c, db) => OnChain(c, b)
    BY <1>1, <1>2, OnChainTrans
  <2> QED BY <1>2, <2>1, ConfirmedIn
<1> QED BY <1>1, <1>4, <1>5, IndexMoves

\* The block processor undoes the blocks of another branch.
LEMMA BackupBlocksInv ==
    ASSUME IInv, BackupBlocks
    PROVE  IInv'
<1>1. PICK b \in Block :
        /\ OnChain(b, db) /\ OnChain(b, daemon)
        /\ \A c \in Block : OnChain(c, db) /\ OnChain(c, daemon) => Height(c) <= Height(b)
        /\ db' = b /\ utxo_db' = b
        /\ bp_touched' = BackupTouched(b)
  BY DEF BackupBlocks
<1>2. UNCHANGED <<daemon, pool, cached_height, events, dropped, bp, mp, height, all_hashes,
                  touched, chunks, tx_map, utxo_map, txs, known, touched_mp, touched_bp, highest_block>>
  BY DEF BackupBlocks, daemonVars, mpVars, notifyVars
<1>3. TypeOK /\ db \in Block /\ daemon \in Block
  BY DEF IInv, TypeOK
<1>4. Touched(Confirmed[db] \ Confirmed[b]) \subseteq HashX
  BY <1>3, ConfirmedIn, TouchedIn
<1>5. TypeOK'
  BY <1>1, <1>2, <1>3, <1>4 DEF TypeOK, BackupTouched
<1>6. Confirmed[db] \subseteq Confirmed[b] \cup dropped
  <2> SUFFICES ASSUME NEW t \in Confirmed[db]
               PROVE  t \in Confirmed[b] \cup dropped
    OBVIOUS
  <2>1. PICK c \in Block : OnChain(c, db) /\ t \in Txs[c]
    BY <1>3, ConfirmedIn
  <2>2. CASE OnChain(c, daemon)
    <3>1. OnChain(c, b)
      BY <1>1, <1>3, <2>1, <2>2, SameChain
    <3> QED BY <2>1, <3>1, ConfirmedIn
  <2>3. CASE ~ OnChain(c, daemon)
    BY <2>1, <2>3 DEF IInv, Behind
  <2> QED BY <2>2, <2>3
<1> QED BY <1>1, <1>2, <1>5, <1>6, IndexMoves

\* The index is flushed.
LEMMA CommitUtxosInv ==
    ASSUME IInv, CommitUtxos
    PROVE  IInv'
<1>1. /\ utxo_db' = db /\ bp' = "flushed"
      /\ UNCHANGED <<daemon, pool, cached_height, events, dropped, db, bp_touched, mp, height, all_hashes,
                     touched, chunks, tx_map, utxo_map, txs, known, touched_mp, touched_bp, highest_block>>
  BY DEF CommitUtxos, daemonVars, mpVars, notifyVars
<1>2. TypeOK'
  BY <1>1 DEF IInv, TypeOK
<1>3. FromOneMempool'
  BY <1>1 DEF IInv, FromOneMempool, Alive
<1>4. Behind'
  BY <1>1 DEF IInv, Behind
<1>5. Mined'
  BY <1>1 DEF IInv, Mined, WillBeIndexed
<1>6. Remembered'
  BY <1>1 DEF IInv, Remembered
<1> QED BY <1>2, <1>3, <1>4, <1>5, <1>6 DEF IInv

\* What no step that tells clients takes back from them.
Kept == \A x \in HashX : Has(known[x]) \ Has(known'[x]) \subseteq dropped

\* on_block of the notifications.
LEMMA NotifyBlockInv ==
    ASSUME IInv, NotifyBlock
    PROVE  IInv' /\ Kept
<1>1. /\ OnBlock(bp_touched, Height(db)) /\ Tell(BlockNotices(bp_touched, Height(db)))
      /\ bp_touched' = {} /\ bp' = "idle"
      /\ UNCHANGED <<daemon, pool, cached_height, events, dropped, db, utxo_db, mp, height, all_hashes,
                     touched, chunks, tx_map, utxo_map, txs>>
  BY DEF NotifyBlock, daemonVars, mpVars
<1>2. TypeOK /\ db \in Block /\ Height(db) \in Nat /\ txs' \subseteq Tx
  BY <1>1, HeightNat DEF IInv, TypeOK
<1>3. /\ \A x \in HashX : known'[x].confirmed \subseteq Tx /\ known'[x].unconfirmed \subseteq Tx
      /\ Remembered' /\ Kept
  BY <1>1, <1>2, TellInv DEF IInv, Remembered, Kept
<1>4. Touches(touched_mp) /\ Touches(touched_bp) /\ bp_touched \subseteq HashX
  BY <1>2 DEF TypeOK, Touches
<1>5. Touches(touched_mp') /\ Touches(touched_bp') /\ highest_block' \in Nat
  BY <1>1, <1>2, <1>4, WithTouches, MaybeNotifyType DEF OnBlock
<1>6. TypeOK'
  BY <1>1, <1>2, <1>3, <1>5 DEF TypeOK, Touches
<1>7. FromOneMempool'
  BY <1>1 DEF IInv, FromOneMempool, Alive
<1>8. Behind'
  BY <1>1 DEF IInv, Behind
<1>9. Mined'
  BY <1>1 DEF IInv, Mined, WillBeIndexed
<1> QED BY <1>3, <1>6, <1>7, <1>8, <1>9 DEF IInv

-----------------------------------------------------------------------------
(* The refresh *)

\* A refresh of the mempool notes the cached height.
LEMMA StartRefreshInv ==
    ASSUME IInv, StartRefresh
    PROVE  IInv'
<1>1. /\ mp' = "hashes" /\ height' = cached_height
      /\ UNCHANGED <<daemon, pool, cached_height, events, dropped, db, utxo_db, bp, bp_touched, all_hashes,
                     touched, chunks, tx_map, utxo_map, txs, known, touched_mp, touched_bp, highest_block>>
  BY DEF StartRefresh, daemonVars, bpVars, notifyVars
<1>2. TypeOK'
  BY <1>1 DEF IInv, TypeOK
<1>3. FromOneMempool'
  BY <1>1 DEF IInv, FromOneMempool, Alive
<1>4. Behind'
  BY <1>1 DEF IInv, Behind
<1>5. Mined'
  BY <1>1 DEF Mined
<1>6. Remembered'
  BY <1>1 DEF IInv, Remembered
<1> QED BY <1>2, <1>3, <1>4, <1>5, <1>6 DEF IInv

\* The hashes are those of the daemon's mempool at one moment: what else the
\* server has must be in its chain, if it still has it.
LEMMA ReceiveHashesInv ==
    ASSUME IInv, ReceiveHashes
    PROVE  IInv'
<1>1. /\ all_hashes' = pool /\ mp' = "height"
      /\ UNCHANGED <<daemon, pool, cached_height, events, dropped, db, utxo_db, bp, bp_touched, height,
                     touched, chunks, tx_map, utxo_map, txs, known, touched_mp, touched_bp, highest_block>>
  BY DEF ReceiveHashes, daemonVars, bpVars, notifyVars
<1>2. TypeOK /\ daemon \in Block /\ db \in Block
  BY DEF IInv, TypeOK
<1>3. TypeOK'
  BY <1>1, <1>2 DEF TypeOK
<1>4. FromOneMempool'
  BY <1>1 DEF IInv, FromOneMempool, PoolValid, Alive
<1>5. Behind'
  BY <1>1 DEF IInv, Behind
<1>6. Mined'
  <2> SUFFICES ASSUME height = Height(daemon), NEW t \in txs \ pool, t \notin dropped
               PROVE  \E c \in Block : /\ OnChain(c, daemon) /\ t \in Txs[c] /\ Height(c) <= height
                                       /\ OnChain(c, db) \/ Height(db) < height
    BY <1>1 DEF Mined, WillBeIndexed
  <2>1. t \in Confirmed[daemon]
    BY DEF IInv, FromOneMempool, Alive
  <2>2. PICK c \in Block : OnChain(c, daemon) /\ t \in Txs[c]
    BY <1>2, <2>1, ConfirmedIn
  <2>3. Height(c) <= height
    BY <1>2, <2>2, OnChainIs
  <2>4. OnChain(c, db) \/ Height(db) < height
    <3>1. CASE OnChain(db, daemon)
      <4>1. Height(c) \in Nat /\ Height(db) \in Nat
        BY <1>2, HeightNat
      <4>2. CASE Height(c) <= Height(db)
        BY <1>2, <2>2, <3>1, <4>2, SameChain
      <4>3. CASE Height(db) < Height(c)
        BY <1>2, <2>3, <4>1, <4>3, HeightNat
      <4> QED BY <4>1, <4>2, <4>3
    <3>2. CASE ~ OnChain(db, daemon)
      BY <3>2 DEF IInv, Behind
    <3> QED BY <3>1, <3>2
  <2> QED BY <2>2, <2>3, <2>4
<1>7. Remembered'
  BY <1>1 DEF IInv, Remembered
<1> QED BY <1>3, <1>4, <1>5, <1>6, <1>7 DEF IInv

\* The refresh starts over if the height has changed meanwhile.
LEMMA CheckHeightInv ==
    ASSUME IInv, CheckHeight
    PROVE  IInv'
<1>1. /\ mp = "height" /\ cached_height' = Height(daemon)
      /\ mp' = IF height = Height(daemon) THEN "process" ELSE "sleep"
      /\ UNCHANGED <<daemon, pool, events, dropped, db, utxo_db, bp, bp_touched, height, all_hashes,
                     touched, chunks, tx_map, utxo_map, txs, known, touched_mp, touched_bp, highest_block>>
  BY DEF CheckHeight, bpVars, notifyVars
<1>2. Height(daemon) \in Nat
  BY HeightNat DEF IInv, TypeOK
<1>3. TypeOK'
  BY <1>1, <1>2 DEF IInv, TypeOK
<1>4. FromOneMempool'
  BY <1>1 DEF IInv, FromOneMempool, Alive
<1>5. Behind'
  BY <1>1, <1>2 DEF IInv, Behind
<1>6. Mined'
  BY <1>1 DEF IInv, Mined, WillBeIndexed
<1>7. Remembered'
  BY <1>1 DEF IInv, Remembered
<1> QED BY <1>3, <1>4, <1>5, <1>6, <1>7 DEF IInv

\* What the sessions are given when a refresh ends.
LEMMA HandOverInv ==
    ASSUME IInv, NEW ts \in SUBSET HashX, HandOver(ts), db' = db, dropped' = dropped, txs' \subseteq Tx,
           \A x \in HashX : Has(known[x]) \subseteq Touching(Confirmed[db] \cup txs' \cup dropped, x)
    PROVE  /\ mp' = "sleep" /\ touched' = {}
           /\ \A x \in HashX : known'[x].confirmed \subseteq Tx /\ known'[x].unconfirmed \subseteq Tx
           /\ \A h \in DOMAIN touched_mp' : touched_mp'[h] \subseteq HashX
           /\ \A h \in DOMAIN touched_bp' : touched_bp'[h] \subseteq HashX
           /\ highest_block' \in Nat
           /\ Remembered' /\ Kept
<1>1. OnMempool(ts, height) /\ Tell(MempoolNotices(ts, height)) /\ touched' = {} /\ mp' = "sleep"
  BY DEF HandOver
<1>2. TypeOK
  BY DEF IInv
<1>3. /\ \A x \in HashX : known'[x].confirmed \subseteq Tx /\ known'[x].unconfirmed \subseteq Tx
      /\ Remembered' /\ Kept
  BY <1>1, <1>2, TellInv DEF Kept
<1>4. Touches(touched_mp) /\ Touches(touched_bp) /\ highest_block \in Nat
  BY <1>2 DEF TypeOK, Touches
<1>5. Touches(touched_mp') /\ Touches(touched_bp') /\ highest_block' \in Nat
  BY <1>1, <1>4, WithTouches, MaybeNotifyType DEF OnMempool
<1> QED BY <1>1, <1>3, <1>5 DEF Touches

\* What is in sync, and has disappeared from the mempool, is in the index.
LEMMA StillRemembered ==
    ASSUME IInv, mp = "process", InSync, NEW x \in HashX
    PROVE  Has(known[x]) \subseteq Touching(Confirmed[db] \cup (txs \cap all_hashes) \cup dropped, x)
<1> SUFFICES ASSUME NEW t \in txs \ all_hashes
             PROVE  t \in Confirmed[db] \cup dropped
  BY DEF IInv, Remembered, Touching
<1>1. db \in Block /\ Height(db) = height /\ height \in Nat
  BY DEF IInv, TypeOK, InSync
<1>2. t \in dropped \/ WillBeIndexed(t)
  BY DEF IInv, Mined
<1>3. ASSUME WillBeIndexed(t)
      PROVE  t \in Confirmed[db]
  <2>1. PICK c \in Block : t \in Txs[c] /\ (OnChain(c, db) \/ Height(db) < height)
    BY <1>3 DEF WillBeIndexed
  <2>2. OnChain(c, db)
    BY <1>1, <2>1
  <2> QED BY <1>1, <2>1, <2>2, ConfirmedIn
<1> QED BY <1>2, <1>3

\* What is not in the daemon's mempool any more is deleted.
LEMMA ProcessMempoolInv ==
    ASSUME IInv, ProcessMempool
    PROVE  IInv' /\ Kept
<1>1. /\ mp = "process" /\ tx_map' = {} /\ utxo_map' = {}
      /\ UNCHANGED <<daemon, pool, cached_height, events, dropped, db, utxo_db, bp, bp_touched, height,
                     all_hashes>>
  BY DEF ProcessMempool, daemonVars, bpVars
<1>2. TypeOK /\ txs \subseteq Tx /\ all_hashes \subseteq Tx /\ touched \subseteq HashX
  BY DEF IInv, TypeOK
<1>3. CASE ~ InSync
  <2>1. mp' = "sleep" /\ UNCHANGED <<known, touched_mp, touched_bp, highest_block, txs, touched, chunks>>
    BY <1>3 DEF ProcessMempool, CutShort, notifyVars
  <2>2. TypeOK'
    BY <1>1, <1>2, <2>1 DEF TypeOK
  <2>3. FromOneMempool'
    BY <1>1, <2>1 DEF IInv, FromOneMempool, Alive
  <2>4. Behind'
    BY <1>1 DEF IInv, Behind
  <2>5. Mined'
    BY <2>1 DEF Mined
  <2>6. Remembered' /\ Kept
    BY <1>1, <2>1 DEF IInv, Remembered, Kept
  <2> QED BY <2>2, <2>3, <2>4, <2>5, <2>6 DEF IInv
<1>4. CASE InSync
  <2> DEFINE new == all_hashes \ txs
             gone == touched \cup Touched(txs \ all_hashes)
  <2>1. /\ txs' = txs \cap all_hashes
        /\ IF new = {} THEN HandOver(gone) ELSE CutShort("fetch") /\ touched' = gone
    BY <1>4 DEF ProcessMempool, StillThere, TouchedByVanished
  <2>2. PICK first \in SUBSET new :
            chunks' = {[hashes |-> hs, state |-> "raw"] : hs \in {first, new \ first} \ {{}}}
    BY <1>4 DEF ProcessMempool
  <2>3. \A x \in HashX : Has(known[x]) \subseteq Touching(Confirmed[db] \cup txs' \cup dropped, x)
    BY <1>1, <1>4, <2>1, StillRemembered
  <2>4. gone \subseteq HashX
    BY <1>2, TouchedIn
  <2>5. /\ chunks' \subseteq [hashes : SUBSET Tx, state : {"raw", "lookup"}]
        /\ \A c \in chunks' : c.hashes \subseteq all_hashes
    BY <1>2, <2>2
  <2> HIDE DEF new, gone
  <2>6. /\ mp' \in {"sleep", "fetch"} /\ touched' \subseteq HashX
        /\ \A x \in HashX : known'[x].confirmed \subseteq Tx /\ known'[x].unconfirmed \subseteq Tx
        /\ \A h \in DOMAIN touched_mp' : touched_mp'[h] \subseteq HashX
        /\ \A h \in DOMAIN touched_bp' : touched_bp'[h] \subseteq HashX
        /\ highest_block' \in Nat
        /\ Remembered' /\ Kept
    <3>1. CASE new = {}
      <4>1. HandOver(gone) /\ txs' \subseteq Tx
        BY <1>2, <2>1, <3>1
      <4> QED BY <1>1, <2>3, <2>4, <4>1, HandOverInv
    <3>2. CASE new # {}
      <4>1. /\ mp' = "fetch" /\ touched' = gone
            /\ UNCHANGED <<known, touched_mp, touched_bp, highest_block>>
        BY <2>1, <3>2 DEF CutShort, notifyVars
      <4>2. Remembered' /\ Kept
        BY <1>1, <2>3, <4>1 DEF Remembered, Kept
      <4> QED BY <1>2, <2>4, <4>1, <4>2 DEF TypeOK
    <3> QED BY <3>1, <3>2
  <2>7. TypeOK'
    BY <1>1, <1>2, <2>1, <2>5, <2>6 DEF TypeOK
  <2>8. FromOneMempool'
    BY <1>1, <2>1, <2>5 DEF IInv, FromOneMempool, Alive, ConflictFree
  <2>9. Behind'
    BY <1>1 DEF IInv, Behind
  <2>10. Mined'
    BY <2>6 DEF Mined
  <2> QED BY <2>6, <2>7, <2>8, <2>9, <2>10 DEF IInv
<1> QED BY <1>3, <1>4

\* New transactions arrive, those the daemon still has.
LEMMA ReceiveRawInv ==
    ASSUME IInv, ReceiveRaw
    PROVE  IInv'
<1>1. PICK c \in chunks : \E mined \in SUBSET (c.hashes \cap Confirmed[daemon]) :
        chunks' = (chunks \ {c}) \cup {[hashes |-> (c.hashes \cap pool) \cup mined, state |-> "lookup"]}
  BY DEF ReceiveRaw
<1>2. PICK mined \in SUBSET (c.hashes \cap Confirmed[daemon]) :
        chunks' = (chunks \ {c}) \cup {[hashes |-> (c.hashes \cap pool) \cup mined, state |-> "lookup"]}
  BY <1>1
<1>3. UNCHANGED <<daemon, pool, cached_height, events, dropped, db, utxo_db, bp, bp_touched, mp, height,
                  all_hashes, touched, tx_map, utxo_map, txs, known, touched_mp, touched_bp, highest_block>>
  BY DEF ReceiveRaw, daemonVars, bpVars, notifyVars
<1>4. mp = "fetch" /\ TypeOK /\ c.hashes \in SUBSET Tx
  BY DEF ReceiveRaw, IInv, TypeOK
<1> DEFINE got == (c.hashes \cap pool) \cup mined
<1>5. got \subseteq c.hashes
  OBVIOUS
<1>6. chunks' = (chunks \ {c}) \cup {[hashes |-> got, state |-> "lookup"]}
  BY <1>2
<1> HIDE DEF got
<1>7. [hashes |-> got, state |-> "lookup"] \in [hashes : SUBSET Tx, state : {"raw", "lookup"}]
  BY <1>4, <1>5
<1>8. TypeOK'
  BY <1>3, <1>4, <1>6, <1>7 DEF TypeOK
<1>9. FromOneMempool'
  <2>1. \A d \in chunks' : d.hashes \subseteq all_hashes
    BY <1>4, <1>5, <1>6 DEF IInv, FromOneMempool
  <2> QED BY <1>3, <2>1 DEF IInv, FromOneMempool, Alive
<1>10. Behind'
  BY <1>3 DEF IInv, Behind
<1>11. Mined'
  BY <1>3, <1>4 DEF Mined
<1>12. Remembered'
  BY <1>3 DEF IInv, Remembered
<1> QED BY <1>8, <1>9, <1>10, <1>11, <1>12 DEF IInv

\* Their inputs are looked up in the index, and what can be accepted is.
LEMMA LookupAndAcceptInv ==
    ASSUME IInv, LookupAndAccept
    PROVE  IInv'
<1>1. PICK c \in chunks :
        /\ LET found == (Spent(c.hashes) \ all_hashes) \cap Unspent(utxo_db)
           IN  \E accepted \in Outcomes(c.hashes, found) :
                /\ txs' = txs \cup accepted
                /\ touched' = touched \cup Touched(accepted)
                /\ tx_map' = tx_map \cup (c.hashes \ accepted)
                /\ utxo_map' = utxo_map \cup (found \ Spent(accepted))
        /\ chunks' = chunks \ {c}
  BY DEF LookupAndAccept
<1> DEFINE found == (Spent(c.hashes) \ all_hashes) \cap Unspent(utxo_db)
<1>2. PICK accepted \in Outcomes(c.hashes, found) :
        /\ txs' = txs \cup accepted
        /\ touched' = touched \cup Touched(accepted)
        /\ tx_map' = tx_map \cup (c.hashes \ accepted)
        /\ utxo_map' = utxo_map \cup (found \ Spent(accepted))
  BY <1>1
<1>3. UNCHANGED <<daemon, pool, cached_height, events, dropped, db, utxo_db, bp, bp_touched, mp, height,
                  all_hashes, known, touched_mp, touched_bp, highest_block>>
  BY DEF LookupAndAccept, daemonVars, bpVars, notifyVars
<1>4. mp = "fetch" /\ TypeOK /\ c.hashes \in SUBSET Tx /\ txs \subseteq all_hashes
  BY DEF LookupAndAccept, IInv, TypeOK, FromOneMempool
<1>5. accepted \subseteq c.hashes /\ c.hashes \subseteq all_hashes
  BY <1>4, OutcomesIn DEF IInv, FromOneMempool
<1>6. Touched(accepted) \subseteq HashX
  BY <1>4, <1>5, TouchedIn
<1>7. found \subseteq Tx
  BY <1>4, SpentIn
<1> HIDE DEF found
<1>8. TypeOK'
  BY <1>1, <1>2, <1>3, <1>4, <1>5, <1>6, <1>7 DEF TypeOK
<1>9. FromOneMempool'
  <2>1. txs' \subseteq all_hashes /\ tx_map' \subseteq all_hashes /\ chunks' \subseteq chunks
    BY <1>1, <1>2, <1>4, <1>5 DEF IInv, FromOneMempool
  <2> QED BY <1>3, <2>1 DEF IInv, FromOneMempool, Alive, ConflictFree
<1>10. Behind'
  BY <1>3 DEF IInv, Behind
<1>11. Mined'
  BY <1>3, <1>4 DEF Mined
<1>12. Remembered'
  BY <1>2, <1>3 DEF IInv, Remembered, Touching
<1> QED BY <1>8, <1>9, <1>10, <1>11, <1>12 DEF IInv

\* What was deferred is tried again, until nothing changes.
LEMMA AcceptDeferredInv ==
    ASSUME IInv, AcceptDeferred
    PROVE  IInv' /\ Kept
<1>1. /\ mp = "fetch"
      /\ UNCHANGED <<daemon, pool, cached_height, events, dropped, db, utxo_db, bp, bp_touched, height,
                     all_hashes, chunks, tx_map, utxo_map>>
  BY DEF AcceptDeferred, daemonVars, bpVars
<1>2. TypeOK /\ txs \subseteq all_hashes /\ tx_map \subseteq all_hashes /\ all_hashes \subseteq Tx
  BY <1>1 DEF IInv, TypeOK, FromOneMempool
<1>3. CASE ~ InSync
  <2>1. mp' = "sleep" /\ UNCHANGED <<known, touched_mp, touched_bp, highest_block, txs, touched>>
    BY <1>3 DEF AcceptDeferred, CutShort, notifyVars
  <2>2. TypeOK'
    BY <1>1, <1>2, <2>1 DEF TypeOK
  <2>3. FromOneMempool'
    BY <1>1, <2>1 DEF IInv, FromOneMempool, Alive
  <2>4. Behind'
    BY <1>1 DEF IInv, Behind
  <2>5. Mined'
    BY <2>1 DEF Mined
  <2>6. Remembered' /\ Kept
    BY <1>1, <2>1 DEF IInv, Remembered, Kept
  <2> QED BY <2>2, <2>3, <2>4, <2>5, <2>6 DEF IInv
<1>4. CASE InSync
  <2>1. PICK accepted \in SUBSET tx_map :
            txs' = txs \cup accepted /\ HandOver(touched \cup Touched(accepted))
    BY <1>4, DeferredIn
  <2>2. touched \cup Touched(accepted) \in SUBSET HashX
    BY <1>2, TouchedIn DEF TypeOK
  <2>3. txs' \subseteq all_hashes /\ txs' \subseteq Tx /\ txs \subseteq txs'
    BY <1>2, <2>1
  <2>4. \A x \in HashX : Has(known[x]) \subseteq Touching(Confirmed[db] \cup txs' \cup dropped, x)
    BY <2>3 DEF IInv, Remembered, Touching
  <2>5. /\ mp' = "sleep" /\ touched' = {}
        /\ \A x \in HashX : known'[x].confirmed \subseteq Tx /\ known'[x].unconfirmed \subseteq Tx
        /\ \A h \in DOMAIN touched_mp' : touched_mp'[h] \subseteq HashX
        /\ \A h \in DOMAIN touched_bp' : touched_bp'[h] \subseteq HashX
        /\ highest_block' \in Nat
        /\ Remembered' /\ Kept
    BY <1>1, <2>1, <2>2, <2>3, <2>4, HandOverInv
  <2>6. TypeOK'
    BY <1>1, <1>2, <2>3, <2>5 DEF TypeOK
  <2>7. FromOneMempool'
    BY <1>1, <2>3, <2>5 DEF IInv, FromOneMempool, Alive, ConflictFree
  <2>8. Behind'
    BY <1>1 DEF IInv, Behind
  <2>9. Mined'
    BY <2>5 DEF Mined
  <2> QED BY <2>5, <2>6, <2>7, <2>8, <2>9 DEF IInv
<1> QED BY <1>3, <1>4

-----------------------------------------------------------------------------
(* The theorems *)

\* Steps of nothing.
LEMMA StutterInv ==
    ASSUME IInv, UNCHANGED vars
    PROVE  IInv' /\ Kept
<1>1. UNCHANGED <<daemon, pool, cached_height, events, dropped, db, utxo_db, bp, bp_touched, mp, height,
                  all_hashes, touched, chunks, tx_map, utxo_map, txs, known, touched_mp, touched_bp,
                  highest_block>>
  BY DEF vars, daemonVars, bpVars, mpVars, notifyVars
<1>2. TypeOK'
  BY <1>1 DEF IInv, TypeOK
<1>3. FromOneMempool'
  BY <1>1 DEF IInv, FromOneMempool, Alive
<1>4. Behind' /\ Kept
  BY <1>1 DEF IInv, Behind, Kept
<1>5. Mined'
  BY <1>1 DEF IInv, Mined, WillBeIndexed
<1>6. Remembered'
  BY <1>1 DEF IInv, Remembered
<1> QED BY <1>2, <1>3, <1>4, <1>5, <1>6 DEF IInv

\* A step that leaves what clients know takes nothing from them.
LEMMA UnchangedKept ==
    ASSUME known' = known
    PROVE  Kept
BY DEF Kept

\* Every step keeps the invariant, and what clients were told of.
LEMMA NextInv == IInv /\ [Next]_vars => IInv' /\ Kept
<1> SUFFICES ASSUME IInv, [Next]_vars
             PROVE  IInv' /\ Kept
  OBVIOUS
<1>1. CASE Daemon
  <2>1. Kept
    BY <1>1, UnchangedKept DEF Daemon, Broadcast, Evict, NewTip, DaemonHas
  <2> QED BY <1>1, <2>1, BroadcastInv, EvictInv, NewTipInv DEF Daemon
<1>2. CASE PollHeight
  BY <1>2, PollHeightInv, UnchangedKept DEF PollHeight
<1>3. CASE \E b \in Block : AdvanceBlocks(b)
  BY <1>3, AdvanceBlocksInv, UnchangedKept DEF AdvanceBlocks
<1>4. CASE CommitUtxos
  BY <1>4, CommitUtxosInv, UnchangedKept DEF CommitUtxos
<1>5. CASE NotifyBlock
  BY <1>5, NotifyBlockInv
<1>6. CASE BackupBlocks
  BY <1>6, BackupBlocksInv, UnchangedKept DEF BackupBlocks
<1>7. CASE StartRefresh
  BY <1>7, StartRefreshInv, UnchangedKept DEF StartRefresh
<1>8. CASE ReceiveHashes
  BY <1>8, ReceiveHashesInv, UnchangedKept DEF ReceiveHashes
<1>9. CASE CheckHeight
  BY <1>9, CheckHeightInv, UnchangedKept DEF CheckHeight
<1>10. CASE ProcessMempool
  BY <1>10, ProcessMempoolInv
<1>11. CASE ReceiveRaw
  BY <1>11, ReceiveRawInv, UnchangedKept DEF ReceiveRaw
<1>12. CASE LookupAndAccept
  BY <1>12, LookupAndAcceptInv, UnchangedKept DEF LookupAndAccept
<1>13. CASE AcceptDeferred
  BY <1>13, AcceptDeferredInv
<1>14. CASE UNCHANGED vars
  BY <1>14, StutterInv
<1> QED
  BY <1>1, <1>2, <1>3, <1>4, <1>5, <1>6, <1>7, <1>8, <1>9, <1>10, <1>11, <1>12, <1>13, <1>14
     DEF Next, BlockProcessor, Refresh

\* The invariant holds of every behaviour.
LEMMA InvHolds == Spec => []IInv
<1>1. Init => IInv
  BY InitInv
<1>2. IInv /\ [Next]_vars => IInv'
  BY NextInv
<1> QED BY <1>1, <1>2, PTL DEF Spec

\* Each variable of the mempool, the daemon, the block processor and of the
\* notifications has its type, for every tree of blocks and all transactions.
THEOREM TypeCorrect == Spec => []TypeOK
<1>1. IInv => TypeOK
  BY DEF IInv
<1> QED BY <1>1, InvHolds, PTL

\* MemPool.txs never has two transactions that spend the same output, although
\* it is filled chunk by chunk while the daemon replaces transactions: the
\* chunks are of one answer of mempool_hashes, and what it had is cut down to
\* that answer before anything is added.
THEOREM NeverInConflict == Spec => []NoConflict
<1>1. IInv => NoConflict
  BY DEF IInv, FromOneMempool, NoConflict
<1> QED BY <1>1, InvHolds, PTL

\* A transaction that a client was told of does not vanish from its status
\* while the daemon has it, whatever blocks, reorgs and refreshes are under way:
\* _refresh_hashes takes a mempool only if it asked for it at the height at
\* which the DB is when it is processed.
THEOREM StaysInSight == Spec => NeverVanishes
<1> DEFINE Sees == \A x \in HashX :
                      LET has(k) == k.confirmed \cup k.unconfirmed
                      IN  has(known[x]) \ has(known'[x]) \subseteq dropped
<1>1. IInv /\ [Next]_vars => [Sees]_vars
  <2>1. Kept => Sees
    BY DEF Kept, Has
  <2> QED BY <2>1, NextInv
<1> QED BY <1>1, InvHolds, PTL DEF Spec, NeverVanishes
=============================================================================
