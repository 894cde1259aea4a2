---------------------- MODULE HistoryCompaction_proofs ----------------------
(***************************************************************************)
(* What holds of the history DB for any number of prefixes, size of a row, *)
(* limit on flush ids and length of the chain: no flush, backup or batch   *)
(* of the compaction, and no kill between them, loses an entry, stores one *)
(* twice or puts one out of order, provided that Careful holds.            *)
(*                                                                         *)
(* The rows of a hashX are looked at as sets of entries in order: a        *)
(* history is an increasing sequence, and there is only one of its items.  *)
(***************************************************************************)
EXTENDS HistoryCompaction, FiniteSetsExt, SequenceTheorems, WellFoundedInduction, TLAPS

-----------------------------------------------------------------------------
(* Induction, and least elements *)

\* A set of numbers that is not empty has a least element.
LEMMA NatLeast ==
    ASSUME NEW T \in SUBSET Nat, T # {}
    PROVE  \E x \in T : \A y \in T : x <= y
<1> DEFINE R == OpToRel(<, Nat)
<1>1. IsWellFoundedOn(R, Nat)
  BY NatLessThanWellFounded
<1>2. \A x, y \in Nat : <<y, x>> \in R <=> y < x
  BY DEF OpToRel
<1> HIDE DEF R
<1>3. PICK x \in T : \A y \in T : ~ (<<y, x>> \in R)
  BY <1>1, WFMin
<1>4. ASSUME NEW y \in T
      PROVE  x <= y
  <2>1. x \in Nat /\ y \in Nat
    OBVIOUS
  <2>2. ~ (y < x)
    BY <1>2, <1>3, <2>1
  <2> QED BY <2>1, <2>2
<1> QED BY <1>4

\* A set that has 0, and with a number the next one, has them all.
LEMMA NatInductive ==
    ASSUME NEW S, 0 \in S, \A n \in Nat : n \in S => n + 1 \in S
    PROVE  Nat \subseteq S
<1> SUFFICES ASSUME ~ (Nat \subseteq S)
             PROVE  FALSE
  OBVIOUS
<1>1. PICK x \in Nat \ S : \A y \in Nat \ S : x <= y
  <2>1. Nat \ S \in SUBSET Nat /\ Nat \ S # {}
    OBVIOUS
  <2> QED BY <2>1, NatLeast
<1>2. x - 1 \in Nat /\ x - 1 \in S
  BY <1>1
<1> QED BY <1>1, <1>2

\* The least element of a set of integers that are not below some bound.
LEMMA IntLeast ==
    ASSUME NEW T \in SUBSET Int, T # {}, NEW low \in Int, \A t \in T : t >= low
    PROVE  \E x \in T : \A y \in T : x <= y
<1> DEFINE U == {n \in Nat : n + low \in T}
<1>1. PICK t \in T : TRUE
  OBVIOUS
<1>2. t - low \in U
  BY <1>1
<1>3. PICK m \in U : \A n \in U : m <= n
  BY <1>2, NatLeast
<1>4. ASSUME NEW y \in T
      PROVE  m + low <= y
  <2>1. y - low \in U
    OBVIOUS
  <2>2. m <= y - low
    BY <1>3, <2>1
  <2> QED BY <2>2
<1> QED BY <1>4

\* A set of integers with a bound has a greatest element.
LEMMA MaxIsGreatest ==
    ASSUME NEW T \in SUBSET Int, T # {}, NEW high \in Int, \A t \in T : t <= high
    PROVE  Max(T) \in T /\ \A t \in T : Max(T) >= t
<1> DEFINE U == {n \in Int : 0 - n \in T}
<1>1. PICK t \in T : TRUE
  OBVIOUS
<1>2. 0 - t \in U /\ 0 - high \in Int /\ \A u \in U : u >= 0 - high
  BY <1>1
<1>3. PICK u \in U : \A v \in U : u <= v
  BY <1>2, IntLeast
<1>4. ASSUME NEW y \in T
      PROVE  0 - u >= y
  <2>1. 0 - y \in U
    OBVIOUS
  <2> QED BY <1>3, <2>1
<1>5. \E z \in T : \A y \in T : z >= y
  BY <1>3, <1>4
<1> QED BY <1>5 DEF Max

\* Of two numbers.
LEMMA MinOfTwo ==
    ASSUME NEW m \in Int, NEW n \in Int
    PROVE  Min({m, n}) = IF m <= n THEN m ELSE n
<1>1. \E x \in {m, n} : \A y \in {m, n} : x <= y
  OBVIOUS
<1>2. Min({m, n}) \in {m, n} /\ \A y \in {m, n} : Min({m, n}) <= y
  BY <1>1 DEF Min
<1> QED BY <1>2

\* The greater of two numbers.
LEMMA MaxOfTwo ==
    ASSUME NEW m \in Int, NEW n \in Int
    PROVE  Max({m, n}) = IF m >= n THEN m ELSE n
<1>1. \E x \in {m, n} : \A y \in {m, n} : x >= y
  OBVIOUS
<1>2. Max({m, n}) \in {m, n} /\ \A y \in {m, n} : Max({m, n}) >= y
  BY <1>1 DEF Max
<1> QED BY <1>2
-----------------------------------------------------------------------------

\* The entries of a row or a history.
Items(s) == {s[k] : k \in 1 .. Len(s)}

Increasing(s) == \A j, k \in 1 .. Len(s) : j < k => s[j] < s[k]

\* The rows of one hashX, by flush id.
RowSet == [FlushId -> Seq(Nat)]

\* The entries of the rows with the flush ids up to i, and of all.
ItemsUpTo(row, i) == UNION {Items(row[j]) : j \in 0 .. i}
RowItems(row) == ItemsUpTo(row, MaxFlushId)

\* Each row is in order, and all its entries come before those of later ones.
InOrder(row) ==
    /\ \A i \in FlushId : Increasing(row[i])
    /\ \A i, j \in FlushId : i < j => \A m \in Items(row[i]), n \in Items(row[j]) : m < n

\* The numbers of the first n transactions that touch h.
TouchedIn(chain, h, n) == {t \in 0 .. n - 1 : h \in chain[t + 1]}
Touching(h, n) == TouchedIn(txs, h, n)

-----------------------------------------------------------------------------
(* The inductive invariant *)

\* How much of the chain there is.
ChainInv ==
    /\ utxo.tx_count <= Len(txs) /\ Len(txs) <= MaxTx
    /\ pc # "down" => tx_count = Len(txs)

\* The rows are in order, none is larger than a compacted one, and none has a
\* flush id beyond the count of its database.
RowInv ==
    \A h \in HashX :
        /\ InOrder(rows[h])
        /\ \A i \in FlushId :
            /\ Len(rows[h][i]) <= MaxRowEntries
            /\ rows[h][i] # <<>> => i <= hist.flush_count

\* What a restart keeps is the history of the chain of the UTXO DB.
KeptInv == \A h \in HashX : ItemsUpTo(rows[h], utxo.flush_count) = Touching(h, utxo.tx_count)

\* A server has the rest of the history of its chain in memory.
ServerInv ==
    pc \in {"serving", "flushed"} =>
        /\ flush_count = hist.flush_count /\ utxo_flush_count = utxo.flush_count
        /\ utxo.flush_count <= flush_count
        /\ comp_cursor = -1
        /\ pc = "flushed" => unflushed = NoRows
        /\ \A h \in HashX :
            /\ Increasing(unflushed[h]) /\ Len(unflushed[h]) <= MaxRowEntries
            /\ RowItems(rows[h]) \cup Items(unflushed[h]) = Touching(h, tx_count)
            /\ \A m \in RowItems(rows[h]), n \in Items(unflushed[h]) : m < n

\* The tool has no history in memory, and goes on where the database says.
ToolInv ==
    /\ pc \in {"compacting", "compacted"} =>
        /\ flush_count = hist.flush_count
        /\ \A h \in HashX : RowItems(rows[h]) = Touching(h, utxo.tx_count)
    /\ pc = "compacting" =>
        /\ flush_count <= utxo.flush_count
        /\ comp_cursor # -1
        /\ hist.comp_cursor = comp_cursor \/ (hist.comp_cursor = -1 /\ comp_cursor = 0)
        /\ comp_flush_count # -1 /\ hist.comp_flush_count <= comp_flush_count

\* Nothing that an interrupted compaction relies on is in excess.
InterruptedInv == hist.comp_cursor # -1 => hist.flush_count <= utxo.flush_count

IInv == TypeOK /\ ChainInv /\ RowInv /\ KeptInv /\ ServerInv /\ ToolInv /\ InterruptedInv /\ CursorHonest
-----------------------------------------------------------------------------
(* Sequences in order *)

\* The items of two sequences in one, and when they are in order.
LEMMA ConcatItems ==
    ASSUME NEW s \in Seq(Nat), NEW t \in Seq(Nat)
    PROVE  /\ s \o t \in Seq(Nat) /\ Len(s \o t) = Len(s) + Len(t)
           /\ Items(s \o t) = Items(s) \cup Items(t)
           /\ Increasing(s) /\ Increasing(t) /\ (\A m \in Items(s), n \in Items(t) : m < n)
                => Increasing(s \o t)
<1>1. /\ Len(s) \in Nat /\ Len(t) \in Nat
      /\ s \o t \in Seq(Nat) /\ Len(s \o t) = Len(s) + Len(t)
      /\ \A k \in 1 .. Len(s) + Len(t) : (s \o t)[k] = IF k <= Len(s) THEN s[k] ELSE t[k - Len(s)]
  OBVIOUS
<1> DEFINE c == s \o t
<1> HIDE DEF c
<1>2. /\ c \in Seq(Nat) /\ Len(c) = Len(s) + Len(t)
      /\ \A k \in 1 .. Len(s) + Len(t) : c[k] = IF k <= Len(s) THEN s[k] ELSE t[k - Len(s)]
  BY <1>1 DEF c
<1>3. /\ \A k \in 1 .. Len(s) : k \in 1 .. Len(c) /\ c[k] = s[k]
      /\ \A k \in 1 .. Len(t) : Len(s) + k \in 1 .. Len(c) /\ c[Len(s) + k] = t[k]
  <2>1. ASSUME NEW k \in 1 .. Len(s)
        PROVE  k \in 1 .. Len(c) /\ c[k] = s[k]
    <3>1. k \in 1 .. Len(s) + Len(t) /\ k <= Len(s)
      BY <1>1
    <3> QED BY <1>2, <3>1
  <2>2. ASSUME NEW k \in 1 .. Len(t)
        PROVE  Len(s) + k \in 1 .. Len(c) /\ c[Len(s) + k] = t[k]
    <3>1. Len(s) + k \in 1 .. Len(s) + Len(t) /\ ~ (Len(s) + k <= Len(s)) /\ (Len(s) + k) - Len(s) = k
      BY <1>1
    <3>2. c[Len(s) + k] = t[(Len(s) + k) - Len(s)]
      BY <1>2, <3>1
    <3> QED BY <1>2, <3>1, <3>2
  <2> QED BY <2>1, <2>2
<1>4. ASSUME NEW j \in 1 .. Len(c)
      PROVE  \/ j \in 1 .. Len(s)
             \/ \E k \in 1 .. Len(t) : j = Len(s) + k
  <2>1. CASE j <= Len(s)
    BY <1>1, <2>1
  <2>2. CASE ~ (j <= Len(s))
    <3>1. j - Len(s) \in 1 .. Len(t) /\ j = Len(s) + (j - Len(s))
      BY <1>1, <1>2, <2>2
    <3> QED BY <3>1
  <2> QED BY <2>1, <2>2
<1>5. Items(c) = Items(s) \cup Items(t)
  <2>1. ASSUME NEW m \in Items(c)
        PROVE  m \in Items(s) \cup Items(t)
    <3>1. PICK j \in 1 .. Len(c) : m = c[j]
      BY DEF Items
    <3>2. CASE j \in 1 .. Len(s)
      BY <1>3, <3>1, <3>2 DEF Items
    <3>3. ASSUME NEW k \in 1 .. Len(t), j = Len(s) + k
          PROVE  m \in Items(t)
      BY <1>3, <3>1, <3>3 DEF Items
    <3> QED BY <1>4, <3>2, <3>3
  <2>2. ASSUME NEW m \in Items(s)
        PROVE  m \in Items(c)
    BY <1>3 DEF Items
  <2>3. ASSUME NEW m \in Items(t)
        PROVE  m \in Items(c)
    BY <1>3 DEF Items
  <2> QED BY <2>1, <2>2, <2>3
<1>6. ASSUME Increasing(s), Increasing(t), \A m \in Items(s), n \in Items(t) : m < n
      PROVE  Increasing(c)
  <2> SUFFICES ASSUME NEW j \in 1 .. Len(c), NEW k \in 1 .. Len(c), j < k
               PROVE  c[j] < c[k]
    BY DEF Increasing
  <2>1. CASE k \in 1 .. Len(s)
    <3>1. j \in 1 .. Len(s)
      BY <1>1, <2>1
    <3> QED BY <1>3, <1>6, <2>1, <3>1 DEF Increasing
  <2>2. ASSUME NEW b \in 1 .. Len(t), k = Len(s) + b, j \in 1 .. Len(s)
        PROVE  c[j] < c[k]
    <3>1. s[j] \in Items(s) /\ t[b] \in Items(t)
      BY <2>2 DEF Items
    <3> QED BY <1>3, <1>6, <2>2, <3>1
  <2>3. ASSUME NEW b \in 1 .. Len(t), k = Len(s) + b, NEW a \in 1 .. Len(t), j = Len(s) + a
        PROVE  c[j] < c[k]
    <3>1. a < b
      BY <1>1, <2>3
    <3> QED BY <1>3, <1>6, <2>3, <3>1 DEF Increasing
  <2> QED BY <1>4, <2>1, <2>2, <2>3
<1> QED BY <1>2, <1>5, <1>6 DEF c

\* Where two sequences in order first differ, neither has the smaller item.
LEMMA NoSmaller ==
    ASSUME NEW s \in Seq(Nat), NEW t \in Seq(Nat), Increasing(s), Increasing(t),
           Items(s) \subseteq Items(t), NEW k \in 1 .. Len(s),
           \A j \in 1 .. k - 1 : j <= Len(t) /\ s[j] = t[j]
    PROVE  k <= Len(t) /\ t[k] <= s[k]
<1>1. Len(s) \in Nat /\ Len(t) \in Nat /\ s[k] \in Items(s)
  BY DEF Items
<1>2. PICK j \in 1 .. Len(t) : t[j] = s[k]
  BY <1>1 DEF Items
<1>3. CASE j < k
  <2>1. j \in 1 .. k - 1 /\ j \in 1 .. Len(s)
    BY <1>1, <1>3
  <2>2. s[j] = s[k] /\ s[j] < s[k] /\ s[k] \in Nat
    BY <1>1, <1>2, <1>3, <2>1 DEF Increasing
  <2> QED BY <2>2
<1>4. CASE j = k
  BY <1>1, <1>2, <1>4
<1>5. CASE j > k
  <2>1. k \in 1 .. Len(t) /\ t[k] < t[j] /\ t[k] \in Nat /\ t[j] \in Nat
    BY <1>1, <1>5 DEF Increasing
  <2> QED BY <1>1, <1>2, <2>1
<1> QED BY <1>3, <1>4, <1>5

\* There is only one increasing sequence of given items.
LEMMA SameSequence ==
    ASSUME NEW s \in Seq(Nat), NEW t \in Seq(Nat), Increasing(s), Increasing(t),
           Items(s) = Items(t)
    PROVE  s = t
<1> DEFINE Differ == {k \in Nat \ {0} : (k <= Len(s) \/ k <= Len(t))
                                    /\ ~ (k <= Len(s) /\ k <= Len(t) /\ s[k] = t[k])}
<1>1. Len(s) \in Nat /\ Len(t) \in Nat
  OBVIOUS
<1>2. SUFFICES ASSUME Differ # {}
               PROVE  FALSE
  <2>1. CASE Differ = {}
    <3>1. \A k \in Nat \ {0} : k <= Len(s) <=> k <= Len(t)
      BY <2>1
    <3>2. Len(s) = Len(t)
      <4>1. CASE Len(s) < Len(t)
        BY <1>1, <3>1, <4>1
      <4>2. CASE Len(t) < Len(s)
        BY <1>1, <3>1, <4>2
      <4> QED BY <1>1, <4>1, <4>2
    <3>3. ASSUME NEW k \in 1 .. Len(s)
          PROVE  s[k] = t[k]
      <4>1. k \in Nat \ {0} /\ k <= Len(s)
        BY <1>1
      <4>2. k \notin Differ
        BY <2>1
      <4> QED BY <4>1, <4>2
    <3> QED BY <3>2, <3>3, SeqEqual
  <2> QED BY <2>1
<1>3. PICK k \in Differ : \A j \in Differ : k <= j
  <2>1. Differ \in SUBSET Nat
    OBVIOUS
  <2> HIDE DEF Differ
  <2> QED BY <1>2, <2>1, NatLeast
<1>4. \A j \in 1 .. k - 1 : j <= Len(s) /\ j <= Len(t) /\ s[j] = t[j]
  <2> TAKE j \in 1 .. k - 1
  <2>1. j \in Nat \ {0} /\ j < k
    OBVIOUS
  <2>2. j \notin Differ
    BY <1>3, <2>1
  <2>3. j <= Len(s) \/ j <= Len(t)
    BY <1>1, <2>1, <1>3
  <2> QED BY <2>1, <2>2, <2>3
<1>5. CASE k <= Len(s)
  <2>1. k \in 1 .. Len(s)
    BY <1>1, <1>5
  <2>2. k <= Len(t) /\ t[k] <= s[k]
    BY <1>4, <2>1, NoSmaller
  <2>3. k \in 1 .. Len(t)
    BY <1>1, <2>2
  <2>4. s[k] <= t[k]
    BY <1>4, <2>3, NoSmaller
  <2>5. s[k] \in Nat /\ t[k] \in Nat
    BY <2>1, <2>3
  <2>6. s[k] = t[k]
    BY <2>2, <2>4, <2>5
  <2> QED BY <1>5, <2>2, <2>6
<1>6. CASE k <= Len(t)
  <2>1. k \in 1 .. Len(t)
    BY <1>1, <1>6
  <2>2. k <= Len(s) /\ s[k] <= t[k]
    BY <1>4, <2>1, NoSmaller
  <2> QED BY <1>5, <2>2
<1> QED BY <1>5, <1>6

-----------------------------------------------------------------------------
(* Sequences put together *)

\* f[k] is p[1] \o ... \o p[k], by its recursive definition.
SumOf(f, p, N) == f = [k \in 0 .. N |-> IF k = 0 THEN <<>> ELSE f[k - 1] \o p[k]]

\* There is such a function.
LEMMA SumExists ==
    ASSUME NEW N \in Nat, NEW p
    PROVE  \E f : SumOf(f, p, N)
<1> DEFINE Upto(f, n) == \A k \in 0 .. n : f[k] = IF k = 0 THEN <<>> ELSE f[k - 1] \o p[k]
           S == {n \in Nat : \E f : Upto(f, n)}
<1>1. 0 \in S
  <2>1. Upto([k \in {0} |-> <<>>], 0)
    OBVIOUS
  <2> HIDE DEF Upto
  <2> QED BY <2>1
<1>2. ASSUME NEW n \in Nat, n \in S
      PROVE  n + 1 \in S
  <2>1. PICK f : Upto(f, n)
    BY <1>2
  <2> DEFINE g == [k \in 0 .. n + 1 |-> IF k = n + 1 THEN f[n] \o p[n + 1] ELSE f[k]]
  <2>2. ASSUME NEW k \in 0 .. n + 1
        PROVE  g[k] = IF k = 0 THEN <<>> ELSE g[k - 1] \o p[k]
    <3>1. CASE k = n + 1
      <4>1. k # 0 /\ k - 1 = n /\ n \in 0 .. n + 1 /\ n # n + 1
        BY <3>1
      <4>2. g[k] = f[n] \o p[n + 1] /\ g[n] = f[n]
        BY <3>1, <4>1
      <4> QED BY <3>1, <4>1, <4>2
    <3>2. CASE k # n + 1 /\ k # 0
      <4>1. k \in 0 .. n /\ k - 1 \in 0 .. n + 1 /\ k - 1 # n + 1
        BY <3>2
      <4>2. g[k] = f[k] /\ g[k - 1] = f[k - 1]
        BY <3>2, <4>1
      <4>3. f[k] = f[k - 1] \o p[k]
        BY <2>1, <4>1, <3>2
      <4> QED BY <4>2, <4>3, <3>2
    <3>3. CASE k = 0
      <4>1. k \in 0 .. n /\ k # n + 1
        BY <3>3
      <4> QED BY <2>1, <3>3, <4>1
    <3> QED BY <3>1, <3>2, <3>3
  <2>3. Upto(g, n + 1)
    BY <2>2
  <2> HIDE DEF Upto, g
  <2> QED BY <2>3
<1> HIDE DEF S
<1>3. N \in S
  BY <1>1, <1>2, NatInductive
<1>4. PICK f : Upto(f, N)
  BY <1>3 DEF S
<1> DEFINE g == [k \in 0 .. N |-> f[k]]
<1>5. \A k \in 0 .. N : g[k] = IF k = 0 THEN <<>> ELSE g[k - 1] \o p[k]
  <2> TAKE k \in 0 .. N
  <2>1. k # 0 => k - 1 \in 0 .. N
    OBVIOUS
  <2> QED BY <2>1, <1>4
<1>6. g = [k \in 0 .. N |-> g[k]]
  OBVIOUS
<1> HIDE DEF g
<1>7. SumOf(g, p, N)
  BY <1>5, <1>6 DEF SumOf
<1> QED BY <1>7

\* Sequences of which each is in order and before the later ones.
Ordered(p, N) ==
    /\ \A j \in 1 .. N : Increasing(p[j])
    /\ \A i, j \in 1 .. N : i < j => \A m \in Items(p[i]), n \in Items(p[j]) : m < n

\* The items of the first k of some sequences.
ItemsOfFirst(p, k) == UNION {Items(p[j]) : j \in 1 .. k}

\* Put together they have all items, in order.
LEMMA SumFacts ==
    ASSUME NEW N \in Nat, NEW p \in [1 .. N -> Seq(Nat)], NEW f, SumOf(f, p, N)
    PROVE  \A k \in 0 .. N :
              /\ f[k] \in Seq(Nat)
              /\ Items(f[k]) = ItemsOfFirst(p, k)
              /\ Ordered(p, N) => Increasing(f[k])
<1> DEFINE Good(k) == /\ f[k] \in Seq(Nat)
                      /\ Items(f[k]) = ItemsOfFirst(p, k)
                      /\ Ordered(p, N) => Increasing(f[k])
           S == {k \in Nat : k <= N => Good(k)}
<1>1. f[0] = <<>> /\ \A k \in 1 .. N : f[k] = f[k - 1] \o p[k]
  <2>1. 0 \in 0 .. N /\ \A k \in 1 .. N : k \in 0 .. N /\ k # 0
    OBVIOUS
  <2> QED BY <2>1 DEF SumOf
<1>2. 0 \in S
  <2>1. Good(0)
    BY <1>1 DEF Items, ItemsOfFirst, Increasing
  <2> QED BY <2>1
<1>3. ASSUME NEW k \in Nat, k \in S
      PROVE  k + 1 \in S
  <2> SUFFICES ASSUME k + 1 <= N
               PROVE  Good(k + 1)
    OBVIOUS
  <2>1. Good(k)
    BY <1>3
  <2>2. k + 1 \in 1 .. N /\ f[k + 1] = f[k] \o p[k + 1] /\ p[k + 1] \in Seq(Nat)
    <3> HIDE DEF Good, S
    <3>1. k + 1 \in 1 .. N /\ (k + 1) - 1 = k
      OBVIOUS
    <3>2. f[k + 1] = f[(k + 1) - 1] \o p[k + 1]
      BY <1>1, <3>1
    <3>3. p[k + 1] \in Seq(Nat)
      BY <3>1
    <3> QED BY <3>1, <3>2, <3>3
  <2>3. /\ f[k + 1] \in Seq(Nat)
        /\ Items(f[k + 1]) = Items(f[k]) \cup Items(p[k + 1])
        /\ Increasing(f[k]) /\ Increasing(p[k + 1])
             /\ (\A m \in Items(f[k]), n \in Items(p[k + 1]) : m < n) => Increasing(f[k + 1])
    BY <2>1, <2>2, ConcatItems
  <2>4. ItemsOfFirst(p, k + 1) = ItemsOfFirst(p, k) \cup Items(p[k + 1])
    <3>1. 1 .. k + 1 = (1 .. k) \cup {k + 1}
      OBVIOUS
    <3> QED BY <3>1 DEF ItemsOfFirst
  <2>5. ASSUME Ordered(p, N)
        PROVE  \A m \in Items(f[k]), n \in Items(p[k + 1]) : m < n
    <3> TAKE m \in Items(f[k]), n \in Items(p[k + 1])
    <3>1. PICK j \in 1 .. k : m \in Items(p[j])
      BY <2>1 DEF ItemsOfFirst
    <3>2. j \in 1 .. N /\ j < k + 1
      BY <2>2
    <3> QED BY <2>2, <2>5, <3>1, <3>2 DEF Ordered
  <2>6. Ordered(p, N) => Increasing(f[k + 1])
    BY <2>1, <2>2, <2>3, <2>5 DEF Ordered
  <2> QED BY <2>1, <2>3, <2>4, <2>6
<1> HIDE DEF S
<1>4. \A k \in Nat : k \in S
  BY <1>2, <1>3, NatInductive
<1>5. ASSUME NEW k \in 0 .. N
      PROVE  Good(k)
  <2>1. k \in Nat /\ k <= N
    OBVIOUS
  <2>2. k \in S
    BY <1>4, <2>1
  <2> HIDE DEF Good
  <2> QED BY <2>1, <2>2 DEF S
<1> QED BY <1>5

\* They are not longer than e sequences of length M, if there are no others.
LEMMA SumLength ==
    ASSUME NEW N \in Nat, NEW p \in [1 .. N -> Seq(Nat)], NEW f, SumOf(f, p, N),
           NEW M \in Nat, NEW e \in Nat,
           \A j \in 1 .. N : Len(p[j]) <= M /\ (p[j] # <<>> => j <= e)
    PROVE  Len(f[N]) <= e * M
<1> DEFINE Rows(k) == IF k <= e THEN k ELSE e
           Good(k) == Len(f[k]) <= Rows(k) * M
           S == {k \in Nat : k <= N => Good(k)}
<1>1. f[0] = <<>> /\ \A k \in 1 .. N : f[k] = f[k - 1] \o p[k]
  <2>1. 0 \in 0 .. N /\ \A k \in 1 .. N : k \in 0 .. N /\ k # 0
    OBVIOUS
  <2> QED BY <2>1 DEF SumOf
<1>2. \A k \in 0 .. N : f[k] \in Seq(Nat)
  BY SumFacts
<1>3. 0 \in S
  <2>1. Rows(0) = 0 /\ 0 * M = 0 /\ Len(f[0]) = 0
    BY <1>1
  <2> QED BY <2>1
<1>4. ASSUME NEW k \in Nat, k \in S
      PROVE  k + 1 \in S
  <2> HIDE DEF Good, Rows
  <2> SUFFICES ASSUME k + 1 <= N
               PROVE  Good(k + 1)
    OBVIOUS
  <2> HIDE DEF S
  <2>1. k \in 0 .. N /\ k + 1 \in 1 .. N /\ (k + 1) - 1 = k
    OBVIOUS
  <2>2. Len(f[k]) <= Rows(k) * M
    BY <1>4, <2>1 DEF S, Good
  <2>3. f[k + 1] = f[k] \o p[k + 1]
    BY <1>1, <2>1
  <2>4. p[k + 1] \in Seq(Nat) /\ f[k] \in Seq(Nat)
    BY <1>2, <2>1
  <2>5. Len(f[k + 1]) = Len(f[k]) + Len(p[k + 1])
    BY <2>3, <2>4
  <2>6. Len(f[k]) \in Nat /\ Len(p[k + 1]) \in Nat
    BY <2>4
  <2>7. CASE k + 1 <= e
    <3>1. Rows(k) = k /\ Rows(k + 1) = k + 1 /\ (k + 1) * M = k * M + M /\ k * M \in Nat
      BY <2>7 DEF Rows
    <3>2. Len(p[k + 1]) <= M
      BY <2>1
    <3>3. Len(f[k]) <= k * M
      BY <2>2, <3>1
    <3>4. Len(f[k + 1]) <= k * M + M
      <4> DEFINE x == k * M
                 a == Len(f[k])
                 b == Len(p[k + 1])
      <4>1. x \in Nat /\ a <= x /\ a \in Nat /\ b \in Nat /\ b <= M
        BY <2>6, <3>1, <3>2, <3>3
      <4>2. Len(f[k + 1]) = a + b
        BY <2>5
      <4> HIDE DEF x, a, b
      <4>3. a + b <= x + M
        BY <4>1
      <4> QED BY <4>2, <4>3 DEF x
    <3>5. Rows(k + 1) * M = k * M + M
      BY <3>1
    <3> QED BY <3>4, <3>5 DEF Good
  <2>8. CASE ~ (k + 1 <= e)
    <3>1. Rows(k) = e /\ Rows(k + 1) = e
      BY <2>8 DEF Rows
    <3>2. p[k + 1] = <<>>
      BY <2>1, <2>8
    <3>3. Len(p[k + 1]) = 0
      BY <3>2
    <3>4. Len(f[k + 1]) = Len(f[k])
      BY <2>5, <2>6, <3>3
    <3> QED BY <2>2, <3>1, <3>4 DEF Good
  <2> QED BY <2>7, <2>8
<1> HIDE DEF S
<1>5. N \in S
  BY <1>3, <1>4, NatInductive
<1>6. Len(f[N]) <= Rows(N) * M
  <2> HIDE DEF Good, Rows
  <2>1. Good(N)
    BY <1>5 DEF S
  <2> QED BY <2>1 DEF Good
<1>7. Rows(N) \in Nat /\ Rows(N) <= e
  OBVIOUS
<1> HIDE DEF Rows, Good
<1>8. Rows(N) * M <= e * M /\ Rows(N) * M \in Nat /\ e * M \in Nat
  BY <1>7
<1>9. Len(f[N]) \in Nat
  <2>1. N \in 0 .. N
    OBVIOUS
  <2> QED BY <1>2, <2>1
<1> QED BY <1>6, <1>8, <1>9

-----------------------------------------------------------------------------
(* The history in rows, and the history of a chain *)

\* get_txnums yields all entries of the rows, in order if the rows are; there
\* are no more of them than the rows up to the last one that is used can hold.
LEMMA HistoryInFacts ==
    ASSUME NEW rs, NEW h, rs[h] \in RowSet
    PROVE  /\ HistoryIn(rs, h) \in Seq(Nat)
           /\ Items(HistoryIn(rs, h)) = RowItems(rs[h])
           /\ InOrder(rs[h]) => Increasing(HistoryIn(rs, h))
           /\ \A last \in FlushId :
                 (\A i \in FlushId : Len(rs[h][i]) <= MaxRowEntries /\ (rs[h][i] # <<>> => i <= last))
                    => Len(HistoryIn(rs, h)) <= (last + 1) * MaxRowEntries
<1> DEFINE N == MaxFlushId + 1
           row == rs[h]
           p == [i \in 1 .. N |-> row[i - 1]]
           Solves(g) == g = [i \in 1 .. N |-> IF i = 1 THEN p[i] ELSE g[i - 1] \o p[i]]
<1>1. N \in Nat /\ N >= 2 /\ \A i \in 1 .. N : i - 1 \in FlushId
  BY CompactionAssumption DEF FlushId
<1>2. p \in [1 .. N -> Seq(Nat)] /\ p \in Seq(Seq(Nat)) /\ Len(p) = N
  BY <1>1 DEF RowSet
<1>3. HistoryIn(rs, h) = (CHOOSE g : Solves(g))[N]
  <2>1. HistoryIn(rs, h) = FlattenSeq(p)
    BY DEF HistoryIn
  <2> HIDE DEF p, N
  <2> QED BY <1>1, <1>2, <2>1 DEF FlattenSeq
<1> HIDE DEF p, N
<1>4. PICK f : SumOf(f, p, N)
  BY <1>1, SumExists
<1>5. \A k \in 0 .. N : f[k] \in Seq(Nat)
  BY <1>1, <1>2, <1>4, SumFacts
<1>6. f[0] = <<>> /\ \A k \in 1 .. N : f[k] = f[k - 1] \o p[k]
  <2>1. 0 \in 0 .. N /\ \A k \in 1 .. N : k \in 0 .. N /\ k # 0
    BY <1>1
  <2> QED BY <1>4, <2>1 DEF SumOf
<1> DEFINE g == [i \in 1 .. N |-> f[i]]
<1>7. \A i \in 1 .. N : g[i] = IF i = 1 THEN p[i] ELSE g[i - 1] \o p[i]
  <2> TAKE i \in 1 .. N
  <2>1. CASE i = 1
    <3>1. f[1] = <<>> \o p[1] /\ p[1] \in Seq(Nat)
      <4>1. 1 \in 1 .. N /\ 1 - 1 = 0
        BY <1>1
      <4> QED BY <1>2, <1>6, <4>1
    <3>2. f[1] = p[1]
      BY <3>1, ConcatEmptySeq
    <3> QED BY <2>1, <3>2
  <2>2. CASE i # 1
    <3>1. i - 1 \in 1 .. N
      BY <1>1, <2>2
    <3> QED BY <1>6, <2>2, <3>1
  <2> QED BY <2>1, <2>2
<1>8. Solves(g)
  <2>1. g = [i \in 1 .. N |-> g[i]]
    OBVIOUS
  <2> HIDE DEF g
  <2> QED BY <1>7, <2>1
<1> DEFINE c == CHOOSE x : Solves(x)
<1>9. Solves(c)
  <2> HIDE DEF Solves, g
  <2> QED BY <1>8
<1> HIDE DEF c, g
\* the function that is chosen is the other one, but for the empty start
<1> DEFINE f2 == [k \in 0 .. N |-> IF k = 0 THEN <<>> ELSE c[k]]
<1>10. \A k \in 0 .. N : f2[k] = IF k = 0 THEN <<>> ELSE f2[k - 1] \o p[k]
  <2> TAKE k \in 0 .. N
  <2>1. CASE k = 0
    BY <2>1
  <2>2. CASE k = 1
    <3>1. 1 \in 1 .. N /\ 0 \in 0 .. N /\ 1 \in 0 .. N /\ k - 1 = 0
      BY <1>1, <2>2
    <3>2. c[1] = p[1] /\ p[1] \in Seq(Nat)
      BY <1>2, <1>9, <3>1
    <3>3. f2[1] = p[1] /\ f2[0] = <<>>
      BY <3>1, <3>2
    <3>4. <<>> \o p[1] = p[1]
      BY <3>2, ConcatEmptySeq
    <3> HIDE DEF f2
    <3> QED BY <2>2, <3>1, <3>3, <3>4
  <2>3. CASE k # 0 /\ k # 1
    <3>1. k \in 1 .. N /\ k - 1 \in 0 .. N /\ k - 1 # 0
      BY <1>1, <2>3
    <3>2. c[k] = c[k - 1] \o p[k]
      BY <1>9, <2>3, <3>1
    <3> QED BY <2>3, <3>1, <3>2
  <2> QED BY <2>1, <2>2, <2>3
<1>11. SumOf(f2, p, N)
  <2>1. f2 = [k \in 0 .. N |-> f2[k]]
    OBVIOUS
  <2> HIDE DEF f2
  <2> QED BY <1>10, <2>1 DEF SumOf
<1>12. HistoryIn(rs, h) = f2[N]
  <2>1. N \in 0 .. N /\ N # 0
    BY <1>1
  <2>2. f2[N] = c[N]
    BY <2>1
  <2> QED BY <1>3, <2>2 DEF c
<1> HIDE DEF f2, Solves
<1>13. /\ f2[N] \in Seq(Nat)
       /\ Items(f2[N]) = ItemsOfFirst(p, N)
       /\ Ordered(p, N) => Increasing(f2[N])
  <2>1. N \in 0 .. N
    BY <1>1
  <2> QED BY <1>1, <1>2, <1>11, <2>1, SumFacts
<1>14. \A j \in 1 .. N : p[j] = row[j - 1] /\ j - 1 \in FlushId
  BY <1>1 DEF p
<1>15. \A i \in FlushId : i + 1 \in 1 .. N /\ p[i + 1] = row[i] /\ i \in 0 .. MaxFlushId
  <2> TAKE i \in FlushId
  <2>1. i + 1 \in 1 .. N /\ i + 1 - 1 = i
    BY CompactionAssumption DEF FlushId, N
  <2> QED BY <1>14, <2>1 DEF FlushId
<1> HIDE DEF row
<1>16. ItemsOfFirst(p, N) = RowItems(row)
  <2>1. ItemsOfFirst(p, N) \subseteq RowItems(row)
    BY <1>14 DEF ItemsOfFirst, RowItems, ItemsUpTo, FlushId
  <2>2. RowItems(row) \subseteq ItemsOfFirst(p, N)
    <3> SUFFICES ASSUME NEW m \in RowItems(row)
                 PROVE  m \in ItemsOfFirst(p, N)
      OBVIOUS
    <3>1. PICK i \in 0 .. MaxFlushId : m \in Items(row[i])
      BY DEF RowItems, ItemsUpTo
    <3>2. i \in FlushId
      BY <3>1 DEF FlushId
    <3>3. i + 1 \in 1 .. N /\ m \in Items(p[i + 1])
      BY <1>15, <3>1, <3>2
    <3> QED BY <3>3 DEF ItemsOfFirst
  <2> QED BY <2>1, <2>2
<1>17. InOrder(row) => Ordered(p, N)
  <2> SUFFICES ASSUME InOrder(row)
               PROVE  Ordered(p, N)
    OBVIOUS
  <2>1. \A j \in 1 .. N : Increasing(p[j])
    BY <1>14 DEF InOrder
  <2>2. ASSUME NEW i \in 1 .. N, NEW j \in 1 .. N, i < j
        PROVE  \A m \in Items(p[i]), n \in Items(p[j]) : m < n
    <3>1. i - 1 \in FlushId /\ j - 1 \in FlushId /\ i - 1 < j - 1
      BY <1>1, <2>2
    <3> QED BY <1>14, <3>1 DEF InOrder
  <2> QED BY <2>1, <2>2 DEF Ordered
<1>18. ASSUME NEW last \in FlushId,
              \A i \in FlushId : Len(row[i]) <= MaxRowEntries /\ (row[i] # <<>> => i <= last)
       PROVE  Len(f2[N]) <= (last + 1) * MaxRowEntries
  <2>1. \A j \in 1 .. N : Len(p[j]) <= MaxRowEntries /\ (p[j] # <<>> => j <= last + 1)
    BY <1>14, <1>18 DEF FlushId
  <2>2. last + 1 \in Nat /\ MaxRowEntries \in Nat
    BY CompactionAssumption DEF FlushId
  <2> QED BY <1>1, <1>2, <1>11, <2>1, <2>2, SumLength
<1> QED BY <1>12, <1>13, <1>16, <1>17, <1>18 DEF row

\* The history of a chain is the numbers of the transactions that touch h.
LEMMA HistoryOfFacts ==
    ASSUME NEW h, NEW n \in Nat
    PROVE  /\ HistoryOf(h, n) \in Seq(Nat)
           /\ Items(HistoryOf(h, n)) = Touching(h, n)
           /\ Increasing(HistoryOf(h, n))
<1> DEFINE Step(k) == IF h \in txs[k] THEN <<k - 1>> ELSE <<>>
           p == [k \in 1 .. n |-> Step(k)]
           Solves(g) == g = [k \in 0 .. n |-> IF k = 0 THEN <<>> ELSE g[k - 1] \o Step(k)]
<1>1. \A k \in 1 .. n : p[k] = Step(k) /\ p[k] \in Seq(Nat) /\ Increasing(p[k])
                     /\ Items(p[k]) = IF h \in txs[k] THEN {k - 1} ELSE {}
  <2> TAKE k \in 1 .. n
  <2>1. k - 1 \in Nat
    OBVIOUS
  <2>2. <<k - 1>> \in Seq(Nat) /\ Len(<<k - 1>>) = 1 /\ <<k - 1>>[1] = k - 1
    BY <2>1
  <2>3. Items(<<k - 1>>) = {k - 1} /\ Increasing(<<k - 1>>)
    BY <2>2 DEF Items, Increasing
  <2>4. <<>> \in Seq(Nat) /\ Items(<<>>) = {} /\ Increasing(<<>>)
    BY DEF Items, Increasing
  <2> QED BY <2>2, <2>3, <2>4
<1>2. p \in [1 .. n -> Seq(Nat)]
  BY <1>1
<1>3. PICK f : SumOf(f, p, n)
  <2> HIDE DEF p
  <2> QED BY SumExists
<1>4. f = [k \in 0 .. n |-> IF k = 0 THEN <<>> ELSE f[k - 1] \o Step(k)]
  <2>1. \A k \in 0 .. n : k # 0 => p[k] = Step(k)
    BY <1>1
  <2> HIDE DEF p, Step
  <2> QED BY <1>3, <2>1 DEF SumOf
<1> DEFINE c == CHOOSE x : Solves(x)
<1>5. HistoryOf(h, n) = c[n]
  BY DEF HistoryOf
<1>6. Solves(c)
  <2> HIDE DEF Step
  <2>1. Solves(f)
    BY <1>4
  <2> HIDE DEF Solves
  <2> QED BY <2>1
<1> HIDE DEF c
<1>7. SumOf(c, p, n)
  <2>1. \A k \in 0 .. n : k # 0 => p[k] = Step(k)
    BY <1>1
  <2> HIDE DEF p, Step
  <2> QED BY <1>6, <2>1 DEF SumOf
<1>8. Ordered(p, n)
  <2>1. ASSUME NEW i \in 1 .. n, NEW j \in 1 .. n, i < j, NEW a \in Items(p[i]), NEW b \in Items(p[j])
        PROVE  a < b
    <3>1. a = i - 1 /\ b = j - 1
      <4> HIDE DEF p, Step
      <4> QED BY <1>1, <2>1
    <3> QED BY <2>1, <3>1
  <2> HIDE DEF p, Step
  <2> QED BY <1>1, <2>1 DEF Ordered
<1>9. ItemsOfFirst(p, n) = Touching(h, n)
  <2>1. ASSUME NEW a \in ItemsOfFirst(p, n)
        PROVE  a \in Touching(h, n)
    <3>1. PICK j \in 1 .. n : a \in Items(p[j])
      BY <2>1 DEF ItemsOfFirst
    <3>2. h \in txs[j] /\ a = j - 1
      <4>1. Items(p[j]) = IF h \in txs[j] THEN {j - 1} ELSE {}
        BY <1>1
      <4> HIDE DEF p, Step
      <4> QED BY <3>1, <4>1
    <3>3. a \in 0 .. n - 1 /\ a + 1 = j
      BY <3>2
    <3> QED BY <3>2, <3>3 DEF Touching, TouchedIn
  <2>2. ASSUME NEW a \in Touching(h, n)
        PROVE  a \in ItemsOfFirst(p, n)
    <3>1. a \in Nat /\ a + 1 \in 1 .. n /\ a + 1 - 1 = a /\ h \in txs[a + 1]
      BY DEF Touching, TouchedIn
    <3>2. a \in Items(p[a + 1])
      <4> HIDE DEF p, Step
      <4>1. Items(p[a + 1]) = IF h \in txs[a + 1] THEN {(a + 1) - 1} ELSE {}
        BY <1>1, <3>1
      <4> QED BY <3>1, <4>1
    <3> QED BY <3>1, <3>2 DEF ItemsOfFirst
  <2> QED BY <2>1, <2>2
<1>10. n \in 0 .. n
  OBVIOUS
<1> HIDE DEF p, Solves
<1> QED BY <1>2, <1>5, <1>7, <1>8, <1>9, <1>10, SumFacts

-----------------------------------------------------------------------------
(* What a batch of the compaction and a backup do to the rows of a hashX *)

\* The order of products by the same number.
LEMMA Products ==
    ASSUME NEW a \in Nat, NEW b \in Nat, NEW m \in Nat \ {0}
    PROVE  /\ a * m \in Nat /\ (a + 1) * m = a * m + m
           /\ a <= b <=> a * m <= b * m
           /\ a < b <=> a * m < b * m
<1>1. a * m \in Nat /\ b * m \in Nat /\ (a + 1) * m = a * m + m
  OBVIOUS
<1>2. ASSUME a <= b
      PROVE  a * m <= b * m
  <2>1. PICK d \in Nat : b = a + d
    <3>1. b - a \in Nat /\ b = a + (b - a)
      BY <1>2
    <3> QED BY <3>1
  <2>2. b * m = a * m + d * m /\ d * m \in Nat
    BY <2>1
  <2> QED BY <1>1, <2>2
<1>3. ASSUME b < a
      PROVE  b * m < a * m
  <2>1. PICK d \in Nat : a = b + d + 1
    <3>1. a - b - 1 \in Nat /\ a = b + (a - b - 1) + 1
      BY <1>3
    <3> QED BY <3>1
  <2>2. a * m = b * m + d * m + m /\ d * m \in Nat
    BY <2>1
  <2> QED BY <1>1, <2>2
<1>4. CASE a = b
  BY <1>1, <1>4
<1>5. CASE a < b
  <2>1. PICK d \in Nat : b = a + d + 1
    <3>1. b - a - 1 \in Nat /\ b = a + (b - a - 1) + 1
      BY <1>5
    <3> QED BY <3>1
  <2>2. b * m = a * m + d * m + m /\ d * m \in Nat
    BY <2>1
  <2> QED BY <1>1, <1>5, <2>2
<1>6. CASE b < a
  BY <1>1, <1>3, <1>6
<1> QED BY <1>4, <1>5, <1>6

\* Division, rounding up.
LEMMA NumRowsFacts ==
    ASSUME NEW n \in Nat
    PROVE  /\ NumRows(n) \in Nat
           /\ \A i \in Nat : i * MaxRowEntries < n <=> i < NumRows(n)
<1> DEFINE M == MaxRowEntries
           q == NumRows(n)
<1>1. M \in Nat \ {0}
  BY CompactionAssumption
<1>2. q \in Nat /\ q * M <= n + M - 1 /\ n + M - 1 < q * M + M
  <2> DEFINE a == n + M - 1
  <2>1. a \in Nat
    BY <1>1
  <2> HIDE DEF a, M
  <2>2. a \div M \in Nat /\ (a \div M) * M <= a /\ a < (a \div M) * M + M
    BY <1>1, <2>1
  <2> QED BY <2>2 DEF NumRows, a, M
<1> HIDE DEF q, M
<1>3. \A i \in Nat : i * M < n <=> i < q
  <2> TAKE i \in Nat
  <2>1. i * M \in Nat /\ (i + 1) * M = i * M + M /\ q * M \in Nat /\ (q + 1) * M = q * M + M
    BY <1>1, <1>2, Products
  <2>2. i + 1 <= q <=> (i + 1) * M <= q * M
    <3>1. i + 1 \in Nat
      OBVIOUS
    <3> QED BY <1>1, <1>2, <3>1, Products
  <2>3. q <= i <=> q * M <= i * M
    BY <1>1, <1>2, Products
  <2> QED BY <1>1, <1>2, <2>1, <2>2, <2>3
<1> QED BY <1>2, <1>3 DEF q, M

\* _compact_hashX distributes a history over full rows numbered from 0.
LEMMA CompactHashXFacts ==
    ASSUME NEW list \in Seq(Nat), Increasing(list), NEW last \in FlushId,
           Len(list) <= (last + 1) * MaxRowEntries
    PROVE  /\ CompactHashX(list) \in RowSet
           /\ InOrder(CompactHashX(list))
           /\ RowItems(CompactHashX(list)) = Items(list)
           /\ \A i \in FlushId : /\ Len(CompactHashX(list)[i]) <= MaxRowEntries
                                 /\ CompactHashX(list)[i] # <<>> => i <= NumRows(Len(list)) - 1
           /\ NumRows(Len(list)) - 1 \in FlushId \cup {-1}
           /\ NumRows(Len(list)) - 1 <= last
<1> DEFINE M == MaxRowEntries
           n == Len(list)
           c == CompactHashX(list)
           lo(i) == i * M
           hi(i) == Min({(i + 1) * M, n})
           Part(i) == {list[k] : k \in lo(i) + 1 .. hi(i)}
<1>1. M \in Nat \ {0} /\ n \in Nat /\ last \in Nat /\ last <= MaxFlushId /\ MaxFlushId \in Nat
  BY CompactionAssumption DEF FlushId
<1>2. ASSUME NEW i \in FlushId
      PROVE  i \in Nat /\ c[i] = SubSeq(list, lo(i) + 1, hi(i))
  <2>1. c[i] = SubSeq(list, lo(i) + 1, hi(i))
    BY DEF CompactHashX
  <2>2. i \in Nat
    BY DEF FlushId
  <2> QED BY <2>1, <2>2
<1>3. ASSUME NEW i \in Nat
      PROVE  /\ lo(i) \in Nat /\ (i + 1) * M = lo(i) + M /\ hi(i) \in Nat
             /\ hi(i) = IF lo(i) + M <= n THEN lo(i) + M ELSE n
  <2>1. lo(i) \in Nat /\ (i + 1) * M = lo(i) + M
    BY <1>1, Products
  <2>2. Min({lo(i) + M, n}) = IF lo(i) + M <= n THEN lo(i) + M ELSE n
    <3> HIDE DEF lo, M
    <3> QED BY <1>1, <2>1, MinOfTwo
  <2>3. hi(i) = IF lo(i) + M <= n THEN lo(i) + M ELSE n
    <3>1. hi(i) = Min({lo(i) + M, n})
      BY <2>1
    <3> HIDE DEF lo, M, hi
    <3> QED BY <2>2, <3>1
  <2> HIDE DEF lo, M, hi, n
  <2> QED BY <1>1, <2>1, <2>3
<1> HIDE DEF c, lo, hi, M
<1>3b. ASSUME NEW i \in FlushId
       PROVE  /\ i \in Nat /\ lo(i) \in Nat /\ hi(i) \in Nat
              /\ hi(i) <= n /\ hi(i) <= lo(i) + M
  <2>1. i \in Nat
    BY <1>2
  <2>2. lo(i) \in Nat /\ hi(i) \in Nat /\ hi(i) = IF lo(i) + M <= n THEN lo(i) + M ELSE n
    BY <1>3, <2>1
  <2> HIDE DEF n
  <2> QED BY <1>1, <2>1, <2>2
<1>4. ASSUME NEW i \in FlushId
      PROVE  /\ c[i] \in Seq(Nat) /\ Len(c[i]) = IF lo(i) < hi(i) THEN hi(i) - lo(i) ELSE 0
             /\ \A k \in 1 .. hi(i) - lo(i) : c[i][k] = list[lo(i) + k]
  <2>1. i \in Nat /\ lo(i) \in Nat /\ hi(i) \in Nat /\ hi(i) <= n
    BY <1>3b
  <2>2. \A k \in lo(i) + 1 .. hi(i) : list[k] \in Nat
    BY <1>1, <2>1
  <2>3. lo(i) + 1 \in Int /\ hi(i) \in Int
    BY <2>1
  <2> DEFINE s == SubSeq(list, lo(i) + 1, hi(i))
  <2>4. /\ s \in Seq(Nat)
        /\ Len(s) = IF lo(i) + 1 <= hi(i) THEN hi(i) - (lo(i) + 1) + 1 ELSE 0
        /\ \A k \in 1 .. hi(i) - (lo(i) + 1) + 1 : s[k] = list[lo(i) + 1 + k - 1]
    BY <2>2, <2>3, SubSeqProperties
  <2>5. c[i] = s
    BY <1>2
  <2> HIDE DEF s, n
  <2>6. Len(s) = IF lo(i) < hi(i) THEN hi(i) - lo(i) ELSE 0
    BY <2>1, <2>4
  <2>7. ASSUME NEW k \in 1 .. hi(i) - lo(i)
        PROVE  s[k] = list[lo(i) + k]
    <3>1. k \in 1 .. hi(i) - (lo(i) + 1) + 1 /\ lo(i) + 1 + k - 1 = lo(i) + k
      BY <2>1
    <3>2. s[k] = list[lo(i) + 1 + k - 1]
      BY <2>4, <3>1
    <3> QED BY <3>1, <3>2
  <2> QED BY <2>4, <2>5, <2>6, <2>7
<1>5. ASSUME NEW i \in FlushId
      PROVE  /\ Len(c[i]) <= M /\ (c[i] # <<>> => lo(i) < n)
             /\ Increasing(c[i]) /\ Items(c[i]) = Part(i)
  <2>1. /\ i \in Nat /\ lo(i) \in Nat /\ hi(i) \in Nat
        /\ hi(i) <= n /\ hi(i) <= lo(i) + M
    BY <1>3b
  <2>2. Len(c[i]) = IF lo(i) < hi(i) THEN hi(i) - lo(i) ELSE 0
    BY <1>4
  <2> HIDE DEF n, Part
  <2>3. Len(c[i]) <= M
    BY <1>1, <2>1, <2>2
  <2>4. c[i] # <<>> => lo(i) < n
    <3>1. Len(c[i]) = 0 => c[i] = <<>>
      BY <1>4
    <3> QED BY <1>1, <2>1, <2>2, <3>1
  <2>5. ASSUME NEW k \in 1 .. Len(c[i])
        PROVE  /\ k \in 1 .. hi(i) - lo(i) /\ lo(i) + k \in 1 .. n /\ lo(i) + k \in lo(i) + 1 .. hi(i)
               /\ c[i][k] = list[lo(i) + k]
    <3>1. k \in 1 .. hi(i) - lo(i)
      BY <2>1, <2>2
    <3>2. lo(i) + k \in 1 .. n /\ lo(i) + k \in lo(i) + 1 .. hi(i)
      BY <1>1, <2>1, <3>1
    <3> QED BY <1>4, <3>1, <3>2
  <2>6. Increasing(c[i])
    <3> SUFFICES ASSUME NEW j \in 1 .. Len(c[i]), NEW k \in 1 .. Len(c[i]), j < k
                 PROVE  c[i][j] < c[i][k]
      BY DEF Increasing
    <3>1. lo(i) + j < lo(i) + k
      BY <2>1, <2>2
    <3>2. list[lo(i) + j] < list[lo(i) + k]
      BY <2>5, <3>1 DEF Increasing, n
    <3> QED BY <2>5, <3>2
  <2>7. ASSUME NEW m \in Items(c[i])
        PROVE  m \in Part(i)
    <3>1. PICK k \in 1 .. Len(c[i]) : m = c[i][k]
      BY DEF Items
    <3> QED BY <2>5, <3>1 DEF Part
  <2>8. ASSUME NEW m \in Part(i)
        PROVE  m \in Items(c[i])
    <3>1. PICK k \in lo(i) + 1 .. hi(i) : m = list[k]
      BY DEF Part
    <3>2. lo(i) < hi(i)
      BY <2>1
    <3>3. Len(c[i]) = hi(i) - lo(i)
      BY <2>2, <3>2
    <3>4. k - lo(i) \in 1 .. hi(i) - lo(i) /\ k - lo(i) \in 1 .. Len(c[i]) /\ lo(i) + (k - lo(i)) = k
      BY <2>1, <3>3
    <3>5. c[i][k - lo(i)] = list[lo(i) + (k - lo(i))]
      BY <2>5, <3>4
    <3> QED BY <3>1, <3>4, <3>5 DEF Items
  <2> QED BY <2>3, <2>4, <2>6, <2>7, <2>8
<1>6. c \in RowSet
  <2>1. c = [i \in FlushId |-> c[i]]
    BY DEF c, CompactHashX
  <2> QED BY <1>4, <2>1 DEF RowSet
<1>7. InOrder(c)
  <2>1. ASSUME NEW i \in FlushId, NEW j \in FlushId, i < j,
               NEW a \in Items(c[i]), NEW b \in Items(c[j])
        PROVE  a < b
    <3>1. PICK k \in lo(i) + 1 .. hi(i) : a = list[k]
      BY <1>5
    <3>2. PICK l \in lo(j) + 1 .. hi(j) : b = list[l]
      BY <1>5
    <3>3. i \in Nat /\ j \in Nat /\ i + 1 \in Nat /\ i + 1 <= j
      BY <1>2, <2>1
    <3>4. lo(i) + M <= lo(j)
      <4>1. i + 1 <= j <=> (i + 1) * M <= j * M
        BY <1>1, <3>3, Products
      <4> QED BY <1>3, <3>3, <4>1 DEF lo
    <3>5. /\ lo(i) \in Nat /\ hi(i) \in Nat /\ hi(i) <= n /\ hi(i) <= lo(i) + M
          /\ lo(j) \in Nat /\ hi(j) \in Nat /\ hi(j) <= n
      BY <1>3b
    <3>6. k \in 1 .. n /\ l \in 1 .. n /\ k < l
      <4> HIDE DEF n
      <4>1. M \in Nat /\ n \in Nat
        BY <1>1
      <4>2. k \in Nat /\ k >= 1 /\ k <= hi(i) /\ l \in Nat /\ l > lo(j) /\ l <= hi(j)
        BY <3>1, <3>2, <3>5
      <4> QED BY <3>4, <3>5, <4>1, <4>2
    <3> QED BY <3>1, <3>2, <3>6 DEF Increasing
  <2> QED BY <1>5, <2>1 DEF InOrder
<1>8. RowItems(c) = Items(list)
  <2>1. ASSUME NEW a \in RowItems(c)
        PROVE  a \in Items(list)
    <3>1. PICK i \in FlushId : a \in Items(c[i])
      BY <2>1 DEF RowItems, ItemsUpTo, FlushId
    <3>2. PICK k \in lo(i) + 1 .. hi(i) : a = list[k]
      BY <1>5, <3>1
    <3>3. lo(i) \in Nat /\ hi(i) \in Nat /\ hi(i) <= n
      BY <1>3b
    <3>4. k \in 1 .. n
      BY <1>1, <3>2, <3>3
    <3> QED BY <3>2, <3>4 DEF Items
  <2>2. ASSUME NEW a \in Items(list)
        PROVE  a \in RowItems(c)
    <3>1. PICK k \in 1 .. n : a = list[k]
      BY <2>2 DEF Items
    <3> DEFINE i == (k - 1) \div M
    <3>2. i \in Nat /\ i * M <= k - 1 /\ k - 1 < i * M + M
      <4>1. k - 1 \in Nat
        BY <1>1
      <4> QED BY <1>1, <4>1
    <3> HIDE DEF i
    <3>3. i <= last
      <4>1. i * M < (last + 1) * M
        <5>1. n <= (last + 1) * M
          BY DEF M
        <5>2. last + 1 \in Nat /\ (last + 1) * M \in Nat /\ i * M \in Nat
          BY <1>1, <3>2, Products
        <5> QED BY <1>1, <3>1, <3>2, <5>1, <5>2
      <4>2. last + 1 \in Nat
        BY <1>1
      <4>3. i < last + 1
        BY <1>1, <3>2, <4>1, <4>2, Products
      <4> QED BY <1>1, <3>2, <4>3
    <3>4. i \in FlushId /\ i \in 0 .. MaxFlushId
      BY <1>1, <3>2, <3>3 DEF FlushId
    <3>5. lo(i) \in Nat /\ lo(i) <= k - 1 /\ k - 1 < lo(i) + M /\ hi(i) = IF lo(i) + M <= n THEN lo(i) + M ELSE n
      BY <1>3, <3>2 DEF lo
    <3>6. k \in lo(i) + 1 .. hi(i)
      BY <1>1, <3>1, <3>5
    <3>7. a \in Items(c[i])
      BY <1>5, <3>1, <3>4, <3>6
    <3> QED BY <3>4, <3>7 DEF RowItems, ItemsUpTo
  <2> QED BY <2>1, <2>2
<1> DEFINE q == NumRows(n)
<1>9. q \in Nat /\ \A i \in Nat : i * M < n <=> i < q
  BY <1>1, NumRowsFacts DEF M
<1>10. q - 1 <= last
  <2>1. last + 1 \in Nat /\ (last + 1) * M \in Nat /\ n <= (last + 1) * M
    <3>1. last + 1 \in Nat /\ (last + 1) * M \in Nat
      BY <1>1, Products
    <3> QED BY <3>1 DEF M
  <2>2. ~ (last + 1 < q)
    BY <1>1, <1>9, <2>1
  <2> HIDE DEF q
  <2> QED BY <1>1, <1>9, <2>1, <2>2
<1>11. \A i \in FlushId : c[i] # <<>> => i <= q - 1
  <2> TAKE i \in FlushId
  <2>1. i \in Nat /\ (c[i] # <<>> => i * M < n)
    BY <1>2, <1>5 DEF lo
  <2> HIDE DEF q
  <2> QED BY <1>9, <2>1
<1>12. q - 1 \in FlushId \cup {-1}
  <2> HIDE DEF q
  <2> QED BY <1>1, <1>9, <1>10 DEF FlushId
<1> HIDE DEF q, n
<1> QED BY <1>5, <1>6, <1>7, <1>8, <1>10, <1>11, <1>12 DEF c, q, M, n

\* bisect_left finds where the entries below n end.
LEMMA BisectLeftFacts ==
    ASSUME NEW s \in Seq(Nat), Increasing(s), NEW n \in Nat
    PROVE  /\ BisectLeft(s, n) \in 0 .. Len(s)
           /\ \A k \in 1 .. Len(s) : s[k] < n <=> k <= BisectLeft(s, n)
<1> DEFINE T == {0} \cup {k \in 1 .. Len(s) : s[k] < n}
           b == BisectLeft(s, n)
<1>1. Len(s) \in Nat /\ \A k \in 1 .. Len(s) : s[k] \in Nat
  OBVIOUS
<1>2. b = Max(T)
  BY DEF BisectLeft
<1>3. T \in SUBSET Int /\ T # {} /\ Len(s) \in Int /\ \A t \in T : t <= Len(s)
  BY <1>1
<1> HIDE DEF b
<1>4. b \in T /\ \A t \in T : b >= t
  <2> HIDE DEF T
  <2> QED BY <1>2, <1>3, MaxIsGreatest
<1>5. b \in 0 .. Len(s)
  BY <1>1, <1>4
<1>6. ASSUME NEW k \in 1 .. Len(s), s[k] < n
      PROVE  k <= b
  BY <1>1, <1>4, <1>5, <1>6
<1>7. ASSUME NEW k \in 1 .. Len(s), k <= b
      PROVE  s[k] < n
  <2>1. b \in 1 .. Len(s) /\ s[b] < n
    BY <1>1, <1>4, <1>5, <1>7
  <2>2. s[k] = s[b] \/ s[k] < s[b]
    BY <1>1, <1>7, <2>1 DEF Increasing
  <2> QED BY <1>1, <2>1, <2>2
<1> QED BY <1>5, <1>6, <1>7 DEF b

\* History.backup removes the entries from n on, although it stops at the first
\* row, from the last one down, that keeps one.
LEMMA TrimmedFacts ==
    ASSUME NEW row \in RowSet, InOrder(row), NEW n \in Nat
    PROVE  /\ Trimmed(row, n) \in RowSet
           /\ InOrder(Trimmed(row, n))
           /\ \A i \in FlushId :
                 /\ Items(Trimmed(row, n)[i]) = {m \in Items(row[i]) : m < n}
                 /\ Len(Trimmed(row, n)[i]) <= Len(row[i])
                 /\ Trimmed(row, n)[i] # <<>> => row[i] # <<>>
<1> DEFINE keeps == {i \in FlushId : BisectLeft(row[i], n) > 0}
           t == Trimmed(row, n)
<1>1. t = [i \in FlushId |-> IF keeps # {} /\ i < Max(keeps) THEN row[i]
                             ELSE SubSeq(row[i], 1, BisectLeft(row[i], n))]
  BY DEF Trimmed
<1>2. ASSUME NEW i \in FlushId
      PROVE  /\ row[i] \in Seq(Nat) /\ Increasing(row[i]) /\ Len(row[i]) \in Nat
             /\ \A k \in 1 .. Len(row[i]) : row[i][k] \in Nat
             /\ BisectLeft(row[i], n) \in 0 .. Len(row[i])
             /\ \A k \in 1 .. Len(row[i]) : row[i][k] < n <=> k <= BisectLeft(row[i], n)
  <2>1. row[i] \in Seq(Nat) /\ Increasing(row[i])
    BY DEF RowSet, InOrder
  <2>2. /\ BisectLeft(row[i], n) \in 0 .. Len(row[i])
        /\ \A k \in 1 .. Len(row[i]) : row[i][k] < n <=> k <= BisectLeft(row[i], n)
    BY <2>1, BisectLeftFacts
  <2> QED BY <2>1, <2>2
<1> HIDE DEF t
<1>3. ASSUME NEW i \in FlushId
      PROVE  /\ t[i] \in Seq(Nat) /\ Increasing(t[i]) /\ Len(t[i]) <= Len(row[i])
             /\ Items(t[i]) = {m \in Items(row[i]) : m < n}
  <2>1. CASE keeps # {} /\ i < Max(keeps)
    <3>1. t[i] = row[i]
      BY <1>1, <2>1
    <3>2. PICK j \in FlushId : j \in keeps /\ i < j
      <4>1. keeps \in SUBSET Int /\ keeps # {} /\ MaxFlushId \in Int /\ \A k \in keeps : k <= MaxFlushId
        BY <2>1, CompactionAssumption DEF FlushId
      <4>2. Max(keeps) \in keeps
        <5> HIDE DEF keeps
        <5> QED BY <4>1, MaxIsGreatest
      <4> QED BY <2>1, <4>2
    <3>3. 1 \in 1 .. Len(row[j]) /\ row[j][1] < n /\ row[j][1] \in Items(row[j]) /\ row[j][1] \in Nat
      <4>1. BisectLeft(row[j], n) > 0 /\ 1 \in 1 .. Len(row[j]) /\ 1 <= BisectLeft(row[j], n)
        BY <1>2, <3>2
      <4> QED BY <1>2, <4>1 DEF Items
    <3>4. \A m \in Items(row[i]) : m < n
      <4> TAKE m \in Items(row[i])
      <4>1. m < row[j][1]
        BY <3>2, <3>3 DEF InOrder
      <4>2. m \in Nat
        BY <1>2 DEF Items
      <4> QED BY <3>3, <4>1, <4>2
    <3> QED BY <1>2, <3>1, <3>4
  <2>2. CASE ~ (keeps # {} /\ i < Max(keeps))
    <3> DEFINE b == BisectLeft(row[i], n)
               s == SubSeq(row[i], 1, b)
    <3>1. t[i] = s
      BY <1>1, <2>2
    <3>2. b \in 0 .. Len(row[i]) /\ \A k \in 1 .. Len(row[i]) : row[i][k] < n <=> k <= b
      BY <1>2
    <3> HIDE DEF b
    <3>3. s \in Seq(Nat) /\ Len(s) = b /\ \A k \in 1 .. b : s[k] = row[i][k]
      BY <1>2, <3>2
    <3> HIDE DEF s
    <3>4. \A k \in 1 .. b : k \in 1 .. Len(row[i])
      BY <1>2, <3>2
    <3>5. Increasing(s)
      <4> SUFFICES ASSUME NEW j \in 1 .. b, NEW k \in 1 .. b, j < k
                   PROVE  s[j] < s[k]
        BY <3>3 DEF Increasing
      <4>1. row[i][j] < row[i][k]
        BY <1>2, <3>4 DEF Increasing
      <4> QED BY <3>3, <4>1
    <3>6. ASSUME NEW m \in Items(s)
          PROVE  m \in Items(row[i]) /\ m < n
      <4>1. PICK k \in 1 .. b : m = s[k]
        BY <3>3 DEF Items
      <4>2. m = row[i][k] /\ k \in 1 .. Len(row[i]) /\ k <= b
        BY <3>2, <3>3, <3>4, <4>1
      <4> QED BY <3>2, <4>2 DEF Items
    <3>7. ASSUME NEW m \in Items(row[i]), m < n
          PROVE  m \in Items(s)
      <4>1. PICK k \in 1 .. Len(row[i]) : m = row[i][k]
        BY DEF Items
      <4>2. k <= b
        BY <3>2, <3>7, <4>1
      <4>3. k \in 1 .. b
        BY <1>2, <3>2, <4>2
      <4> QED BY <3>3, <4>1, <4>3 DEF Items
    <3> QED BY <1>2, <3>1, <3>2, <3>3, <3>5, <3>6, <3>7
  <2> QED BY <2>1, <2>2
<1>4. t \in RowSet
  BY <1>1, <1>3 DEF RowSet
<1>5. InOrder(t)
  BY <1>3 DEF InOrder
<1>6. \A i \in FlushId : t[i] # <<>> => row[i] # <<>>
  <2> TAKE i \in FlushId
  <2>1. row[i] = <<>> => Len(row[i]) = 0
    OBVIOUS
  <2>2. t[i] \in Seq(Nat) /\ (Len(t[i]) = 0 => t[i] = <<>>)
    BY <1>3
  <2> QED BY <1>3, <2>1, <2>2
<1> QED BY <1>3, <1>4, <1>5, <1>6 DEF t

-----------------------------------------------------------------------------
(* Rows, item by item *)

\* A sequence of numbers of some set, by its items.
LEMMA SeqOfItems ==
    ASSUME NEW s \in Seq(Nat), NEW S, Items(s) \subseteq S
    PROVE  s \in Seq(S)
<1>1. \A k \in 1 .. Len(s) : s[k] \in S
  BY DEF Items
<1>2. s = [k \in 1 .. Len(s) |-> s[k]] /\ Len(s) \in Nat
  OBVIOUS
<1>3. [k \in 1 .. Len(s) |-> s[k]] \in Seq(S)
  BY <1>1, <1>2
<1> QED BY <1>2, <1>3

\* Rows beyond the flush id c, if there are any, add nothing.
LEMMA NoRowsBeyond ==
    ASSUME NEW row, NEW c \in FlushId, \A i \in FlushId : row[i] # <<>> => i <= c
    PROVE  RowItems(row) = ItemsUpTo(row, c)
<1>1. Items(<<>>) = {}
  BY DEF Items
<1>2. ASSUME NEW m \in RowItems(row)
      PROVE  m \in ItemsUpTo(row, c)
  <2>1. PICK i \in 0 .. MaxFlushId : m \in Items(row[i])
    BY DEF RowItems, ItemsUpTo
  <2>2. i \in FlushId /\ row[i] # <<>>
    BY <1>1, <2>1 DEF FlushId
  <2>3. i \in 0 .. c
    BY <2>2 DEF FlushId
  <2> QED BY <2>1, <2>3 DEF ItemsUpTo
<1>3. ASSUME NEW m \in ItemsUpTo(row, c)
      PROVE  m \in RowItems(row)
  <2>1. PICK i \in 0 .. c : m \in Items(row[i])
    BY DEF ItemsUpTo
  <2>2. i \in 0 .. MaxFlushId
    BY CompactionAssumption DEF FlushId
  <2> QED BY <2>1, <2>2 DEF RowItems, ItemsUpTo
<1> QED BY <1>2, <1>3

\* The entries of the rows with flush ids up to c depend on these rows alone.
LEMMA SameUpTo ==
    ASSUME NEW row, NEW row2, NEW c \in FlushId, \A i \in FlushId : i <= c => Items(row2[i]) = Items(row[i])
    PROVE  ItemsUpTo(row2, c) = ItemsUpTo(row, c)
<1>1. \A i \in 0 .. c : Items(row2[i]) = Items(row[i])
  BY CompactionAssumption DEF FlushId
<1> QED BY <1>1 DEF ItemsUpTo

\* An entry is in the row of some flush id.
LEMMA RowOfItem ==
    ASSUME NEW row, NEW m
    PROVE  m \in RowItems(row) <=> \E i \in FlushId : m \in Items(row[i])
BY DEF RowItems, ItemsUpTo, FlushId

\* clear_excess leaves the entries of the rows with flush ids up to c.
LEMMA ClearedFacts ==
    ASSUME NEW row \in RowSet, InOrder(row), NEW c \in FlushId, NEW row2,
           row2 = [i \in FlushId |-> IF i > c THEN <<>> ELSE row[i]]
    PROVE  /\ row2 \in RowSet /\ InOrder(row2)
           /\ \A i \in FlushId : row2[i] # <<>> => i <= c /\ row2[i] = row[i]
           /\ ItemsUpTo(row2, c) = ItemsUpTo(row, c)
           /\ RowItems(row2) = ItemsUpTo(row, c)
<1>1. \A i \in FlushId : row2[i] = IF i > c THEN <<>> ELSE row[i]
  OBVIOUS
<1>2. Items(<<>>) = {} /\ Increasing(<<>>) /\ <<>> \in Seq(Nat)
  BY DEF Items, Increasing
<1>3. row2 \in RowSet
  BY <1>2 DEF RowSet
<1>4. InOrder(row2)
  <2>1. \A i \in FlushId : row2[i] = row[i] \/ row2[i] = <<>>
    BY <1>1
  <2>2. \A i \in FlushId : Items(row2[i]) \subseteq Items(row[i]) /\ Increasing(row2[i])
    BY <1>2, <2>1 DEF InOrder
  <2> QED BY <2>2 DEF InOrder
<1>5. \A i \in FlushId : row2[i] # <<>> => i <= c /\ row2[i] = row[i]
  BY <1>1 DEF FlushId
<1>6. ItemsUpTo(row2, c) = ItemsUpTo(row, c)
  <2>1. \A i \in FlushId : i <= c => row2[i] = row[i]
    BY <1>1 DEF FlushId
  <2> QED BY <2>1, SameUpTo
<1>7. RowItems(row2) = ItemsUpTo(row2, c)
  BY <1>5, NoRowsBeyond
<1> QED BY <1>3, <1>4, <1>5, <1>6, <1>7

WithRow(row, i, s) == [row EXCEPT ![i] = s]

\* All entries of the rows come before those of s.
Before(row, s) == \A m \in RowItems(row), n \in Items(s) : m < n

\* The rows have flush ids up to c.
IdsUpTo(row, c) == \A j \in FlushId : row[j] # <<>> => j <= c

\* flush_history adds a row after the others, of entries after the others.
LEMMA AddedFacts ==
    ASSUME NEW row \in RowSet, InOrder(row), NEW i \in FlushId, NEW c \in FlushId, c < i,
           IdsUpTo(row, c), NEW s \in Seq(Nat), Increasing(s), Before(row, s),
           NEW row2, row2 = WithRow(row, i, s)
    PROVE  /\ row2 \in RowSet /\ InOrder(row2)
           /\ \A j \in FlushId : row2[j] = IF j = i THEN s ELSE row[j]
           /\ RowItems(row2) = RowItems(row) \cup Items(s)
           /\ \A d \in FlushId : d <= c => ItemsUpTo(row2, d) = ItemsUpTo(row, d)
<1> USE DEF IdsUpTo, Before
<1>1. \A j \in FlushId : row2[j] = IF j = i THEN s ELSE row[j]
  BY DEF RowSet, WithRow
<1>2. row2 \in RowSet
  BY DEF RowSet, WithRow
<1>3. Items(<<>>) = {} /\ row[i] = <<>>
  BY DEF Items, FlushId
<1>4. InOrder(row2)
  <2>1. \A j \in FlushId : Increasing(row2[j])
    BY <1>1 DEF InOrder
  <2>2. ASSUME NEW a \in FlushId, NEW b \in FlushId, a < b, NEW m \in Items(row2[a]), NEW n \in Items(row2[b])
        PROVE  m < n
    <3>1. CASE a # i /\ b # i
      BY <1>1, <2>2, <3>1 DEF InOrder
    <3>2. CASE b = i
      <4>1. a # i /\ row2[a] = row[a] /\ row2[b] = s
        BY <1>1, <2>2, <3>2 DEF FlushId
      <4>2. m \in RowItems(row)
        BY <2>2, <4>1, RowOfItem
      <4> QED BY <2>2, <4>1, <4>2
    <3>3. CASE a = i
      <4>1. b # i /\ row2[b] = row[b] /\ ~ (b <= c)
        BY <1>1, <2>2, <3>3 DEF FlushId
      <4>2. row[b] = <<>>
        BY <4>1
      <4> QED BY <1>3, <2>2, <4>1, <4>2
    <3> QED BY <3>1, <3>2, <3>3
  <2> QED BY <2>1, <2>2 DEF InOrder
<1>5. RowItems(row2) = RowItems(row) \cup Items(s)
  <2>1. ASSUME NEW m \in RowItems(row2)
        PROVE  m \in RowItems(row) \cup Items(s)
    <3>1. PICK j \in FlushId : m \in Items(row2[j])
      BY RowOfItem
    <3>2. CASE j = i
      BY <1>1, <3>1, <3>2
    <3>3. CASE j # i
      BY <1>1, <3>1, <3>3, RowOfItem
    <3> QED BY <3>2, <3>3
  <2>2. ASSUME NEW m \in RowItems(row)
        PROVE  m \in RowItems(row2)
    <3>1. PICK j \in FlushId : m \in Items(row[j])
      BY RowOfItem
    <3>2. j # i
      BY <1>3, <3>1
    <3> QED BY <1>1, <3>1, <3>2, RowOfItem
  <2>3. ASSUME NEW m \in Items(s)
        PROVE  m \in RowItems(row2)
    BY <1>1, RowOfItem
  <2> QED BY <2>1, <2>2, <2>3
<1>6. ASSUME NEW d \in FlushId, d <= c
      PROVE  ItemsUpTo(row2, d) = ItemsUpTo(row, d)
  <2>1. \A j \in FlushId : j <= d => j # i
    BY <1>6 DEF FlushId
  <2>2. \A j \in FlushId : j <= d => row2[j] = row[j]
    BY <1>1, <2>1
  <2> QED BY <2>2, SameUpTo
<1> QED BY <1>1, <1>2, <1>4, <1>5, <1>6

\* Rows in order that hold what touches h are read as the history of h.
LEMMA ReadsHistory ==
    ASSUME NEW rs, NEW h, rs[h] \in RowSet, InOrder(rs[h]), NEW n \in Nat, NEW u \in Seq(Nat), Increasing(u),
           RowItems(rs[h]) \cup Items(u) = Touching(h, n), \A a \in RowItems(rs[h]), b \in Items(u) : a < b
    PROVE  HistoryIn(rs, h) \o u = HistoryOf(h, n)
<1> DEFINE s == HistoryIn(rs, h)
           w == s \o u
           o == HistoryOf(h, n)
<1>1. s \in Seq(Nat) /\ Items(s) = RowItems(rs[h]) /\ Increasing(s)
  BY HistoryInFacts
<1>2. o \in Seq(Nat) /\ Items(o) = Touching(h, n) /\ Increasing(o)
  BY HistoryOfFacts
<1> HIDE DEF s, o
<1>3. w \in Seq(Nat) /\ Items(w) = Items(s) \cup Items(u) /\ Increasing(w)
  BY <1>1, ConcatItems
<1>4. Items(w) = Items(o)
  BY <1>1, <1>2, <1>3
<1> HIDE DEF w
<1>5. w = o
  BY <1>2, <1>3, <1>4, SameSequence
<1> QED BY <1>5 DEF s, w, o

\* The transactions that touch h in two chains that agree on the first n.
LEMMA SameTouched ==
    ASSUME NEW c, NEW d, NEW h, NEW n \in Nat, \A k \in 1 .. n : c[k] = d[k]
    PROVE  TouchedIn(c, h, n) = TouchedIn(d, h, n)
<1>1. \A k \in 0 .. n - 1 : k + 1 \in 1 .. n
  OBVIOUS
<1> QED BY <1>1 DEF TouchedIn

-----------------------------------------------------------------------------
(* What the invariant says, variable by variable *)

\* The types of what is on disk, and of what a server or the tool works with.
LEMMA Typed ==
    ASSUME TypeOK
    PROVE  /\ rows \in [HashX -> RowSet] /\ \A h \in HashX : rows[h] \in RowSet
           /\ hist.flush_count \in FlushId /\ utxo.flush_count \in FlushId
           /\ hist.comp_flush_count \in FlushId \cup {-1} /\ hist.comp_cursor \in HashX \cup {-1}
           /\ utxo.tx_count \in Nat /\ utxo.tx_count <= MaxTx
           /\ flush_count \in FlushId /\ utxo_flush_count \in FlushId
           /\ comp_flush_count \in FlushId \cup {-1} /\ comp_cursor \in HashX \cup {-1}
           /\ tx_count \in Nat /\ tx_count <= MaxTx
           /\ \A h \in HashX : unflushed[h] \in Seq(Nat)
           /\ txs \in Seq(SUBSET HashX) /\ Len(txs) \in Nat
           /\ FlushId \subseteq Nat /\ MaxFlushId \in Nat \ {0} /\ MaxTx \in Nat \ {0}
           /\ MaxRowEntries \in Nat \ {0} /\ NumPrefixes \in Nat \ {0}
<1>1. /\ FlushId \subseteq Nat /\ MaxFlushId \in Nat \ {0} /\ MaxTx \in Nat \ {0}
      /\ MaxRowEntries \in Nat \ {0} /\ NumPrefixes \in Nat \ {0}
  BY CompactionAssumption DEF FlushId
<1>2. Seq(0 .. MaxTx - 1) \subseteq Seq(Nat)
  <2> SUFFICES ASSUME NEW s \in Seq(0 .. MaxTx - 1)
               PROVE  s \in Seq(Nat)
    OBVIOUS
  <2>1. s = [k \in 1 .. Len(s) |-> s[k]] /\ Len(s) \in Nat /\ \A k \in 1 .. Len(s) : s[k] \in Nat
    BY <1>1
  <2>2. [k \in 1 .. Len(s) |-> s[k]] \in Seq(Nat)
    BY <2>1
  <2> QED BY <2>1, <2>2
<1>3. rows \in [HashX -> RowSet] /\ \A h \in HashX : rows[h] \in RowSet
  BY <1>2 DEF TypeOK, RowSet
<1>4. \A h \in HashX : unflushed[h] \in Seq(Nat)
  BY <1>2 DEF TypeOK
<1>5. /\ hist.flush_count \in FlushId /\ utxo.flush_count \in FlushId
      /\ hist.comp_flush_count \in FlushId \cup {-1} /\ hist.comp_cursor \in HashX \cup {-1}
      /\ utxo.tx_count \in 0 .. MaxTx
  BY DEF TypeOK
<1>6. /\ flush_count \in FlushId /\ utxo_flush_count \in FlushId
      /\ comp_flush_count \in FlushId \cup {-1} /\ comp_cursor \in HashX \cup {-1}
      /\ tx_count \in 0 .. MaxTx /\ txs \in Seq(SUBSET HashX)
  BY DEF TypeOK
<1> QED BY <1>1, <1>3, <1>4, <1>5, <1>6

\* The rows and entries of a database are typed if they are those of a chain.
LEMMA RowsTyped ==
    ASSUME NEW r \in [HashX -> RowSet], \A h \in HashX : RowItems(r[h]) \subseteq 0 .. MaxTx - 1
    PROVE  r \in [HashX -> [FlushId -> Seq(0 .. MaxTx - 1)]]
<1>1. ASSUME NEW h \in HashX, NEW i \in FlushId
      PROVE  r[h][i] \in Seq(0 .. MaxTx - 1)
  <2>1. r[h] \in RowSet
    OBVIOUS
  <2>2. r[h][i] \in Seq(Nat)
    BY <2>1 DEF RowSet
  <2>3. Items(r[h][i]) \subseteq RowItems(r[h])
    BY RowOfItem
  <2>4. Items(r[h][i]) \subseteq 0 .. MaxTx - 1
    BY <2>3
  <2> QED BY <2>2, <2>4, SeqOfItems
<1>2. \A h \in HashX : r[h] \in [FlushId -> Seq(0 .. MaxTx - 1)]
  <2> TAKE h \in HashX
  <2>1. r[h] \in RowSet
    OBVIOUS
  <2>2. r[h] = [i \in FlushId |-> r[h][i]]
    BY <2>1 DEF RowSet
  <2> QED BY <1>1, <2>2
<1>3. r = [h \in HashX |-> r[h]]
  OBVIOUS
<1> QED BY <1>2, <1>3

\* What touches h in a chain of at most MaxTx transactions has small numbers.
LEMMA TouchedRange ==
    ASSUME NEW c, NEW h, NEW n \in Nat, n <= MaxTx
    PROVE  TouchedIn(c, h, n) \subseteq 0 .. MaxTx - 1 /\ \A t \in TouchedIn(c, h, n) : t \in Nat /\ t < n
<1>1. MaxTx \in Nat
  BY CompactionAssumption
<1> QED BY <1>1 DEF TouchedIn

\* What clear_excess and the minimum of the two flush counts leave: the history
\* of the chain of the UTXO DB.
LEMMA KeptFacts ==
    ASSUME IInv
    PROVE  /\ KeptFlushCount \in FlushId
           /\ KeptFlushCount <= utxo.flush_count /\ KeptFlushCount <= hist.flush_count
           /\ hist.flush_count >= utxo.flush_count => KeptFlushCount = utxo.flush_count
           /\ hist.flush_count <= utxo.flush_count => KeptRows = rows
           /\ KeptRows \in [HashX -> [FlushId -> Seq(0 .. MaxTx - 1)]]
           /\ \A h \in HashX :
                 /\ KeptRows[h] \in RowSet /\ InOrder(KeptRows[h])
                 /\ \A i \in FlushId : /\ Len(KeptRows[h][i]) <= MaxRowEntries
                                       /\ KeptRows[h][i] # <<>> => i <= KeptFlushCount
                 /\ ItemsUpTo(KeptRows[h], utxo.flush_count) = Touching(h, utxo.tx_count)
                 /\ RowItems(KeptRows[h]) = Touching(h, utxo.tx_count)
<1> DEFINE hfc == hist.flush_count
           ufc == utxo.flush_count
<1>1. TypeOK /\ RowInv /\ KeptInv
  BY DEF IInv
<1>2. /\ hfc \in FlushId /\ ufc \in FlushId /\ FlushId \subseteq Nat /\ MaxRowEntries \in Nat
      /\ rows \in [HashX -> RowSet] /\ (\A h \in HashX : rows[h] \in RowSet)
      /\ utxo.tx_count \in Nat /\ utxo.tx_count <= MaxTx
  BY <1>1, Typed
<1>3. KeptFlushCount = IF hfc <= ufc THEN hfc ELSE ufc
  <2> HIDE DEF hfc, ufc
  <2>1. hfc \in Int /\ ufc \in Int
    BY <1>2
  <2>2. Min({hfc, ufc}) = IF hfc <= ufc THEN hfc ELSE ufc
    BY <2>1, MinOfTwo
  <2> QED BY <2>2 DEF KeptFlushCount, hfc, ufc
<1>4. KeptRows = IF hfc <= ufc THEN rows
                 ELSE [h \in HashX |-> [i \in FlushId |-> IF i > ufc THEN <<>> ELSE rows[h][i]]]
  BY DEF KeptRows
<1>5. \A h \in HashX : /\ InOrder(rows[h])
                       /\ \A i \in FlushId : Len(rows[h][i]) <= MaxRowEntries /\ (rows[h][i] # <<>> => i <= hfc)
                       /\ ItemsUpTo(rows[h], ufc) = Touching(h, utxo.tx_count)
  BY <1>1 DEF RowInv, KeptInv
<1> HIDE DEF hfc, ufc
<1>6. ASSUME NEW h \in HashX
      PROVE  /\ KeptRows[h] \in RowSet /\ InOrder(KeptRows[h])
             /\ \A i \in FlushId : /\ Len(KeptRows[h][i]) <= MaxRowEntries
                                   /\ KeptRows[h][i] # <<>> => i <= KeptFlushCount
             /\ ItemsUpTo(KeptRows[h], ufc) = Touching(h, utxo.tx_count)
             /\ RowItems(KeptRows[h]) = Touching(h, utxo.tx_count)
  <2>1. CASE hfc <= ufc
    <3>1. KeptRows = rows /\ KeptFlushCount = hfc
      BY <1>3, <1>4, <2>1
    <3>2. \A i \in FlushId : rows[h][i] # <<>> => i <= ufc
      BY <1>2, <1>5, <2>1
    <3>3. RowItems(rows[h]) = ItemsUpTo(rows[h], ufc)
      BY <1>2, <3>2, NoRowsBeyond
    <3> QED BY <1>2, <1>5, <3>1, <3>3
  <2>2. CASE ~ (hfc <= ufc)
    <3> DEFINE row == rows[h]
               row2 == KeptRows[h]
    <3>1. KeptFlushCount = ufc /\ row2 = [i \in FlushId |-> IF i > ufc THEN <<>> ELSE row[i]]
      BY <1>3, <1>4, <2>2
    <3>2. row \in RowSet /\ InOrder(row)
      BY <1>2, <1>5
    <3> HIDE DEF row, row2
    <3>3. /\ row2 \in RowSet /\ InOrder(row2)
          /\ \A i \in FlushId : row2[i] # <<>> => i <= ufc /\ row2[i] = row[i]
          /\ ItemsUpTo(row2, ufc) = ItemsUpTo(row, ufc)
          /\ RowItems(row2) = ItemsUpTo(row, ufc)
      BY <1>2, <3>1, <3>2, ClearedFacts
    <3>4. \A i \in FlushId : Len(row2[i]) <= MaxRowEntries
      <4> TAKE i \in FlushId
      <4>1. CASE row2[i] = <<>>
        BY <1>2, <4>1
      <4>2. CASE row2[i] # <<>>
        BY <1>5, <3>3, <4>2 DEF row
      <4> QED BY <4>1, <4>2
    <3> QED BY <1>5, <3>1, <3>3, <3>4 DEF row, row2
  <2> QED BY <2>1, <2>2
<1>7. KeptRows \in [HashX -> RowSet]
  <2>1. KeptRows = [h \in HashX |-> KeptRows[h]]
    BY <1>2, <1>4
  <2> QED BY <1>6, <2>1
<1>8. KeptRows \in [HashX -> [FlushId -> Seq(0 .. MaxTx - 1)]]
  <2>1. \A h \in HashX : RowItems(KeptRows[h]) \subseteq 0 .. MaxTx - 1
    BY <1>2, <1>6, TouchedRange DEF Touching
  <2> QED BY <1>7, <2>1, RowsTyped
<1>9. /\ KeptFlushCount \in FlushId /\ KeptFlushCount <= ufc /\ KeptFlushCount <= hfc
      /\ hfc >= ufc => KeptFlushCount = ufc
      /\ hfc <= ufc => KeptRows = rows
  <2>1. hfc \in Nat /\ ufc \in Nat
    BY <1>2
  <2> QED BY <1>2, <1>3, <1>4, <2>1
<1> QED BY <1>6, <1>8, <1>9 DEF hfc, ufc

-----------------------------------------------------------------------------
(* The programs start and end *)

\* An empty database is the history of an empty chain.
LEMMA InitInv ==
    ASSUME Init
    PROVE  IInv
<1>1. /\ rows = [h \in HashX |-> [i \in FlushId |-> <<>>]] /\ hist = State(0, -1, -1)
      /\ utxo = [flush_count |-> 0, tx_count |-> 0] /\ flush_count = 0
      /\ comp_flush_count = -1 /\ comp_cursor = -1 /\ unflushed = NoRows
      /\ utxo_flush_count = 0 /\ tx_count = 0 /\ pc = "down" /\ txs = <<>>
  BY DEF Init
<1>2. 0 \in FlushId /\ MaxTx \in Nat \ {0} /\ MaxRowEntries \in Nat
  BY CompactionAssumption DEF FlushId
<1>3. Items(<<>>) = {} /\ Increasing(<<>>) /\ Len(<<>>) = 0
  BY DEF Items, Increasing
<1>4. TypeOK
  BY <1>1, <1>2 DEF TypeOK, State, NoRows
<1>5. ChainInv
  BY <1>1, <1>2 DEF ChainInv
<1>6. RowInv
  BY <1>1, <1>2, <1>3 DEF RowInv, InOrder
<1>7. KeptInv
  <2>1. \A h \in HashX : ItemsUpTo(rows[h], 0) = {}
    <3>1. \A h \in HashX : rows[h][0] = <<>>
      BY <1>1, <1>2
    <3>2. 0 .. 0 = {0}
      OBVIOUS
    <3> QED BY <1>3, <3>1, <3>2 DEF ItemsUpTo
  <2>2. \A h \in HashX : Touching(h, 0) = {}
    BY DEF Touching, TouchedIn
  <2>3. utxo.flush_count = 0 /\ utxo.tx_count = 0
    BY <1>1
  <2> QED BY <2>1, <2>2, <2>3 DEF KeptInv
<1>8. ServerInv /\ ToolInv /\ InterruptedInv /\ CursorHonest
  BY <1>1 DEF ServerInv, ToolInv, InterruptedInv, CursorHonest, State
<1> QED BY <1>4, <1>5, <1>6, <1>7, <1>8 DEF IInv

\* _open_dbs leaves the history of the chain of the UTXO DB, and a compaction
\* that was interrupted as it was.
LEMMA Opened ==
    ASSUME IInv, OpenDbs, pc' \in {"serving", "compacting"},
           comp_flush_count' \in FlushId \cup {-1}, comp_cursor' \in HashX \cup {-1}
    PROVE  /\ TypeOK' /\ ChainInv' /\ RowInv' /\ KeptInv' /\ InterruptedInv' /\ CursorHonest'
           /\ flush_count' = KeptFlushCount /\ utxo_flush_count' = KeptFlushCount
           /\ hist'.flush_count = KeptFlushCount /\ KeptFlushCount <= utxo'.flush_count
           /\ hist'.comp_cursor = hist.comp_cursor /\ hist'.comp_flush_count = hist.comp_flush_count
           /\ unflushed' = NoRows
           /\ \A h \in HashX : /\ RowItems(rows'[h]) = TouchedIn(txs', h, utxo'.tx_count)
                               /\ RowItems(rows'[h]) = TouchedIn(txs', h, tx_count')
<1>1. /\ rows' = KeptRows /\ hist' = [hist EXCEPT !.flush_count = KeptFlushCount]
      /\ flush_count' = KeptFlushCount /\ utxo_flush_count' = KeptFlushCount
      /\ tx_count' = utxo.tx_count /\ txs' = SubSeq(txs, 1, utxo.tx_count)
      /\ unflushed' = NoRows /\ utxo' = utxo
  BY DEF OpenDbs
<1>2. TypeOK /\ ChainInv /\ InterruptedInv /\ CursorHonest
  BY DEF IInv
<1>3. /\ txs \in Seq(SUBSET HashX) /\ Len(txs) \in Nat
      /\ utxo.tx_count \in Nat /\ utxo.tx_count <= MaxTx /\ MaxTx \in Nat
      /\ utxo.flush_count \in FlushId /\ hist.flush_count \in FlushId /\ FlushId \subseteq Nat
  BY <1>2, Typed
<1>4. /\ KeptFlushCount \in FlushId
      /\ KeptFlushCount <= utxo.flush_count /\ KeptFlushCount <= hist.flush_count
      /\ hist.flush_count <= utxo.flush_count => KeptRows = rows
      /\ KeptRows \in [HashX -> [FlushId -> Seq(0 .. MaxTx - 1)]]
  BY KeptFacts
<1>5. \A h \in HashX :
         /\ InOrder(KeptRows[h])
         /\ \A i \in FlushId : /\ Len(KeptRows[h][i]) <= MaxRowEntries
                               /\ KeptRows[h][i] # <<>> => i <= KeptFlushCount
         /\ ItemsUpTo(KeptRows[h], utxo.flush_count) = Touching(h, utxo.tx_count)
         /\ RowItems(KeptRows[h]) = Touching(h, utxo.tx_count)
  BY KeptFacts
<1>6. /\ hist' \in [flush_count : FlushId, comp_flush_count : FlushId \cup {-1},
                    comp_cursor : HashX \cup {-1}]
      /\ hist'.flush_count = KeptFlushCount
      /\ hist'.comp_cursor = hist.comp_cursor /\ hist'.comp_flush_count = hist.comp_flush_count
  BY <1>1, <1>2, <1>4 DEF TypeOK
<1>7. /\ txs' \in Seq(SUBSET HashX) /\ Len(txs') = utxo.tx_count
      /\ \A k \in 1 .. utxo.tx_count : txs'[k] = txs[k]
  <2> DEFINE n == utxo.tx_count
             s == SubSeq(txs, 1, n)
  <2>1. n \in Nat /\ n <= Len(txs)
    BY <1>2, <1>3 DEF ChainInv
  <2> HIDE DEF n
  <2>2. s \in Seq(SUBSET HashX) /\ Len(s) = n /\ \A k \in 1 .. n : s[k] = txs[k]
    BY <1>3, <2>1
  <2> HIDE DEF s
  <2>3. txs' = s
    BY <1>1 DEF s, n
  <2> QED BY <2>2, <2>3 DEF n
<1>8. \A h \in HashX : TouchedIn(txs', h, utxo.tx_count) = Touching(h, utxo.tx_count)
  BY <1>3, <1>7, SameTouched DEF Touching
<1>9. TypeOK'
  <2>1. unflushed' \in [HashX -> Seq(0 .. MaxTx - 1)]
    BY <1>1 DEF NoRows
  <2>2. utxo' \in [flush_count : FlushId, tx_count : 0 .. MaxTx] /\ tx_count' \in 0 .. MaxTx
    BY <1>1, <1>2 DEF TypeOK
  <2>3. rows' \in [HashX -> [FlushId -> Seq(0 .. MaxTx - 1)]]
    BY <1>1, <1>4
  <2>4. flush_count' \in FlushId /\ utxo_flush_count' \in FlushId
    BY <1>1, <1>4
  <2> QED BY <1>6, <1>7, <2>1, <2>2, <2>3, <2>4 DEF TypeOK
<1>10. ChainInv'
  BY <1>1, <1>3, <1>7 DEF ChainInv
<1>11. RowInv'
  BY <1>1, <1>5, <1>6 DEF RowInv
<1>12. KeptInv'
  BY <1>1, <1>5, <1>8 DEF KeptInv, Touching
<1>13. InterruptedInv'
  BY <1>1, <1>4, <1>6 DEF InterruptedInv
<1>14. CursorHonest'
  <2>1. hist.comp_cursor # -1 => rows' = rows
    BY <1>1, <1>2, <1>4 DEF InterruptedInv
  <2>2. hist'.comp_cursor # -1 =>
           \A h \in 0 .. hist'.comp_cursor - 1 :
              /\ rows'[h] = CompactHashX(HistoryIn(rows', h))
              /\ LastRow(rows', h) <= hist'.comp_flush_count
    BY <1>2, <1>6, <2>1 DEF CursorHonest
  <2> QED BY <2>2 DEF CursorHonest
<1> QED BY <1>1, <1>4, <1>5, <1>6, <1>8, <1>9, <1>10, <1>11, <1>12, <1>13, <1>14

\* A server that starts on a database whose compaction was completed has the
\* history of its chain.
LEMMA StartServerInv ==
    ASSUME IInv, Careful, StartServer
    PROVE  IInv'
<1>1. OpenDbs /\ comp_flush_count' = -1 /\ comp_cursor' = -1 /\ pc' = "serving"
      /\ hist.flush_count >= utxo.flush_count
  BY DEF StartServer, CancelCompaction, CompletedCompaction
<1>2. /\ TypeOK' /\ ChainInv' /\ RowInv' /\ KeptInv' /\ InterruptedInv' /\ CursorHonest'
      /\ flush_count' = KeptFlushCount /\ utxo_flush_count' = KeptFlushCount
      /\ hist'.flush_count = KeptFlushCount
      /\ unflushed' = NoRows
      /\ \A h \in HashX : RowItems(rows'[h]) = TouchedIn(txs', h, tx_count')
  BY <1>1, Opened
<1>3. KeptFlushCount = utxo.flush_count /\ utxo' = utxo /\ utxo.flush_count \in Nat
  <2>1. TypeOK
    BY DEF IInv
  <2> QED BY <1>1, <2>1, KeptFacts, Typed DEF OpenDbs
<1>4. ServerInv'
  <2>1. ASSUME NEW h \in HashX
        PROVE  /\ Increasing(unflushed'[h]) /\ Len(unflushed'[h]) <= MaxRowEntries
               /\ RowItems(rows'[h]) \cup Items(unflushed'[h]) = TouchedIn(txs', h, tx_count')
               /\ \A m \in RowItems(rows'[h]), n \in Items(unflushed'[h]) : m < n
    <3>1. unflushed'[h] = <<>>
      BY <1>2 DEF NoRows
    <3>2. Items(<<>>) = {} /\ Increasing(<<>>) /\ Len(<<>>) <= MaxRowEntries
      BY CompactionAssumption DEF Items, Increasing
    <3> QED BY <1>2, <3>1, <3>2
  <2> QED BY <1>1, <1>2, <1>3, <2>1 DEF ServerInv, Touching
<1>5. ToolInv'
  BY <1>1 DEF ToolInv
<1> QED BY <1>2, <1>4, <1>5 DEF IInv

\* The tool goes on with the compaction that was interrupted.
LEMMA StartCompactionInv ==
    ASSUME IInv, StartCompaction
    PROVE  IInv'
<1>1. /\ OpenDbs /\ pc' = "compacting"
      /\ comp_cursor' = IF hist.comp_cursor = -1 THEN 0 ELSE hist.comp_cursor
      /\ comp_flush_count' = Max({hist.comp_flush_count, 1})
  BY DEF StartCompaction
<1>2. TypeOK
  BY DEF IInv
<1>3. /\ hist.comp_flush_count \in FlushId \cup {-1} /\ hist.comp_cursor \in HashX \cup {-1}
      /\ 0 \in HashX /\ 1 \in FlushId /\ FlushId \subseteq Nat
  BY <1>2, Typed, CompactionAssumption DEF HashX, FlushId
<1>4. /\ comp_flush_count' = IF hist.comp_flush_count >= 1 THEN hist.comp_flush_count ELSE 1
      /\ comp_flush_count' \in FlushId /\ hist.comp_flush_count <= comp_flush_count'
  <2> DEFINE c == hist.comp_flush_count
  <2>1. c \in FlushId \cup {-1} /\ comp_flush_count' = Max({c, 1})
    BY <1>1, <1>3
  <2> HIDE DEF c
  <2>2. c \in Int
    BY <1>3, <2>1
  <2>3. Max({c, 1}) = IF c >= 1 THEN c ELSE 1
    BY <2>2, MaxOfTwo
  <2>4. comp_flush_count' = IF c >= 1 THEN c ELSE 1
    BY <2>1, <2>3
  <2>5. comp_flush_count' \in FlushId /\ c <= comp_flush_count'
    BY <1>3, <2>1, <2>2, <2>4
  <2> QED BY <2>4, <2>5 DEF c
<1>5. comp_cursor' \in HashX /\ comp_cursor' # -1
  BY <1>1, <1>3 DEF HashX
<1>6. /\ TypeOK' /\ ChainInv' /\ RowInv' /\ KeptInv' /\ InterruptedInv' /\ CursorHonest'
      /\ flush_count' = KeptFlushCount
      /\ hist'.flush_count = KeptFlushCount /\ KeptFlushCount <= utxo'.flush_count
      /\ hist'.comp_cursor = hist.comp_cursor /\ hist'.comp_flush_count = hist.comp_flush_count
      /\ \A h \in HashX : RowItems(rows'[h]) = TouchedIn(txs', h, utxo'.tx_count)
  BY <1>1, <1>4, <1>5, Opened
<1>7. ServerInv'
  BY <1>1 DEF ServerInv
<1>8. ToolInv'
  <2>1. comp_flush_count' # -1
    BY <1>3, <1>4
  <2>2. hist'.comp_cursor = comp_cursor' \/ (hist'.comp_cursor = -1 /\ comp_cursor' = 0)
    BY <1>1, <1>6
  <2> QED BY <1>1, <1>4, <1>5, <1>6, <2>1, <2>2 DEF ToolInv, Touching
<1> QED BY <1>6, <1>7, <1>8 DEF IInv

\* A kill leaves what is on disk.
LEMMA KillInv ==
    ASSUME IInv, Kill
    PROVE  IInv'
<1>1. /\ flush_count' = 0 /\ comp_flush_count' = -1 /\ comp_cursor' = -1 /\ unflushed' = NoRows
      /\ utxo_flush_count' = 0 /\ tx_count' = 0 /\ pc' = "down"
      /\ rows' = rows /\ hist' = hist /\ utxo' = utxo /\ txs' = txs
  BY DEF Kill, Forgotten, diskVars
<1>2. TypeOK /\ ChainInv /\ RowInv /\ KeptInv /\ InterruptedInv /\ CursorHonest
  BY DEF IInv
<1>3. TypeOK'
  <2>1. 0 \in FlushId /\ 0 \in 0 .. MaxTx
    BY CompactionAssumption DEF FlushId
  <2>2. unflushed' \in [HashX -> Seq(0 .. MaxTx - 1)]
    BY <1>1 DEF NoRows
  <2> QED BY <1>1, <1>2, <2>1, <2>2 DEF TypeOK
<1>4. ChainInv' /\ RowInv' /\ KeptInv'
  BY <1>1, <1>2 DEF ChainInv, RowInv, KeptInv, Touching
<1>5. ServerInv' /\ ToolInv' /\ InterruptedInv'
  BY <1>1, <1>2 DEF ServerInv, ToolInv, InterruptedInv
<1>6. CursorHonest'
  BY <1>1, <1>2 DEF CursorHonest
<1> QED BY <1>3, <1>4, <1>5, <1>6 DEF IInv

-----------------------------------------------------------------------------
(* The server *)

\* A transaction adds its number to the histories in memory that it touches.
LEMMA AdvanceInv ==
    ASSUME IInv, Careful, NEW touched \in SUBSET HashX, Advance(touched)
    PROVE  IInv'
<1>1. /\ pc = "serving" /\ pc' = "serving" /\ tx_count < MaxTx
      /\ txs' = Append(txs, touched) /\ tx_count' = tx_count + 1
      /\ unflushed' = [h \in HashX |-> IF h \in touched THEN Append(unflushed[h], tx_count)
                                       ELSE unflushed[h]]
      /\ \A h \in HashX : Len(unflushed'[h]) <= MaxRowEntries
      /\ rows' = rows /\ hist' = hist /\ utxo' = utxo /\ flush_count' = flush_count
      /\ comp_flush_count' = comp_flush_count /\ comp_cursor' = comp_cursor
      /\ utxo_flush_count' = utxo_flush_count
  BY DEF Advance, SmallFlushes, diskVars
<1>2. TypeOK /\ ChainInv /\ RowInv /\ KeptInv /\ ServerInv /\ InterruptedInv /\ CursorHonest
  BY DEF IInv
<1>3. /\ txs \in Seq(SUBSET HashX) /\ Len(txs) \in Nat /\ tx_count \in Nat /\ tx_count = Len(txs)
      /\ utxo.tx_count \in Nat /\ utxo.tx_count <= Len(txs) /\ MaxTx \in Nat /\ MaxRowEntries \in Nat
      /\ \A h \in HashX : unflushed[h] \in Seq(Nat) /\ unflushed[h] \in Seq(0 .. MaxTx - 1)
      /\ \A h \in HashX : rows[h] \in RowSet
  BY <1>1, <1>2, Typed DEF ChainInv, TypeOK
<1>4. /\ txs' \in Seq(SUBSET HashX) /\ Len(txs') = Len(txs) + 1
      /\ \A k \in 1 .. Len(txs) : txs'[k] = txs[k]
      /\ txs'[Len(txs) + 1] = touched
  BY <1>1, <1>3
<1>5. ASSUME NEW h \in HashX
      PROVE  /\ TouchedIn(txs', h, utxo.tx_count) = Touching(h, utxo.tx_count)
             /\ TouchedIn(txs', h, tx_count + 1) =
                   Touching(h, tx_count) \cup (IF h \in touched THEN {tx_count} ELSE {})
  <2>1. \A k \in 1 .. utxo.tx_count : txs'[k] = txs[k]
    BY <1>3, <1>4
  <2>2. TouchedIn(txs', h, utxo.tx_count) = Touching(h, utxo.tx_count)
    BY <1>3, <2>1, SameTouched DEF Touching
  <2>3. TouchedIn(txs', h, tx_count) = Touching(h, tx_count)
    BY <1>3, <1>4, SameTouched DEF Touching
  <2>4. TouchedIn(txs', h, tx_count + 1) =
           TouchedIn(txs', h, tx_count) \cup (IF h \in touched THEN {tx_count} ELSE {})
    <3>1. 0 .. (tx_count + 1) - 1 = (0 .. tx_count - 1) \cup {tx_count}
      BY <1>3
    <3>2. h \in txs'[tx_count + 1] <=> h \in touched
      BY <1>3, <1>4
    <3> QED BY <3>1, <3>2 DEF TouchedIn
  <2> QED BY <2>2, <2>3, <2>4
<1>6. \A h \in HashX :
         /\ Increasing(unflushed[h])
         /\ RowItems(rows[h]) \cup Items(unflushed[h]) = Touching(h, tx_count)
         /\ \A m \in RowItems(rows[h]), n \in Items(unflushed[h]) : m < n
  BY <1>1, <1>2 DEF ServerInv
<1>7. ASSUME NEW h \in HashX
      PROVE  /\ Increasing(unflushed'[h]) /\ unflushed'[h] \in Seq(0 .. MaxTx - 1)
             /\ RowItems(rows[h]) \cup Items(unflushed'[h]) = TouchedIn(txs', h, tx_count + 1)
             /\ \A m \in RowItems(rows[h]), n \in Items(unflushed'[h]) : m < n
  <2>1. CASE h \notin touched
    <3>1. unflushed'[h] = unflushed[h]
      BY <1>1, <2>1
    <3>2. TouchedIn(txs', h, tx_count + 1) = Touching(h, tx_count)
      BY <1>5, <2>1
    <3> QED BY <1>3, <1>6, <3>1, <3>2
  <2>2. CASE h \in touched
    <3> DEFINE s == unflushed[h]
               one == <<tx_count>>
    <3>1. unflushed'[h] = s \o one
      <4>1. unflushed'[h] = Append(s, tx_count)
        BY <1>1, <2>2
      <4>2. s \in Seq(Nat)
        BY <1>3
      <4> HIDE DEF s
      <4>3. Append(s, tx_count) = s \o one
        BY <1>3, <4>2, AppendIsConcat
      <4> QED BY <4>1, <4>3
    <3>2. one \in Seq(Nat) /\ Items(one) = {tx_count} /\ Increasing(one)
      <4>1. one \in Seq(Nat) /\ Len(one) = 1 /\ one[1] = tx_count
        BY <1>3
      <4> HIDE DEF one
      <4> QED BY <4>1 DEF Items, Increasing
    <3>3. \A m \in Touching(h, tx_count) : m < tx_count /\ m \in Nat
      BY <1>1, <1>3, TouchedRange DEF Touching
    <3>4. s \in Seq(Nat) /\ Increasing(s) /\ \A m \in Items(s) : m < tx_count
      BY <1>3, <1>6, <3>3
    <3> HIDE DEF s, one
    <3>5. /\ Items(s \o one) = Items(s) \cup {tx_count} /\ s \o one \in Seq(Nat)
          /\ Increasing(s \o one)
      BY <3>2, <3>4, ConcatItems
    <3>6. RowItems(rows[h]) \cup Items(unflushed'[h]) = Touching(h, tx_count) \cup {tx_count}
      BY <1>6, <3>1, <3>5 DEF s
    <3>7. \A m \in RowItems(rows[h]), n \in Items(unflushed'[h]) : m < n
      <4>1. \A m \in RowItems(rows[h]) : m < tx_count
        BY <1>6, <3>3
      <4> QED BY <1>6, <3>1, <3>5, <4>1 DEF s
    <3>8. unflushed'[h] \in Seq(0 .. MaxTx - 1)
      <4>1. Items(s \o one) \subseteq 0 .. MaxTx - 1
        <5>1. tx_count \in 0 .. MaxTx - 1
          BY <1>1, <1>3
        <5>2. Items(s) \subseteq 0 .. MaxTx - 1
          <6>1. Items(s) \subseteq Touching(h, tx_count)
            BY <1>6 DEF s
          <6>2. Touching(h, tx_count) \subseteq 0 .. MaxTx - 1
            BY <1>1, <1>3, TouchedRange DEF Touching
          <6> QED BY <6>1, <6>2
        <5> QED BY <3>5, <5>1, <5>2
      <4> QED BY <3>1, <3>5, <4>1, SeqOfItems
    <3> QED BY <1>5, <2>2, <3>1, <3>5, <3>6, <3>7, <3>8
  <2> QED BY <2>1, <2>2
<1>8. TypeOK'
  <2>1. unflushed' \in [HashX -> Seq(0 .. MaxTx - 1)]
    <3>1. unflushed' = [h \in HashX |-> unflushed'[h]]
      BY <1>1
    <3> QED BY <1>7, <3>1
  <2>2. tx_count' \in 0 .. MaxTx
    BY <1>1, <1>3
  <2> QED BY <1>1, <1>2, <1>4, <2>1, <2>2 DEF TypeOK
<1>9. ChainInv'
  BY <1>1, <1>3, <1>4 DEF ChainInv
<1>10. RowInv' /\ InterruptedInv'
  BY <1>1, <1>2 DEF RowInv, InterruptedInv
<1>11. KeptInv'
  BY <1>1, <1>2, <1>5 DEF KeptInv, Touching
<1>12. ServerInv'
  <2>1. /\ flush_count = hist.flush_count /\ utxo_flush_count = utxo.flush_count
        /\ utxo.flush_count <= flush_count /\ comp_cursor = -1
    BY <1>1, <1>2 DEF ServerInv
  <2> QED BY <1>1, <1>7, <2>1 DEF ServerInv, Touching
<1>13. ToolInv'
  BY <1>1 DEF ToolInv
<1>14. CursorHonest'
  BY <1>1, <1>2 DEF CursorHonest
<1> QED BY <1>8, <1>9, <1>10, <1>11, <1>12, <1>13, <1>14 DEF IInv

\* flush_history puts what is in memory in rows of a new flush id.
LEMMA FlushHistoryInv ==
    ASSUME IInv, FlushHistory
    PROVE  IInv'
<1>1. /\ pc = "serving" /\ pc' = "flushed" /\ flush_count < MaxFlushId
      /\ flush_count' = flush_count + 1
      /\ rows' = [h \in HashX |-> IF unflushed[h] = <<>> THEN rows[h]
                                  ELSE [rows[h] EXCEPT ![flush_count + 1] = unflushed[h]]]
      /\ hist' = State(flush_count + 1, comp_flush_count, comp_cursor)
      /\ unflushed' = NoRows /\ utxo' = utxo /\ comp_flush_count' = comp_flush_count
      /\ comp_cursor' = comp_cursor /\ utxo_flush_count' = utxo_flush_count
      /\ tx_count' = tx_count /\ txs' = txs
  BY DEF FlushHistory
<1>2. TypeOK /\ ChainInv /\ RowInv /\ KeptInv /\ ServerInv
  BY DEF IInv
<1>3. /\ flush_count = hist.flush_count /\ utxo_flush_count = utxo.flush_count
      /\ utxo.flush_count <= flush_count /\ comp_cursor = -1
  BY <1>1, <1>2 DEF ServerInv
<1>4. \A h \in HashX :
         /\ Increasing(unflushed[h]) /\ Len(unflushed[h]) <= MaxRowEntries
         /\ RowItems(rows[h]) \cup Items(unflushed[h]) = Touching(h, tx_count)
         /\ \A m \in RowItems(rows[h]), n \in Items(unflushed[h]) : m < n
  BY <1>1, <1>2 DEF ServerInv
<1>5. /\ \A h \in HashX : rows[h] \in RowSet /\ unflushed[h] \in Seq(Nat)
      /\ flush_count \in FlushId /\ FlushId \subseteq Nat /\ utxo.flush_count \in FlushId
      /\ tx_count \in Nat /\ tx_count <= MaxTx /\ MaxFlushId \in Nat /\ MaxRowEntries \in Nat
      /\ comp_flush_count \in FlushId \cup {-1}
  BY <1>2, Typed
<1>6. flush_count + 1 \in FlushId /\ flush_count < flush_count + 1
  BY <1>1, <1>5 DEF FlushId
<1>7. \A h \in HashX :
         /\ InOrder(rows[h])
         /\ \A i \in FlushId : Len(rows[h][i]) <= MaxRowEntries /\ (rows[h][i] # <<>> => i <= flush_count)
         /\ ItemsUpTo(rows[h], utxo.flush_count) = Touching(h, utxo.tx_count)
  BY <1>2, <1>3 DEF RowInv, KeptInv
<1>8. ASSUME NEW h \in HashX
      PROVE  /\ rows'[h] \in RowSet /\ InOrder(rows'[h])
             /\ \A i \in FlushId : /\ Len(rows'[h][i]) <= MaxRowEntries
                                   /\ rows'[h][i] # <<>> => i <= flush_count + 1
             /\ ItemsUpTo(rows'[h], utxo.flush_count) = Touching(h, utxo.tx_count)
             /\ RowItems(rows'[h]) = Touching(h, tx_count)
  <2>1. CASE unflushed[h] = <<>>
    <3>1. rows'[h] = rows[h]
      BY <1>1, <2>1
    <3>2. Items(unflushed[h]) = {}
      BY <2>1 DEF Items
    <3>3. \A i \in FlushId : i <= flush_count => i <= flush_count + 1
      BY <1>5
    <3> QED BY <1>4, <1>5, <1>7, <3>1, <3>2, <3>3
  <2>2. CASE unflushed[h] # <<>>
    <3> DEFINE row == rows[h]
               s == unflushed[h]
               row2 == rows'[h]
               new == flush_count + 1
    <3>1. row2 = WithRow(row, new, s)
      BY <1>1, <2>2 DEF WithRow
    <3>2. /\ row \in RowSet /\ InOrder(row) /\ s \in Seq(Nat) /\ Increasing(s)
          /\ Before(row, s) /\ IdsUpTo(row, flush_count)
      BY <1>4, <1>5, <1>7 DEF Before, IdsUpTo
    <3>3. new \in FlushId /\ flush_count < new /\ flush_count \in FlushId
      BY <1>5, <1>6
    <3> HIDE DEF row, s, row2, new
    <3>4. /\ row2 \in RowSet /\ InOrder(row2)
          /\ \A j \in FlushId : row2[j] = IF j = new THEN s ELSE row[j]
          /\ RowItems(row2) = RowItems(row) \cup Items(s)
          /\ \A d \in FlushId : d <= flush_count => ItemsUpTo(row2, d) = ItemsUpTo(row, d)
      BY <3>1, <3>2, <3>3, AddedFacts
    <3>5. ASSUME NEW i \in FlushId
          PROVE  Len(row2[i]) <= MaxRowEntries /\ (row2[i] # <<>> => i <= new)
      <4>1. CASE i = new
        BY <1>4, <1>5, <3>4, <4>1 DEF s
      <4>2. CASE i # new
        <5>1. row2[i] = row[i]
          BY <3>4, <4>2
        <5>2. i <= flush_count => i <= new
          BY <1>5 DEF new
        <5> QED BY <1>7, <5>1, <5>2 DEF row
      <4> QED BY <4>1, <4>2
    <3>6. ItemsUpTo(row2, utxo.flush_count) = ItemsUpTo(row, utxo.flush_count)
      BY <1>3, <1>5, <3>4
    <3> QED BY <1>4, <1>7, <3>4, <3>5, <3>6 DEF row, s, row2, new
  <2> QED BY <2>1, <2>2
<1>9. /\ hist' \in [flush_count : FlushId, comp_flush_count : FlushId \cup {-1},
                    comp_cursor : HashX \cup {-1}]
      /\ hist'.flush_count = flush_count + 1 /\ hist'.comp_cursor = -1
  BY <1>1, <1>3, <1>5, <1>6 DEF State
<1>10. TypeOK'
  <2>1. rows' \in [HashX -> RowSet]
    <3>1. rows' = [h \in HashX |-> rows'[h]]
      BY <1>1
    <3> QED BY <1>8, <3>1
  <2>2. \A h \in HashX : RowItems(rows'[h]) \subseteq 0 .. MaxTx - 1
    BY <1>5, <1>8, TouchedRange DEF Touching
  <2>3. rows' \in [HashX -> [FlushId -> Seq(0 .. MaxTx - 1)]]
    BY <2>1, <2>2, RowsTyped
  <2>4. unflushed' \in [HashX -> Seq(0 .. MaxTx - 1)]
    BY <1>1 DEF NoRows
  <2> QED BY <1>1, <1>2, <1>6, <1>9, <2>3, <2>4 DEF TypeOK
<1>11. ChainInv'
  BY <1>1, <1>2 DEF ChainInv
<1>12. RowInv' /\ KeptInv'
  BY <1>1, <1>8, <1>9 DEF RowInv, KeptInv, Touching
<1>13. ServerInv'
  <2>1. ASSUME NEW h \in HashX
        PROVE  /\ Increasing(unflushed'[h]) /\ Len(unflushed'[h]) <= MaxRowEntries
               /\ RowItems(rows'[h]) \cup Items(unflushed'[h]) = Touching(h, tx_count)
               /\ \A m \in RowItems(rows'[h]), n \in Items(unflushed'[h]) : m < n
    <3>1. unflushed'[h] = <<>>
      BY <1>1 DEF NoRows
    <3>2. Items(<<>>) = {} /\ Increasing(<<>>) /\ Len(<<>>) <= MaxRowEntries
      BY <1>5 DEF Items, Increasing
    <3> QED BY <1>8, <3>1, <3>2
  <2>2. utxo.flush_count <= flush_count + 1
    BY <1>3, <1>5
  <2> QED BY <1>1, <1>3, <1>9, <2>1, <2>2 DEF ServerInv, Touching
<1>14. ToolInv' /\ InterruptedInv' /\ CursorHonest'
  BY <1>1, <1>9 DEF ToolInv, InterruptedInv, CursorHonest
<1> QED BY <1>10, <1>11, <1>12, <1>13, <1>14 DEF IInv

\* The batch of the UTXO DB makes the rows of the flush the history of its chain.
LEMMA FlushUtxosInv ==
    ASSUME IInv, FlushUtxos
    PROVE  IInv'
<1>1. /\ pc = "flushed" /\ pc' = "serving"
      /\ utxo' = [flush_count |-> flush_count, tx_count |-> tx_count]
      /\ utxo_flush_count' = flush_count
      /\ rows' = rows /\ hist' = hist /\ flush_count' = flush_count
      /\ comp_flush_count' = comp_flush_count /\ comp_cursor' = comp_cursor
      /\ unflushed' = unflushed /\ tx_count' = tx_count /\ txs' = txs
  BY DEF FlushUtxos
<1>2. TypeOK /\ ChainInv /\ RowInv /\ ServerInv /\ CursorHonest
  BY DEF IInv
<1>3. flush_count = hist.flush_count /\ comp_cursor = -1 /\ unflushed = NoRows
  BY <1>1, <1>2 DEF ServerInv
<1>4. \A h \in HashX :
         /\ Increasing(unflushed[h]) /\ Len(unflushed[h]) <= MaxRowEntries
         /\ RowItems(rows[h]) \cup Items(unflushed[h]) = Touching(h, tx_count)
         /\ \A m \in RowItems(rows[h]), n \in Items(unflushed[h]) : m < n
  BY <1>1, <1>2 DEF ServerInv
<1>5. flush_count \in FlushId /\ FlushId \subseteq Nat /\ tx_count \in 0 .. MaxTx
  BY <1>2, Typed DEF TypeOK
<1>6. utxo'.flush_count = flush_count /\ utxo'.tx_count = tx_count
  BY <1>1
<1>7. TypeOK'
  BY <1>1, <1>2, <1>5 DEF TypeOK
<1>8. ChainInv'
  <2>1. tx_count = Len(txs) /\ Len(txs) <= MaxTx
    BY <1>1, <1>2 DEF ChainInv
  <2> QED BY <1>1, <1>5, <1>6, <2>1 DEF ChainInv
<1>9. RowInv'
  BY <1>1, <1>2 DEF RowInv
<1>10. KeptInv'
  <2>1. ASSUME NEW h \in HashX
        PROVE  ItemsUpTo(rows[h], flush_count) = Touching(h, tx_count)
    <3>1. \A i \in FlushId : rows[h][i] # <<>> => i <= flush_count
      BY <1>2, <1>3 DEF RowInv
    <3>2. RowItems(rows[h]) = ItemsUpTo(rows[h], flush_count)
      BY <1>5, <3>1, NoRowsBeyond
    <3>3. Items(unflushed[h]) = {}
      BY <1>3 DEF NoRows, Items
    <3> QED BY <1>4, <3>2, <3>3
  <2> QED BY <1>1, <1>6, <2>1 DEF KeptInv, Touching
<1>11. ServerInv'
  <2>1. flush_count <= flush_count
    BY <1>5
  <2> QED BY <1>1, <1>3, <1>4, <1>6, <2>1 DEF ServerInv, Touching
<1>12. ToolInv'
  BY <1>1 DEF ToolInv
<1>13. InterruptedInv'
  BY <1>1, <1>3, <1>5, <1>6 DEF InterruptedInv
<1>14. CursorHonest'
  BY <1>1, <1>2 DEF CursorHonest
<1> QED BY <1>7, <1>8, <1>9, <1>10, <1>11, <1>12, <1>13, <1>14 DEF IInv

\* flush_state alone stores what the UTXO DB says already.
LEMMA FlushStateInv ==
    ASSUME IInv, FlushState
    PROVE  IInv'
<1>1. /\ pc = "flushed" /\ pc' = "serving"
      /\ utxo' = [utxo EXCEPT !.flush_count = utxo_flush_count]
      /\ rows' = rows /\ hist' = hist /\ txs' = txs
      /\ flush_count' = flush_count /\ utxo_flush_count' = utxo_flush_count
      /\ comp_flush_count' = comp_flush_count /\ comp_cursor' = comp_cursor
      /\ unflushed' = unflushed /\ tx_count' = tx_count
  BY DEF FlushState, memVars
<1>2. TypeOK /\ ChainInv /\ RowInv /\ KeptInv /\ ServerInv /\ InterruptedInv /\ CursorHonest
  BY DEF IInv
<1>3. utxo' = utxo
  <2>1. utxo_flush_count = utxo.flush_count
    BY <1>1, <1>2 DEF ServerInv
  <2>2. utxo \in [flush_count : FlushId, tx_count : 0 .. MaxTx]
    BY <1>2 DEF TypeOK
  <2> QED BY <1>1, <2>1, <2>2
<1>4. TypeOK'
  BY <1>1, <1>2, <1>3 DEF TypeOK
<1>5. ChainInv' /\ RowInv' /\ KeptInv' /\ InterruptedInv' /\ ToolInv'
  BY <1>1, <1>2, <1>3 DEF ChainInv, RowInv, KeptInv, InterruptedInv, ToolInv, Touching
<1>6. ServerInv'
  BY <1>1, <1>2, <1>3 DEF ServerInv, Touching
<1>7. CursorHonest'
  BY <1>1, <1>2 DEF CursorHonest
<1> QED BY <1>4, <1>5, <1>6, <1>7 DEF IInv

\* A backup to n transactions leaves the history of the first n, and there was
\* nothing in memory.
LEMMA BackUpInv ==
    ASSUME IInv, NEW n \in 0 .. MaxTx, BackUp(n)
    PROVE  IInv'
<1>1. /\ pc = "serving" /\ pc' = pc /\ n < tx_count /\ tx_count = utxo.tx_count
      /\ flush_count < MaxFlushId /\ flush_count' = flush_count + 1
      /\ rows' = [h \in HashX |-> IF \E i \in n + 1 .. tx_count : h \in txs[i]
                                  THEN Trimmed(rows[h], n) ELSE rows[h]]
      /\ hist' = State(flush_count + 1, comp_flush_count, comp_cursor)
      /\ utxo' = [flush_count |-> flush_count + 1, tx_count |-> n]
      /\ utxo_flush_count' = flush_count + 1
      /\ tx_count' = n /\ txs' = SubSeq(txs, 1, n)
      /\ comp_flush_count' = comp_flush_count /\ comp_cursor' = comp_cursor
      /\ unflushed' = unflushed
  BY DEF BackUp
<1>2. TypeOK /\ ChainInv /\ RowInv /\ KeptInv /\ ServerInv
  BY DEF IInv
<1>3. /\ flush_count = hist.flush_count /\ utxo.flush_count <= flush_count /\ comp_cursor = -1
  BY <1>1, <1>2 DEF ServerInv
<1>4. \A h \in HashX :
         /\ RowItems(rows[h]) \cup Items(unflushed[h]) = Touching(h, tx_count)
         /\ \A a \in RowItems(rows[h]), b \in Items(unflushed[h]) : a < b
  BY <1>1, <1>2 DEF ServerInv
<1>5. /\ \A h \in HashX : rows[h] \in RowSet /\ unflushed[h] \in Seq(Nat)
      /\ flush_count \in FlushId /\ FlushId \subseteq Nat /\ utxo.flush_count \in FlushId
      /\ tx_count \in Nat /\ tx_count <= MaxTx /\ MaxFlushId \in Nat /\ MaxRowEntries \in Nat /\ MaxTx \in Nat
      /\ comp_flush_count \in FlushId \cup {-1} /\ txs \in Seq(SUBSET HashX) /\ n \in Nat
  BY <1>2, Typed
<1>6. flush_count + 1 \in FlushId /\ flush_count < flush_count + 1
  BY <1>1, <1>5 DEF FlushId
<1>7. \A h \in HashX :
         /\ InOrder(rows[h])
         /\ \A i \in FlushId : Len(rows[h][i]) <= MaxRowEntries /\ (rows[h][i] # <<>> => i <= flush_count)
         /\ ItemsUpTo(rows[h], utxo.flush_count) = Touching(h, tx_count)
  BY <1>1, <1>2, <1>3 DEF RowInv, KeptInv
<1>8. tx_count = Len(txs)
  BY <1>1, <1>2 DEF ChainInv
<1>9. /\ txs' \in Seq(SUBSET HashX) /\ Len(txs') = n /\ \A k \in 1 .. n : txs'[k] = txs[k]
  <2> DEFINE s == SubSeq(txs, 1, n)
  <2>1. n <= Len(txs) /\ Len(txs) \in Nat
    BY <1>1, <1>5, <1>8
  <2>2. s \in Seq(SUBSET HashX) /\ Len(s) = n /\ \A k \in 1 .. n : s[k] = txs[k]
    BY <1>5, <2>1
  <2> HIDE DEF s
  <2>3. txs' = s
    BY <1>1 DEF s
  <2> QED BY <2>2, <2>3
<1>10. ASSUME NEW h \in HashX
       PROVE  RowItems(rows[h]) = Touching(h, tx_count) /\ Items(unflushed[h]) = {}
  <2>1. ItemsUpTo(rows[h], utxo.flush_count) \subseteq RowItems(rows[h])
    <3>1. \A i \in 0 .. utxo.flush_count : i \in FlushId
      BY <1>5 DEF FlushId
    <3> QED BY <3>1, RowOfItem DEF ItemsUpTo
  <2>2. RowItems(rows[h]) = Touching(h, tx_count)
    BY <1>4, <1>7, <2>1
  <2>3. \A b \in Items(unflushed[h]) : b < b /\ b \in Nat
    <3>1. \A b \in Items(unflushed[h]) : b \in Nat
      BY <1>5 DEF Items
    <3> QED BY <1>4, <2>2, <3>1
  <2> QED BY <2>2, <2>3
<1>11. ASSUME NEW h \in HashX
       PROVE  TouchedIn(txs', h, n) = {m \in Touching(h, tx_count) : m < n}
  <2>1. TouchedIn(txs', h, n) = TouchedIn(txs, h, n)
    BY <1>5, <1>9, SameTouched
  <2>2. TouchedIn(txs, h, n) = {m \in TouchedIn(txs, h, tx_count) : m < n}
    <3>1. 0 .. n - 1 = {m \in 0 .. tx_count - 1 : m < n}
      BY <1>1, <1>5
    <3> QED BY <3>1 DEF TouchedIn
  <2> QED BY <2>1, <2>2 DEF Touching
<1>12. ASSUME NEW h \in HashX
       PROVE  /\ rows'[h] \in RowSet /\ InOrder(rows'[h])
              /\ \A i \in FlushId : /\ Len(rows'[h][i]) <= MaxRowEntries
                                    /\ rows'[h][i] # <<>> => i <= flush_count
              /\ RowItems(rows'[h]) = TouchedIn(txs', h, n)
  <2> DEFINE row == rows[h]
             row2 == rows'[h]
  <2>1. row \in RowSet /\ InOrder(row) /\ RowItems(row) = Touching(h, tx_count)
    BY <1>5, <1>7, <1>10
  <2>2. CASE \E i \in n + 1 .. tx_count : h \in txs[i]
    <3>1. row2 = Trimmed(row, n)
      BY <1>1, <2>2
    <3> HIDE DEF row, row2
    <3>2. /\ row2 \in RowSet /\ InOrder(row2)
          /\ \A i \in FlushId :
                /\ Items(row2[i]) = {m \in Items(row[i]) : m < n}
                /\ Len(row2[i]) <= Len(row[i])
                /\ row2[i] # <<>> => row[i] # <<>>
      BY <1>5, <2>1, <3>1, TrimmedFacts
    <3>3. \A i \in FlushId : Len(row2[i]) <= MaxRowEntries /\ (row2[i] # <<>> => i <= flush_count)
      <4> TAKE i \in FlushId
      <4>1. Len(row[i]) <= MaxRowEntries /\ (row[i] # <<>> => i <= flush_count)
        BY <1>7 DEF row
      <4>2. Len(row[i]) \in Nat /\ Len(row2[i]) \in Nat
        BY <2>1, <3>2 DEF RowSet
      <4> QED BY <1>5, <3>2, <4>1, <4>2
    <3>4. RowItems(row2) = {m \in RowItems(row) : m < n}
      <4>1. ASSUME NEW m \in RowItems(row2)
            PROVE  m \in RowItems(row) /\ m < n
        BY <3>2, RowOfItem
      <4>2. ASSUME NEW m \in RowItems(row), m < n
            PROVE  m \in RowItems(row2)
        BY <3>2, <4>2, RowOfItem
      <4> QED BY <4>1, <4>2
    <3> QED BY <1>11, <2>1, <3>2, <3>3, <3>4 DEF row2
  <2>3. CASE ~ \E i \in n + 1 .. tx_count : h \in txs[i]
    <3>1. row2 = row
      BY <1>1, <2>3
    <3>2. \A m \in Touching(h, tx_count) : m < n
      <4> TAKE m \in Touching(h, tx_count)
      <4>1. m \in 0 .. tx_count - 1 /\ h \in txs[m + 1]
        BY DEF Touching, TouchedIn
      <4>2. m + 1 \notin n + 1 .. tx_count
        BY <2>3, <4>1
      <4> QED BY <1>5, <4>1, <4>2
    <3> QED BY <1>7, <1>11, <2>1, <3>1, <3>2
  <2> QED BY <2>2, <2>3
<1>13. /\ hist' \in [flush_count : FlushId, comp_flush_count : FlushId \cup {-1},
                     comp_cursor : HashX \cup {-1}]
       /\ hist'.flush_count = flush_count + 1 /\ hist'.comp_cursor = -1
       /\ utxo' \in [flush_count : FlushId, tx_count : 0 .. MaxTx]
       /\ utxo'.flush_count = flush_count + 1 /\ utxo'.tx_count = n
  BY <1>1, <1>3, <1>5, <1>6 DEF State
<1>14. TypeOK'
  <2>1. rows' \in [HashX -> RowSet]
    <3>1. rows' = [h \in HashX |-> rows'[h]]
      BY <1>1
    <3> QED BY <1>12, <3>1
  <2>2. \A h \in HashX : RowItems(rows'[h]) \subseteq 0 .. MaxTx - 1
    <3>1. n <= MaxTx
      BY <1>5
    <3> QED BY <1>5, <1>12, <3>1, TouchedRange
  <2>3. rows' \in [HashX -> [FlushId -> Seq(0 .. MaxTx - 1)]]
    BY <2>1, <2>2, RowsTyped
  <2> QED BY <1>1, <1>2, <1>6, <1>9, <1>13, <2>3 DEF TypeOK
<1>15. ChainInv'
  <2>1. n <= n /\ n <= MaxTx
    BY <1>5
  <2> QED BY <1>1, <1>9, <1>13, <2>1 DEF ChainInv
<1>16. RowInv'
  <2>1. \A i \in FlushId : i <= flush_count => i <= flush_count + 1
    BY <1>5
  <2> QED BY <1>12, <1>13, <2>1 DEF RowInv
<1>17. KeptInv'
  <2>1. ASSUME NEW h \in HashX
        PROVE  ItemsUpTo(rows'[h], flush_count + 1) = TouchedIn(txs', h, n)
    <3>1. \A i \in FlushId : rows'[h][i] # <<>> => i <= flush_count + 1
      BY <1>5, <1>12
    <3>2. RowItems(rows'[h]) = ItemsUpTo(rows'[h], flush_count + 1)
      BY <1>6, <3>1, NoRowsBeyond
    <3> QED BY <1>12, <3>2
  <2> QED BY <1>13, <2>1 DEF KeptInv, Touching
<1>18. ServerInv'
  <2>1. ASSUME NEW h \in HashX
        PROVE  /\ Increasing(unflushed[h]) /\ Len(unflushed[h]) <= MaxRowEntries
               /\ RowItems(rows'[h]) \cup Items(unflushed[h]) = TouchedIn(txs', h, n)
               /\ \A a \in RowItems(rows'[h]), b \in Items(unflushed[h]) : a < b
    <3>1. Increasing(unflushed[h]) /\ Len(unflushed[h]) <= MaxRowEntries
      BY <1>1, <1>2 DEF ServerInv
    <3> QED BY <1>10, <1>12, <3>1
  <2>2. flush_count + 1 <= flush_count + 1
    BY <1>5
  <2> QED BY <1>1, <1>3, <1>13, <2>1, <2>2 DEF ServerInv, Touching
<1>19. ToolInv' /\ InterruptedInv' /\ CursorHonest'
  BY <1>1, <1>13 DEF ToolInv, InterruptedInv, CursorHonest
<1> QED BY <1>14, <1>15, <1>16, <1>17, <1>18, <1>19 DEF IInv

-----------------------------------------------------------------------------
(* The compaction tool *)

\* What is read of a hashX depends on the entries alone.
LEMMA SameRead ==
    ASSUME NEW rs, NEW rs2, NEW h, rs[h] \in RowSet, InOrder(rs[h]), rs2[h] \in RowSet, InOrder(rs2[h]),
           RowItems(rs2[h]) = RowItems(rs[h])
    PROVE  HistoryIn(rs2, h) = HistoryIn(rs, h)
<1>1. HistoryIn(rs, h) \in Seq(Nat) /\ Items(HistoryIn(rs, h)) = RowItems(rs[h]) /\ Increasing(HistoryIn(rs, h))
  BY HistoryInFacts
<1>2. HistoryIn(rs2, h) \in Seq(Nat) /\ Items(HistoryIn(rs2, h)) = RowItems(rs2[h]) /\ Increasing(HistoryIn(rs2, h))
  BY HistoryInFacts
<1> QED BY <1>1, <1>2, SameSequence

\* _compact_hashX keeps the entries of a hashX, and needs no flush id beyond
\* those of the rows that it replaces.
LEMMA CompactedFacts ==
    ASSUME NEW rs, NEW h, rs[h] \in RowSet, InOrder(rs[h]), NEW c \in FlushId, IdsUpTo(rs[h], c),
           \A i \in FlushId : Len(rs[h][i]) <= MaxRowEntries, NEW row2, row2 = CompactHashX(HistoryIn(rs, h))
    PROVE  /\ row2 \in RowSet /\ InOrder(row2) /\ RowItems(row2) = RowItems(rs[h])
           /\ \A i \in FlushId : Len(row2[i]) <= MaxRowEntries /\ (row2[i] # <<>> => i <= LastRow(rs, h))
           /\ LastRow(rs, h) \in FlushId \cup {-1} /\ LastRow(rs, h) <= c
<1> DEFINE list == HistoryIn(rs, h)
<1>1. \A i \in FlushId : Len(rs[h][i]) <= MaxRowEntries /\ (rs[h][i] # <<>> => i <= c)
  BY DEF IdsUpTo
<1>2. list \in Seq(Nat) /\ Items(list) = RowItems(rs[h]) /\ Increasing(list)
  BY HistoryInFacts
<1>3. Len(list) <= (c + 1) * MaxRowEntries
  BY <1>1, HistoryInFacts
<1>4. LastRow(rs, h) = NumRows(Len(list)) - 1
  BY DEF LastRow
<1> HIDE DEF list
<1>5. /\ CompactHashX(list) \in RowSet
      /\ InOrder(CompactHashX(list))
      /\ RowItems(CompactHashX(list)) = Items(list)
      /\ \A i \in FlushId : /\ Len(CompactHashX(list)[i]) <= MaxRowEntries
                            /\ CompactHashX(list)[i] # <<>> => i <= NumRows(Len(list)) - 1
      /\ NumRows(Len(list)) - 1 \in FlushId \cup {-1}
      /\ NumRows(Len(list)) - 1 <= c
  BY <1>2, <1>3, CompactHashXFacts
<1>6. row2 = CompactHashX(list)
  BY DEF list
<1> QED BY <1>2, <1>4, <1>5, <1>6

\* A batch of the tool keeps the history, and the final one leaves a flush count
\* no row is beyond.
LEMMA CompactHistoryInv ==
    ASSUME IInv, NEW cursor \in 1 .. NumPrefixes, CompactHistory(cursor)
    PROVE  IInv'
<1> DEFINE hs == comp_cursor .. cursor - 1
           done == cursor = NumPrefixes
           cfc == CompFlushCount(hs)
<1>1. /\ pc = "compacting" /\ comp_cursor < cursor
      /\ rows' = [h \in HashX |-> IF h \in hs THEN CompactHashX(HistoryIn(rows, h)) ELSE rows[h]]
      /\ flush_count' = IF done THEN cfc ELSE flush_count
      /\ comp_flush_count' = IF done THEN -1 ELSE cfc
      /\ comp_cursor' = CursorAfter(cursor)
      /\ hist' = State(flush_count', comp_flush_count', comp_cursor')
      /\ pc' = IF done THEN "compacted" ELSE "compacting"
      /\ utxo' = utxo /\ unflushed' = unflushed /\ utxo_flush_count' = utxo_flush_count
      /\ tx_count' = tx_count /\ txs' = txs
  BY DEF CompactHistory
<1> HIDE DEF hs, done, cfc
<1>2. TypeOK /\ ChainInv /\ RowInv /\ KeptInv /\ ToolInv /\ CursorHonest
  BY DEF IInv
<1>3. /\ flush_count = hist.flush_count /\ flush_count <= utxo.flush_count
      /\ comp_cursor # -1 /\ comp_flush_count # -1 /\ hist.comp_flush_count <= comp_flush_count
      /\ hist.comp_cursor = comp_cursor \/ (hist.comp_cursor = -1 /\ comp_cursor = 0)
      /\ \A h \in HashX : RowItems(rows[h]) = Touching(h, utxo.tx_count)
  BY <1>1, <1>2 DEF ToolInv
<1>4. /\ \A h \in HashX : rows[h] \in RowSet
      /\ flush_count \in FlushId /\ utxo.flush_count \in FlushId /\ FlushId \subseteq Nat
      /\ comp_flush_count \in FlushId \cup {-1} /\ comp_cursor \in HashX \cup {-1}
      /\ hist.comp_flush_count \in FlushId \cup {-1}
      /\ utxo.tx_count \in Nat /\ utxo.tx_count <= MaxTx /\ NumPrefixes \in Nat /\ MaxFlushId \in Nat
  BY <1>2, Typed
<1>5. \A h \in HashX :
         /\ InOrder(rows[h]) /\ IdsUpTo(rows[h], flush_count)
         /\ \A i \in FlushId : Len(rows[h][i]) <= MaxRowEntries
  BY <1>2, <1>3 DEF RowInv, IdsUpTo
<1>6. ASSUME NEW h \in HashX
      PROVE  /\ LastRow(rows, h) \in FlushId \cup {-1} /\ LastRow(rows, h) <= flush_count
             /\ LastRow(rows, h) \in Int
  <2>1. LastRow(rows, h) \in FlushId \cup {-1} /\ LastRow(rows, h) <= flush_count
    BY <1>4, <1>5, CompactedFacts
  <2>2. \A i \in FlushId \cup {-1} : i \in Int
    BY DEF FlushId
  <2> QED BY <2>1, <2>2
<1>7. comp_cursor \in HashX /\ comp_cursor \in Nat /\ hs \subseteq HashX
  BY <1>1, <1>3, <1>4 DEF HashX, hs
\* the flush count to come is at least that of each prefix
<1>8. /\ cfc \in FlushId /\ comp_flush_count <= cfc
      /\ \A h \in hs : LastRow(rows, h) <= cfc
  <2> DEFINE T == {comp_flush_count} \cup {LastRow(rows, h) : h \in hs}
  <2>1. T \subseteq FlushId \cup {-1} /\ comp_flush_count \in T /\ \A h \in hs : LastRow(rows, h) \in T
    BY <1>4, <1>6, <1>7
  <2>2. cfc = Max(T)
    BY DEF cfc, CompFlushCount
  <2> HIDE DEF T
  <2>3. T \in SUBSET Int /\ T # {} /\ MaxFlushId \in Int /\ \A t \in T : t <= MaxFlushId
    BY <1>4, <2>1 DEF FlushId
  <2>4. cfc \in T /\ \A t \in T : cfc >= t
    BY <2>2, <2>3, MaxIsGreatest
  <2>5. comp_flush_count \in Nat /\ cfc \in Int /\ cfc >= comp_flush_count
    BY <1>3, <1>4, <2>1, <2>3, <2>4
  <2>6. cfc # -1
    BY <2>5
  <2>7. cfc \in FlushId
    BY <2>1, <2>4, <2>6
  <2>8. \A h \in hs : LastRow(rows, h) <= cfc
    BY <2>1, <2>3, <2>4
  <2> QED BY <2>5, <2>7, <2>8
\* what earlier batches compacted still is
<1>9. \A h \in HashX : h < comp_cursor =>
         rows[h] = CompactHashX(HistoryIn(rows, h)) /\ LastRow(rows, h) <= comp_flush_count
  <2> SUFFICES ASSUME NEW h \in HashX, h < comp_cursor
               PROVE  rows[h] = CompactHashX(HistoryIn(rows, h)) /\ LastRow(rows, h) <= comp_flush_count
    OBVIOUS
  <2>1. h \in Nat /\ hist.comp_cursor = comp_cursor /\ h \in 0 .. hist.comp_cursor - 1
    BY <1>3, <1>7 DEF HashX
  <2>2. rows[h] = CompactHashX(HistoryIn(rows, h)) /\ LastRow(rows, h) <= hist.comp_flush_count
    BY <1>2, <1>3, <2>1 DEF CursorHonest
  <2>3. LastRow(rows, h) \in Int /\ hist.comp_flush_count \in Int /\ comp_flush_count \in Int
    <3>1. \A i \in FlushId \cup {-1} : i \in Int
      BY DEF FlushId
    <3> QED BY <1>4, <1>6, <3>1
  <2> QED BY <1>3, <2>2, <2>3
<1>10. ASSUME NEW h \in HashX
       PROVE  /\ rows'[h] \in RowSet /\ InOrder(rows'[h]) /\ RowItems(rows'[h]) = RowItems(rows[h])
              /\ \A i \in FlushId : Len(rows'[h][i]) <= MaxRowEntries
              /\ IdsUpTo(rows'[h], flush_count)
              /\ h < cursor => rows'[h] = CompactHashX(HistoryIn(rows, h)) /\ LastRow(rows, h) <= cfc
  <2>1. CASE h \in hs
    <3>1. rows'[h] = CompactHashX(HistoryIn(rows, h))
      BY <1>1, <2>1
    <3>2. /\ rows'[h] \in RowSet /\ InOrder(rows'[h]) /\ RowItems(rows'[h]) = RowItems(rows[h])
          /\ \A i \in FlushId : Len(rows'[h][i]) <= MaxRowEntries /\ (rows'[h][i] # <<>> => i <= LastRow(rows, h))
      BY <1>4, <1>5, <3>1, CompactedFacts
    <3>3. IdsUpTo(rows'[h], flush_count)
      <4>1. \A i \in FlushId : i <= LastRow(rows, h) => i <= flush_count
        <5>1. \A i \in FlushId : i \in Int
          BY DEF FlushId
        <5>2. LastRow(rows, h) \in Int /\ LastRow(rows, h) <= flush_count /\ flush_count \in Int
          BY <1>4, <1>6, <5>1
        <5> QED BY <5>1, <5>2
      <4> QED BY <3>2, <4>1 DEF IdsUpTo
    <3> QED BY <1>8, <2>1, <3>1, <3>2, <3>3
  <2>2. CASE h \notin hs
    <3>1. rows'[h] = rows[h]
      BY <1>1, <2>2
    <3>2. ASSUME h < cursor
          PROVE  rows[h] = CompactHashX(HistoryIn(rows, h)) /\ LastRow(rows, h) <= cfc
      <4>1. h < comp_cursor
        BY <1>7, <2>2, <3>2 DEF HashX, hs
      <4>2. rows[h] = CompactHashX(HistoryIn(rows, h)) /\ LastRow(rows, h) <= comp_flush_count
        BY <1>9, <4>1
      <4>3. LastRow(rows, h) \in Int /\ comp_flush_count \in Int /\ cfc \in Int
        <5>1. \A i \in FlushId \cup {-1} : i \in Int
          BY DEF FlushId
        <5> QED BY <1>4, <1>6, <1>8, <5>1
      <4> QED BY <1>8, <4>2, <4>3
    <3> QED BY <1>4, <1>5, <3>1, <3>2
  <2> QED BY <2>1, <2>2
<1>11. \A h \in HashX : HistoryIn(rows', h) = HistoryIn(rows, h)
  BY <1>4, <1>5, <1>10, SameRead
<1>12. /\ flush_count' \in FlushId /\ comp_flush_count' \in FlushId \cup {-1} /\ comp_cursor' \in HashX \cup {-1}
       /\ pc' = "compacting" => comp_flush_count' # -1
       /\ ~ done => comp_cursor' = cursor /\ comp_cursor' # -1
       /\ done => comp_cursor' = -1
  <2>1. cursor \in Nat /\ (~ done => cursor \in HashX)
    BY <1>4 DEF HashX, done
  <2>2. comp_cursor' = IF done THEN -1 ELSE cursor
    BY <1>1 DEF CursorAfter, done
  <2>3. cfc # -1
    BY <1>4, <1>8
  <2> QED BY <1>1, <1>4, <1>8, <2>1, <2>2, <2>3
<1>13. /\ hist' \in [flush_count : FlushId, comp_flush_count : FlushId \cup {-1},
                     comp_cursor : HashX \cup {-1}]
       /\ hist'.flush_count = flush_count' /\ hist'.comp_flush_count = comp_flush_count'
       /\ hist'.comp_cursor = comp_cursor'
  BY <1>1, <1>12 DEF State
<1>14. TypeOK'
  <2>1. rows' \in [HashX -> RowSet]
    <3>1. rows' = [h \in HashX |-> rows'[h]]
      BY <1>1
    <3> QED BY <1>10, <3>1
  <2>2. \A h \in HashX : RowItems(rows'[h]) \subseteq 0 .. MaxTx - 1
    BY <1>3, <1>4, <1>10, TouchedRange DEF Touching
  <2>3. rows' \in [HashX -> [FlushId -> Seq(0 .. MaxTx - 1)]]
    BY <2>1, <2>2, RowsTyped
  <2>4. pc' \in {"down", "serving", "flushed", "compacting", "compacted"}
    BY <1>1
  <2> QED BY <1>1, <1>2, <1>12, <1>13, <2>3, <2>4 DEF TypeOK
<1>15. ChainInv'
  <2>1. pc' # "down"
    BY <1>1
  <2> QED BY <1>1, <1>2, <2>1 DEF ChainInv
<1>16. RowInv'
  <2>1. ASSUME NEW h \in HashX, NEW i \in FlushId, rows'[h][i] # <<>>
        PROVE  i <= flush_count'
    <3>1. CASE ~ done
      BY <1>1, <1>10, <2>1, <3>1 DEF IdsUpTo
    <3>2. CASE done
      <4>1. h < cursor
        BY <1>4, <3>2 DEF HashX, done
      <4>2. rows'[h] = CompactHashX(HistoryIn(rows, h)) /\ LastRow(rows, h) <= cfc
        BY <1>10, <4>1
      <4>3. i <= LastRow(rows, h)
        BY <1>4, <1>5, <2>1, <4>2, CompactedFacts
      <4>4. i \in Int /\ cfc \in Int /\ LastRow(rows, h) \in Int
        <5>1. \A k \in FlushId : k \in Int
          BY DEF FlushId
        <5> QED BY <1>6, <1>8, <5>1
      <4> QED BY <1>1, <3>2, <4>2, <4>3, <4>4
    <3> QED BY <3>1, <3>2
  <2> QED BY <1>10, <1>13, <2>1 DEF RowInv
<1>17. KeptInv'
  <2>1. ASSUME NEW h \in HashX
        PROVE  ItemsUpTo(rows'[h], utxo.flush_count) = Touching(h, utxo.tx_count)
    <3>1. \A i \in FlushId : rows'[h][i] # <<>> => i <= utxo.flush_count
      BY <1>3, <1>4, <1>10 DEF IdsUpTo
    <3>2. RowItems(rows'[h]) = ItemsUpTo(rows'[h], utxo.flush_count)
      BY <1>4, <3>1, NoRowsBeyond
    <3> QED BY <1>3, <1>10, <3>2
  <2> QED BY <1>1, <2>1 DEF KeptInv, Touching
<1>18. ServerInv'
  BY <1>1 DEF ServerInv
<1>19. ToolInv'
  <2>1. \A h \in HashX : RowItems(rows'[h]) = TouchedIn(txs', h, utxo'.tx_count)
    BY <1>1, <1>3, <1>10 DEF Touching
  <2>2. ASSUME pc' = "compacting"
        PROVE  /\ flush_count' <= utxo'.flush_count /\ comp_cursor' # -1
               /\ hist'.comp_cursor = comp_cursor'
               /\ comp_flush_count' # -1 /\ hist'.comp_flush_count <= comp_flush_count'
    <3>1. ~ done
      BY <1>1, <2>2
    <3>2. comp_flush_count' \in Int
      BY <1>4, <1>12
    <3> QED BY <1>1, <1>3, <1>12, <1>13, <2>2, <3>1, <3>2
  <2> QED BY <1>13, <2>1, <2>2 DEF ToolInv, Touching
<1>20. InterruptedInv'
  BY <1>1, <1>3, <1>12, <1>13 DEF InterruptedInv
<1>21. CursorHonest'
  <2>1. ASSUME NEW h \in HashX, h < cursor
        PROVE  rows'[h] = CompactHashX(HistoryIn(rows', h)) /\ LastRow(rows', h) <= cfc
    <3>1. rows'[h] = CompactHashX(HistoryIn(rows, h)) /\ LastRow(rows, h) <= cfc
      BY <1>10, <2>1
    <3>2. HistoryIn(rows', h) = HistoryIn(rows, h)
      BY <1>11
    <3>3. LastRow(rows', h) = LastRow(rows, h)
      BY <3>2 DEF LastRow
    <3> QED BY <3>1, <3>2, <3>3
  <2>2. CASE ~ done
    <3>1. /\ hist'.comp_cursor = cursor /\ hist'.comp_flush_count = cfc /\ pc' = "compacting"
      BY <1>1, <1>12, <1>13, <2>2
    <3>2. \A h \in 0 .. cursor - 1 : h \in HashX /\ h < cursor
      BY <1>4 DEF HashX
    <3> QED BY <2>1, <3>1, <3>2 DEF CursorHonest
  <2>3. CASE done
    <3>1. hist'.comp_cursor = -1
      BY <1>12, <1>13, <2>3
    <3>2. \A h \in HashX : h < cursor
      BY <1>4, <2>3 DEF HashX, done
    <3> QED BY <2>1, <3>1, <3>2 DEF CursorHonest
  <2> QED BY <2>2, <2>3
<1> QED BY <1>14, <1>15, <1>16, <1>17, <1>18, <1>19, <1>20, <1>21 DEF IInv

\* set_flush_count makes the UTXO DB promise what the compacted rows hold.
LEMMA SetFlushCountInv ==
    ASSUME IInv, SetFlushCount
    PROVE  IInv'
<1>1. /\ pc = "compacted" /\ utxo' = [utxo EXCEPT !.flush_count = flush_count]
      /\ flush_count' = 0 /\ comp_flush_count' = -1 /\ comp_cursor' = -1 /\ unflushed' = NoRows
      /\ utxo_flush_count' = 0 /\ tx_count' = 0 /\ pc' = "down"
      /\ rows' = rows /\ hist' = hist /\ txs' = txs
  BY DEF SetFlushCount, Forgotten
<1>2. TypeOK /\ ChainInv /\ RowInv /\ ToolInv /\ CursorHonest
  BY DEF IInv
<1>3. /\ flush_count = hist.flush_count
      /\ \A h \in HashX : RowItems(rows[h]) = Touching(h, utxo.tx_count)
  BY <1>1, <1>2 DEF ToolInv
<1>4. flush_count \in FlushId /\ FlushId \subseteq Nat /\ utxo \in [flush_count : FlushId, tx_count : 0 .. MaxTx]
  BY <1>2, Typed DEF TypeOK
<1>5. /\ utxo' \in [flush_count : FlushId, tx_count : 0 .. MaxTx]
      /\ utxo'.flush_count = flush_count /\ utxo'.tx_count = utxo.tx_count
  BY <1>1, <1>4
<1>6. TypeOK'
  <2>1. 0 \in FlushId /\ 0 \in 0 .. MaxTx
    BY CompactionAssumption DEF FlushId
  <2>2. unflushed' \in [HashX -> Seq(0 .. MaxTx - 1)]
    BY <1>1 DEF NoRows
  <2> QED BY <1>1, <1>2, <1>5, <2>1, <2>2 DEF TypeOK
<1>7. ChainInv' /\ RowInv'
  BY <1>1, <1>2, <1>5 DEF ChainInv, RowInv
<1>8. KeptInv'
  <2>1. ASSUME NEW h \in HashX
        PROVE  ItemsUpTo(rows[h], flush_count) = Touching(h, utxo.tx_count)
    <3>1. \A i \in FlushId : rows[h][i] # <<>> => i <= flush_count
      BY <1>2, <1>3 DEF RowInv
    <3>2. RowItems(rows[h]) = ItemsUpTo(rows[h], flush_count)
      BY <1>4, <3>1, NoRowsBeyond
    <3> QED BY <1>3, <3>2
  <2> QED BY <1>1, <1>5, <2>1 DEF KeptInv, Touching
<1>9. ServerInv' /\ ToolInv'
  BY <1>1 DEF ServerInv, ToolInv
<1>10. InterruptedInv'
  <2>1. flush_count <= flush_count
    BY <1>4
  <2> QED BY <1>1, <1>3, <1>5, <2>1 DEF InterruptedInv
<1>11. CursorHonest'
  BY <1>1, <1>2 DEF CursorHonest
<1> QED BY <1>6, <1>7, <1>8, <1>9, <1>10, <1>11 DEF IInv

-----------------------------------------------------------------------------
(* The theorems *)

\* Every step keeps the invariant, flushes being small and compactions complete.
LEMMA StepInv ==
    ASSUME IInv, Careful, [Next]_vars
    PROVE  IInv'
<1>1. ASSUME Next
      PROVE  IInv'
  <2>1. CASE StartServer
    BY <2>1, StartServerInv
  <2>2. ASSUME NEW touched \in (SUBSET HashX) \ {{}}, Advance(touched)
        PROVE  IInv'
    BY <2>2, AdvanceInv
  <2>3. CASE FlushHistory
    BY <2>3, FlushHistoryInv
  <2>4. CASE FlushUtxos
    BY <2>4, FlushUtxosInv
  <2>5. CASE FlushState
    BY <2>5, FlushStateInv
  <2>6. ASSUME NEW n \in 0 .. MaxTx, BackUp(n)
        PROVE  IInv'
    BY <2>6, BackUpInv
  <2>7. CASE StartCompaction
    BY <2>7, StartCompactionInv
  <2>8. ASSUME NEW cursor \in 1 .. NumPrefixes, CompactHistory(cursor)
        PROVE  IInv'
    BY <2>8, CompactHistoryInv
  <2>9. CASE SetFlushCount
    BY <2>9, SetFlushCountInv
  <2>10. CASE Kill
    BY <2>10, KillInv
  <2> QED BY <1>1, <2>1, <2>2, <2>3, <2>4, <2>5, <2>6, <2>7, <2>8, <2>9, <2>10 DEF Next
<1>2. ASSUME UNCHANGED vars
      PROVE  IInv'
  <2>1. /\ rows' = rows /\ hist' = hist /\ utxo' = utxo /\ flush_count' = flush_count
        /\ comp_flush_count' = comp_flush_count /\ comp_cursor' = comp_cursor /\ unflushed' = unflushed
        /\ utxo_flush_count' = utxo_flush_count /\ tx_count' = tx_count /\ pc' = pc /\ txs' = txs
    BY <1>2 DEF vars, diskVars, memVars
  <2>2. TypeOK' /\ ChainInv' /\ RowInv' /\ KeptInv'
    BY <2>1 DEF IInv, TypeOK, ChainInv, RowInv, KeptInv, Touching
  <2>3. ServerInv' /\ ToolInv'
    <3>1. ServerInv /\ ToolInv
      BY DEF IInv
    <3>2. ServerInv'
      BY <2>1, <3>1 DEF ServerInv, Touching
    <3>3. ToolInv'
      BY <2>1, <3>1 DEF ToolInv, Touching
    <3> QED BY <3>2, <3>3
  <2>4. InterruptedInv' /\ CursorHonest'
    BY <2>1 DEF IInv, InterruptedInv, CursorHonest
  <2> QED BY <2>2, <2>3, <2>4 DEF IInv
<1> QED BY <1>1, <1>2

\* What a restart keeps, and what a server reads, is the history of its chain.
LEMMA InvExact ==
    ASSUME IInv
    PROVE  HistoryExact
<1>1. TypeOK /\ RowInv /\ ServerInv
  BY DEF IInv
<1>2. /\ \A h \in HashX : rows[h] \in RowSet /\ unflushed[h] \in Seq(Nat)
      /\ utxo.tx_count \in Nat /\ tx_count \in Nat
  BY <1>1, Typed
<1>3. ASSUME NEW h \in HashX
      PROVE  HistoryIn(KeptRows, h) = HistoryOf(h, utxo.tx_count)
  <2>1. /\ KeptRows[h] \in RowSet /\ InOrder(KeptRows[h])
        /\ RowItems(KeptRows[h]) = Touching(h, utxo.tx_count)
    BY KeptFacts
  <2>2. /\ HistoryIn(KeptRows, h) \in Seq(Nat)
        /\ Items(HistoryIn(KeptRows, h)) = Touching(h, utxo.tx_count)
        /\ Increasing(HistoryIn(KeptRows, h))
    BY <2>1, HistoryInFacts
  <2>3. /\ HistoryOf(h, utxo.tx_count) \in Seq(Nat)
        /\ Items(HistoryOf(h, utxo.tx_count)) = Touching(h, utxo.tx_count)
        /\ Increasing(HistoryOf(h, utxo.tx_count))
    BY <1>2, HistoryOfFacts
  <2> QED BY <2>2, <2>3, SameSequence
<1>4. ASSUME pc \in {"serving", "flushed"}, NEW h \in HashX
      PROVE  HistoryIn(rows, h) \o unflushed[h] = HistoryOf(h, tx_count)
  <2>1. /\ Increasing(unflushed[h])
        /\ RowItems(rows[h]) \cup Items(unflushed[h]) = Touching(h, tx_count)
        /\ \A m \in RowItems(rows[h]), n \in Items(unflushed[h]) : m < n
    BY <1>1, <1>4 DEF ServerInv
  <2>2. InOrder(rows[h])
    BY <1>1 DEF RowInv
  <2> QED BY <1>2, <2>1, <2>2, ReadsHistory
<1> QED BY <1>3, <1>4 DEF HistoryExact, ReopensExactly, ServesExactly

\* The inductive invariant holds in every reachable state.
LEMMA AlwaysInv ==
    ASSUME Careful
    PROVE  Spec => []IInv
<1>1. Init => IInv
  BY InitInv
<1>2. IInv /\ [Next]_vars => IInv'
  BY StepInv
<1> QED BY <1>1, <1>2, PTL DEF Spec

\* Each variable of the history DB, the UTXO DB and the two programs has its type.
THEOREM TypeCorrect ==
    ASSUME Careful
    PROVE  Spec => []TypeOK
<1>1. IInv => TypeOK
  BY DEF IInv
<1> QED BY <1>1, AlwaysInv, PTL

\* However flushes, backups and batches of the compaction follow one another,
\* whichever of the programs is killed between them: reopened, the history DB
\* holds exactly the history of the chain of the UTXO DB, and a server reads
\* exactly that of its own.
THEOREM Exact ==
    ASSUME Careful
    PROVE  Spec => []HistoryExact
<1>1. IInv => HistoryExact
  BY InvExact
<1> QED BY <1>1, AlwaysInv, PTL

\* The flush id that flush_history takes next has no row, after a compaction too.
THEOREM Fresh ==
    ASSUME Careful
    PROVE  Spec => []FlushIdsFresh
<1>1. IInv => FlushIdsFresh
  BY DEF IInv, RowInv, ServerInv, FlushIdsFresh
<1> QED BY <1>1, AlwaysInv, PTL

\* What the cursor of an interrupted compaction says is compacted still is, and
\* within the flush count to come.
THEOREM Honest ==
    ASSUME Careful
    PROVE  Spec => []CursorHonest
<1>1. IInv => CursorHonest
  BY DEF IInv
<1> QED BY <1>1, AlwaysInv, PTL
=============================================================================
