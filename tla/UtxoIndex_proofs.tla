-------------------------- MODULE UtxoIndex_proofs --------------------------
(***************************************************************************)
(* What BlockProcessor does with the UTXO set, for every tree of valid     *)
(* blocks, reorg limit and chunk size: the tables, the cache, the history  *)
(* and the undo info are those of the chain.  First, the coins of a chain: *)
(* which there are after each of its blocks and at each point of one, what *)
(* its undo info and its history are.                                      *)
(*                                                                         *)
(* The invariant has two parts.  Safe holds always; Exact holds until a    *)
(* block is undone that is reorg_limit or more below the greatest height   *)
(* acted on.                                                               *)
(***************************************************************************)
EXTENDS UtxoIndex, FiniteSetsExt, SequenceTheorems, WellFoundedInduction, TLAPS

-----------------------------------------------------------------------------
(* Induction, and least elements *)

\* A set of numbers that is not empty has a least element.
LEMMA NatLeast ==
    ASSUME NEW T \in SUBSET Nat, T # {}
    PROVE  \E x \in T : \A y \in T : x <= y
<1> DEFINE R == OpToRel(<, Nat)
<1>1. IsWellFoundedOn(R, Nat)
  BY NatLessThanWellFounded
<1>2. \A x, y \in Nat : <<y, x>> \in R <=> y < x
  BY DEF OpToRel
<1> HIDE DEF R
<1>3. PICK x \in T : \A y \in T : ~ (<<y, x>> \in R)
  BY <1>1, WFMin
<1>4. ASSUME NEW y \in T
      PROVE  x <= y
  <2>1. x \in Nat /\ y \in Nat
    OBVIOUS
  <2>2. ~ (y < x)
    BY <1>2, <1>3, <2>1
  <2> QED BY <2>1, <2>2
<1> QED BY <1>4

\* A set that has 0, and with a number the next one, has them all.
LEMMA NatInductive ==
    ASSUME NEW S, 0 \in S, \A n \in Nat : n \in S => n + 1 \in S
    PROVE  Nat \subseteq S
<1> SUFFICES ASSUME ~ (Nat \subseteq S)
             PROVE  FALSE
  OBVIOUS
<1>1. PICK x \in Nat \ S : \A y \in Nat \ S : x <= y
  <2>1. Nat \ S \in SUBSET Nat /\ Nat \ S # {}
    OBVIOUS
  <2> QED BY <2>1, NatLeast
<1>2. x - 1 \in Nat /\ x - 1 \in S
  BY <1>1
<1> QED BY <1>1, <1>2
-----------------------------------------------------------------------------

\* c is where d starts.
PrefixOf(c, d) == Len(c) <= Len(d) /\ \A i \in 1 .. Len(c) : c[i] = d[i]

\* Along a chain tx_nums increase.
Ordered(c) == \A i, j \in 1 .. Len(c) : i < j => H!End(c[i]) <= FirstTx[c[j]]

Chained(c) == c \in Seq(Block) /\ H!Linked(c) /\ Ordered(c)

\* All outputs that are ever stored.
Output == UNION {Stored(t) : t \in Tx}

-----------------------------------------------------------------------------
(* Coins of a block *)

\* The coins that the i-th transaction of b creates.
CreatedBy(b, i) == {Coin(o, TxNum(b, i)) : o \in Stored(Txs[b][i])}

\* All the coins that the transactions of b can spend.
AllCoins(b) == UnspentAt(Prev[b]) \cup Created(b, Len(Txs[b]))

\* No two coins are of the same output.
OnePerOutput(cs) == \A c, d \in cs : c.out = d.out => c = d

\* A coin of one of the transactions of a chain.
CoinOf(d, c) ==
    \E i \in 1 .. Len(c) : \E k \in 1 .. Len(Txs[c[i]]) :
        \E o \in Stored(Txs[c[i]][k]) : d = Coin(o, TxNum(c[i], k))

\* The coins of the i-th transaction from its n-th output on.
RestOf(b, i, n) ==
    IF i \in 1 .. Len(Txs[b]) THEN {c \in CreatedBy(b, i) : c.out[2] >= n} ELSE {}

\* What there is when b is undone and the n-th output of its i-th transaction
\* is next: the transactions are gone through from the last to the first, or in
\* any order from the first to the last after all inputs have been restored.
Backway(b, i, n, any) ==
    IF any
    THEN UnspentAt(Prev[b]) \cup RestOf(b, i, n)
         \cup UNION {CreatedBy(b, j) : j \in {j \in 1 .. Len(Txs[b]) : j > i}}
    ELSE {c \in UnspentAt(Prev[b]) \cup Created(b, i - 1) \cup RestOf(b, i, n) :
            c.out \notin SpentUpTo(b, i + 1, 0)}

-----------------------------------------------------------------------------
(* Undo info *)

\* The outputs spent by the first k transactions of b, in order.
InsOf(b) ==
    LET ins[k \in 0 .. Len(Txs[b])] ==
          IF k = 0 THEN <<>> ELSE ins[k - 1] \o Ins[Txs[b][k]]
    IN  ins

\* The outputs spent by them up to input n of the i-th.
Spending(b, i, n) ==
    InsOf(b)[i - 1] \o IF i > Len(Txs[b]) THEN <<>> ELSE SubSeq(Ins[Txs[b][i]], 1, n)

\* The undo info of an output that b spends, and of a sequence of them.
UndoItem(b, o) ==
    [hashX |-> HashXOf(o),
     tx_num |-> (CHOOSE c \in AllCoins(b) : c.out = o).tx_num,
     value |-> o]
UndoItems(b, outs) == [k \in 1 .. Len(outs) |-> UndoItem(b, outs[k])]

-----------------------------------------------------------------------------
(* History *)

\* The hashXs of the inputs and of the outputs of a transaction.
InHashXs(t) == {HashXOf(Ins[t][k]) : k \in 1 .. Len(Ins[t])}
OutHashXs(t) == {HashXOf(o) : o \in Stored(t)}
AllNames == UNION {Names[t] : t \in Tx}

\* The history of b up to input n of its i-th transaction, without names.
EntriesUpTo(b, i, n) ==
    (UNION {(InHashXs(Txs[b][j]) \cup OutHashXs(Txs[b][j])) \X {TxNum(b, j)} : j \in 1 .. i - 1})
    \cup IF i > Len(Txs[b]) THEN {}
         ELSE {HashXOf(Ins[Txs[b][i]][k]) : k \in 1 .. n} \X {TxNum(b, i)}

-----------------------------------------------------------------------------
(* Transactions and blocks *)

\* What is known of the stored outputs of a transaction ...
LEMMA OutputFacts ==
    ASSUME NEW t \in Tx, NEW o \in Stored(t)
    PROVE  /\ o = <<t, o[2]>> /\ o[1] = t
           /\ o[2] \in 1 .. Len(Outs[t]) /\ o[2] \in Nat
           /\ HashXOf(o) \in HashX
           /\ o \in Output
<1>1. PICK k \in 1 .. Len(Outs[t]) : o = <<t, k>> /\ Outs[t][k] # Unspendable
  BY DEF Stored
<1>2. Outs[t] \in Seq(HashX \cup {Unspendable})
  BY CoinAssumption
<1>3. Outs[t][k] \in HashX \cup {Unspendable} /\ k \in Nat
  BY <1>2, ElementOfSeq, LenProperties
<1> QED BY <1>1, <1>3 DEF HashXOf, Output

\* ... of any stored output ...
LEMMA AnyOutput ==
    ASSUME NEW o \in Output
    PROVE  /\ o[1] \in Tx /\ o \in Stored(o[1]) /\ o = <<o[1], o[2]>> /\ o[2] \in Nat
           /\ HashXOf(o) \in HashX
<1>1. PICK t \in Tx : o \in Stored(t)
  BY DEF Output
<1>2. /\ o = <<t, o[2]>> /\ o[1] = t
      /\ o[2] \in 1 .. Len(Outs[t]) /\ o[2] \in Nat
      /\ HashXOf(o) \in HashX
  BY <1>1, OutputFacts
<1> QED BY <1>1, <1>2

\* ... of what a transaction spends ...
LEMMA InputFacts ==
    ASSUME NEW t \in Tx
    PROVE  /\ Ins[t] \in Seq(Output) /\ Len(Ins[t]) \in Nat
           /\ \A k \in 1 .. Len(Ins[t]) : Ins[t][k] \in Output
<1>1. Ins[t] \in Seq(Output)
  BY CoinAssumption DEF Output
<1> QED BY <1>1, ElementOfSeq, LenProperties

\* ... and of how many outputs it has.
LEMMA OutsLength ==
    ASSUME NEW t \in Tx
    PROVE  Len(Outs[t]) \in Nat
<1>1. Outs[t] \in Seq(HashX \cup {Unspendable})
  BY CoinAssumption
<1> QED BY <1>1, LenProperties

\* What is known of a block and its transactions.
LEMMA BlockFacts ==
    ASSUME NEW b \in Block
    PROVE  /\ Len(Txs[b]) \in Nat /\ Len(Txs[b]) > 0 /\ FirstTx[b] \in Nat
           /\ Prev[b] \in Block \cup {NoTip} /\ b # NoTip
           /\ \A i \in 1 .. Len(Txs[b]) : Txs[b][i] \in Tx /\ TxNum(b, i) \in Nat
<1>1. Txs[b] \in Seq(Tx)
  BY CoinAssumption
<1>2. Len(Txs[b]) \in Nat /\ \A i \in 1 .. Len(Txs[b]) : Txs[b][i] \in Tx
  BY <1>1, ElementOfSeq, LenProperties
<1>3. FirstTx[b] \in Nat /\ Len(Txs[b]) > 0 /\ Prev[b] \in Block \cup {NoTip} /\ b # NoTip
  BY CoinAssumption
<1>4. \A i \in 1 .. Len(Txs[b]) : TxNum(b, i) \in Nat
  BY <1>2, <1>3 DEF TxNum
<1> QED BY <1>2, <1>3, <1>4

\* A block has each transaction once, is valid in any order, leaves what it
\* does not spend, and creates new outputs only.
LEMMA BlockCoins ==
    ASSUME NEW b \in Block
    PROVE  /\ \A i, j \in 1 .. Len(Txs[b]) : Txs[b][i] = Txs[b][j] => i = j
           /\ Valid(b, TRUE)
           /\ UnspentAt(b) = {c \in AllCoins(b) : c.out \notin SpentUpTo(b, Len(Txs[b]) + 1, 0)}
           /\ \A c \in UnspentAt(Prev[b]), d \in Created(b, Len(Txs[b])) : c.out # d.out
<1>1. UnspentAt(b) = {c \in AllCoins(b) : c.out \notin SpentUpTo(b, Len(Txs[b]) + 1, 0)}
  BY CoinAssumption DEF UnspentAt, AllCoins
<1>2. \A i, j \in 1 .. Len(Txs[b]) : Txs[b][i] = Txs[b][j] => i = j
  BY CoinAssumption
<1>3. Valid(b, TRUE)
  BY CoinAssumption
<1>4. \A c \in UnspentAt(Prev[b]), d \in Created(b, Len(Txs[b])) : c.out # d.out
  BY CoinAssumption
<1> QED BY <1>1, <1>2, <1>3, <1>4, Zenon

\* The coins that a transaction creates.
LEMMA CreatedByFacts ==
    ASSUME NEW b \in Block, NEW i \in 1 .. Len(Txs[b]), NEW c
    PROVE  /\ c \in CreatedBy(b, i) =>
                 /\ c.out \in Stored(Txs[b][i]) /\ c.out \in Output
                 /\ c = Coin(c.out, TxNum(b, i)) /\ c.tx_num = TxNum(b, i)
                 /\ c.out[1] = Txs[b][i] /\ c.out[2] \in Nat /\ c.out[2] >= 1
                 /\ c.out = <<c.out[1], c.out[2]>>
           /\ c = Coin(c.out, TxNum(b, i)) /\ c.out \in Stored(Txs[b][i]) =>
                 c \in CreatedBy(b, i)
<1>1. Txs[b][i] \in Tx
  BY BlockFacts
<1>2. ASSUME c \in CreatedBy(b, i)
      PROVE  /\ c.out \in Stored(Txs[b][i]) /\ c.out \in Output
             /\ c = Coin(c.out, TxNum(b, i)) /\ c.tx_num = TxNum(b, i)
             /\ c.out[1] = Txs[b][i] /\ c.out[2] \in Nat /\ c.out[2] >= 1
             /\ c.out = <<c.out[1], c.out[2]>>
  <2>1. PICK o \in Stored(Txs[b][i]) : c = Coin(o, TxNum(b, i))
    BY <1>2 DEF CreatedBy
  <2>2. c.out = o /\ c.tx_num = TxNum(b, i)
    BY <2>1 DEF Coin
  <2>3. /\ o[1] = Txs[b][i] /\ o[2] \in 1 .. Len(Outs[Txs[b][i]]) /\ o[2] \in Nat
        /\ o \in Output /\ o = <<o[1], o[2]>>
    BY <1>1, OutputFacts
  <2> QED BY <2>1, <2>2, <2>3
<1>3. ASSUME c = Coin(c.out, TxNum(b, i)), c.out \in Stored(Txs[b][i])
      PROVE  c \in CreatedBy(b, i)
  BY <1>3 DEF CreatedBy
<1> QED BY <1>2, <1>3

\* The coins of the first k transactions are those of each of them.
LEMMA CreatedMember ==
    ASSUME NEW b, NEW k, NEW c
    PROVE  c \in Created(b, k) <=> \E i \in 1 .. k : c \in CreatedBy(b, i)
<1>1. Created(b, k) = UNION {CreatedBy(b, i) : i \in 1 .. k}
  BY DEF Created, CreatedBy
<1> QED BY <1>1
-----------------------------------------------------------------------------
(* Chains *)

\* The numbers of the transactions of a block.
LEMMA BlockTerms ==
    ASSUME NEW b \in Block
    PROVE  /\ FirstTx[b] \in Nat /\ H!End(b) \in Nat /\ FirstTx[b] < H!End(b)
           /\ H!End(b) = FirstTx[b] + Len(Txs[b])
           /\ FirstTx[b] = IF Prev[b] = NoTip THEN 0 ELSE H!End(Prev[b])
           /\ b # NoTip /\ Prev[b] \in Block \cup {NoTip}
           /\ Len(TouchedBy[b]) = Len(Txs[b])
<1>1. ASSUME NEW a \in Block
      PROVE  Len(TouchedBy[a]) = Len(Txs[a])
  <2> DEFINE n == Len(Txs[a])
             e(i) == HashXsOf(Txs[a][i])
             s == [i \in 1 .. n |-> e(i)]
             S == {e(i) : i \in 1 .. n}
  <2>1. n \in Nat /\ \A i \in 1 .. n : e(i) \in S
    BY BlockFacts
  <2>2. TouchedBy[a] = s
    BY DEF TouchedBy
  <2>3. DOMAIN s = 1 .. n
    OBVIOUS
  <2> HIDE DEF n, e, S
  <2>4. s \in Seq(S)
    BY <2>1, IsASeq
  <2> HIDE DEF s
  <2>5. Len(s) = n
    BY <2>1, <2>3, <2>4, LenProperties
  <2> QED BY <2>2, <2>5 DEF n
<1>2. H!End(b) = FirstTx[b] + Len(Txs[b]) /\ Len(TouchedBy[b]) = Len(Txs[b])
  BY <1>1 DEF H!End
<1>3. Prev[b] # NoTip => Prev[b] \in Block /\ H!End(Prev[b]) = FirstTx[Prev[b]] + Len(Txs[Prev[b]])
  BY <1>1, CoinAssumption DEF H!End
<1>4. /\ FirstTx[b] \in Nat /\ Len(Txs[b]) \in Nat /\ Len(Txs[b]) > 0
      /\ b # NoTip /\ Prev[b] \in Block \cup {NoTip}
  BY BlockFacts, CoinAssumption
<1>5. FirstTx[b] = IF Prev[b] = NoTip THEN 0 ELSE H!End(Prev[b])
  BY <1>3, CoinAssumption
<1> QED BY <1>2, <1>4, <1>5

\* The empty chain.
LEMMA ChainStarts == Chained(<<>>) /\ H!TipOf(<<>>) = NoTip /\ H!HistoryOf(<<>>) = {}
<1>1. <<>> \in Seq(Block) /\ Len(<<>>) = 0
  BY EmptySeq
<1>2. H!HistoryOf(<<>>) = {}
  BY <1>1 DEF H!HistoryOf
<1> QED BY <1>1, <1>2 DEF Chained, Ordered, H!Linked, H!TipOf

\* The blocks of a chain, its end and its number of transactions.
LEMMA ChainEnd ==
    ASSUME NEW c, Chained(c)
    PROVE  /\ c \in Seq(Block) /\ Len(c) \in Nat
           /\ H!TxCountOf(c) \in Nat /\ H!TipOf(c) \in Block \cup {NoTip}
           /\ Len(c) = 0 <=> c = <<>>
           /\ Len(c) = 0 => H!TipOf(c) = NoTip /\ H!TxCountOf(c) = 0
           /\ Len(c) > 0 => /\ H!TipOf(c) = c[Len(c)] /\ H!TipOf(c) \in Block
                            /\ H!TxCountOf(c) = H!End(c[Len(c)])
           /\ \A i \in 1 .. Len(c) :
                 /\ c[i] \in Block
                 /\ Prev[c[i]] = IF i = 1 THEN NoTip ELSE c[i - 1]
                 /\ H!End(c[i]) <= H!TxCountOf(c)
                 /\ FirstTx[c[i]] + Len(Txs[c[i]]) <= H!TxCountOf(c)
<1>1. c \in Seq(Block) /\ Len(c) \in Nat /\ (Len(c) = 0 <=> c = <<>>)
  BY EmptySeq, LenProperties DEF Chained
<1>2. Len(c) = 0 => H!TipOf(c) = NoTip /\ H!TxCountOf(c) = 0
  BY <1>1 DEF H!TipOf, H!TxCountOf
<1>3. Len(c) > 0 => /\ H!TipOf(c) = c[Len(c)]
                    /\ H!TxCountOf(c) = H!End(c[Len(c)])
                    /\ c[Len(c)] \in Block
  BY <1>1, ElementOfSeq DEF H!TipOf, H!TxCountOf
<1>4. H!TxCountOf(c) \in Nat /\ H!TipOf(c) \in Block \cup {NoTip}
  <2>1. CASE Len(c) = 0
    BY <2>1, <1>2
  <2>2. CASE Len(c) > 0
    BY <2>2, <1>3, BlockTerms
  <2> QED BY <2>1, <2>2, <1>1
<1>5. ASSUME NEW i \in 1 .. Len(c)
      PROVE  c[i] \in Block /\ H!End(c[i]) <= H!TxCountOf(c)
  <2>1. c[i] \in Block
    BY <1>1, ElementOfSeq
  <2>2. /\ FirstTx[c[i]] \in Nat /\ FirstTx[c[i]] < H!End(c[i]) /\ H!End(c[i]) \in Nat
        /\ FirstTx[c[Len(c)]] \in Nat /\ FirstTx[c[Len(c)]] < H!End(c[Len(c)])
        /\ H!End(c[Len(c)]) \in Nat
    BY <2>1, <1>1, <1>3, BlockTerms
  <2>3. i < Len(c) => H!End(c[i]) <= FirstTx[c[Len(c)]]
    BY <1>1 DEF Chained, Ordered
  <2> QED BY <2>1, <2>2, <2>3, <1>1, <1>3
<1>6. \A i \in 1 .. Len(c) : FirstTx[c[i]] + Len(Txs[c[i]]) <= H!TxCountOf(c)
  BY <1>5, BlockTerms
<1>7. \A i \in 1 .. Len(c) : Prev[c[i]] = IF i = 1 THEN NoTip ELSE c[i - 1]
  BY DEF Chained, H!Linked
<1> QED BY <1>1, <1>2, <1>3, <1>4, <1>5, <1>6, <1>7

\* A block that links onto a chain makes a chain with it.
LEMMA ChainGrows ==
    ASSUME NEW c, Chained(c), NEW b \in Block, Prev[b] = H!TipOf(c)
    PROVE  /\ Chained(Append(c, b))
           /\ Len(Append(c, b)) = Len(c) + 1
           /\ \A i \in 1 .. Len(c) : Append(c, b)[i] = c[i]
           /\ Append(c, b)[Len(c) + 1] = b
           /\ H!TipOf(Append(c, b)) = b
           /\ H!TxCountOf(c) = FirstTx[b]
<1> DEFINE d == Append(c, b)
           n == Len(c)
<1>1. c \in Seq(Block) /\ n \in Nat
  BY ChainEnd
<1>2. /\ d \in Seq(Block) /\ Len(d) = n + 1 /\ d[n + 1] = b /\ d # <<>>
      /\ \A i \in 1 .. n : d[i] = c[i]
  BY <1>1, AppendProperties
<1>3. FirstTx[b] = H!TxCountOf(c)
  <2>1. CASE n = 0
    BY <2>1, ChainEnd, BlockTerms
  <2>2. CASE n > 0
    <3>1. Prev[b] = c[n] /\ c[n] \in Block /\ H!TxCountOf(c) = H!End(c[n])
      BY <2>2, ChainEnd
    <3>2. Prev[b] # NoTip
      BY <3>1, BlockTerms
    <3>3. FirstTx[b] = H!End(Prev[b])
      BY <3>2, BlockTerms
    <3> QED BY <3>1, <3>3
  <2> QED BY <2>1, <2>2, <1>1
<1>4. H!TipOf(d) = b
  BY <1>2 DEF H!TipOf
<1>5. H!Linked(d)
  <2>1. \A i \in 1 .. n : Prev[c[i]] = IF i = 1 THEN NoTip ELSE c[i - 1]
    BY DEF Chained, H!Linked
  <2>2. Prev[b] = IF n = 0 THEN NoTip ELSE c[n]
    BY <1>1, ChainEnd
  <2> SUFFICES ASSUME NEW i \in 1 .. n + 1
               PROVE  Prev[d[i]] = IF i = 1 THEN NoTip ELSE d[i - 1]
    BY <1>2 DEF H!Linked
  <2>3. CASE i = n + 1
    <3>1. n > 0 => n \in 1 .. n
      BY <1>1
    <3> QED BY <2>2, <2>3, <1>1, <1>2, <3>1
  <2>4. CASE i \in 1 .. n
    <3>1. i # 1 => i - 1 \in 1 .. n
      BY <2>4, <1>1
    <3> QED BY <2>1, <2>4, <3>1, <1>2
  <2> QED BY <2>3, <2>4, <1>1
<1>6. Ordered(d)
  <2> SUFFICES ASSUME NEW i \in 1 .. n + 1, NEW j \in 1 .. n + 1, i < j
               PROVE  H!End(d[i]) <= FirstTx[d[j]]
    BY <1>2 DEF Ordered
  <2>1. i \in 1 .. n
    BY <1>1
  <2>2. CASE j = n + 1
    BY <2>1, <2>2, <1>2, <1>3, ChainEnd
  <2>3. CASE j \in 1 .. n
    BY <2>1, <2>3, <1>2 DEF Chained, Ordered
  <2> QED BY <2>2, <2>3, <1>1
<1> QED BY <1>2, <1>3, <1>4, <1>5, <1>6 DEF Chained

\* A chain without its last block is a chain.
LEMMA ChainShrinks ==
    ASSUME NEW c, Chained(c), Len(c) > 0
    PROVE  LET d == SubSeq(c, 1, Len(c) - 1) IN
           /\ Chained(d)
           /\ Len(d) = Len(c) - 1
           /\ \A i \in 1 .. Len(d) : d[i] = c[i]
           /\ H!TipOf(d) = Prev[H!TipOf(c)]
<1> DEFINE n == Len(c)
           d == SubSeq(c, 1, n - 1)
           b == c[n]
<1>1. c \in Seq(Block) /\ n \in Nat /\ b \in Block /\ n \in 1 .. n /\ n - 1 \in Nat
  BY ChainEnd
<1>0. n = 1 \/ n > 1
  <2>1. n > 0
    OBVIOUS
  <2> HIDE DEF n
  <2> QED BY <1>1, <2>1
<1>2. \A i \in 1 .. n - 1 : c[i] \in Block
  BY <1>1, ChainEnd
<1>3. d \in Seq(Block) /\ Len(d) = n - 1 /\ \A i \in 1 .. n - 1 : d[i] = c[i]
  <2>1. 1 \in Int /\ n - 1 \in Int
    BY <1>1
  <2>2. /\ SubSeq(c, 1, n - 1) \in Seq(Block)
        /\ Len(SubSeq(c, 1, n - 1)) = IF 1 <= n - 1 THEN n - 1 - 1 + 1 ELSE 0
        /\ \A i \in 1 .. n - 1 - 1 + 1 : SubSeq(c, 1, n - 1)[i] = c[1 + i - 1]
    BY <2>1, <1>2, SubSeqProperties
  <2>3. (IF 1 <= n - 1 THEN n - 1 - 1 + 1 ELSE 0) = n - 1 /\ n - 1 - 1 + 1 = n - 1
    <3> HIDE DEF n
    <3> QED BY <1>0, <1>1
  <2>4. \A i \in 1 .. n - 1 : 1 + i - 1 = i
    BY <1>1
  <2> HIDE DEF n
  <2> QED BY <2>2, <2>3, <2>4
<1>4. d = <<>> <=> n = 1
  <2>1. n > 0
    BY <1>1
  <2> HIDE DEF d, n
  <2> QED BY <1>1, <1>3, <2>1, EmptySeq
<1> HIDE DEF d
<1>5. Prev[b] = IF n = 1 THEN NoTip ELSE c[n - 1]
  BY <1>1 DEF Chained, H!Linked
<1>6. H!TipOf(d) = Prev[b]
  <2>1. CASE n = 1
    <3>1. d = <<>>
      BY <2>1, <1>4
    <3> QED BY <3>1, <2>1, <1>5 DEF H!TipOf
  <2>2. CASE n > 1
    <3>1. n - 1 \in 1 .. n - 1 /\ n # 1
      BY <2>2, <1>1
    <3>2. d # <<>>
      BY <3>1, <1>4
    <3> QED BY <3>1, <3>2, <1>3, <1>5 DEF H!TipOf
  <2> QED BY <2>1, <2>2, <1>0
<1>7. H!Linked(d)
  <2>1. \A i \in 1 .. n : Prev[c[i]] = IF i = 1 THEN NoTip ELSE c[i - 1]
    BY DEF Chained, H!Linked
  <2> SUFFICES ASSUME NEW i \in 1 .. n - 1
               PROVE  Prev[d[i]] = IF i = 1 THEN NoTip ELSE d[i - 1]
    BY <1>3 DEF H!Linked
  <2>2. i \in 1 .. n /\ (i # 1 => i - 1 \in 1 .. n - 1)
    BY <1>1
  <2> QED BY <2>1, <2>2, <1>3
<1>8. Ordered(d)
  <2> SUFFICES ASSUME NEW i \in 1 .. n - 1, NEW j \in 1 .. n - 1, i < j
               PROVE  H!End(d[i]) <= FirstTx[d[j]]
    BY <1>3 DEF Ordered
  <2>1. i \in 1 .. n /\ j \in 1 .. n
    BY <1>1
  <2> QED BY <2>1, <1>3 DEF Chained, Ordered
<1>9. H!TipOf(c) = b
  BY <1>1, ChainEnd
<1> QED BY <1>3, <1>6, <1>7, <1>8, <1>9 DEF Chained, d

\* Blocks of d beyond c have higher tx_nums than all those of c.
LEMMA BeyondPrefix ==
    ASSUME NEW c, Chained(c), NEW d, Chained(d), PrefixOf(c, d)
    PROVE  /\ H!TxCountOf(c) <= H!TxCountOf(d)
           /\ \A i \in Len(c) + 1 .. Len(d) : H!TxCountOf(c) <= FirstTx[d[i]]
<1> DEFINE k == Len(c)
<1>1. k \in Nat /\ Len(d) \in Nat /\ k <= Len(d)
  BY ChainEnd DEF PrefixOf
<1>2. CASE k = 0
  <2>1. H!TxCountOf(c) = 0 /\ H!TxCountOf(d) \in Nat
    BY <1>2, ChainEnd
  <2>2. \A i \in 1 .. Len(d) : FirstTx[d[i]] \in Nat
    BY ChainEnd, BlockTerms
  <2> HIDE DEF k
  <2> QED BY <2>1, <2>2, <1>2 DEF k
<1>3. CASE k > 0
  <2>1. k \in 1 .. k /\ k \in 1 .. Len(d)
    BY <1>1, <1>3
  <2>2. c[k] = d[k]
    BY <2>1 DEF PrefixOf
  <2>3. H!TxCountOf(c) = H!End(d[k])
    BY <1>3, <2>2, ChainEnd
  <2>4. H!End(d[k]) <= H!TxCountOf(d)
    BY <2>1, ChainEnd
  <2>5. ASSUME NEW i \in k + 1 .. Len(d)
        PROVE  H!End(d[k]) <= FirstTx[d[i]]
    <3>1. i \in 1 .. Len(d) /\ k < i
      BY <1>1
    <3> QED BY <2>1, <3>1 DEF Chained, Ordered
  <2> QED BY <2>3, <2>4, <2>5
<1> QED BY <1>1, <1>2, <1>3

-----------------------------------------------------------------------------
(* The coins of a chain *)

\* The transaction numbers of a chain name its transactions.
LEMMA TxNumbers ==
    ASSUME NEW c, Chained(c), NEW i \in 1 .. Len(c), NEW k \in 1 .. Len(Txs[c[i]])
    PROVE  /\ H!TxNumbered(c, TxNum(c[i], k)) = <<c[i], k>>
           /\ TxNum(c[i], k) \in Nat /\ TxNum(c[i], k) < H!TxCountOf(c)
<1> DEFINE n == TxNum(c[i], k)
<1>1. /\ c \in Seq(Block) /\ Len(c) \in Nat /\ c[i] \in Block /\ H!TxCountOf(c) \in Nat
      /\ FirstTx[c[i]] + Len(Txs[c[i]]) <= H!TxCountOf(c)
  BY ChainEnd
<1>2. FirstTx[c[i]] \in Nat /\ Len(Txs[c[i]]) \in Nat
  BY <1>1, BlockFacts
<1>3. n = FirstTx[c[i]] + k - 1
  BY DEF TxNum
<1>4. n \in Nat /\ n < H!TxCountOf(c) /\ n \in FirstTx[c[i]] .. H!End(c[i]) - 1
      /\ n - FirstTx[c[i]] + 1 = k
  <2>1. H!End(c[i]) = FirstTx[c[i]] + Len(Txs[c[i]])
    BY <1>1, BlockTerms
  <2> DEFINE f == FirstTx[c[i]]
             l == Len(Txs[c[i]])
  <2>2. f \in Nat /\ l \in Nat /\ k \in 1 .. l /\ n = f + k - 1 /\ H!End(c[i]) = f + l
        /\ f + l <= H!TxCountOf(c) /\ H!TxCountOf(c) \in Nat
    BY <2>1, <1>1, <1>2, <1>3
  <2> HIDE DEF n, f, l
  <2>3. n \in Nat /\ n < H!TxCountOf(c) /\ n \in f .. H!End(c[i]) - 1 /\ n - f + 1 = k
    BY <2>2
  <2> QED BY <2>3 DEF f
<1>5. ASSUME NEW j \in 1 .. Len(c), n \in FirstTx[c[j]] .. H!End(c[j]) - 1
      PROVE  j = i
  <2>1. /\ FirstTx[c[j]] \in Nat /\ H!End(c[j]) \in Nat
        /\ FirstTx[c[i]] \in Nat /\ H!End(c[i]) \in Nat
    BY <1>1, ChainEnd, BlockTerms
  <2>2. /\ j < i => H!End(c[j]) <= FirstTx[c[i]]
        /\ i < j => H!End(c[i]) <= FirstTx[c[j]]
    BY DEF Chained, Ordered
  <2> HIDE DEF n
  <2>3. ~ (j < i) /\ ~ (i < j)
    BY <2>1, <2>2, <1>4, <1>5
  <2> QED BY <2>3, <1>1
<1> DEFINE P(j) == n \in FirstTx[c[j]] .. H!End(c[j]) - 1
           ch == CHOOSE j \in 1 .. Len(c) : P(j)
<1>6. ch = i
  <2>1. P(i) /\ \A j \in 1 .. Len(c) : P(j) => j = i
    BY <1>4, <1>5
  <2> HIDE DEF P
  <2> QED BY <2>1
<1>7. H!TxNumbered(c, n) = <<c[ch], n - FirstTx[c[ch]] + 1>>
  BY DEF H!TxNumbered
<1> HIDE DEF ch
<1> QED BY <1>4, <1>6, <1>7

\* fs_tx_hash of the number of a coin leads to its transaction.
LEMMA CoinFacts ==
    ASSUME NEW c, Chained(c), NEW d, CoinOf(d, c)
    PROVE  /\ d = Coin(d.out, d.tx_num) /\ d.out \in Output
           /\ d.tx_num \in Nat /\ d.tx_num < H!TxCountOf(c)
           /\ LET p == H!TxNumbered(c, d.tx_num) IN Txs[p[1]][p[2]] = d.out[1]
<1>1. PICK i \in 1 .. Len(c) : \E k \in 1 .. Len(Txs[c[i]]) :
          \E o \in Stored(Txs[c[i]][k]) : d = Coin(o, TxNum(c[i], k))
  BY DEF CoinOf
<1>2. PICK k \in 1 .. Len(Txs[c[i]]) : \E o \in Stored(Txs[c[i]][k]) : d = Coin(o, TxNum(c[i], k))
  BY <1>1
<1>3. PICK o \in Stored(Txs[c[i]][k]) : d = Coin(o, TxNum(c[i], k))
  BY <1>2
<1>4. d.out = o /\ d.tx_num = TxNum(c[i], k)
  BY <1>3 DEF Coin
<1>5. c[i] \in Block
  BY ChainEnd
<1>6. Txs[c[i]][k] \in Tx
  BY <1>5, BlockFacts
<1>7. o \in Output /\ o[1] = Txs[c[i]][k]
  BY <1>6, OutputFacts
<1> QED BY <1>3, <1>4, <1>7, TxNumbers

\* A coin is determined by the number of its transaction and its index.
LEMMA SameCoin ==
    ASSUME NEW c, Chained(c), NEW d, CoinOf(d, c), NEW e, CoinOf(e, c),
           d.tx_num = e.tx_num, d.out[2] = e.out[2]
    PROVE  d = e
<1>1. /\ d = Coin(d.out, d.tx_num) /\ d.out \in Output
      /\ LET p == H!TxNumbered(c, d.tx_num) IN Txs[p[1]][p[2]] = d.out[1]
  BY CoinFacts
<1>2. /\ e = Coin(e.out, e.tx_num) /\ e.out \in Output
      /\ LET p == H!TxNumbered(c, e.tx_num) IN Txs[p[1]][p[2]] = e.out[1]
  BY CoinFacts
<1>3. d.out = <<d.out[1], d.out[2]>> /\ e.out = <<e.out[1], e.out[2]>>
  BY <1>1, <1>2, AnyOutput
<1>4. d.out = e.out
  BY <1>1, <1>2, <1>3
<1> QED BY <1>1, <1>2, <1>4, Zenon

\* Outputs of a block are new, and so are the coins of all it can spend.
LEMMA AllCoinsOnce ==
    ASSUME NEW b \in Block, OnePerOutput(UnspentAt(Prev[b]))
    PROVE  OnePerOutput(AllCoins(b))
<1> SUFFICES ASSUME NEW c \in AllCoins(b), NEW d \in AllCoins(b), c.out = d.out
             PROVE  c = d
  BY DEF OnePerOutput
<1>1. CASE c \in UnspentAt(Prev[b]) /\ d \in UnspentAt(Prev[b])
  BY <1>1 DEF OnePerOutput
<1>2. CASE c \in Created(b, Len(Txs[b])) /\ d \in Created(b, Len(Txs[b]))
  <2>1. PICK i \in 1 .. Len(Txs[b]) : c \in CreatedBy(b, i)
    BY <1>2, CreatedMember
  <2>2. PICK j \in 1 .. Len(Txs[b]) : d \in CreatedBy(b, j)
    BY <1>2, CreatedMember
  <2>3. /\ c = Coin(c.out, TxNum(b, i)) /\ c.out[1] = Txs[b][i]
        /\ d = Coin(d.out, TxNum(b, j)) /\ d.out[1] = Txs[b][j]
    BY <2>1, <2>2, CreatedByFacts
  <2>4. i = j
    BY <2>3, BlockCoins
  <2> QED BY <2>3, <2>4
<1>3. ~ (c \in UnspentAt(Prev[b]) /\ d \in Created(b, Len(Txs[b])))
      /\ ~ (d \in UnspentAt(Prev[b]) /\ c \in Created(b, Len(Txs[b])))
  BY BlockCoins
<1> QED BY <1>1, <1>2, <1>3 DEF AllCoins

\* What is unspent after a chain are coins of it, one per output.
LEMMA CoinsOfChain ==
    ASSUME NEW c, Chained(c)
    PROVE  /\ \A d \in UnspentAt(H!TipOf(c)) : CoinOf(d, c)
           /\ OnePerOutput(UnspentAt(H!TipOf(c)))
<1> DEFINE At(n) == IF n = 0 THEN NoTip ELSE c[n]
           Good(n) == /\ \A d \in UnspentAt(At(n)) : CoinOf(d, c)
                      /\ OnePerOutput(UnspentAt(At(n)))
           S == {n \in Nat : n <= Len(c) => Good(n)}
<1>1. /\ Len(c) \in Nat
      /\ \A i \in 1 .. Len(c) : c[i] \in Block /\ Prev[c[i]] = IF i = 1 THEN NoTip ELSE c[i - 1]
      /\ Len(c) = 0 => H!TipOf(c) = NoTip
      /\ Len(c) > 0 => H!TipOf(c) = c[Len(c)]
  BY ChainEnd
<1>2. 0 \in S
  BY DEF UnspentAt, OnePerOutput
<1>3. ASSUME NEW n \in Nat, n \in S
      PROVE  n + 1 \in S
  <2> SUFFICES ASSUME n + 1 <= Len(c)
               PROVE  Good(n + 1)
    BY <1>3
  <2> DEFINE b == c[n + 1]
  <2>1. n + 1 \in 1 .. Len(c) /\ n <= Len(c)
    BY <1>1, <1>3
  <2>2. b \in Block /\ Prev[b] = At(n) /\ At(n + 1) = b
    BY <1>1, <1>3, <2>1
  <2>3. Good(n)
    BY <1>3, <2>1
  <2> HIDE DEF At
  <2> HIDE DEF b
  <2>4. UnspentAt(b) \subseteq AllCoins(b)
    BY <2>2, BlockCoins
  <2>5. OnePerOutput(AllCoins(b))
    BY <2>2, <2>3, AllCoinsOnce
  <2>6. ASSUME NEW d \in UnspentAt(b)
        PROVE  CoinOf(d, c)
    <3>1. CASE d \in UnspentAt(Prev[b])
      BY <3>1, <2>2, <2>3
    <3>2. CASE d \in Created(b, Len(Txs[b]))
      <4>1. PICK k \in 1 .. Len(Txs[b]) : d \in CreatedBy(b, k)
        BY <3>2, CreatedMember
      <4>2. \E o \in Stored(Txs[b][k]) : d = Coin(o, TxNum(b, k))
        BY <4>1 DEF CreatedBy
      <4> QED BY <4>1, <4>2, <2>1 DEF CoinOf, b
    <3> QED BY <3>1, <3>2, <2>4 DEF AllCoins
  <2>7. OnePerOutput(UnspentAt(b))
    BY <2>4, <2>5 DEF OnePerOutput
  <2> QED BY <2>2, <2>6, <2>7
<1> HIDE DEF S
<1>4. Nat \subseteq S
  BY <1>2, <1>3, NatInductive
<1>5. Good(Len(c))
  BY <1>1, <1>4 DEF S
<1>6. At(Len(c)) = H!TipOf(c)
  BY <1>1
<1> HIDE DEF At
<1> QED BY <1>5, <1>6

\* All the coins that a block on top of a chain can spend.
ProperCoins(cs) ==
    \A c \in cs : c = Coin(c.out, c.tx_num) /\ c.out \in Output /\ c.tx_num \in Nat

\* A block on a chain can spend each output as one coin.
LEMMA CoinsOfBlock ==
    ASSUME NEW c, Chained(c), NEW b \in Block, Prev[b] = H!TipOf(c)
    PROVE  ProperCoins(AllCoins(b)) /\ OnePerOutput(AllCoins(b))
<1>1. OnePerOutput(AllCoins(b))
  BY CoinsOfChain, AllCoinsOnce
<1>2. ASSUME NEW d \in UnspentAt(Prev[b])
      PROVE  d = Coin(d.out, d.tx_num) /\ d.out \in Output /\ d.tx_num \in Nat
  <2>1. CoinOf(d, c)
    BY CoinsOfChain
  <2> QED BY <2>1, CoinFacts
<1>3. ASSUME NEW d \in Created(b, Len(Txs[b]))
      PROVE  d = Coin(d.out, d.tx_num) /\ d.out \in Output /\ d.tx_num \in Nat
  <2>1. PICK i \in 1 .. Len(Txs[b]) : d \in CreatedBy(b, i)
    BY CreatedMember
  <2>2. d = Coin(d.out, TxNum(b, i)) /\ d.tx_num = TxNum(b, i) /\ d.out \in Output
    BY <2>1, CreatedByFacts
  <2>3. TxNum(b, i) \in Nat
    BY BlockFacts
  <2> QED BY <2>2, <2>3
<1> QED BY <1>1, <1>2, <1>3 DEF AllCoins, ProperCoins

-----------------------------------------------------------------------------
(* From input to input and from transaction to transaction *)

\* What a transaction spends, and with its first n inputs.
SpentIn(b, j) == {Ins[Txs[b][j]][k] : k \in 1 .. Len(Ins[Txs[b][j]])}
SpentFirst(b, j, n) == {Ins[Txs[b][j]][k] : k \in 1 .. n}

\* What has been spent at some point of a block.
LEMMA SpentMember ==
    ASSUME NEW b \in Block, NEW i \in Int, NEW n, NEW o
    PROVE  o \in SpentUpTo(b, i, n) <=>
              \/ \E j \in 1 .. i - 1 : o \in SpentIn(b, j)
              \/ i <= Len(Txs[b]) /\ o \in SpentFirst(b, i, n)
<1> DEFINE before == UNION {SpentIn(b, j) : j \in 1 .. i - 1}
           now == IF i > Len(Txs[b]) THEN {} ELSE SpentFirst(b, i, n)
<1>1. Len(Txs[b]) \in Nat
  BY BlockFacts
<1>2. SpentUpTo(b, i, n) = before \cup now
  BY DEF SpentUpTo, SpentIn, SpentFirst
<1>3. o \in before <=> \E j \in 1 .. i - 1 : o \in SpentIn(b, j)
  OBVIOUS
<1>4. o \in now <=> i <= Len(Txs[b]) /\ o \in SpentFirst(b, i, n)
  BY <1>1
<1> HIDE DEF before, now
<1> QED BY <1>2, <1>3, <1>4

\* Input by input, what has been spent grows by that input.
LEMMA SpentStep ==
    ASSUME NEW b \in Block, NEW i \in 1 .. Len(Txs[b])
    PROVE  /\ SpentUpTo(b, 1, 0) = {}
           /\ \A n \in Nat : SpentUpTo(b, i, n + 1) = SpentUpTo(b, i, n) \cup {Ins[Txs[b][i]][n + 1]}
           /\ SpentUpTo(b, i + 1, 0) = SpentUpTo(b, i, Len(Ins[Txs[b][i]]))
           /\ SpentUpTo(b, i + 1, 0) = SpentUpTo(b, i, 0) \cup SpentIn(b, i)
           /\ \A n \in Nat : SpentUpTo(b, i, 0) \subseteq SpentUpTo(b, i, n)
           /\ \A j \in i .. Len(Txs[b]) : SpentUpTo(b, i + 1, 0) \subseteq SpentUpTo(b, j + 1, 0)
<1>1. Len(Txs[b]) \in Nat /\ i \in Int /\ i + 1 \in Int /\ i <= Len(Txs[b])
      /\ 1 .. i + 1 - 1 = (1 .. i - 1) \cup {i}
  BY BlockFacts
<1>2. \A j : SpentFirst(b, j, 0) = {}
  BY DEF SpentFirst
<1>3. SpentUpTo(b, 1, 0) = {}
  <2>1. \A o : o \notin SpentUpTo(b, 1, 0)
    BY <1>2, SpentMember
  <2> QED BY <2>1
<1>4. ASSUME NEW n \in Nat
      PROVE  SpentUpTo(b, i, n + 1) = SpentUpTo(b, i, n) \cup {Ins[Txs[b][i]][n + 1]}
  <2>1. 1 .. n + 1 = (1 .. n) \cup {n + 1}
    OBVIOUS
  <2>2. SpentFirst(b, i, n + 1) = SpentFirst(b, i, n) \cup {Ins[Txs[b][i]][n + 1]}
    BY <2>1 DEF SpentFirst
  <2>3. \A o : o \in SpentUpTo(b, i, n + 1) <=>
                   o \in SpentUpTo(b, i, n) \/ o = Ins[Txs[b][i]][n + 1]
    BY <2>2, <1>1, SpentMember
  <2> QED BY <2>3
<1>5. \A o : o \in SpentUpTo(b, i + 1, 0) <=> \E j \in 1 .. i + 1 - 1 : o \in SpentIn(b, j)
  BY <1>1, <1>2, SpentMember
<1>6. \A o : o \in SpentUpTo(b, i, 0) <=> \E j \in 1 .. i - 1 : o \in SpentIn(b, j)
  BY <1>1, <1>2, SpentMember
<1>7. \A o : o \in SpentUpTo(b, i + 1, 0) <=> o \in SpentUpTo(b, i, 0) \/ o \in SpentIn(b, i)
  BY <1>1, <1>5, <1>6
<1>8. SpentUpTo(b, i + 1, 0) = SpentUpTo(b, i, 0) \cup SpentIn(b, i)
  BY <1>7
<1>9. SpentUpTo(b, i + 1, 0) = SpentUpTo(b, i, Len(Ins[Txs[b][i]]))
  <2>1. SpentFirst(b, i, Len(Ins[Txs[b][i]])) = SpentIn(b, i)
    BY DEF SpentFirst, SpentIn
  <2>2. \A o : o \in SpentUpTo(b, i, Len(Ins[Txs[b][i]])) <=>
                   (\E j \in 1 .. i - 1 : o \in SpentIn(b, j)) \/ o \in SpentIn(b, i)
    BY <2>1, <1>1, SpentMember
  <2>3. \A o : o \in SpentUpTo(b, i, Len(Ins[Txs[b][i]])) <=> o \in SpentUpTo(b, i + 1, 0)
    BY <2>2, <1>6, <1>7
  <2> QED BY <2>3
<1>10. \A n \in Nat : SpentUpTo(b, i, 0) \subseteq SpentUpTo(b, i, n)
  BY <1>1, <1>6, SpentMember
<1>11. ASSUME NEW j \in i .. Len(Txs[b]), NEW o \in SpentUpTo(b, i + 1, 0)
       PROVE  o \in SpentUpTo(b, j + 1, 0)
  <2>1. i + 1 \in Int /\ j + 1 \in Int /\ 1 .. i + 1 - 1 \subseteq 1 .. j + 1 - 1
    BY <1>1
  <2>2. \E m \in 1 .. i + 1 - 1 : o \in SpentIn(b, m)
    BY <1>5
  <2>3. \E m \in 1 .. j + 1 - 1 : o \in SpentIn(b, m)
    BY <2>1, <2>2
  <2> QED BY <2>1, <2>3, SpentMember
<1> QED BY <1>3, <1>4, <1>8, <1>9, <1>10, <1>11

\* The coins that there are for the next input.
LEMMA MidwayMember ==
    ASSUME NEW b \in Block, NEW i \in 1 .. Len(Txs[b]) + 1, NEW n, NEW any \in BOOLEAN, NEW c
    PROVE  /\ c \in Midway(b, i, n, any) <=>
                 /\ c \in UnspentAt(Prev[b])
                    \/ \E j \in 1 .. Len(Txs[b]) : c \in CreatedBy(b, j) /\ (any \/ j < i)
                 /\ c.out \notin SpentUpTo(b, i, n)
           /\ c \in Midway(b, i, n, any) => c \in AllCoins(b)
<1>1. Len(Txs[b]) \in Nat /\ i \in Int
  BY BlockFacts
<1>2. c \in Created(b, IF any THEN Len(Txs[b]) ELSE i - 1) <=>
          \E j \in 1 .. Len(Txs[b]) : c \in CreatedBy(b, j) /\ (any \/ j < i)
  <2>1. CASE any
    BY <2>1, CreatedMember
  <2>2. CASE ~any
    <3>1. \A j \in 1 .. Len(Txs[b]) : j < i <=> j \in 1 .. i - 1
      BY <1>1
    <3>2. 1 .. i - 1 \subseteq 1 .. Len(Txs[b])
      BY <1>1
    <3>3. c \in Created(b, i - 1) <=> \E j \in 1 .. i - 1 : c \in CreatedBy(b, j)
      BY CreatedMember
    <3> QED BY <2>2, <3>1, <3>2, <3>3
  <2> QED BY <2>1, <2>2
<1>3. c \in Created(b, Len(Txs[b])) <=> \E j \in 1 .. Len(Txs[b]) : c \in CreatedBy(b, j)
  BY CreatedMember
<1>4. c \in Midway(b, i, n, any) <=>
          /\ c \in UnspentAt(Prev[b]) \/ c \in Created(b, IF any THEN Len(Txs[b]) ELSE i - 1)
          /\ c.out \notin SpentUpTo(b, i, n)
  BY DEF Midway
<1> QED BY <1>2, <1>3, <1>4 DEF AllCoins

\* Every input finds its coin.
LEMMA InputCoin ==
    ASSUME NEW b \in Block, NEW any \in BOOLEAN, Valid(b, any),
           NEW i \in 1 .. Len(Txs[b]), NEW n \in 1 .. Len(Ins[Txs[b][i]])
    PROVE  \E c \in Midway(b, i, n - 1, any) : c.out = Ins[Txs[b][i]][n]
BY DEF Valid

\* A valid block in the order of its transactions spends no output of one that
\* comes later.
LEMMA OwnOutputs ==
    ASSUME NEW b \in Block, Valid(b, FALSE), NEW i \in 1 .. Len(Txs[b]),
           NEW c \in CreatedBy(b, i)
    PROVE  c.out \notin SpentUpTo(b, i + 1, 0)
<1> SUFFICES ASSUME c.out \in SpentUpTo(b, i + 1, 0)
             PROVE  FALSE
  OBVIOUS
<1>1. Len(Txs[b]) \in Nat /\ i \in Int /\ i + 1 \in Int
  BY BlockFacts
<1>2. \A j : SpentFirst(b, j, 0) = {}
  BY DEF SpentFirst
<1>3. PICK j \in 1 .. i + 1 - 1 : c.out \in SpentIn(b, j)
  BY <1>1, <1>2, SpentMember
<1>4. PICK n \in 1 .. Len(Ins[Txs[b][j]]) : c.out = Ins[Txs[b][j]][n]
  BY <1>3 DEF SpentIn
<1>5. j \in 1 .. Len(Txs[b]) /\ j \in 1 .. Len(Txs[b]) + 1 /\ j <= i
  BY <1>1
<1>6. PICK d \in Midway(b, j, n - 1, FALSE) : d.out = c.out
  <2>1. \E d \in Midway(b, j, n - 1, FALSE) : d.out = Ins[Txs[b][j]][n]
    BY <1>5 DEF Valid
  <2> QED BY <2>1, <1>4
<1>7. c \in Created(b, Len(Txs[b]))
  BY CreatedMember
<1>8. CASE d \in UnspentAt(Prev[b])
  BY <1>6, <1>7, <1>8, BlockCoins
<1>9. CASE \E m \in 1 .. Len(Txs[b]) : d \in CreatedBy(b, m) /\ m < j
  <2>1. PICK m \in 1 .. Len(Txs[b]) : d \in CreatedBy(b, m) /\ m < j
    BY <1>9
  <2>2. d.out[1] = Txs[b][m] /\ c.out[1] = Txs[b][i]
    BY <2>1, CreatedByFacts
  <2>3. m = i
    BY <2>2, <1>6, BlockCoins
  <2> QED BY <2>1, <2>3, <1>1, <1>5
<1> QED BY <1>5, <1>6, <1>8, <1>9, MidwayMember

\* Advancing: before the first input, from input to input, from transaction to
\* transaction, and at the end of the block.
LEMMA MidwayFirst ==
    ASSUME NEW b \in Block
    PROVE  Midway(b, 1, 0, FALSE) = UnspentAt(Prev[b]) /\ Midway(b, 1, 0, TRUE) = AllCoins(b)
<1>1. Len(Txs[b]) \in Nat /\ Len(Txs[b]) > 0 /\ 1 \in 1 .. Len(Txs[b])
  BY BlockFacts
<1>2. SpentUpTo(b, 1, 0) = {}
  BY <1>1, SpentStep
<1>3. Created(b, 0) = {}
  BY DEF Created
<1> QED BY <1>2, <1>3 DEF Midway, AllCoins

\* advance_txs, input by input: the coin of the input is gone.
LEMMA MidwayInput ==
    ASSUME NEW b \in Block, NEW i \in 1 .. Len(Txs[b]), NEW n \in Nat, NEW any \in BOOLEAN
    PROVE  Midway(b, i, n + 1, any) = {c \in Midway(b, i, n, any) : c.out # Ins[Txs[b][i]][n + 1]}
<1>1. SpentUpTo(b, i, n + 1) = SpentUpTo(b, i, n) \cup {Ins[Txs[b][i]][n + 1]}
  BY SpentStep
<1> QED BY <1>1 DEF Midway

\* After the outputs of a transaction, its coins are there.
LEMMA MidwayOutputs ==
    ASSUME NEW b \in Block, NEW i \in 1 .. Len(Txs[b])
    PROVE  LET n == Len(Ins[Txs[b][i]]) IN
           /\ Midway(b, i + 1, 0, TRUE) = Midway(b, i, n, TRUE)
           /\ Valid(b, FALSE) =>
                 Midway(b, i + 1, 0, FALSE) = Midway(b, i, n, FALSE) \cup CreatedBy(b, i)
<1> DEFINE n == Len(Ins[Txs[b][i]])
<1>1. Len(Txs[b]) \in Nat /\ i \in Int
  BY BlockFacts
<1>2. SpentUpTo(b, i + 1, 0) = SpentUpTo(b, i, n)
  BY SpentStep
<1>3. Midway(b, i + 1, 0, TRUE) = Midway(b, i, n, TRUE)
  BY <1>2 DEF Midway
<1>4. ASSUME Valid(b, FALSE)
      PROVE  Midway(b, i + 1, 0, FALSE) = Midway(b, i, n, FALSE) \cup CreatedBy(b, i)
  <2>1. i + 1 \in 1 .. Len(Txs[b]) + 1 /\ i \in 1 .. Len(Txs[b]) + 1
    BY <1>1
  <2>2. \A j \in 1 .. Len(Txs[b]) : j < i + 1 <=> j < i \/ j = i
    BY <1>1
  <2> HIDE DEF n
  <2>3. ASSUME NEW c
        PROVE  c \in Midway(b, i + 1, 0, FALSE) <=>
                   c \in Midway(b, i, n, FALSE) \/ c \in CreatedBy(b, i)
    <3>1. c \in Midway(b, i + 1, 0, FALSE) <=>
             /\ c \in UnspentAt(Prev[b])
                \/ \E j \in 1 .. Len(Txs[b]) : c \in CreatedBy(b, j) /\ j < i + 1
             /\ c.out \notin SpentUpTo(b, i + 1, 0)
      BY <2>1, MidwayMember
    <3>2. c \in Midway(b, i, n, FALSE) <=>
             /\ c \in UnspentAt(Prev[b])
                \/ \E j \in 1 .. Len(Txs[b]) : c \in CreatedBy(b, j) /\ j < i
             /\ c.out \notin SpentUpTo(b, i + 1, 0)
      BY <1>2, <2>1, MidwayMember
    <3>3. c \in CreatedBy(b, i) => c.out \notin SpentUpTo(b, i + 1, 0)
      BY <1>4, OwnOutputs
    <3> QED BY <2>2, <3>1, <3>2, <3>3
  <2> QED BY <2>3
<1> QED BY <1>3, <1>4

\* After the last transaction, there is what the block leaves unspent.
LEMMA MidwayLast ==
    ASSUME NEW b \in Block, NEW any \in BOOLEAN
    PROVE  Midway(b, Len(Txs[b]) + 1, 0, any) = UnspentAt(b)
<1>1. Len(Txs[b]) \in Nat /\ Len(Txs[b]) + 1 - 1 = Len(Txs[b])
  BY BlockFacts
<1>2. (IF any THEN Len(Txs[b]) ELSE Len(Txs[b]) + 1 - 1) = Len(Txs[b])
  BY <1>1
<1>3. Midway(b, Len(Txs[b]) + 1, 0, any) =
          {c \in AllCoins(b) : c.out \notin SpentUpTo(b, Len(Txs[b]) + 1, 0)}
  BY <1>2 DEF Midway, AllCoins
<1> QED BY <1>3, BlockCoins

-----------------------------------------------------------------------------
(* Undoing a block *)

\* The undo info of an output is that of its coin.
LEMMA UndoItemIs ==
    ASSUME NEW b \in Block, OnePerOutput(AllCoins(b)), NEW c \in AllCoins(b)
    PROVE  /\ UndoItem(b, c.out) = [hashX |-> HashXOf(c.out), tx_num |-> c.tx_num, value |-> c.out]
           /\ UndoItem(b, c.out).tx_num = c.tx_num
<1> DEFINE d == CHOOSE d \in AllCoins(b) : d.out = c.out
<1>1. d \in AllCoins(b) /\ d.out = c.out
  OBVIOUS
<1>2. d = c
  BY <1>1 DEF OnePerOutput
<1>3. UndoItem(b, c.out) = [hashX |-> HashXOf(c.out), tx_num |-> d.tx_num, value |-> c.out]
  BY DEF UndoItem
<1> HIDE DEF d
<1> QED BY <1>2, <1>3

\* The coins that outputs have among those that a block can spend.
CoinsOn(b, outs) == {c \in AllCoins(b) : c.out \in outs}

\* The coins of restored outputs are those with the numbers of the undo info.
LEMMA RestoredCoins ==
    ASSUME NEW b \in Block, OnePerOutput(AllCoins(b)), ProperCoins(AllCoins(b)),
           NEW outs, \A o \in outs : \E c \in AllCoins(b) : c.out = o
    PROVE  CoinsOn(b, outs) = {Coin(o, UndoItem(b, o).tx_num) : o \in outs}
<1>1. ASSUME NEW c \in CoinsOn(b, outs)
      PROVE  c \in {Coin(o, UndoItem(b, o).tx_num) : o \in outs}
  <2>1. c \in AllCoins(b) /\ c.out \in outs
    BY DEF CoinsOn
  <2>2. c = Coin(c.out, UndoItem(b, c.out).tx_num)
    BY <2>1, UndoItemIs DEF ProperCoins
  <2> QED BY <2>1, <2>2
<1>2. ASSUME NEW o \in outs
      PROVE  Coin(o, UndoItem(b, o).tx_num) \in CoinsOn(b, outs)
  <2>1. PICK c \in AllCoins(b) : c.out = o
    OBVIOUS
  <2>2. c = Coin(c.out, UndoItem(b, c.out).tx_num)
    BY <2>1, UndoItemIs DEF ProperCoins
  <2> QED BY <2>1, <2>2 DEF CoinsOn
<1> QED BY <1>1, <1>2

\* The outputs that a block spends have coins, all of them before it.
LEMMA SpentHaveCoins ==
    ASSUME NEW b \in Block, NEW any \in BOOLEAN, Valid(b, any)
    PROVE  /\ \A o \in SpentUpTo(b, Len(Txs[b]) + 1, 0) : \E c \in AllCoins(b) : c.out = o
           /\ \A i \in 1 .. Len(Txs[b]) : \A o \in SpentIn(b, i) :
                 /\ o \in SpentUpTo(b, Len(Txs[b]) + 1, 0)
                 /\ \E c \in Midway(b, i, 0, any) : c.out = o
<1>1. Len(Txs[b]) \in Nat /\ Len(Txs[b]) + 1 \in Int
      /\ \A i \in 1 .. Len(Txs[b]) : i \in 1 .. Len(Txs[b]) + 1 /\ i \in 1 .. Len(Txs[b]) + 1 - 1
  BY BlockFacts
<1>2. \A j : SpentFirst(b, j, 0) = {}
  BY DEF SpentFirst
<1>3. ASSUME NEW i \in 1 .. Len(Txs[b]), NEW o \in SpentIn(b, i)
      PROVE  o \in SpentUpTo(b, Len(Txs[b]) + 1, 0)
  BY <1>1, SpentMember
<1>4. ASSUME NEW i \in 1 .. Len(Txs[b]), NEW o \in SpentIn(b, i)
      PROVE  \E c \in Midway(b, i, 0, any) : c.out = o
  <2>1. PICK n \in 1 .. Len(Ins[Txs[b][i]]) : o = Ins[Txs[b][i]][n]
    BY DEF SpentIn
  <2>2. \E c \in Midway(b, i, n - 1, any) : c.out = Ins[Txs[b][i]][n]
    BY DEF Valid
  <2>3. PICK c \in Midway(b, i, n - 1, any) : c.out = o
    BY <2>1, <2>2
  <2>4. Txs[b][i] \in Tx
    BY BlockFacts
  <2>5. n - 1 \in Nat
    BY <2>4, InputFacts
  <2>6. SpentUpTo(b, i, 0) \subseteq SpentUpTo(b, i, n - 1)
    BY <2>5, SpentStep
  <2>7. c \in Midway(b, i, 0, any)
    BY <2>6 DEF Midway
  <2> QED BY <2>3, <2>7
<1>5. ASSUME NEW o \in SpentUpTo(b, Len(Txs[b]) + 1, 0)
      PROVE  \E c \in AllCoins(b) : c.out = o
  <2>1. PICK i \in 1 .. Len(Txs[b]) + 1 - 1 : o \in SpentIn(b, i)
    BY <1>1, <1>2, SpentMember
  <2>2. i \in 1 .. Len(Txs[b])
    BY <1>1
  <2>3. PICK c \in Midway(b, i, 0, any) : c.out = o
    BY <2>1, <2>2, <1>4
  <2>4. c \in AllCoins(b)
    BY <2>2, <1>1, MidwayMember
  <2> QED BY <2>3, <2>4
<1> QED BY <1>3, <1>4, <1>5

\* What there is at some point of undoing a block.
LEMMA BackwayMember ==
    ASSUME NEW b \in Block, NEW i \in 0 .. Len(Txs[b]) + 1, NEW n \in Nat, NEW c
    PROVE  /\ c \in Backway(b, i, n, TRUE) <=>
                 \/ c \in UnspentAt(Prev[b])
                 \/ \E j \in 1 .. Len(Txs[b]) : c \in CreatedBy(b, j) /\ (j > i \/ (j = i /\ c.out[2] >= n))
           /\ c \in Backway(b, i, n, FALSE) <=>
                 /\ \/ c \in UnspentAt(Prev[b])
                    \/ \E j \in 1 .. Len(Txs[b]) : c \in CreatedBy(b, j) /\ (j < i \/ (j = i /\ c.out[2] >= n))
                 /\ c.out \notin SpentUpTo(b, i + 1, 0)
<1>1. Len(Txs[b]) \in Nat /\ i \in Int
  BY BlockFacts
<1>2. c \in RestOf(b, i, n) <=>
          \E j \in 1 .. Len(Txs[b]) : c \in CreatedBy(b, j) /\ j = i /\ c.out[2] >= n
  BY DEF RestOf
<1>3. c \in UNION {CreatedBy(b, j) : j \in {j \in 1 .. Len(Txs[b]) : j > i}} <=>
          \E j \in 1 .. Len(Txs[b]) : c \in CreatedBy(b, j) /\ j > i
  OBVIOUS
<1>4. c \in Created(b, i - 1) <=> \E j \in 1 .. Len(Txs[b]) : c \in CreatedBy(b, j) /\ j < i
  <2>1. \A j : j \in 1 .. i - 1 <=> j \in 1 .. Len(Txs[b]) /\ j < i
    BY <1>1
  <2> QED BY <2>1, CreatedMember
<1>5. c \in Backway(b, i, n, TRUE) <=>
          \/ c \in UnspentAt(Prev[b]) \/ c \in RestOf(b, i, n)
          \/ c \in UNION {CreatedBy(b, j) : j \in {j \in 1 .. Len(Txs[b]) : j > i}}
  BY DEF Backway
<1>6. c \in Backway(b, i, n, FALSE) <=>
          /\ c \in UnspentAt(Prev[b]) \/ c \in Created(b, i - 1) \/ c \in RestOf(b, i, n)
          /\ c.out \notin SpentUpTo(b, i + 1, 0)
  BY DEF Backway
<1> DEFINE late(j) == c \in CreatedBy(b, j) /\ j > i
           early(j) == c \in CreatedBy(b, j) /\ j < i
           now(j) == c \in CreatedBy(b, j) /\ j = i /\ c.out[2] >= n
           J == 1 .. Len(Txs[b])
<1>7. /\ \A j : (c \in CreatedBy(b, j) /\ (j > i \/ (j = i /\ c.out[2] >= n))) <=> late(j) \/ now(j)
      /\ \A j : (c \in CreatedBy(b, j) /\ (j < i \/ (j = i /\ c.out[2] >= n))) <=> early(j) \/ now(j)
  BY Zenon
<1>8. /\ c \in Backway(b, i, n, TRUE) <=>
             c \in UnspentAt(Prev[b]) \/ (\E j \in J : now(j)) \/ (\E j \in J : late(j))
      /\ c \in Backway(b, i, n, FALSE) <=>
             /\ c \in UnspentAt(Prev[b]) \/ (\E j \in J : early(j)) \/ (\E j \in J : now(j))
             /\ c.out \notin SpentUpTo(b, i + 1, 0)
  BY <1>2, <1>3, <1>4, <1>5, <1>6, Zenon
<1> HIDE DEF late, early, now
<1> QED BY <1>7, <1>8, Zenon DEF J

\* Where it starts, with ltor after all that was spent has been restored.
LEMMA BackwayFirst ==
    ASSUME NEW b \in Block
    PROVE  /\ Backway(b, Len(Txs[b]), 1, FALSE) = UnspentAt(b)
           /\ Backway(b, 1, 1, TRUE) = AllCoins(b)
           /\ AllCoins(b) = UnspentAt(b) \cup CoinsOn(b, SpentUpTo(b, Len(Txs[b]) + 1, 0))
           /\ \A c \in UnspentAt(b) : c.out \notin SpentUpTo(b, Len(Txs[b]) + 1, 0)
<1> DEFINE n == Len(Txs[b])
<1>1. n \in Nat /\ n > 0 /\ n \in 0 .. n + 1 /\ 1 \in 0 .. n + 1
  BY BlockFacts
<1>2. \A j \in 1 .. n : \A c \in CreatedBy(b, j) : c.out[2] \in Nat /\ c.out[2] >= 1
  BY CreatedByFacts
<1>3. \A j \in 1 .. n : (j < n \/ j = n) /\ (j > 1 \/ j = 1)
  BY <1>1
<1>4. \A c : c \in AllCoins(b) <=>
          c \in UnspentAt(Prev[b]) \/ \E j \in 1 .. n : c \in CreatedBy(b, j)
  BY CreatedMember DEF AllCoins
<1>5. \A c : c \in Backway(b, n, 1, FALSE) <=>
                 c \in AllCoins(b) /\ c.out \notin SpentUpTo(b, n + 1, 0)
  <2> TAKE c
  <2>1. c \in Backway(b, n, 1, FALSE) <=>
          /\ \/ c \in UnspentAt(Prev[b])
             \/ \E j \in 1 .. n : c \in CreatedBy(b, j) /\ (j < n \/ (j = n /\ c.out[2] >= 1))
          /\ c.out \notin SpentUpTo(b, n + 1, 0)
    BY <1>1, BackwayMember
  <2> HIDE DEF n
  <2> QED BY <2>1, <1>2, <1>3, <1>4
<1>6. \A c : c \in Backway(b, 1, 1, TRUE) <=> c \in AllCoins(b)
  <2> TAKE c
  <2>1. c \in Backway(b, 1, 1, TRUE) <=>
          \/ c \in UnspentAt(Prev[b])
          \/ \E j \in 1 .. n : c \in CreatedBy(b, j) /\ (j > 1 \/ (j = 1 /\ c.out[2] >= 1))
    BY <1>1, BackwayMember
  <2> HIDE DEF n
  <2> QED BY <2>1, <1>2, <1>3, <1>4
<1>7. UnspentAt(b) = {c \in AllCoins(b) : c.out \notin SpentUpTo(b, n + 1, 0)}
  BY BlockCoins
<1> HIDE DEF n
<1>8. Backway(b, n, 1, FALSE) = UnspentAt(b) /\ Backway(b, 1, 1, TRUE) = AllCoins(b)
  BY <1>5, <1>6, <1>7
<1>9. AllCoins(b) = UnspentAt(b) \cup CoinsOn(b, SpentUpTo(b, n + 1, 0))
  BY <1>7 DEF CoinsOn
<1> QED BY <1>7, <1>8, <1>9 DEF n

\* An output is taken back: its coin is there, unless it was never stored.
LEMMA BackwayOutput ==
    ASSUME NEW b \in Block, NEW any \in BOOLEAN, Valid(b, any), OnePerOutput(AllCoins(b)),
           NEW i \in 1 .. Len(Txs[b]), NEW n \in 1 .. Len(Outs[Txs[b][i]])
    PROVE  LET o == <<Txs[b][i], n>>
               c == Coin(o, TxNum(b, i))
           IN  IF Outs[Txs[b][i]][n] = Unspendable
               THEN Backway(b, i, n + 1, any) = Backway(b, i, n, any)
               ELSE /\ c \in Backway(b, i, n, any) /\ c \in CreatedBy(b, i)
                    /\ Backway(b, i, n + 1, any) = Backway(b, i, n, any) \ {c}
<1> DEFINE t == Txs[b][i]
           o == <<t, n>>
           c == Coin(o, TxNum(b, i))
           N == Len(Txs[b])
           spent == SpentUpTo(b, i + 1, 0)
<1>1. N \in Nat /\ i \in Int /\ i \in 0 .. N + 1 /\ t \in Tx
  BY BlockFacts
<1>2. n \in Nat /\ n + 1 \in Nat
  BY <1>1, OutsLength
<1>3. o \in Stored(t) <=> Outs[t][n] # Unspendable
  BY DEF Stored
<1>4. c.out = o /\ c.tx_num = TxNum(b, i) /\ o[1] = t /\ o[2] = n
  BY DEF Coin
<1>5. c \in CreatedBy(b, i) <=> Outs[t][n] # Unspendable
  <2>1. c = Coin(c.out, TxNum(b, i))
    BY <1>4
  <2> HIDE DEF c, o
  <2> QED BY <2>1, <1>3, <1>4, CreatedByFacts
<1>6. \A d \in CreatedBy(b, i) : d.out[2] \in Nat /\ (d.out[2] = n <=> d = c)
  <2> SUFFICES ASSUME NEW d \in CreatedBy(b, i)
               PROVE  d.out[2] \in Nat /\ (d.out[2] = n <=> d = c)
    OBVIOUS
  <2>1. /\ d = Coin(d.out, TxNum(b, i)) /\ d.out[1] = t /\ d.out[2] \in Nat
        /\ d.out = <<d.out[1], d.out[2]>>
    BY CreatedByFacts
  <2> QED BY <2>1, <1>4
<1>7. \A d \in CreatedBy(b, i) : d.out[2] >= n + 1 <=> d.out[2] >= n /\ d # c
  BY <1>2, <1>6
<1>8. CASE Outs[t][n] = Unspendable
  <2>1. c \notin CreatedBy(b, i)
    BY <1>5, <1>8
  <2>2. \A d \in CreatedBy(b, i) : d.out[2] >= n + 1 <=> d.out[2] >= n
    BY <1>7, <2>1
  <2> HIDE DEF c, t, o
  <2>3. \A d : d \in Backway(b, i, n + 1, TRUE) <=> d \in Backway(b, i, n, TRUE)
    BY <1>1, <1>2, <2>2, BackwayMember
  <2>4. \A d : d \in Backway(b, i, n + 1, FALSE) <=> d \in Backway(b, i, n, FALSE)
    BY <1>1, <1>2, <2>2, BackwayMember
  <2>5. CASE any = TRUE
    <3>1. Backway(b, i, n + 1, TRUE) = Backway(b, i, n, TRUE)
      BY <2>3
    <3> QED BY <3>1, <2>5, <1>8 DEF c, t, o
  <2>6. CASE any = FALSE
    <3>1. Backway(b, i, n + 1, FALSE) = Backway(b, i, n, FALSE)
      BY <2>4
    <3> QED BY <3>1, <2>6, <1>8 DEF c, t, o
  <2> QED BY <2>5, <2>6
<1>9. CASE Outs[t][n] # Unspendable
  <2>1. c \in CreatedBy(b, i)
    BY <1>5, <1>9
  <2>2. \A j \in 1 .. N : c \in CreatedBy(b, j) => j = i
    <3> SUFFICES ASSUME NEW j \in 1 .. N, c \in CreatedBy(b, j)
                 PROVE  j = i
      OBVIOUS
    <3>1. c.out[1] = Txs[b][j]
      BY CreatedByFacts
    <3> QED BY <3>1, <1>4, BlockCoins
  <2>3. c \notin UnspentAt(Prev[b])
    <3>1. c \in Created(b, N)
      BY <2>1, CreatedMember
    <3> QED BY <3>1, BlockCoins
  <2>4. any = FALSE => c.out \notin spent
    BY <2>1, OwnOutputs
  <2>5. c.out[2] = n /\ i \in 1 .. N
    BY <1>4
  <2> HIDE DEF c, t, o, N
  <2>6. \A d \in CreatedBy(b, i) : d # c => (d.out[2] >= n + 1 <=> d.out[2] >= n)
    BY <1>7
  <2>7. ~ (c.out[2] >= n + 1) /\ c.out[2] >= n
    BY <1>2, <2>5
  <2>8. ~ (i > i) /\ ~ (i < i)
    BY <1>1
  <2>9. CASE any = TRUE
    <3> DEFINE P(d, m) == \E j \in 1 .. N : d \in CreatedBy(b, j) /\ (j > i \/ (j = i /\ d.out[2] >= m))
    <3>1. \A d : /\ d \in Backway(b, i, n + 1, TRUE) <=> d \in UnspentAt(Prev[b]) \/ P(d, n + 1)
                 /\ d \in Backway(b, i, n, TRUE) <=> d \in UnspentAt(Prev[b]) \/ P(d, n)
      BY <1>1, <1>2, BackwayMember DEF N
    <3>2. \A d : d # c => (P(d, n + 1) <=> P(d, n))
      BY <2>6
    <3>3. P(c, n) /\ ~ P(c, n + 1)
      BY <2>1, <2>2, <2>5, <2>7, <2>8
    <3> HIDE DEF P
    <3>4. c \in Backway(b, i, n, TRUE)
          /\ Backway(b, i, n + 1, TRUE) = Backway(b, i, n, TRUE) \ {c}
      BY <3>1, <3>2, <3>3, <2>3
    <3> QED BY <3>4, <2>1, <2>9, <1>9 DEF c, t, o
  <2>10. CASE any = FALSE
    <3> DEFINE P(d, m) == \E j \in 1 .. N : d \in CreatedBy(b, j) /\ (j < i \/ (j = i /\ d.out[2] >= m))
    <3>1. \A d : /\ d \in Backway(b, i, n + 1, FALSE) <=>
                        (d \in UnspentAt(Prev[b]) \/ P(d, n + 1)) /\ d.out \notin spent
                 /\ d \in Backway(b, i, n, FALSE) <=>
                        (d \in UnspentAt(Prev[b]) \/ P(d, n)) /\ d.out \notin spent
      BY <1>1, <1>2, BackwayMember DEF N
    <3>2. \A d : d # c => (P(d, n + 1) <=> P(d, n))
      BY <2>6
    <3>3. P(c, n) /\ ~ P(c, n + 1)
      BY <2>1, <2>2, <2>5, <2>7, <2>8
    <3> HIDE DEF P, spent
    <3>4. c \in Backway(b, i, n, FALSE)
          /\ Backway(b, i, n + 1, FALSE) = Backway(b, i, n, FALSE) \ {c}
      BY <3>1, <3>2, <3>3, <2>3, <2>4, <2>10
    <3> QED BY <3>4, <2>1, <2>10, <1>9 DEF c, t, o
  <2> QED BY <2>9, <2>10
<1> QED BY <1>8, <1>9

\* The inputs of a transaction are restored: they were spent, and by none
\* before it.
LEMMA BackwayInputs ==
    ASSUME NEW b \in Block, Valid(b, FALSE), OnePerOutput(AllCoins(b)),
           NEW i \in 1 .. Len(Txs[b])
    PROVE  LET n == Len(Outs[Txs[b][i]]) + 1 IN
           /\ Backway(b, i - 1, 1, FALSE) = Backway(b, i, n, FALSE) \cup CoinsOn(b, SpentIn(b, i))
           /\ \A c \in Backway(b, i, n, FALSE) : c.out \notin SpentIn(b, i)
<1> DEFINE t == Txs[b][i]
           n == Len(Outs[t]) + 1
           N == Len(Txs[b])
<1>1. N \in Nat /\ i \in Int /\ i \in 0 .. N + 1 /\ i - 1 \in 0 .. N + 1 /\ t \in Tx
      /\ i - 1 + 1 = i /\ i \in 1 .. N + 1
  BY BlockFacts
<1>2. n \in Nat
  BY <1>1, OutsLength
<1>3. \A c \in CreatedBy(b, i) : ~ (c.out[2] >= n)
  <2> SUFFICES ASSUME NEW c \in CreatedBy(b, i)
               PROVE  ~ (c.out[2] >= n)
    OBVIOUS
  <2>1. c.out \in Stored(t)
    BY CreatedByFacts
  <2>2. c.out[2] \in 1 .. Len(Outs[t])
    BY <1>1, <2>1, OutputFacts
  <2> QED BY <2>2, <1>1, OutsLength
<1>4. \A j \in 1 .. N : \A c \in CreatedBy(b, j) : c.out[2] \in Nat /\ c.out[2] >= 1
  BY CreatedByFacts
<1>5. SpentUpTo(b, i + 1, 0) = SpentUpTo(b, i, 0) \cup SpentIn(b, i)
  BY SpentStep
<1> DEFINE P(c) == c \in UnspentAt(Prev[b]) \/ \E j \in 1 .. N : c \in CreatedBy(b, j) /\ j < i
<1>6. \A j \in 1 .. N : j < i <=> j < i - 1 \/ j = i - 1
  BY <1>1
<1>7. \A c : c \in Backway(b, i - 1, 1, FALSE) <=> P(c) /\ c.out \notin SpentUpTo(b, i, 0)
  <2> TAKE c
  <2>1. c \in Backway(b, i - 1, 1, FALSE) <=>
          /\ \/ c \in UnspentAt(Prev[b])
             \/ \E j \in 1 .. N : c \in CreatedBy(b, j) /\ (j < i - 1 \/ (j = i - 1 /\ c.out[2] >= 1))
          /\ c.out \notin SpentUpTo(b, i, 0)
    BY <1>1, BackwayMember
  <2> HIDE DEF N
  <2> QED BY <2>1, <1>4, <1>6
<1>8. \A c : c \in Backway(b, i, n, FALSE) <=> P(c) /\ c.out \notin SpentUpTo(b, i + 1, 0)
  <2> TAKE c
  <2> HIDE DEF n
  <2>1. c \in Backway(b, i, n, FALSE) <=>
          /\ \/ c \in UnspentAt(Prev[b])
             \/ \E j \in 1 .. N : c \in CreatedBy(b, j) /\ (j < i \/ (j = i /\ c.out[2] >= n))
          /\ c.out \notin SpentUpTo(b, i + 1, 0)
    BY <1>1, <1>2, BackwayMember
  <2> HIDE DEF N
  <2> QED BY <2>1, <1>3
<1>9. \A c : c \in Midway(b, i, 0, FALSE) <=> P(c) /\ c.out \notin SpentUpTo(b, i, 0)
  BY <1>1, MidwayMember
<1>10. \A c : P(c) => c \in AllCoins(b)
  BY CreatedMember DEF AllCoins
<1> HIDE DEF P, n
<1>11. ASSUME NEW c \in CoinsOn(b, SpentIn(b, i))
       PROVE  c \in Backway(b, i - 1, 1, FALSE)
  <2>1. c \in AllCoins(b) /\ c.out \in SpentIn(b, i)
    BY DEF CoinsOn
  <2>2. PICK d \in Midway(b, i, 0, FALSE) : d.out = c.out
    BY <2>1, SpentHaveCoins
  <2>3. d = c
    BY <2>1, <2>2, <1>9, <1>10 DEF OnePerOutput
  <2> QED BY <2>2, <2>3, <1>7, <1>9
<1>12. Backway(b, i - 1, 1, FALSE) = Backway(b, i, n, FALSE) \cup CoinsOn(b, SpentIn(b, i))
  BY <1>5, <1>7, <1>8, <1>10, <1>11 DEF CoinsOn
<1> QED BY <1>5, <1>8, <1>12 DEF n

\* With ltor there is nothing to restore any more.
LEMMA BackwayOn ==
    ASSUME NEW b \in Block, NEW i \in 1 .. Len(Txs[b])
    PROVE  Backway(b, i + 1, 1, TRUE) = Backway(b, i, Len(Outs[Txs[b][i]]) + 1, TRUE)
<1> DEFINE t == Txs[b][i]
           n == Len(Outs[t]) + 1
           N == Len(Txs[b])
<1>1. N \in Nat /\ i \in Int /\ i \in 0 .. N + 1 /\ i + 1 \in 0 .. N + 1 /\ t \in Tx
  BY BlockFacts
<1>2. n \in Nat
  BY <1>1, OutsLength
<1>3. \A c \in CreatedBy(b, i) : ~ (c.out[2] >= n)
  <2> SUFFICES ASSUME NEW c \in CreatedBy(b, i)
               PROVE  ~ (c.out[2] >= n)
    OBVIOUS
  <2>1. c.out \in Stored(t)
    BY CreatedByFacts
  <2>2. c.out[2] \in 1 .. Len(Outs[t])
    BY <1>1, <2>1, OutputFacts
  <2> QED BY <2>2, <1>1, OutsLength
<1>4. \A j \in 1 .. N : \A c \in CreatedBy(b, j) : c.out[2] \in Nat /\ c.out[2] >= 1
  BY CreatedByFacts
<1>5. \A j \in 1 .. N : j > i <=> j > i + 1 \/ j = i + 1
  BY <1>1
<1> HIDE DEF n
<1>6. \A c : c \in Backway(b, i + 1, 1, TRUE) <=> c \in Backway(b, i, n, TRUE)
  <2> TAKE c
  <2>1. c \in Backway(b, i + 1, 1, TRUE) <=>
          \/ c \in UnspentAt(Prev[b])
          \/ \E j \in 1 .. N : c \in CreatedBy(b, j) /\ (j > i + 1 \/ (j = i + 1 /\ c.out[2] >= 1))
    BY <1>1, BackwayMember
  <2>2. c \in Backway(b, i, n, TRUE) <=>
          \/ c \in UnspentAt(Prev[b])
          \/ \E j \in 1 .. N : c \in CreatedBy(b, j) /\ (j > i \/ (j = i /\ c.out[2] >= n))
    BY <1>1, <1>2, BackwayMember
  <2> HIDE DEF N
  <2> QED BY <2>1, <2>2, <1>3, <1>4, <1>5
<1>7. Backway(b, i + 1, 1, TRUE) = Backway(b, i, n, TRUE)
  BY <1>6
<1> QED BY <1>7 DEF n

\* Where it ends.
LEMMA BackwayLast ==
    ASSUME NEW b \in Block
    PROVE  /\ Backway(b, 0, 1, FALSE) = UnspentAt(Prev[b])
           /\ Backway(b, Len(Txs[b]) + 1, 1, TRUE) = UnspentAt(Prev[b])
<1> DEFINE N == Len(Txs[b])
<1>1. N \in Nat /\ N > 0 /\ 0 \in 0 .. N + 1 /\ N + 1 \in 0 .. N + 1 /\ 0 + 1 = 1
      /\ 1 \in 1 .. N
      /\ \A j \in 1 .. N : ~ (j < 0) /\ j # 0 /\ ~ (j > N + 1) /\ j # N + 1
  BY BlockFacts
<1>2. SpentUpTo(b, 1, 0) = {}
  BY <1>1, SpentStep
<1>3. \A c : c \in Backway(b, 0, 1, FALSE) <=> c \in UnspentAt(Prev[b])
  <2> TAKE c
  <2>1. c \in Backway(b, 0, 1, FALSE) <=>
          /\ \/ c \in UnspentAt(Prev[b])
             \/ \E j \in 1 .. N : c \in CreatedBy(b, j) /\ (j < 0 \/ (j = 0 /\ c.out[2] >= 1))
          /\ c.out \notin SpentUpTo(b, 0 + 1, 0)
    BY <1>1, BackwayMember
  <2> HIDE DEF N
  <2> QED BY <2>1, <1>1, <1>2
<1>4. \A c : c \in Backway(b, N + 1, 1, TRUE) <=> c \in UnspentAt(Prev[b])
  BY <1>1, BackwayMember
<1>5. Backway(b, 0, 1, FALSE) = UnspentAt(Prev[b])
  BY <1>3
<1>6. Backway(b, N + 1, 1, TRUE) = UnspentAt(Prev[b])
  BY <1>4
<1> QED BY <1>5, <1>6

-----------------------------------------------------------------------------
(* Undo info *)

\* The recursive definition of what the transactions of a block spend has a
\* solution.
LEMMA InsOfEquation ==
    ASSUME NEW b \in Block
    PROVE  InsOf(b) = [k \in 0 .. Len(Txs[b]) |->
                          IF k = 0 THEN <<>> ELSE InsOf(b)[k - 1] \o Ins[Txs[b][k]]]
<1> DEFINE N == Len(Txs[b])
           Solves(f) == f = [k \in 0 .. N |-> IF k = 0 THEN <<>> ELSE f[k - 1] \o Ins[Txs[b][k]]]
           Upto(f, n) == \A k \in 0 .. n :
                            f[k] = IF k = 0 THEN <<>> ELSE f[k - 1] \o Ins[Txs[b][k]]
           S == {n \in Nat : \E f : Upto(f, n)}
<1>1. N \in Nat
  BY BlockFacts
<1>2. 0 \in S
  <2>1. Upto([k \in {0} |-> <<>>], 0)
    OBVIOUS
  <2> HIDE DEF Upto
  <2> QED BY <2>1
<1>3. ASSUME NEW n \in Nat, n \in S
      PROVE  n + 1 \in S
  <2>1. PICK f : Upto(f, n)
    BY <1>3
  <2> DEFINE g == [k \in 0 .. n + 1 |-> IF k = n + 1 THEN f[n] \o Ins[Txs[b][n + 1]] ELSE f[k]]
  <2>2. ASSUME NEW k \in 0 .. n + 1
        PROVE  g[k] = IF k = 0 THEN <<>> ELSE g[k - 1] \o Ins[Txs[b][k]]
    <3>1. CASE k = n + 1
      <4>1. k # 0 /\ k - 1 = n /\ n \in 0 .. n + 1 /\ n # n + 1
        BY <3>1
      <4>2. g[k] = f[n] \o Ins[Txs[b][n + 1]] /\ g[n] = f[n]
        BY <3>1, <4>1
      <4> QED BY <3>1, <4>1, <4>2
    <3>2. CASE k # n + 1 /\ k # 0
      <4>1. k \in 0 .. n /\ k - 1 \in 0 .. n + 1 /\ k - 1 # n + 1
        BY <3>2
      <4>2. g[k] = f[k] /\ g[k - 1] = f[k - 1]
        BY <3>2, <4>1
      <4>3. f[k] = f[k - 1] \o Ins[Txs[b][k]]
        BY <2>1, <4>1, <3>2
      <4> QED BY <4>2, <4>3, <3>2
    <3>3. CASE k = 0
      <4>1. k \in 0 .. n /\ k # n + 1
        BY <3>3
      <4> QED BY <2>1, <3>3, <4>1
    <3> QED BY <3>1, <3>2, <3>3
  <2>3. Upto(g, n + 1)
    BY <2>2
  <2> HIDE DEF Upto, g
  <2> QED BY <2>3
<1> HIDE DEF S
<1>4. N \in S
  BY <1>1, <1>2, <1>3, NatInductive
<1>5. PICK f : Upto(f, N)
  BY <1>4 DEF S
<1>6. Solves([k \in 0 .. N |-> f[k]])
  <2> DEFINE g == [k \in 0 .. N |-> f[k]]
  <2>1. \A k \in 0 .. N : g[k] = IF k = 0 THEN <<>> ELSE g[k - 1] \o Ins[Txs[b][k]]
    <3> TAKE k \in 0 .. N
    <3>1. k # 0 => k - 1 \in 0 .. N
      BY <1>1
    <3> QED BY <3>1, <1>5
  <2>2. g = [k \in 0 .. N |-> g[k]]
    OBVIOUS
  <2> HIDE DEF g
  <2>3. g = [k \in 0 .. N |-> IF k = 0 THEN <<>> ELSE g[k - 1] \o Ins[Txs[b][k]]]
    BY <2>1, <2>2
  <2> QED BY <2>3 DEF g
<1>7. InsOf(b) = CHOOSE g : Solves(g)
  BY DEF InsOf
<1> HIDE DEF Solves
<1>8. Solves(InsOf(b))
  BY <1>6, <1>7
<1> QED BY <1>8 DEF Solves

\* The outputs spent by the first transactions, one after another.
LEMMA InsOfFacts ==
    ASSUME NEW b \in Block
    PROVE  /\ InsOf(b)[0] = <<>>
           /\ \A i \in 1 .. Len(Txs[b]) : InsOf(b)[i] = InsOf(b)[i - 1] \o Ins[Txs[b][i]]
           /\ \A i \in 0 .. Len(Txs[b]) :
                 /\ InsOf(b)[i] \in Seq(Output) /\ Len(InsOf(b)[i]) \in Nat
                 /\ \A o : o \in SpentUpTo(b, i + 1, 0) <=>
                              \E k \in 1 .. Len(InsOf(b)[i]) : o = InsOf(b)[i][k]
<1> DEFINE N == Len(Txs[b])
           f == InsOf(b)
           spends(i) == \A o : o \in SpentUpTo(b, i + 1, 0) <=> \E k \in 1 .. Len(f[i]) : o = f[i][k]
           S == {i \in Nat : i <= N => f[i] \in Seq(Output) /\ spends(i)}
<1>1. N \in Nat /\ N > 0 /\ 1 \in 1 .. N /\ \A i \in 1 .. N : Txs[b][i] \in Tx
  BY BlockFacts
<1>2. \A k \in 0 .. N : f[k] = IF k = 0 THEN <<>> ELSE f[k - 1] \o Ins[Txs[b][k]]
  <2> DEFINE e(k) == IF k = 0 THEN <<>> ELSE f[k - 1] \o Ins[Txs[b][k]]
  <2>1. f = [k \in 0 .. N |-> e(k)]
    BY InsOfEquation
  <2> HIDE DEF f, e, N
  <2>2. \A k \in 0 .. N : f[k] = e(k)
    BY <2>1
  <2> QED BY <2>2 DEF e
<1> HIDE DEF f
<1>3. f[0] = <<>>
  BY <1>1, <1>2
<1>4. \A i \in 1 .. N : f[i] = f[i - 1] \o Ins[Txs[b][i]]
  <2> TAKE i \in 1 .. N
  <2>1. i \in 0 .. N /\ i # 0
    BY <1>1
  <2> QED BY <2>1, <1>2
<1>5. 0 \in S
  <2>1. <<>> \in Seq(Output) /\ Len(<<>>) = 0
    BY EmptySeq
  <2>2. SpentUpTo(b, 0 + 1, 0) = {}
    <3>1. SpentUpTo(b, 1, 0) = {} /\ 0 + 1 = 1
      BY <1>1, SpentStep
    <3> QED BY <3>1
  <2>3. Len(f[0]) = 0 /\ f[0] \in Seq(Output)
    BY <2>1, <1>3
  <2>4. ~ \E k \in 1 .. Len(f[0]) : TRUE
    BY <2>3
  <2>5. spends(0)
    BY <2>2, <2>4
  <2> HIDE DEF spends
  <2> QED BY <2>3, <2>5
<1>6. ASSUME NEW n \in Nat, n \in S
      PROVE  n + 1 \in S
  <2> SUFFICES ASSUME n + 1 <= N
               PROVE  f[n + 1] \in Seq(Output) /\ spends(n + 1)
    BY <1>6
  <2> DEFINE i == n + 1
             s == f[n]
             t == Ins[Txs[b][i]]
  <2>1. i \in 1 .. N /\ n <= N /\ i - 1 = n
    BY <1>1, <1>6
  <2>2. s \in Seq(Output) /\ spends(n)
    BY <1>6, <2>1
  <2>3. t \in Seq(Output) /\ f[i] = s \o t
    BY <2>1, <1>1, <1>4, InputFacts
  <2>4. Len(s) \in Nat /\ Len(t) \in Nat
    BY <2>2, <2>3, LenProperties
  <2>5. SpentUpTo(b, i + 1, 0) = SpentUpTo(b, i, 0) \cup SpentIn(b, i)
    BY <2>1, SpentStep
  <2>6. \A o : o \in SpentIn(b, i) <=> \E k \in 1 .. Len(t) : o = t[k]
    BY DEF SpentIn
  <2>7. \A o : o \in SpentUpTo(b, i, 0) <=> \E k \in 1 .. Len(s) : o = s[k]
    BY <2>2
  <2> HIDE DEF i, s, t
  <2>8. /\ s \o t \in Seq(Output) /\ Len(s \o t) = Len(s) + Len(t)
        /\ \A k \in 1 .. Len(s) + Len(t) :
              (s \o t)[k] = IF k <= Len(s) THEN s[k] ELSE t[k - Len(s)]
    BY <2>2, <2>3, ConcatProperties
  <2>9. ASSUME NEW o
        PROVE  o \in SpentUpTo(b, i + 1, 0) <=> \E k \in 1 .. Len(s) + Len(t) : o = (s \o t)[k]
    <3>1. ASSUME o \in SpentUpTo(b, i, 0)
          PROVE  \E k \in 1 .. Len(s) + Len(t) : o = (s \o t)[k]
      <4>1. PICK k \in 1 .. Len(s) : o = s[k]
        BY <3>1, <2>7
      <4>2. k \in 1 .. Len(s) + Len(t) /\ k <= Len(s)
        BY <2>4
      <4> QED BY <4>1, <4>2, <2>8
    <3>2. ASSUME o \in SpentIn(b, i)
          PROVE  \E k \in 1 .. Len(s) + Len(t) : o = (s \o t)[k]
      <4>1. PICK k \in 1 .. Len(t) : o = t[k]
        BY <3>2, <2>6
      <4>2. /\ Len(s) + k \in 1 .. Len(s) + Len(t) /\ ~ (Len(s) + k <= Len(s))
            /\ Len(s) + k - Len(s) = k
        BY <2>4
      <4> QED BY <4>1, <4>2, <2>8
    <3>3. ASSUME NEW k \in 1 .. Len(s) + Len(t), o = (s \o t)[k]
          PROVE  o \in SpentUpTo(b, i, 0) \/ o \in SpentIn(b, i)
      <4>1. CASE k <= Len(s)
        <5>1. k \in 1 .. Len(s) /\ o = s[k]
          BY <4>1, <3>3, <2>4, <2>8
        <5> QED BY <5>1, <2>7
      <4>2. CASE ~ (k <= Len(s))
        <5>1. k - Len(s) \in 1 .. Len(t) /\ o = t[k - Len(s)]
          BY <4>2, <3>3, <2>4, <2>8
        <5> QED BY <5>1, <2>6
      <4> QED BY <4>1, <4>2
    <3> QED BY <3>1, <3>2, <3>3, <2>5
  <2> QED BY <2>3, <2>8, <2>9 DEF i
<1> HIDE DEF S
<1>7. Nat \subseteq S
  BY <1>5, <1>6, NatInductive
<1>8. ASSUME NEW i \in 0 .. N
      PROVE  f[i] \in Seq(Output) /\ Len(f[i]) \in Nat /\ spends(i)
  <2>1. i \in S /\ i <= N
    BY <1>1, <1>7
  <2>2. f[i] \in Seq(Output) /\ spends(i)
    BY <2>1 DEF S
  <2> QED BY <2>2, LenProperties
<1> QED BY <1>3, <1>4, <1>8 DEF f

\* The undo items of the outputs there are.
UndoItemSet(b) == {UndoItem(b, o) : o \in Output}

\* Undo info has an item for each output, in the same order.
LEMMA UndoItemsOf ==
    ASSUME NEW b, NEW outs \in Seq(Output)
    PROVE  /\ UndoItems(b, outs) \in Seq(UndoItemSet(b))
           /\ Len(outs) \in Nat /\ Len(UndoItems(b, outs)) = Len(outs)
           /\ \A k \in 1 .. Len(outs) : UndoItems(b, outs)[k] = UndoItem(b, outs[k])
<1> DEFINE n == Len(outs)
           e(k) == UndoItem(b, outs[k])
           u == [k \in 1 .. n |-> e(k)]
<1>1. n \in Nat /\ \A k \in 1 .. n : outs[k] \in Output
  BY LenProperties, ElementOfSeq
<1>2. \A k \in 1 .. n : e(k) \in UndoItemSet(b)
  BY <1>1 DEF UndoItemSet
<1>3. UndoItems(b, outs) = u
  BY DEF UndoItems
<1> HIDE DEF n, e
<1>4. u \in Seq(UndoItemSet(b))
  BY <1>1, <1>2, IsASeq
<1>5. Len(u) = n /\ \A k \in 1 .. n : u[k] = e(k)
  BY <1>1
<1> QED BY <1>1, <1>3, <1>4, <1>5 DEF n, e

\* Nothing spent, no undo info.
LEMMA UndoItemsNone ==
    ASSUME NEW b
    PROVE  UndoItems(b, <<>>) = <<>>
<1>1. <<>> \in Seq(Output) /\ Len(<<>>) = 0
  BY EmptySeq
<1>2. UndoItems(b, <<>>) \in Seq(UndoItemSet(b)) /\ Len(UndoItems(b, <<>>)) = 0
  BY <1>1, UndoItemsOf
<1> QED BY <1>2, EmptySeq

\* An output spent adds its item to the undo info.
LEMMA UndoItemsAppend ==
    ASSUME NEW b, NEW outs \in Seq(Output), NEW o \in Output
    PROVE  UndoItems(b, Append(outs, o)) = Append(UndoItems(b, outs), UndoItem(b, o))
<1> DEFINE s == Append(outs, o)
           u == UndoItems(b, outs)
           v == UndoItems(b, s)
           w == Append(u, UndoItem(b, o))
           n == Len(outs)
<1>1. /\ s \in Seq(Output) /\ Len(s) = n + 1 /\ s[n + 1] = o
      /\ \A k \in 1 .. n : s[k] = outs[k]
  BY AppendProperties
<1>2. /\ u \in Seq(UndoItemSet(b)) /\ n \in Nat /\ Len(u) = n
      /\ \A k \in 1 .. n : u[k] = UndoItem(b, outs[k])
  BY UndoItemsOf
<1> HIDE DEF s
<1>3. /\ v \in Seq(UndoItemSet(b)) /\ Len(v) = n + 1
      /\ \A k \in 1 .. n + 1 : v[k] = UndoItem(b, s[k])
  BY <1>1, UndoItemsOf
<1>4. UndoItem(b, o) \in UndoItemSet(b)
  BY DEF UndoItemSet
<1> HIDE DEF u, v, n
<1>5. /\ w \in Seq(UndoItemSet(b)) /\ Len(w) = n + 1 /\ w[n + 1] = UndoItem(b, o)
      /\ \A k \in 1 .. n : w[k] = u[k]
  BY <1>2, <1>4, AppendProperties
<1> HIDE DEF w
<1>6. ASSUME NEW k \in 1 .. n + 1
      PROVE  v[k] = w[k]
  <2>1. CASE k = n + 1
    BY <2>1, <1>1, <1>3, <1>5
  <2>2. CASE k # n + 1
    <3>1. k \in 1 .. n
      BY <2>2, <1>2
    <3> QED BY <3>1, <1>1, <1>2, <1>3, <1>5
  <2> QED BY <2>1, <2>2
<1>7. v = w
  BY <1>3, <1>5, <1>6, SeqEqual
<1> QED BY <1>7 DEF v, w, u, s

\* The two parts of undo info are those of two parts of the outputs.
LEMMA UndoItemsParts ==
    ASSUME NEW b, NEW s \in Seq(Output), NEW t \in Seq(Output)
    PROVE  LET u == UndoItems(b, s \o t) IN
           /\ Len(u) = Len(s) + Len(t)
           /\ SubSeq(u, 1, Len(s)) = UndoItems(b, s)
           /\ SubSeq(u, Len(s) + 1, Len(s) + Len(t)) = UndoItems(b, t)
<1> DEFINE st == s \o t
           u == UndoItems(b, st)
           m == Len(s)
           n == Len(t)
           a == UndoItems(b, s)
           z == UndoItems(b, t)
           R == UndoItemSet(b)
           l == SubSeq(u, 1, m)
           r == SubSeq(u, m + 1, m + n)
<1>1. /\ st \in Seq(Output) /\ Len(st) = m + n
      /\ \A k \in 1 .. m + n : st[k] = IF k <= m THEN s[k] ELSE t[k - m]
  BY ConcatProperties
<1>2. /\ a \in Seq(R) /\ m \in Nat /\ Len(a) = m
      /\ \A k \in 1 .. m : a[k] = UndoItem(b, s[k])
  BY UndoItemsOf
<1>3. /\ z \in Seq(R) /\ n \in Nat /\ Len(z) = n
      /\ \A k \in 1 .. n : z[k] = UndoItem(b, t[k])
  BY UndoItemsOf
<1> HIDE DEF st, m, n
<1>4. /\ u \in Seq(R) /\ Len(u) = m + n
      /\ \A k \in 1 .. m + n : u[k] = UndoItem(b, st[k])
  BY <1>1, UndoItemsOf
<1> HIDE DEF u, a, z, R
<1>5. \A k \in 1 .. m + n : u[k] \in R
  BY <1>4, ElementOfSeq
<1>6. /\ l \in Seq(R) /\ Len(l) = m /\ \A k \in 1 .. m : l[k] = u[k]
  <2>1. \A k \in 1 .. m : u[k] \in R
    BY <1>5, <1>2, <1>3
  <2>2. /\ l \in Seq(R) /\ Len(l) = IF 1 <= m THEN m - 1 + 1 ELSE 0
        /\ \A k \in 1 .. m - 1 + 1 : l[k] = u[1 + k - 1]
    BY <2>1, <1>2, SubSeqProperties
  <2> HIDE DEF l
  <2>3. Len(l) = m
    BY <2>2, <1>2
  <2>4. \A k \in 1 .. m : l[k] = u[k]
    <3> TAKE k \in 1 .. m
    <3>1. k \in 1 .. m - 1 + 1 /\ 1 + k - 1 = k
      BY <1>2
    <3> QED BY <3>1, <2>2
  <2> QED BY <2>2, <2>3, <2>4
<1>7. /\ r \in Seq(R) /\ Len(r) = n /\ \A k \in 1 .. n : r[k] = u[m + k]
  <2>1. \A k \in m + 1 .. m + n : u[k] \in R
    BY <1>5, <1>2, <1>3
  <2>2. m + 1 \in Int /\ m + n \in Int
    BY <1>2, <1>3
  <2>3. /\ r \in Seq(R) /\ Len(r) = IF m + 1 <= m + n THEN (m + n) - (m + 1) + 1 ELSE 0
        /\ \A k \in 1 .. (m + n) - (m + 1) + 1 : r[k] = u[(m + 1) + k - 1]
    BY <2>1, <2>2, SubSeqProperties
  <2> HIDE DEF r
  <2>4. Len(r) = n
    BY <2>3, <1>2, <1>3
  <2>5. \A k \in 1 .. n : r[k] = u[m + k]
    <3> TAKE k \in 1 .. n
    <3>1. k \in 1 .. (m + n) - (m + 1) + 1 /\ (m + 1) + k - 1 = m + k
      BY <1>2, <1>3
    <3> QED BY <3>1, <2>3
  <2> QED BY <2>3, <2>4, <2>5
<1> HIDE DEF l, r
<1>8. l = a
  <2>1. \A k \in 1 .. m : l[k] = a[k]
    <3> TAKE k \in 1 .. m
    <3>1. k \in 1 .. m + n /\ k <= m
      BY <1>2, <1>3
    <3>2. st[k] = s[k]
      BY <3>1, <1>1
    <3> QED BY <3>1, <3>2, <1>2, <1>4, <1>6
  <2> QED BY <2>1, <1>2, <1>6, SeqEqual
<1>9. r = z
  <2>1. \A k \in 1 .. n : r[k] = z[k]
    <3> TAKE k \in 1 .. n
    <3> DEFINE j == m + k
    <3>1. j \in 1 .. m + n /\ ~ (j <= m) /\ j - m = k /\ j = m + k
      BY <1>2, <1>3
    <3> HIDE DEF j
    <3>2. st[j] = IF j <= m THEN s[j] ELSE t[j - m]
      BY <3>1, <1>1, Zenon
    <3>3. st[j] = t[k]
      BY <3>1, <3>2, Zenon
    <3> QED BY <3>1, <3>3, <1>3, <1>4, <1>7
  <2> QED BY <2>1, <1>3, <1>7, SeqEqual
<1> QED BY <1>4, <1>8, <1>9 DEF l, r, a, z, u, st, m, n

\* The outputs spent so far, after one input more and after a transaction.
LEMMA SpendingFirst ==
    ASSUME NEW b \in Block
    PROVE  Spending(b, 1, 0) = <<>> /\ Spending(b, Len(Txs[b]) + 1, 0) = InsOf(b)[Len(Txs[b])]
<1> DEFINE N == Len(Txs[b])
           s == InsOf(b)[N]
           t == SubSeq(Ins[Txs[b][1]], 1, 0)
           r == IF N + 1 > N THEN <<>> ELSE SubSeq(Ins[Txs[b][N + 1]], 1, 0)
<1>1. N \in Nat /\ N > 0 /\ N + 1 - 1 = N /\ 1 - 1 = 0 /\ ~ (1 > N) /\ N + 1 > N /\ N \in 0 .. N
  BY BlockFacts
<1>2. InsOf(b)[0] = <<>> /\ s \in Seq(Output)
  BY <1>1, InsOfFacts
<1>3. t = <<>> /\ <<>> \in Seq(Output)
  BY SubSeqEmpty, EmptySeq
<1>4. s \o <<>> = s /\ <<>> \o <<>> = <<>>
  BY <1>2, <1>3, ConcatEmptySeq
<1>5. Spending(b, 1, 0) = InsOf(b)[0] \o t
  BY <1>1 DEF Spending
<1>6. Spending(b, N + 1, 0) = InsOf(b)[N] \o r
  <2>1. Spending(b, N + 1, 0) = InsOf(b)[N + 1 - 1] \o r
    BY DEF Spending
  <2> QED BY <2>1, <1>1
<1>7. r = <<>>
  BY <1>1
<1> HIDE DEF r, t
<1> QED BY <1>2, <1>3, <1>4, <1>5, <1>6, <1>7

\* An input is appended ...
LEMMA SpendingStep ==
    ASSUME NEW b \in Block, NEW i \in 1 .. Len(Txs[b]),
           NEW n \in 1 .. Len(Ins[Txs[b][i]])
    PROVE  /\ Spending(b, i, n - 1) \in Seq(Output)
           /\ Spending(b, i, n) = Append(Spending(b, i, n - 1), Ins[Txs[b][i]][n])
<1> DEFINE N == Len(Txs[b])
           s == InsOf(b)[i - 1]
           t == Ins[Txs[b][i]]
           p == SubSeq(t, 1, n - 1)
           q == SubSeq(t, 1, n)
           e == <<t[n]>>
<1>0. N \in Nat /\ Txs[b][i] \in Tx
  BY BlockFacts
<1>1. N \in Nat /\ i - 1 \in 0 .. N /\ ~ (i > N) /\ Txs[b][i] \in Tx
  <2> HIDE DEF N
  <2>1. i \in 1 .. N
    BY DEF N
  <2> QED BY <2>1, <1>0
<1>2. s \in Seq(Output)
  BY <1>1, InsOfFacts
<1>3. t \in Seq(Output) /\ Len(t) \in Nat /\ \A k \in 1 .. Len(t) : t[k] \in Output
  BY <1>1, InputFacts
<1>4. Spending(b, i, n) = s \o q /\ Spending(b, i, n - 1) = s \o p
  BY <1>1 DEF Spending
<1>n. n \in 1 .. Len(t)
  OBVIOUS
<1> HIDE DEF s, t
<1>5. q = p \o e
  <2>1. 1 \in 1 .. Len(t) /\ n \in 1 .. Len(t)
    BY <1>3, <1>n
  <2> QED BY <2>1, <1>3, SubSeqRecursiveSecond
<1>6. p \in Seq(Output)
  <2>1. \A k \in 1 .. n - 1 : t[k] \in Output
    BY <1>3, <1>n
  <2>2. n - 1 \in Int
    BY <1>n
  <2> QED BY <2>1, <2>2, SubSeqProperties
<1>7. t[n] \in Output /\ e \in Seq(Output)
  BY <1>3, <1>n
<1> HIDE DEF p, q
<1>8. s \o p \in Seq(Output)
  BY <1>2, <1>6, ConcatProperties
<1>9. Append(s \o p, t[n]) = (s \o p) \o e
  BY <1>7, <1>8, AppendIsConcat
<1>10. (s \o p) \o e = s \o (p \o e)
  BY <1>2, <1>6, <1>7, ConcatAssociative
<1> QED BY <1>4, <1>5, <1>8, <1>9, <1>10 DEF t

\* ... and outputs append nothing.
LEMMA SpendingNext ==
    ASSUME NEW b \in Block, NEW i \in 1 .. Len(Txs[b])
    PROVE  Spending(b, i + 1, 0) = Spending(b, i, Len(Ins[Txs[b][i]]))
<1> DEFINE N == Len(Txs[b])
           s == InsOf(b)[i]
           t == Ins[Txs[b][i]]
           r == IF i + 1 > N THEN <<>> ELSE SubSeq(Ins[Txs[b][i + 1]], 1, 0)
<1>1. N \in Nat /\ i \in 0 .. N /\ ~ (i > N) /\ i + 1 - 1 = i /\ Txs[b][i] \in Tx
  BY BlockFacts
<1>2. s \in Seq(Output) /\ s = InsOf(b)[i - 1] \o t
  BY <1>1, InsOfFacts
<1>3. r = <<>>
  BY SubSeqEmpty
<1>4. t \in Seq(Output)
  BY <1>1, InputFacts
<1>5. Spending(b, i + 1, 0) = s \o r
  BY <1>1 DEF Spending
<1>6. Spending(b, i, Len(t)) = InsOf(b)[i - 1] \o SubSeq(t, 1, Len(t))
  BY <1>1 DEF Spending
<1> HIDE DEF s, t, r
<1>7. SubSeq(t, 1, Len(t)) = t
  BY <1>4, SubSeqFull
<1>8. s \o r = s
  BY <1>2, <1>3, ConcatEmptySeq
<1>9. Spending(b, i + 1, 0) = s
  BY <1>5, <1>8, Zenon
<1>10. Spending(b, i, Len(t)) = s
  BY <1>2, <1>6, <1>7, Zenon
<1> QED BY <1>9, <1>10 DEF t

-----------------------------------------------------------------------------
(* The history of a block and of a chain *)

\* The history of the blocks of c after the n-th.
NewEntries(c, n) == UNION {H!Entries(c[i]) : i \in n + 1 .. Len(c)}

\* The hashXs of a transaction.
LEMMA HashXFacts ==
    ASSUME NEW t \in Tx
    PROVE  /\ InHashXs(t) \in SUBSET HashX /\ OutHashXs(t) \in SUBSET HashX
           /\ Names[t] \in SUBSET HashX /\ Names[t] \subseteq AllNames
           /\ HashXsOf(t) = (InHashXs(t) \cup OutHashXs(t)) \cup Names[t]
<1>1. \A o \in Stored(t) : HashXOf(o) \in HashX
  BY OutputFacts
<1>2. \A n \in 1 .. Len(Ins[t]) : HashXOf(Ins[t][n]) \in HashX
  BY InputFacts, AnyOutput
<1>3. InHashXs(t) \in SUBSET HashX
  BY <1>2 DEF InHashXs
<1>4. OutHashXs(t) \in SUBSET HashX
  BY <1>1 DEF OutHashXs
<1>5. Names[t] \in SUBSET HashX
  BY CoinAssumption
<1>6. Names[t] \subseteq AllNames
  BY DEF AllNames
<1>7. HashXsOf(t) = (InHashXs(t) \cup OutHashXs(t)) \cup Names[t]
  BY DEF HashXsOf, InHashXs, OutHashXs
<1> QED BY <1>3, <1>4, <1>5, <1>6, <1>7

\* Names are hashXs.
LEMMA NamesTyped == AllNames \in SUBSET HashX
BY HashXFacts DEF AllNames

\* An entry of a block is of one of its transactions.
LEMMA EntryOf ==
    ASSUME NEW b \in Block, NEW e
    PROVE  e \in H!Entries(b) <=>
              \E j \in 1 .. Len(Txs[b]) : e \in HashXsOf(Txs[b][j]) \X {TxNum(b, j)}
<1> DEFINE N == Len(Txs[b])
           F == FirstTx[b]
           hs(j) == HashXsOf(Txs[b][j])
<1>1. N \in Nat /\ F \in Nat /\ H!End(b) = F + N
  <2>1. H!End(b) = F + Len(TouchedBy[b])
    BY DEF H!End
  <2> QED BY <2>1, BlockTerms, BlockFacts
<1>2. \A j \in 1 .. N : TouchedBy[b][j] = hs(j) /\ hs(j) \in SUBSET HashX /\ TxNum(b, j) = F + j - 1
  <2> TAKE j \in 1 .. N
  <2>1. TouchedBy[b] = [i \in 1 .. N |-> HashXsOf(Txs[b][i])]
    BY DEF TouchedBy
  <2>2. Txs[b][j] \in Tx
    BY BlockFacts
  <2>3. InHashXs(Txs[b][j]) \in SUBSET HashX /\ OutHashXs(Txs[b][j]) \in SUBSET HashX
        /\ Names[Txs[b][j]] \in SUBSET HashX
        /\ hs(j) = (InHashXs(Txs[b][j]) \cup OutHashXs(Txs[b][j])) \cup Names[Txs[b][j]]
    BY <2>2, HashXFacts
  <2>4. TxNum(b, j) = F + j - 1
    BY DEF TxNum
  <2> QED BY <2>1, <2>3, <2>4
<1>3. e \in H!Entries(b) <=>
         e \in HashX \X (F .. F + N - 1) /\ e[1] \in TouchedBy[b][e[2] - F + 1]
  BY <1>1 DEF H!Entries
<1> HIDE DEF N, F, hs
<1>4. ASSUME e \in H!Entries(b)
      PROVE  \E j \in 1 .. N : e \in hs(j) \X {TxNum(b, j)}
  <2> DEFINE j == e[2] - F + 1
  <2>1. e \in HashX \X (F .. F + N - 1) /\ e[1] \in TouchedBy[b][j]
    BY <1>3, <1>4
  <2>2. e = <<e[1], e[2]>> /\ e[2] \in F .. F + N - 1
    BY <2>1
  <2>3. j \in 1 .. N /\ F + j - 1 = e[2]
    BY <2>2, <1>1
  <2> HIDE DEF j
  <2>4. e[1] \in hs(j) /\ e[2] = TxNum(b, j)
    BY <2>1, <2>3, <1>2
  <2> QED BY <2>2, <2>3, <2>4
<1>5. ASSUME NEW j \in 1 .. N, e \in hs(j) \X {TxNum(b, j)}
      PROVE  e \in H!Entries(b)
  <2>1. e = <<e[1], e[2]>> /\ e[1] \in hs(j) /\ e[2] = F + j - 1
    BY <1>5, <1>2
  <2>2. e[2] \in F .. F + N - 1 /\ e[2] - F + 1 = j
    BY <2>1, <1>1
  <2>3. e[1] \in HashX /\ e[1] \in TouchedBy[b][j]
    BY <2>1, <1>2
  <2>4. e \in HashX \X (F .. F + N - 1)
    BY <2>1, <2>2, <2>3
  <2> QED BY <2>2, <2>3, <2>4, <1>3
<1> QED BY <1>4, <1>5 DEF N, hs

\* What the entries made so far are, and how they grow with an input spent and
\* with the outputs created, to those of the block but for its names.
LEMMA EntriesUpToIs ==
    ASSUME NEW b \in Block, NEW i \in Int, NEW n, NEW e
    PROVE  e \in EntriesUpTo(b, i, n) <=>
              \/ \E j \in 1 .. i - 1 :
                    e \in (InHashXs(Txs[b][j]) \cup OutHashXs(Txs[b][j])) \X {TxNum(b, j)}
              \/ /\ i <= Len(Txs[b])
                 /\ \E k \in 1 .. n : e = <<HashXOf(Ins[Txs[b][i]][k]), TxNum(b, i)>>
<1>1. e \in (UNION {(InHashXs(Txs[b][j]) \cup OutHashXs(Txs[b][j])) \X {TxNum(b, j)} : j \in 1 .. i - 1})
      <=> \E j \in 1 .. i - 1 :
             e \in (InHashXs(Txs[b][j]) \cup OutHashXs(Txs[b][j])) \X {TxNum(b, j)}
  OBVIOUS
<1>2. e \in {HashXOf(Ins[Txs[b][i]][k]) : k \in 1 .. n} \X {TxNum(b, i)}
      <=> \E k \in 1 .. n : e = <<HashXOf(Ins[Txs[b][i]][k]), TxNum(b, i)>>
  OBVIOUS
<1>3. i <= Len(Txs[b]) <=> ~ (i > Len(Txs[b]))
  BY BlockFacts
<1> QED BY <1>1, <1>2, <1>3 DEF EntriesUpTo

\* No history before the first transaction.
LEMMA EntriesStart ==
    ASSUME NEW b \in Block
    PROVE  EntriesUpTo(b, 1, 0) = {}
<1>1. \A e : e \notin EntriesUpTo(b, 1, 0)
  <2> TAKE e
  <2>1. 1 \in Int /\ ~ (\E j \in 1 .. 1 - 1 : TRUE) /\ ~ (\E k \in 1 .. 0 : TRUE)
    OBVIOUS
  <2> QED BY <2>1, EntriesUpToIs
<1> QED BY <1>1

\* An input adds the hashX of the output it spends ...
LEMMA EntriesInput ==
    ASSUME NEW b \in Block, NEW i \in 1 .. Len(Txs[b]), NEW n \in Nat \ {0}
    PROVE  EntriesUpTo(b, i, n) =
              EntriesUpTo(b, i, n - 1) \cup {<<HashXOf(Ins[Txs[b][i]][n]), TxNum(b, i)>>}
<1> DEFINE en(k) == <<HashXOf(Ins[Txs[b][i]][k]), TxNum(b, i)>>
           A == EntriesUpTo(b, i, n)
           B == EntriesUpTo(b, i, n - 1)
           before(e) == \E j \in 1 .. i - 1 :
               e \in (InHashXs(Txs[b][j]) \cup OutHashXs(Txs[b][j])) \X {TxNum(b, j)}
<1>1. i \in Int /\ i <= Len(Txs[b])
  BY BlockFacts
<1>2. \A e : e \in A <=> before(e) \/ \E k \in 1 .. n : e = en(k)
  BY <1>1, EntriesUpToIs
<1>3. \A e : e \in B <=> before(e) \/ \E k \in 1 .. n - 1 : e = en(k)
  BY <1>1, EntriesUpToIs
<1> HIDE DEF en, A, B, before
<1>4. \A k : k \in 1 .. n <=> k \in 1 .. n - 1 \/ k = n
  OBVIOUS
<1>5. A = B \cup {en(n)}
  BY <1>2, <1>3, <1>4
<1> QED BY <1>5 DEF A, B, en

\* ... outputs add theirs ...
LEMMA EntriesOutputs ==
    ASSUME NEW b \in Block, NEW i \in 1 .. Len(Txs[b])
    PROVE  EntriesUpTo(b, i + 1, 0) =
              EntriesUpTo(b, i, Len(Ins[Txs[b][i]])) \cup OutHashXs(Txs[b][i]) \X {TxNum(b, i)}
<1> DEFINE en(k) == <<HashXOf(Ins[Txs[b][i]][k]), TxNum(b, i)>>
           l == Len(Ins[Txs[b][i]])
           A == EntriesUpTo(b, i + 1, 0)
           B == EntriesUpTo(b, i, l)
           of(j) == (InHashXs(Txs[b][j]) \cup OutHashXs(Txs[b][j])) \X {TxNum(b, j)}
           ins == InHashXs(Txs[b][i]) \X {TxNum(b, i)}
           outs == OutHashXs(Txs[b][i]) \X {TxNum(b, i)}
<1>1. i \in Int /\ i + 1 \in Int /\ i + 1 - 1 = i /\ i <= Len(Txs[b]) /\ ~ (\E k \in 1 .. 0 : TRUE)
  BY BlockFacts
<1>2. \A e : e \in A <=> \E j \in 1 .. i : e \in of(j)
  BY <1>1, EntriesUpToIs
<1>3. \A e : e \in B <=> (\E j \in 1 .. i - 1 : e \in of(j)) \/ \E k \in 1 .. l : e = en(k)
  BY <1>1, EntriesUpToIs
<1>4. \A e : e \in ins <=> \E k \in 1 .. l : e = en(k)
  BY DEF InHashXs
<1>5. of(i) = ins \cup outs
  OBVIOUS
<1> HIDE DEF en, A, B, of, ins, outs, l
<1>6. \A j : j \in 1 .. i <=> j \in 1 .. i - 1 \/ j = i
  BY <1>1
<1>7. \A e : e \in A <=> (\E j \in 1 .. i - 1 : e \in of(j)) \/ e \in ins \/ e \in outs
  BY <1>2, <1>5, <1>6
<1>8. \A e : e \in A <=> e \in B \/ e \in outs
  BY <1>3, <1>4, <1>7
<1>9. A = B \cup outs
  BY <1>8
<1> QED BY <1>9 DEF A, B, outs, l

\* ... and with the names the history of the block is complete.
LEMMA EntriesLast ==
    ASSUME NEW b \in Block
    PROVE  H!Entries(b) = EntriesUpTo(b, Len(Txs[b]) + 1, 0)
              \cup UNION {Names[Txs[b][k]] \X {TxNum(b, k)} : k \in 1 .. Len(Txs[b])}
<1> DEFINE N == Len(Txs[b])
           A == EntriesUpTo(b, N + 1, 0)
           of(j) == (InHashXs(Txs[b][j]) \cup OutHashXs(Txs[b][j])) \X {TxNum(b, j)}
           names(j) == Names[Txs[b][j]] \X {TxNum(b, j)}
           all(j) == HashXsOf(Txs[b][j]) \X {TxNum(b, j)}
           U == UNION {names(j) : j \in 1 .. N}
<1>1. N \in Nat /\ N + 1 \in Int /\ N + 1 - 1 = N /\ ~ (\E k \in 1 .. 0 : TRUE)
  BY BlockFacts
<1>2. \A e : e \in A <=> \E j \in 1 .. N : e \in of(j)
  BY <1>1, EntriesUpToIs
<1>3. \A e : e \in H!Entries(b) <=> \E j \in 1 .. N : e \in all(j)
  BY EntryOf
<1>4. \A j \in 1 .. N : all(j) = of(j) \cup names(j)
  <2> TAKE j \in 1 .. N
  <2>1. HashXsOf(Txs[b][j]) = (InHashXs(Txs[b][j]) \cup OutHashXs(Txs[b][j])) \cup Names[Txs[b][j]]
    BY BlockFacts, HashXFacts
  <2> QED BY <2>1
<1> HIDE DEF N, A, of, names, all
<1>5. \A e : e \in U <=> \E j \in 1 .. N : e \in names(j)
  OBVIOUS
<1>6. \A e : e \in H!Entries(b) <=> e \in A \/ e \in U
  BY <1>2, <1>3, <1>4, <1>5
<1> HIDE DEF U
<1>7. H!Entries(b) = A \cup U
  BY <1>6
<1> QED BY <1>7 DEF A, U, N, names

\* Where the hashX of an entry comes from.
LEMMA EntryHashX ==
    ASSUME NEW b \in Block, NEW e \in H!Entries(b)
    PROVE  /\ e = <<e[1], e[2]>> /\ e[1] \in HashX /\ e[2] \in Nat
           /\ \E j \in 1 .. Len(Txs[b]) :
                 \/ e[1] \in InHashXs(Txs[b][j])
                 \/ e[1] \in OutHashXs(Txs[b][j])
                 \/ e[1] \in AllNames
<1>1. PICK j \in 1 .. Len(Txs[b]) : e \in HashXsOf(Txs[b][j]) \X {TxNum(b, j)}
  BY EntryOf
<1>2. e = <<e[1], e[2]>> /\ e[1] \in HashXsOf(Txs[b][j]) /\ e[2] = TxNum(b, j)
  BY <1>1
<1>3. Txs[b][j] \in Tx /\ TxNum(b, j) \in Nat
  BY BlockFacts
<1> DEFINE t == Txs[b][j]
<1>4. /\ InHashXs(t) \in SUBSET HashX /\ OutHashXs(t) \in SUBSET HashX
      /\ Names[t] \in SUBSET HashX /\ Names[t] \subseteq AllNames
      /\ HashXsOf(t) = (InHashXs(t) \cup OutHashXs(t)) \cup Names[t]
  BY <1>3, HashXFacts
<1>5. e[1] \in InHashXs(t) \/ e[1] \in OutHashXs(t) \/ e[1] \in Names[t]
  BY <1>2, <1>4
<1> QED BY <1>2, <1>3, <1>4, <1>5

\* The new entries of a chain that is as long, or that gains a block.
LEMMA NewEntriesIs ==
    ASSUME NEW c, NEW n, NEW e
    PROVE  e \in NewEntries(c, n) <=> \E i \in n + 1 .. Len(c) : e \in H!Entries(c[i])
BY DEF NewEntries

\* No history beyond the end of a chain.
LEMMA NoNewEntries ==
    ASSUME NEW c, Chained(c)
    PROVE  NewEntries(c, Len(c)) = {}
<1>1. Len(c) \in Nat
  BY ChainEnd
<1>2. ~ \E i \in Len(c) + 1 .. Len(c) : TRUE
  BY <1>1
<1> QED BY <1>2, NewEntriesIs

\* A block adds its history to that of the blocks not flushed.
LEMMA NewEntriesGrow ==
    ASSUME NEW c, Chained(c), NEW b \in Block, Prev[b] = H!TipOf(c), NEW n \in 0 .. Len(c)
    PROVE  NewEntries(Append(c, b), n) = NewEntries(c, n) \cup H!Entries(b)
<1> DEFINE d == Append(c, b)
           l == Len(c)
<1>1. l \in Nat /\ Len(d) = l + 1 /\ d[l + 1] = b /\ \A i \in 1 .. l : d[i] = c[i]
  BY ChainEnd, ChainGrows
<1>n. n \in 0 .. l
  OBVIOUS
<1> HIDE DEF d, l
<1>2. \A i : i \in n + 1 .. l + 1 <=> i \in n + 1 .. l \/ i = l + 1
  BY <1>1, <1>n
<1>3. \A i \in n + 1 .. l : d[i] = c[i]
  BY <1>1, <1>n
<1>4. \A e : e \in NewEntries(d, n) <=> \E i \in n + 1 .. l + 1 : e \in H!Entries(d[i])
  BY <1>1, NewEntriesIs
<1>5. \A e : e \in NewEntries(c, n) <=> \E i \in n + 1 .. l : e \in H!Entries(c[i])
  BY NewEntriesIs DEF l
<1>6. \A e : e \in NewEntries(d, n) <=> e \in NewEntries(c, n) \/ e \in H!Entries(b)
  BY <1>1, <1>2, <1>3, <1>4, <1>5
<1>7. NewEntries(d, n) = NewEntries(c, n) \cup H!Entries(b)
  BY <1>6
<1> QED BY <1>7 DEF d

\* A block fewer is kept: its entries are undone as well.
LEMMA OneFewerKept ==
    ASSUME NEW d, Chained(d), NEW n \in 1 .. Len(d), NEW e \in NewEntries(d, n - 1)
    PROVE  e \in NewEntries(d, n) \/ e \in H!Entries(d[n])
<1>1. PICK i \in n - 1 + 1 .. Len(d) : e \in H!Entries(d[i])
  BY NewEntriesIs
<1>2. Len(d) \in Nat
  BY ChainEnd
<1>3. CASE i = n
  BY <1>1, <1>3
<1>4. CASE i # n
  <2>1. i \in n + 1 .. Len(d)
    BY <1>2, <1>4
  <2> QED BY <1>1, <2>1, NewEntriesIs
<1> QED BY <1>3, <1>4

\* The history of a chain is that of its first blocks and the new entries; it
\* is told apart by the number of transactions.
LEMMA HistoryParts ==
    ASSUME NEW c, Chained(c), NEW d, Chained(d), PrefixOf(c, d)
    PROVE  /\ H!HistoryOf(d) = H!HistoryOf(c) \cup NewEntries(d, Len(c))
           /\ H!HistoryOf(c) = {e \in H!HistoryOf(d) : e[2] < H!TxCountOf(c)}
           /\ H!TxCountOf(c) \in Nat
<1>1. /\ Len(c) \in Nat /\ Len(d) \in Nat /\ Len(c) <= Len(d) /\ H!TxCountOf(c) \in Nat
      /\ \A i \in 1 .. Len(c) : c[i] = d[i]
  BY ChainEnd DEF PrefixOf
<1>2. ASSUME NEW b \in Block, NEW e \in H!Entries(b)
      PROVE  e[2] \in Nat /\ FirstTx[b] <= e[2] /\ e[2] < H!End(b)
  <2>1. e[2] \in FirstTx[b] .. H!End(b) - 1
    BY DEF H!Entries
  <2> QED BY <2>1, BlockTerms
<1>3. \A e : e \in H!HistoryOf(d) <=> \E i \in 1 .. Len(d) : e \in H!Entries(d[i])
  BY DEF H!HistoryOf
<1>4. \A e : e \in H!HistoryOf(c) <=> \E i \in 1 .. Len(c) : e \in H!Entries(c[i])
  BY DEF H!HistoryOf
<1>5. \A i : i \in 1 .. Len(d) <=> i \in 1 .. Len(c) \/ i \in Len(c) + 1 .. Len(d)
  BY <1>1
<1>6. \A e : e \in NewEntries(d, Len(c)) <=> \E i \in Len(c) + 1 .. Len(d) : e \in H!Entries(d[i])
  BY NewEntriesIs
<1>7. \A e : (\E i \in 1 .. Len(c) : e \in H!Entries(c[i])) <=> (\E i \in 1 .. Len(c) : e \in H!Entries(d[i]))
  BY <1>1
<1>8. \A e : e \in H!HistoryOf(d) <=> e \in H!HistoryOf(c) \/ e \in NewEntries(d, Len(c))
  BY <1>3, <1>4, <1>5, <1>6, <1>7
<1>9. ASSUME NEW e \in H!HistoryOf(c)
      PROVE  e[2] < H!TxCountOf(c)
  <2>1. PICK i \in 1 .. Len(c) : e \in H!Entries(c[i])
    BY <1>4
  <2>2. c[i] \in Block /\ H!End(c[i]) <= H!TxCountOf(c) /\ H!End(c[i]) \in Nat
    BY ChainEnd, BlockTerms
  <2> QED BY <2>1, <2>2, <1>1, <1>2
<1>10. ASSUME NEW e \in NewEntries(d, Len(c))
       PROVE  ~ (e[2] < H!TxCountOf(c))
  <2>1. PICK i \in Len(c) + 1 .. Len(d) : e \in H!Entries(d[i])
    BY <1>6
  <2>2. H!TxCountOf(c) <= FirstTx[d[i]]
    BY BeyondPrefix
  <2>3. d[i] \in Block /\ FirstTx[d[i]] \in Nat
    BY <1>1, ChainEnd, BlockTerms
  <2> QED BY <2>1, <2>2, <2>3, <1>1, <1>2
<1> QED BY <1>1, <1>8, <1>9, <1>10

-----------------------------------------------------------------------------
(* The inductive invariant *)

\* The keys and the rows of a coin.
HKeyOf(c) == <<Short[c.out[1]], c.out[2], c.tx_num>>
UKeyOf(c) == <<HashXOf(c.out), c.out[2], c.tx_num>>
KeysOf(c) == <<HKeyOf(c), UKeyOf(c)>>
HRow(c) == [short |-> Short[c.out[1]], idx |-> c.out[2],
            tx_num |-> c.tx_num, hashX |-> HashXOf(c.out)]
URow(c) == [hashX |-> HashXOf(c.out), idx |-> c.out[2],
            tx_num |-> c.tx_num, value |-> c.out]

Ahead == {"idle", "advance", "advanced"}
Behind == {"reorg", "chunk", "undo", "backup"}

\* The amounts in the table are those of outputs, and outputs are cached.
ValuesTyped ==
    /\ \A u \in u_table : u.value \in Output
    /\ DOMAIN utxo_cache \subseteq Output

\* Both chains are chains of valid blocks, not above what has been seen.
ChainsValid ==
    /\ Chained(chain) /\ Chained(db_chain)
    /\ \A i \in 1 .. Len(chain) : Valid(chain[i], ltor)
    /\ \A i \in 1 .. Len(db_chain) : Valid(db_chain[i], ltor)
    /\ seen >= -1 /\ Len(chain) <= seen + 1 /\ Len(db_chain) <= seen + 1

\* The index is flushed when a reorg starts, and again after each chunk.
ChainsRelated ==
    /\ pc \in Ahead => PrefixOf(db_chain, chain)
    /\ pc \in Behind => PrefixOf(chain, db_chain)
    /\ pc = "advanced" => chain # db_chain
    /\ pc = "reorg" => chain = db_chain
    /\ pc \in {"idle", "reorg"} /\ chain = db_chain =>
           /\ utxo_cache = <<>> /\ db_deletes = {}
           /\ undo_infos = <<>> /\ unflushed = {}
    /\ pc \in Ahead => DOMAIN undo_infos \subseteq Len(db_chain) .. Len(chain) - 1
    /\ pc \in Behind => undo_infos = <<>> /\ unflushed = {}
    /\ pc = "down" => /\ utxo_cache = <<>> /\ db_deletes = {} /\ undo_infos = <<>>
                      /\ unflushed = {} /\ touched = {}

\* Where advance_block and backup_block are in their block.
AtWork ==
    /\ pc = "advance" =>
        /\ block \in Block /\ Prev[block] = tip /\ Valid(block, ltor)
        /\ cur_tx \in 1 .. Len(Txs[block]) + 1
        /\ cur_tx <= Len(Txs[block]) => cur_io \in 1 .. Len(Ins[txid]) + 1
        /\ cur_tx > Len(Txs[block]) => cur_io = 1
        /\ Len(chain) <= seen /\ min_height <= seen - ReorgLimit + 1
    /\ pc = "undo" =>
        /\ block = tip
        /\ cur_tx \in IF ltor THEN 1 .. Len(Txs[block]) + 1 ELSE 0 .. Len(Txs[block])
        /\ cur_tx \in 1 .. Len(Txs[block]) => cur_io \in 1 .. Len(Outs[txid]) + 1
        /\ cur_tx \notin 1 .. Len(Txs[block]) => cur_io = 1
        /\ ~deep => height > seen - ReorgLimit

\* What is left of a reorg; it never reaches genesis.
ReorgLeft ==
    /\ pc \in Behind => todo < Len(chain)
    /\ pc \in {"chunk", "undo"} => chunk \in 1 .. todo
    /\ pc = "backup" => chunk = 0
    /\ pc \in {"chunk", "undo"} /\ from_disk =>
           Len(chain) - chunk .. Len(chain) - 1 \subseteq DOMAIN raw_files

\* Near the tip the raw blocks are those of the chain.
RawKept ==
    \A c \in {chain, db_chain} : \A h \in 0 .. Len(c) - 1 :
        h > seen - ReorgLimit /\ h \in DOMAIN raw_files => raw_files[h] = c[h + 1]

\* Near the tip there is undo info, on disk and for what is not flushed.
UndoKept ==
    /\ \A h \in 0 .. Len(db_chain) - 1 : h > seen - ReorgLimit =>
           /\ h \in DOMAIN undo_table
           /\ undo_table[h] = UndoItems(db_chain[h + 1], SpentBy(db_chain[h + 1]))
    /\ pc \in Ahead => \A h \in Len(db_chain) .. Len(chain) - 1 : h > seen - ReorgLimit =>
           /\ h \in DOMAIN undo_infos
           /\ undo_infos[h] = UndoItems(chain[h + 1], SpentBy(chain[h + 1]))

\* The undo info being collected, or used up.
UndoAtWork ==
    /\ pc = "advance" => undo = UndoItems(block, Spending(block, cur_tx, cur_io - 1))
    /\ pc = "undo" => undo = IF ltor THEN <<>> ELSE UndoItems(block, InsOf(block)[cur_tx])

\* The cache, and the tables without what is marked for deletion, hold these
\* coins, each once.
CoinsIn(cache) == {Coin(o, cache[o].tx_num) : o \in DOMAIN cache}
KeptFrom(flushed, deletes) == {c \in UnspentAt(H!TipOf(flushed)) : KeysOf(c) \notin deletes}
Holds(flushed, cache, deletes, coins) ==
    /\ \A o \in DOMAIN cache : cache[o].hashX = HashXOf(o) /\ cache[o].value = o
    /\ deletes \subseteq {KeysOf(c) : c \in UnspentAt(H!TipOf(flushed))}
    /\ CoinsIn(cache) \cup KeptFrom(flushed, deletes) = coins
    /\ \A c \in KeptFrom(flushed, deletes) : c.out \notin DOMAIN cache

CoinsHeld ==
    /\ pc = "advance" =>
           Holds(db_chain, utxo_cache, db_deletes, Midway(block, cur_tx, cur_io - 1, ltor))
    /\ pc = "undo" =>
           Holds(db_chain, utxo_cache, db_deletes, Backway(block, cur_tx, cur_io, ltor))
    /\ pc \notin {"down", "failed", "advance", "undo"} =>
           Holds(db_chain, utxo_cache, db_deletes, UnspentAt(tip))

\* The history not flushed is that of the blocks not flushed, and of what has
\* been done of the next one.
HistoryAhead ==
    /\ pc \in {"idle", "advanced"} => unflushed = NewEntries(chain, Len(db_chain))
    /\ pc = "advance" =>
           unflushed = NewEntries(chain, Len(db_chain))
                       \cup EntriesUpTo(block, cur_tx, cur_io - 1)

\* All history of the blocks that have been undone will be looked for, and that
\* of what has been undone of the next one.
HistoryBehind ==
    /\ pc \in Behind => \A e \in NewEntries(db_chain, Len(chain)) : e[1] \in touched \cup AllNames
    /\ pc = "undo" =>
        /\ \A j \in 1 .. Len(Txs[block]) :
              /\ ltor \/ j > cur_tx => InHashXs(Txs[block][j]) \subseteq touched
              /\ (ltor /\ j < cur_tx) \/ (~ltor /\ j > cur_tx) =>
                    OutHashXs(Txs[block][j]) \subseteq touched
        /\ cur_tx \in 1 .. Len(Txs[block]) =>
              \A o \in Stored(txid) : o[2] < cur_io => HashXOf(o) \in touched

\* All that depends on undo info being there.
Exact ==
    /\ TablesExact /\ HistoryExact
    /\ UndoKept /\ UndoAtWork /\ CoinsHeld /\ HistoryAhead /\ HistoryBehind

Safe == TypeOK /\ ValuesTyped /\ ChainsValid /\ ChainsRelated /\ AtWork /\ ReorgLeft /\ RawKept
IInv == Safe /\ (~deep => Exact)

-----------------------------------------------------------------------------
(* The coins that are held *)

\* The cache entry and the undo info of a coin.
ItemOf(c) == [hashX |-> HashXOf(c.out), tx_num |-> c.tx_num, value |-> c.out]

\* The coins left by a chain: each has its keys to itself, and its number leads
\* fs_tx_hash to its transaction.
LEMMA TableCoins ==
    ASSUME NEW c, Chained(c)
    PROVE  LET U == UnspentAt(H!TipOf(c)) IN
           /\ OnePerOutput(U) /\ ProperCoins(U)
           /\ \A d \in U : /\ d.tx_num < H!TxCountOf(c)
                           /\ LET p == H!TxNumbered(c, d.tx_num) IN Txs[p[1]][p[2]] = d.out[1]
           /\ \A d, e \in U : d.tx_num = e.tx_num /\ d.out[2] = e.out[2] => d = e
           /\ \A d, e \in U : HKeyOf(d) = HKeyOf(e) \/ UKeyOf(d) = UKeyOf(e) => d = e
<1> DEFINE U == UnspentAt(H!TipOf(c))
<1>1. /\ \A d \in U : CoinOf(d, c)
      /\ OnePerOutput(U)
  BY CoinsOfChain
<1> HIDE DEF U
<1>2. \A d \in U :
        /\ d = Coin(d.out, d.tx_num) /\ d.out \in Output
        /\ d.tx_num \in Nat /\ d.tx_num < H!TxCountOf(c)
        /\ LET p == H!TxNumbered(c, d.tx_num) IN Txs[p[1]][p[2]] = d.out[1]
  BY <1>1, CoinFacts
<1>3. \A d, e \in U : d.tx_num = e.tx_num /\ d.out[2] = e.out[2] => d = e
  BY <1>1, SameCoin
<1>4. \A d, e \in U : HKeyOf(d) = HKeyOf(e) \/ UKeyOf(d) = UKeyOf(e) => d = e
  <2> TAKE d \in U, e \in U
  <2>1. HKeyOf(d) = HKeyOf(e) => d.tx_num = e.tx_num /\ d.out[2] = e.out[2]
    BY DEF HKeyOf
  <2>2. UKeyOf(d) = UKeyOf(e) => d.tx_num = e.tx_num /\ d.out[2] = e.out[2]
    BY DEF UKeyOf
  <2> QED BY <2>1, <2>2, <1>3
<1>5. ProperCoins(U)
  BY <1>2 DEF ProperCoins
<1> QED BY <1>1, <1>2, <1>3, <1>4, <1>5 DEF U

\* The tables of a chain.
TablesOf(coins) ==
    /\ h_table = {HRow(c) : c \in coins}
    /\ u_table = {URow(c) : c \in coins}

\* The tables in the words of the lemmas below.
LEMMA TablesAre ==
    ASSUME TablesExact, ~deep
    PROVE  TablesOf(UnspentAt(H!TipOf(db_chain)))
BY DEF TablesExact, TablesOf, HRow, URow

\* A coin that is held is either cached or in the tables and not marked.
LEMMA HeldCoin ==
    ASSUME NEW flushed, NEW cache, NEW deletes, NEW coins, Holds(flushed, cache, deletes, coins),
           OnePerOutput(coins), NEW d \in coins
    PROVE  IF d.out \in DOMAIN cache
           THEN /\ cache[d.out].hashX = HashXOf(d.out) /\ cache[d.out].value = d.out
                /\ cache[d.out].tx_num = d.tx_num
                /\ d \notin KeptFrom(flushed, deletes)
           ELSE d \in KeptFrom(flushed, deletes)
<1>1. CASE d.out \in DOMAIN cache
  <2> DEFINE e == Coin(d.out, cache[d.out].tx_num)
  <2>1. e \in CoinsIn(cache)
    BY <1>1 DEF CoinsIn
  <2>2. e \in coins
    BY <2>1 DEF Holds
  <2>3. e.out = d.out /\ e.tx_num = cache[d.out].tx_num
    BY DEF Coin
  <2> HIDE DEF e
  <2>4. e = d
    BY <2>2, <2>3 DEF OnePerOutput
  <2>5. d \notin KeptFrom(flushed, deletes)
    BY <1>1 DEF Holds
  <2>6. cache[d.out].hashX = HashXOf(d.out) /\ cache[d.out].value = d.out
    BY <1>1 DEF Holds
  <2> QED BY <1>1, <2>3, <2>4, <2>5, <2>6
<1>2. CASE d.out \notin DOMAIN cache
  <2>1. d \in CoinsIn(cache) \/ d \in KeptFrom(flushed, deletes)
    BY DEF Holds
  <2>2. d \notin CoinsIn(cache)
    <3> SUFFICES ASSUME d \in CoinsIn(cache)
                 PROVE  FALSE
      OBVIOUS
    <3>1. PICK o \in DOMAIN cache : d = Coin(o, cache[o].tx_num)
      BY DEF CoinsIn
    <3>2. d.out = o
      BY <3>1 DEF Coin
    <3> QED BY <3>1, <3>2, <1>2
  <2> QED BY <1>2, <2>1, <2>2
<1> QED BY <1>1, <1>2

\* spend_utxo of the output of a coin that is not cached finds its two rows
\* and no others, whichever hashes share their first bytes.
LEMMA InTablesIs ==
    ASSUME Chained(db_chain), TablesOf(UnspentAt(H!TipOf(db_chain))),
           NEW d \in UnspentAt(H!TipOf(db_chain))
    PROVE  InTables(d.out) = {<<HRow(d), URow(d)>>}
<1> DEFINE U == UnspentAt(H!TipOf(db_chain))
           o == d.out
           C == Candidates(o)
           good(p) == /\ C # {p[1]} => FsTxHash(p[1].tx_num) = o[1]
                      /\ SameKey(p[1], p[2])
<1>1. /\ ProperCoins(U)
      /\ \A e \in U : /\ e.tx_num < H!TxCountOf(db_chain)
                      /\ LET p == H!TxNumbered(db_chain, e.tx_num) IN Txs[p[1]][p[2]] = e.out[1]
      /\ \A e, f \in U : e.tx_num = f.tx_num /\ e.out[2] = f.out[2] => e = f
      /\ OnePerOutput(U)
  BY TableCoins
<1>2. /\ h_table = {HRow(e) : e \in U} /\ u_table = {URow(e) : e \in U} /\ d \in U
  BY DEF TablesOf
<1> HIDE DEF U
<1>3. \A e \in U : FsTxHash(e.tx_num) = e.out[1]
  BY <1>1 DEF FsTxHash
<1>4. HRow(d) \in C
  <2>1. HRow(d).short = Short[o[1]] /\ HRow(d).idx = o[2]
    BY DEF HRow
  <2> QED BY <1>2, <2>1 DEF Candidates
<1>5. \A r \in C : \E e \in U : r = HRow(e) /\ e.out[2] = o[2]
  <2> TAKE r \in C
  <2>1. r \in h_table /\ r.idx = o[2]
    BY DEF Candidates
  <2>2. PICK e \in U : r = HRow(e)
    BY <2>1, <1>2
  <2>3. HRow(e).idx = e.out[2]
    BY DEF HRow
  <2> QED BY <2>1, <2>2, <2>3
<1>6. URow(d) \in u_table
  BY <1>2
<1>7. InTables(o) = {p \in C \X u_table : good(p)}
  BY DEF InTables
<1>8. ASSUME NEW p \in C \X u_table, good(p)
      PROVE  p = <<HRow(d), URow(d)>>
  <2>1. p = <<p[1], p[2]>> /\ p[1] \in C /\ p[2] \in u_table
    BY <1>8
  <2>2. PICK e \in U : p[1] = HRow(e) /\ e.out[2] = o[2]
    BY <2>1, <1>5
  <2>3. PICK f \in U : p[2] = URow(f)
    BY <2>1, <1>2
  <2>4. p[1] = HRow(d)
    <3>1. CASE C = {p[1]}
      BY <3>1, <1>4
    <3>2. CASE C # {p[1]}
      <4>1. FsTxHash(p[1].tx_num) = o[1]
        BY <3>2, <1>8
      <4>2. p[1].tx_num = e.tx_num
        BY <2>2 DEF HRow
      <4>3. e.out[1] = o[1]
        BY <4>1, <4>2, <1>3
      <4>4. e.out \in Output /\ o \in Output
        BY <1>1, <1>2 DEF ProperCoins
      <4>5. e.out = o
        BY <4>3, <4>4, <2>2, AnyOutput
      <4>6. e = d
        BY <4>5, <1>1, <1>2 DEF OnePerOutput
      <4> QED BY <4>6, <2>2
    <3> QED BY <3>1, <3>2
  <2>5. /\ p[2].idx = p[1].idx /\ p[2].tx_num = p[1].tx_num
    BY <1>8 DEF SameKey
  <2>6. f.out[2] = d.out[2] /\ f.tx_num = d.tx_num
    BY <2>3, <2>4, <2>5 DEF HRow, URow
  <2>7. f = d
    BY <2>6, <1>1, <1>2
  <2> QED BY <2>1, <2>3, <2>4, <2>7
<1>9. /\ <<HRow(d), URow(d)>> \in C \X u_table
      /\ good(<<HRow(d), URow(d)>>)
  <2>1. <<HRow(d), URow(d)>> \in C \X u_table
    BY <1>4, <1>6
  <2>2. SameKey(HRow(d), URow(d))
    BY DEF SameKey, HRow, URow
  <2>3. HRow(d).tx_num = d.tx_num
    BY DEF HRow
  <2>4. FsTxHash(HRow(d).tx_num) = o[1]
    BY <2>3, <1>3, <1>2
  <2> QED BY <2>1, <2>2, <2>4
<1> HIDE DEF good, C
<1>10. InTables(o) = {<<HRow(d), URow(d)>>}
  BY <1>7, <1>8, <1>9
<1> QED BY <1>10

\* spend_utxo finds every coin that is held, with the right hashX, number and
\* value.
LEMMA FoundIs ==
    ASSUME NEW coins, Holds(db_chain, utxo_cache, db_deletes, coins), OnePerOutput(coins),
           NEW d \in coins,
           \A o \in DOMAIN utxo_cache : utxo_cache[o] \in Item,
           Chained(db_chain), TablesOf(UnspentAt(H!TipOf(db_chain)))
    PROVE  Found(d.out) =
              {[item |-> ItemOf(d),
                keys |-> IF d.out \in DOMAIN utxo_cache THEN {} ELSE {KeysOf(d)}]}
<1> DEFINE o == d.out
<1>1. CASE o \in DOMAIN utxo_cache
  <2>1. /\ utxo_cache[o].hashX = HashXOf(o) /\ utxo_cache[o].value = o
        /\ utxo_cache[o].tx_num = d.tx_num
    BY <1>1, HeldCoin
  <2>2. utxo_cache[o] \in Item
    BY <1>1
  <2>3. utxo_cache[o] = ItemOf(d)
    BY <2>1, <2>2 DEF Item, ItemOf
  <2>4. Found(o) = {[item |-> utxo_cache[o], keys |-> {}]}
    BY <1>1 DEF Found
  <2> QED BY <1>1, <2>3, <2>4
<1>2. CASE o \notin DOMAIN utxo_cache
  <2> DEFINE F(p) == [item |-> [hashX |-> p[1].hashX, tx_num |-> p[1].tx_num, value |-> p[2].value],
                      keys |-> {<<HKey(p[1]), UKey(p[2])>>}]
             q == <<HRow(d), URow(d)>>
  <2>1. d \in KeptFrom(db_chain, db_deletes)
    BY <1>2, HeldCoin
  <2>2. d \in UnspentAt(H!TipOf(db_chain))
    BY <2>1 DEF KeptFrom
  <2>3. InTables(o) = {q}
    BY <2>2, InTablesIs
  <2>4. Found(o) = {F(p) : p \in InTables(o)}
    BY <1>2 DEF Found
  <2>5. F(q) = [item |-> ItemOf(d), keys |-> {KeysOf(d)}]
    BY DEF HRow, URow, HKey, UKey, KeysOf, HKeyOf, UKeyOf, ItemOf
  <2> HIDE DEF F, q
  <2>6. Found(o) = {F(q)}
    BY <2>3, <2>4
  <2> QED BY <2>5, <2>6, <1>2
<1> QED BY <1>1, <1>2

\* Spending a coin leaves the others.
LEMMA SpendHolds ==
    ASSUME NEW flushed, NEW cache, NEW deletes, NEW coins, Holds(flushed, cache, deletes, coins),
           OnePerOutput(coins), NEW d \in coins, Chained(flushed)
    PROVE  Holds(flushed, [p \in DOMAIN cache \ {d.out} |-> cache[p]],
                 deletes \cup (IF d.out \in DOMAIN cache THEN {} ELSE {KeysOf(d)}),
                 coins \ {d})
<1> DEFINE o == d.out
           U == UnspentAt(H!TipOf(flushed))
           cache2 == [p \in DOMAIN cache \ {o} |-> cache[p]]
           keys == IF o \in DOMAIN cache THEN {} ELSE {KeysOf(d)}
           deletes2 == deletes \cup keys
<1>1. /\ \A p \in DOMAIN cache : cache[p].hashX = HashXOf(p) /\ cache[p].value = p
      /\ deletes \subseteq {KeysOf(c) : c \in U}
      /\ CoinsIn(cache) \cup KeptFrom(flushed, deletes) = coins
      /\ \A c \in KeptFrom(flushed, deletes) : c.out \notin DOMAIN cache
  BY DEF Holds
<1>2. \A e, f \in U : KeysOf(e) = KeysOf(f) => e = f
  BY TableCoins DEF KeysOf
<1>3. /\ o \in DOMAIN cache => d \notin KeptFrom(flushed, deletes)
      /\ o \notin DOMAIN cache => d \in KeptFrom(flushed, deletes)
  BY HeldCoin
<1>4. \A c : c \in KeptFrom(flushed, deletes) <=> c \in U /\ KeysOf(c) \notin deletes
  BY DEF KeptFrom
<1>5. \A c : c \in KeptFrom(flushed, deletes2) <=> c \in U /\ KeysOf(c) \notin deletes2
  BY DEF KeptFrom
<1>6. \A c : c \in KeptFrom(flushed, deletes2) <=> c \in KeptFrom(flushed, deletes) /\ c # d
  BY <1>2, <1>3, <1>4, <1>5
<1>7. DOMAIN cache2 = DOMAIN cache \ {o} /\ \A p \in DOMAIN cache2 : cache2[p] = cache[p]
  OBVIOUS
<1> HIDE DEF cache2
<1>8. \A c : c \in CoinsIn(cache2) <=> c \in CoinsIn(cache) /\ c # d
  <2> TAKE c
  <2>1. ASSUME c \in CoinsIn(cache2)
        PROVE  c \in CoinsIn(cache) /\ c # d
    <3>1. PICK p \in DOMAIN cache2 : c = Coin(p, cache2[p].tx_num)
      BY <2>1 DEF CoinsIn
    <3>2. p \in DOMAIN cache /\ p # o /\ c = Coin(p, cache[p].tx_num) /\ c.out = p
      BY <3>1, <1>7 DEF Coin
    <3> QED BY <3>2 DEF CoinsIn
  <2>2. ASSUME c \in CoinsIn(cache), c # d
        PROVE  c \in CoinsIn(cache2)
    <3>1. PICK p \in DOMAIN cache : c = Coin(p, cache[p].tx_num)
      BY <2>2 DEF CoinsIn
    <3>2. c.out = p /\ c \in coins
      BY <3>1, <2>2, <1>1 DEF Coin
    <3>3. p # o
      BY <3>2, <2>2 DEF OnePerOutput
    <3>4. p \in DOMAIN cache2 /\ c = Coin(p, cache2[p].tx_num)
      BY <3>1, <3>3, <1>7
    <3> QED BY <3>4 DEF CoinsIn
  <2> QED BY <2>1, <2>2
<1>9. deletes2 \subseteq {KeysOf(c) : c \in U}
  BY <1>1, <1>3, <1>4
<1> HIDE DEF deletes2
<1>10. CoinsIn(cache2) \cup KeptFrom(flushed, deletes2) = coins \ {d}
  BY <1>1, <1>6, <1>8
<1>11. \A c \in KeptFrom(flushed, deletes2) : c.out \notin DOMAIN cache2
  BY <1>1, <1>6, <1>7
<1>12. \A p \in DOMAIN cache2 : cache2[p].hashX = HashXOf(p) /\ cache2[p].value = p
  BY <1>1, <1>7
<1>13. Holds(flushed, cache2, deletes2, coins \ {d})
  BY <1>9, <1>10, <1>11, <1>12 DEF Holds
<1> QED BY <1>13 DEF cache2, deletes2

\* Putting new coins into the cache adds them.
LEMMA PutHolds ==
    ASSUME NEW flushed, NEW cache, NEW deletes, NEW coins, Holds(flushed, cache, deletes, coins),
           NEW new,
           \A o \in DOMAIN new : new[o].hashX = HashXOf(o) /\ new[o].value = o,
           \A c \in coins : c.out \notin DOMAIN new
    PROVE  Holds(flushed, Put(cache, new), deletes, coins \cup CoinsIn(new))
<1> DEFINE put == Put(cache, new)
           more == CoinsIn(new)
           U == UnspentAt(H!TipOf(flushed))
<1>1. /\ \A p \in DOMAIN cache : cache[p].hashX = HashXOf(p) /\ cache[p].value = p
      /\ deletes \subseteq {KeysOf(c) : c \in U}
      /\ CoinsIn(cache) \cup KeptFrom(flushed, deletes) = coins
      /\ \A c \in KeptFrom(flushed, deletes) : c.out \notin DOMAIN cache
  BY DEF Holds
<1>2. /\ DOMAIN put = DOMAIN cache \cup DOMAIN new
      /\ \A o \in DOMAIN new : put[o] = new[o]
      /\ \A o \in DOMAIN cache \ DOMAIN new : put[o] = cache[o]
  BY DEF Put
<1> HIDE DEF put
<1>3. \A c \in CoinsIn(cache) : \E o \in DOMAIN cache \ DOMAIN new : c = Coin(o, cache[o].tx_num)
  <2> TAKE c \in CoinsIn(cache)
  <2>1. PICK o \in DOMAIN cache : c = Coin(o, cache[o].tx_num)
    BY DEF CoinsIn
  <2>2. c.out = o /\ c \in coins
    BY <2>1, <1>1 DEF Coin
  <2> QED BY <2>1, <2>2
<1>4. DOMAIN cache \cap DOMAIN new = {}
  <2>1. \A o \in DOMAIN cache : o \notin DOMAIN new
    <3> TAKE o \in DOMAIN cache
    <3>1. Coin(o, cache[o].tx_num) \in coins
      BY <1>1 DEF CoinsIn
    <3>2. Coin(o, cache[o].tx_num).out = o
      BY DEF Coin
    <3> QED BY <3>1, <3>2
  <2> QED BY <2>1
<1>5. CoinsIn(put) = CoinsIn(cache) \cup more
  <2>1. ASSUME NEW c \in CoinsIn(put)
        PROVE  c \in CoinsIn(cache) \/ c \in more
    <3>1. PICK o \in DOMAIN put : c = Coin(o, put[o].tx_num)
      BY DEF CoinsIn
    <3>2. CASE o \in DOMAIN new
      BY <3>1, <3>2, <1>2 DEF CoinsIn
    <3>3. CASE o \notin DOMAIN new
      <4>1. o \in DOMAIN cache /\ c = Coin(o, cache[o].tx_num)
        BY <3>1, <3>3, <1>2
      <4> QED BY <4>1 DEF CoinsIn
    <3> QED BY <3>2, <3>3
  <2>2. ASSUME NEW c \in CoinsIn(cache)
        PROVE  c \in CoinsIn(put)
    <3>1. PICK o \in DOMAIN cache \ DOMAIN new : c = Coin(o, cache[o].tx_num)
      BY <1>3
    <3>2. o \in DOMAIN put /\ c = Coin(o, put[o].tx_num)
      BY <3>1, <1>2
    <3> QED BY <3>2 DEF CoinsIn
  <2>3. ASSUME NEW c \in more
        PROVE  c \in CoinsIn(put)
    <3>1. PICK o \in DOMAIN new : c = Coin(o, new[o].tx_num)
      BY <2>3 DEF CoinsIn
    <3>2. o \in DOMAIN put /\ c = Coin(o, put[o].tx_num)
      BY <3>1, <1>2
    <3> QED BY <3>2 DEF CoinsIn
  <2> QED BY <2>1, <2>2, <2>3
<1>6. CoinsIn(put) \cup KeptFrom(flushed, deletes) = coins \cup more
  BY <1>1, <1>5
<1>7. \A c \in KeptFrom(flushed, deletes) : c.out \notin DOMAIN put
  BY <1>1, <1>2
<1>8. \A p \in DOMAIN put : put[p].hashX = HashXOf(p) /\ put[p].value = p
  BY <1>1, <1>2
<1>9. Holds(flushed, put, deletes, coins \cup more)
  BY <1>1, <1>6, <1>7, <1>8 DEF Holds
<1> QED BY <1>9 DEF put

\* Nothing cached and nothing marked: the coins are those of the tables.
LEMMA NothingCached ==
    ASSUME NEW flushed
    PROVE  Holds(flushed, <<>>, {}, UnspentAt(H!TipOf(flushed)))
<1>1. DOMAIN <<>> = {}
  OBVIOUS
<1>2. CoinsIn(<<>>) = {}
  BY <1>1 DEF CoinsIn
<1>3. KeptFrom(flushed, {}) = UnspentAt(H!TipOf(flushed))
  BY DEF KeptFrom
<1> QED BY <1>1, <1>2, <1>3 DEF Holds

\* flush_utxo_db makes the tables those of the chain: the keys it deletes are
\* those of rows that are gone, and none of a row that stays.
LEMMA FlushTables ==
    ASSUME Chained(chain), Chained(db_chain),
           TablesOf(UnspentAt(H!TipOf(db_chain))),
           Holds(db_chain, utxo_cache, db_deletes, UnspentAt(H!TipOf(chain))),
           FlushUtxoDb
    PROVE  /\ h_table' = {HRow(c) : c \in UnspentAt(H!TipOf(chain))}
           /\ u_table' = {URow(c) : c \in UnspentAt(H!TipOf(chain))}
<1> DEFINE U == UnspentAt(H!TipOf(db_chain))
           V == UnspentAt(H!TipOf(chain))
           C == CoinsIn(utxo_cache)
           K == KeptFrom(db_chain, db_deletes)
           hrows == {[short |-> Short[o[1]], idx |-> o[2], tx_num |-> utxo_cache[o].tx_num,
                      hashX |-> utxo_cache[o].hashX] : o \in DOMAIN utxo_cache}
           urows == {[hashX |-> utxo_cache[o].hashX, idx |-> o[2],
                      tx_num |-> utxo_cache[o].tx_num, value |-> utxo_cache[o].value] :
                         o \in DOMAIN utxo_cache}
           hkeys == {d[1] : d \in db_deletes} \cup {HKey(r) : r \in hrows}
           ukeys == {d[2] : d \in db_deletes} \cup {UKey(u) : u \in urows}
<1>1. /\ h_table' = {r \in h_table : HKey(r) \notin hkeys} \cup hrows
      /\ u_table' = {u \in u_table : UKey(u) \notin ukeys} \cup urows
  BY DEF FlushUtxoDb, MarkedForDeletion
<1>2. h_table = {HRow(c) : c \in U} /\ u_table = {URow(c) : c \in U}
  BY DEF TablesOf
<1>3. /\ \A p \in DOMAIN utxo_cache : utxo_cache[p].hashX = HashXOf(p) /\ utxo_cache[p].value = p
      /\ db_deletes \subseteq {KeysOf(c) : c \in U}
      /\ C \cup K = V
      /\ \A c \in K : c.out \notin DOMAIN utxo_cache
  BY DEF Holds
<1>4. \A c \in C : \E o \in DOMAIN utxo_cache : c = Coin(o, utxo_cache[o].tx_num) /\ c.out = o
  BY DEF CoinsIn, Coin
<1>5. \A o \in DOMAIN utxo_cache : Coin(o, utxo_cache[o].tx_num) \in C
  BY DEF CoinsIn
<1>6. \A c : c \in K <=> c \in U /\ KeysOf(c) \notin db_deletes
  BY DEF KeptFrom
<1>7. /\ \A d, e \in U : HKeyOf(d) = HKeyOf(e) \/ UKeyOf(d) = UKeyOf(e) => d = e
      /\ \A d, e \in V : HKeyOf(d) = HKeyOf(e) \/ UKeyOf(d) = UKeyOf(e) => d = e
  BY TableCoins
<1>8. \A c : /\ HKey(HRow(c)) = HKeyOf(c) /\ UKey(URow(c)) = UKeyOf(c)
             /\ KeysOf(c)[1] = HKeyOf(c) /\ KeysOf(c)[2] = UKeyOf(c)
             /\ KeysOf(c) = <<HKeyOf(c), UKeyOf(c)>>
  BY DEF HKey, UKey, HRow, URow, KeysOf, HKeyOf, UKeyOf
<1>9. hrows = {HRow(c) : c \in C} /\ urows = {URow(c) : c \in C}
  <2> DEFINE hrow(o) == [short |-> Short[o[1]], idx |-> o[2], tx_num |-> utxo_cache[o].tx_num,
                         hashX |-> utxo_cache[o].hashX]
             urow(o) == [hashX |-> utxo_cache[o].hashX, idx |-> o[2],
                         tx_num |-> utxo_cache[o].tx_num, value |-> utxo_cache[o].value]
             coin(o) == Coin(o, utxo_cache[o].tx_num)
  <2>1. \A o \in DOMAIN utxo_cache : hrow(o) = HRow(coin(o)) /\ urow(o) = URow(coin(o))
    BY <1>3 DEF HRow, URow, Coin
  <2>2. hrows = {hrow(o) : o \in DOMAIN utxo_cache} /\ urows = {urow(o) : o \in DOMAIN utxo_cache}
    OBVIOUS
  <2>3. C = {coin(o) : o \in DOMAIN utxo_cache}
    BY DEF CoinsIn
  <2> HIDE DEF hrow, urow, coin, hrows, urows, C
  <2> QED BY <2>1, <2>2, <2>3
<1> HIDE DEF U, V, C, K
<1>10. \A c \in K : HKeyOf(c) \notin hkeys /\ UKeyOf(c) \notin ukeys
  <2> TAKE c \in K
  <2>1. c \in U /\ KeysOf(c) \notin db_deletes /\ c \in V
    BY <1>3, <1>6
  <2>2. \A d \in db_deletes : d[1] # HKeyOf(c) /\ d[2] # UKeyOf(c)
    <3> TAKE d \in db_deletes
    <3>1. PICK e \in U : d = KeysOf(e)
      BY <1>3
    <3>2. d[1] = HKeyOf(e) /\ d[2] = UKeyOf(e) /\ e # c
      BY <3>1, <2>1, <1>8
    <3> QED BY <3>2, <2>1, <1>7
  <2>3. \A e \in C : HKeyOf(e) # HKeyOf(c) /\ UKeyOf(e) # UKeyOf(c)
    <3> TAKE e \in C
    <3>1. e \in V /\ e # c
      BY <1>3, <1>4
    <3> QED BY <3>1, <2>1, <1>7
  <2>4. \A r \in hrows : HKey(r) # HKeyOf(c)
    BY <2>3, <1>8, <1>9
  <2>5. \A u \in urows : UKey(u) # UKeyOf(c)
    BY <2>3, <1>8, <1>9
  <2> HIDE DEF hrows, urows
  <2> QED BY <2>2, <2>4, <2>5
<1>11. \A c \in U : HKeyOf(c) \notin hkeys \/ UKeyOf(c) \notin ukeys => c \in K
  <2> TAKE c \in U
  <2>1. KeysOf(c) \in db_deletes => HKeyOf(c) \in hkeys /\ UKeyOf(c) \in ukeys
    BY <1>8
  <2> QED BY <2>1, <1>6
<1> HIDE DEF hrows, urows, hkeys, ukeys
<1>12. h_table' = {HRow(c) : c \in V}
  <2>1. ASSUME NEW r \in h_table'
        PROVE  \E c \in V : r = HRow(c)
    <3>1. CASE r \in hrows
      BY <3>1, <1>3, <1>9
    <3>2. CASE r \in h_table /\ HKey(r) \notin hkeys
      <4>1. PICK c \in U : r = HRow(c)
        BY <3>2, <1>2
      <4>2. c \in K
        BY <4>1, <3>2, <1>8, <1>11
      <4> QED BY <4>1, <4>2, <1>3
    <3> QED BY <3>1, <3>2, <1>1
  <2>2. ASSUME NEW c \in V
        PROVE  HRow(c) \in h_table'
    <3>1. CASE c \in C
      BY <3>1, <1>1, <1>9
    <3>2. CASE c \in K
      <4>1. HRow(c) \in h_table /\ HKey(HRow(c)) \notin hkeys
        BY <3>2, <1>2, <1>6, <1>8, <1>10
      <4> QED BY <4>1, <1>1
    <3> QED BY <3>1, <3>2, <1>3
  <2> QED BY <2>1, <2>2
<1>13. u_table' = {URow(c) : c \in V}
  <2>1. ASSUME NEW r \in u_table'
        PROVE  \E c \in V : r = URow(c)
    <3>1. CASE r \in urows
      BY <3>1, <1>3, <1>9
    <3>2. CASE r \in u_table /\ UKey(r) \notin ukeys
      <4>1. PICK c \in U : r = URow(c)
        BY <3>2, <1>2
      <4>2. c \in K
        BY <4>1, <3>2, <1>8, <1>11
      <4> QED BY <4>1, <4>2, <1>3
    <3> QED BY <3>1, <3>2, <1>1
  <2>2. ASSUME NEW c \in V
        PROVE  URow(c) \in u_table'
    <3>1. CASE c \in C
      BY <3>1, <1>1, <1>9
    <3>2. CASE c \in K
      <4>1. URow(c) \in u_table /\ UKey(URow(c)) \notin ukeys
        BY <3>2, <1>2, <1>6, <1>8, <1>10
      <4> QED BY <4>1, <1>1
    <3> QED BY <3>1, <3>2, <1>3
  <2> QED BY <2>1, <2>2
<1> QED BY <1>12, <1>13 DEF V

-----------------------------------------------------------------------------
(* What holds always: opening, ending a batch, starting and ending a reorg *)

\* Every chain is a prefix of itself.
LEMMA PrefixItself == \A c \in Seq(Block) : PrefixOf(c, c)
BY LenProperties DEF PrefixOf

\* A new database.
LEMMA SafeAtFirst ==
    ASSUME Init
    PROVE  Safe
<1> USE DEF Init
<1>1. DOMAIN <<>> = {} /\ Len(<<>>) = 0 /\ <<>> \in Seq(Item) /\ <<>> \in Seq(Block)
  BY EmptySeq
<1>2. TypeOK
  <2>1. 0 \in 0 .. ChunkSize /\ 0 \in Nat /\ 0 \in Int /\ -1 \in Int
    BY LimitAssumption
  <2> QED BY <1>1, <2>1 DEF TypeOK, Phase
<1>3. ValuesTyped
  BY <1>1 DEF ValuesTyped
<1>4. ChainsValid
  BY <1>1, ChainStarts DEF ChainsValid
<1>5. ChainsRelated
  BY DEF ChainsRelated, Ahead, Behind
<1>6. AtWork /\ ReorgLeft
  BY DEF AtWork, ReorgLeft, Behind
<1>7. RawKept
  BY <1>1 DEF RawKept
<1> QED BY <1>2, <1>3, <1>4, <1>5, <1>6, <1>7 DEF Safe

\* _open_dbs deletes undo info and raw blocks, and changes none.
LEMMA RecentIs ==
    ASSUME NEW f
    PROVE  /\ DOMAIN Recent(f) = {h \in DOMAIN f : h >= MinUndoHeight(db_height)}
           /\ \A h \in DOMAIN Recent(f) : Recent(f)[h] = f[h]
BY DEF Recent

\* Opening: clear_excess_undo_info only deletes.
LEMMA SafeRestart ==
    ASSUME Safe, Restart, UNCHANGED ltor
    PROVE  Safe'
<1> USE DEF Restart, OpenDbs, workVars, reorgVars, histVars
<1>1. /\ DOMAIN undo_table' \subseteq DOMAIN undo_table
      /\ \A h \in DOMAIN undo_table' : undo_table'[h] = undo_table[h]
      /\ DOMAIN raw_files' \subseteq DOMAIN raw_files
      /\ \A h \in DOMAIN raw_files' : raw_files'[h] = raw_files[h]
  BY RecentIs
<1>2. TypeOK'
  BY <1>1 DEF Safe, TypeOK, Phase
<1>3. ValuesTyped'
  BY DEF Safe, ValuesTyped
<1>4. ChainsValid'
  BY DEF Safe, ChainsValid
<1>5. ChainsRelated'
  <2>1. PrefixOf(db_chain, db_chain)
    BY PrefixItself DEF Safe, TypeOK
  <2>2. DOMAIN <<>> = {}
    OBVIOUS
  <2> QED BY <2>1, <2>2 DEF Safe, ChainsRelated, Ahead, Behind
<1>6. AtWork' /\ ReorgLeft'
  BY DEF AtWork, ReorgLeft, Behind
<1>7. RawKept'
  BY <1>1 DEF Safe, RawKept
<1> QED BY <1>2, <1>3, <1>4, <1>5, <1>6, <1>7 DEF Safe

\* Opening again, for serving.
LEMMA SafeOpenForServing ==
    ASSUME Safe, OpenForServing, UNCHANGED ltor
    PROVE  Safe'
<1> USE DEF OpenForServing, OpenDbs, cacheVars, workVars, reorgVars, histVars
<1>1. /\ DOMAIN undo_table' \subseteq DOMAIN undo_table
      /\ \A h \in DOMAIN undo_table' : undo_table'[h] = undo_table[h]
      /\ DOMAIN raw_files' \subseteq DOMAIN raw_files
      /\ \A h \in DOMAIN raw_files' : raw_files'[h] = raw_files[h]
  BY RecentIs
<1>2. TypeOK'
  BY <1>1 DEF Safe, TypeOK, Phase
<1>3. ValuesTyped'
  BY DEF Safe, ValuesTyped
<1>4. ChainsValid'
  BY DEF Safe, ChainsValid
<1>5. ChainsRelated'
  BY DEF Safe, ChainsRelated, Ahead, Behind
<1>6. AtWork' /\ ReorgLeft'
  BY DEF AtWork, ReorgLeft, Behind
<1>7. RawKept'
  BY <1>1 DEF Safe, RawKept
<1> QED BY <1>2, <1>3, <1>4, <1>5, <1>6, <1>7 DEF Safe

\* Being killed: what is on disk stays.
LEMMA SafeCrash ==
    ASSUME Safe, Crash, UNCHANGED ltor
    PROVE  Safe'
<1> USE DEF Crash, Forgotten, diskVars, histVars
<1>1. DOMAIN <<>> = {} /\ Len(<<>>) = 0 /\ <<>> \in Seq(Item) /\ <<>> \in Seq(Block)
  BY EmptySeq
<1>2. TypeOK'
  <2>1. 0 \in 0 .. ChunkSize /\ 0 \in Nat /\ 0 \in Int
    BY LimitAssumption
  <2>2. TypeOK
    BY DEF Safe
  <2> QED BY <1>1, <2>1, <2>2 DEF TypeOK, Phase
<1>3. ValuesTyped'
  BY <1>1 DEF Safe, ValuesTyped
<1>4. ChainsValid'
  <2>1. seen \in Int /\ seen >= -1 /\ 0 <= seen + 1
    BY DEF Safe, TypeOK, ChainsValid
  <2>2. Chained(<<>>) /\ \A i \in 1 .. Len(<<>>) : FALSE
    BY <1>1, ChainStarts
  <2>3. /\ Chained(db_chain) /\ Len(db_chain) <= seen + 1
        /\ \A i \in 1 .. Len(db_chain) : Valid(db_chain[i], ltor)
    BY DEF Safe, ChainsValid
  <2> QED BY <1>1, <2>1, <2>2, <2>3 DEF ChainsValid
<1>5. ChainsRelated'
  BY DEF ChainsRelated, Ahead, Behind
<1>6. AtWork' /\ ReorgLeft'
  BY DEF AtWork, ReorgLeft, Behind
<1>7. RawKept'
  BY <1>1 DEF Safe, RawKept
<1> QED BY <1>2, <1>3, <1>4, <1>5, <1>6, <1>7 DEF Safe

\* The end of a batch without a flush.
LEMMA SafeBatchDone ==
    ASSUME Safe, BatchDone, UNCHANGED ltor
    PROVE  Safe'
<1> USE DEF BatchDone, diskVars, workVars, reorgVars, histVars
<1>1. TypeOK'
  BY DEF Safe, TypeOK, Phase
<1>2. ValuesTyped' /\ ChainsValid' /\ RawKept'
  BY DEF Safe, ValuesTyped, ChainsValid, RawKept
<1>3. ChainsRelated'
  BY DEF Safe, ChainsRelated, Ahead, Behind
<1>4. AtWork' /\ ReorgLeft'
  BY DEF AtWork, ReorgLeft, Behind
<1> QED BY <1>1, <1>2, <1>3, <1>4 DEF Safe

\* A reorg starts from what is flushed, and leaves genesis.
LEMMA SafeStartReorg ==
    ASSUME Safe, NEW count \in 1 .. height, StartReorg(count), UNCHANGED ltor
    PROVE  Safe'
<1> USE DEF StartReorg, diskVars, cacheVars, workVars, histVars
<1>1. TypeOK'
  <2>1. count \in Nat
    BY DEF Safe, TypeOK, height
  <2> QED BY <2>1 DEF Safe, TypeOK, Phase
<1>2. ValuesTyped' /\ ChainsValid' /\ RawKept'
  BY DEF Safe, ValuesTyped, ChainsValid, RawKept
<1>3. ChainsRelated'
  <2>1. PrefixOf(chain, chain)
    BY PrefixItself DEF Safe, TypeOK
  <2> QED BY <2>1 DEF Safe, ChainsRelated, Ahead, Behind
<1>4. AtWork'
  BY DEF AtWork
<1>5. ReorgLeft'
  <2>1. Len(chain) \in Nat
    BY LenProperties DEF Safe, TypeOK
  <2>2. count < Len(chain)
    BY <2>1 DEF height
  <2> QED BY <2>2 DEF ReorgLeft, Behind
<1> QED BY <1>1, <1>2, <1>3, <1>4, <1>5 DEF Safe

\* A chunk is no longer than what is left of the reorg, and its raw
\* blocks are all on disk, or are asked of the daemon.
LEMMA SafeStartChunk ==
    ASSUME Safe, StartChunk, UNCHANGED ltor
    PROVE  Safe'
<1> USE DEF StartChunk, diskVars, cacheVars, workVars, histVars
<1>1. chunk' \in 1 .. todo /\ chunk' \in 0 .. ChunkSize /\ chunk' \in Nat /\ todo \in Nat
  BY LimitAssumption DEF Safe, TypeOK
<1>2. TypeOK'
  BY <1>1 DEF Safe, TypeOK, Phase
<1>3. ValuesTyped' /\ ChainsValid' /\ RawKept'
  BY DEF Safe, ValuesTyped, ChainsValid, RawKept
<1>4. ChainsRelated'
  BY DEF Safe, ChainsRelated, Ahead, Behind
<1>5. AtWork'
  BY DEF AtWork
<1>6. ReorgLeft'
  <2>1. Len(chain) \in Nat
    BY LenProperties DEF Safe, TypeOK
  <2>2. height - chunk' + 1 = Len(chain) - chunk' /\ height = Len(chain) - 1
    BY <2>1, <1>1 DEF height
  <2>3. from_disk' => Len(chain) - chunk' .. Len(chain) - 1 \subseteq DOMAIN raw_files
    BY <2>2
  <2>4. todo < Len(chain)
    BY DEF Safe, ReorgLeft, Behind
  <2> QED BY <1>1, <2>3, <2>4 DEF ReorgLeft, Behind
<1> QED BY <1>2, <1>3, <1>4, <1>5, <1>6 DEF Safe

\* The end of a reorg.
LEMMA SafeReorgDone ==
    ASSUME Safe, ReorgDone, UNCHANGED ltor
    PROVE  Safe'
<1> USE DEF ReorgDone, diskVars, cacheVars, workVars, reorgVars, histVars
<1>1. TypeOK'
  BY DEF Safe, TypeOK, Phase
<1>2. ValuesTyped' /\ ChainsValid' /\ RawKept'
  BY DEF Safe, ValuesTyped, ChainsValid, RawKept
<1>3. ChainsRelated'
  <2>1. PrefixOf(chain, chain) /\ DOMAIN <<>> = {}
    BY PrefixItself DEF Safe, TypeOK
  <2> QED BY <2>1 DEF Safe, ChainsRelated, Ahead, Behind
<1>4. AtWork' /\ ReorgLeft'
  BY DEF AtWork, ReorgLeft, Behind
<1> QED BY <1>1, <1>2, <1>3, <1>4 DEF Safe

\* An exception ends the process and changes nothing.
LEMMA SafeFails ==
    ASSUME Safe, Fails, UNCHANGED ltor
    PROVE  Safe'
<1>1. /\ pc' = "failed"
      /\ UNCHANGED <<diskVars, cacheVars, workVars, reorgVars, histVars>>
  BY DEF Fails
<1> USE <1>1 DEF diskVars, cacheVars, workVars, reorgVars, histVars
<1>2. TypeOK'
  BY DEF Safe, TypeOK, Phase
<1>3. ValuesTyped' /\ ChainsValid' /\ RawKept'
  BY DEF Safe, ValuesTyped, ChainsValid, RawKept
<1>4. ChainsRelated'
  BY DEF ChainsRelated, Ahead, Behind
<1>5. AtWork' /\ ReorgLeft'
  BY DEF AtWork, ReorgLeft, Behind
<1> QED BY <1>2, <1>3, <1>4, <1>5 DEF Safe

\* Steps of nothing.
LEMMA SafeStutter ==
    ASSUME Safe, UNCHANGED vars
    PROVE  Safe'
<1> USE DEF vars, diskVars, cacheVars, workVars, reorgVars, histVars
<1>1. TypeOK'
  BY DEF Safe, TypeOK
<1>2. ValuesTyped' /\ ChainsValid' /\ RawKept'
  BY DEF Safe, ValuesTyped, ChainsValid, RawKept
<1>3. ChainsRelated'
  BY DEF Safe, ChainsRelated
<1>4. AtWork' /\ ReorgLeft'
  BY DEF Safe, AtWork, ReorgLeft, tip, txid, height
<1> QED BY <1>1, <1>2, <1>3, <1>4 DEF Safe

-----------------------------------------------------------------------------
(* Items *)

\* What a cache entry is made of ...
LEMMA ItemIs ==
    ASSUME NEW x \in HashX, NEW m \in Nat, NEW o \in Output
    PROVE  [hashX |-> x, tx_num |-> m, value |-> o] \in Item
BY DEF Item, Output

\* ... and what it gives.
LEMMA ItemParts ==
    ASSUME NEW i \in Item
    PROVE  i.hashX \in HashX /\ i.tx_num \in Nat /\ i.value \in Output
BY DEF Item, Output

\* put_utxo adds entries and replaces those of the same output.
LEMMA PutIs ==
    ASSUME NEW cache, NEW new
    PROVE  /\ DOMAIN Put(cache, new) = DOMAIN cache \cup DOMAIN new
           /\ \A o \in DOMAIN new : Put(cache, new)[o] = new[o]
           /\ \A o \in DOMAIN cache \ DOMAIN new : Put(cache, new)[o] = cache[o]
BY DEF Put

\* Entries put into a cache of entries leave one.
LEMMA PutTyped ==
    ASSUME NEW S, NEW cache, \A o \in DOMAIN cache : cache[o] \in S,
           NEW new, \A o \in DOMAIN new : new[o] \in S
    PROVE  \A o \in DOMAIN Put(cache, new) : Put(cache, new)[o] \in S
<1> DEFINE put == Put(cache, new)
<1>1. /\ DOMAIN put = DOMAIN cache \cup DOMAIN new
      /\ \A o \in DOMAIN new : put[o] = new[o]
      /\ \A o \in DOMAIN cache \ DOMAIN new : put[o] = cache[o]
  BY PutIs
<1> HIDE DEF put
<1>2. ASSUME NEW o \in DOMAIN put
      PROVE  put[o] \in S
  <2>1. CASE o \in DOMAIN new
    BY <2>1, <1>1
  <2>2. CASE o \in DOMAIN cache \ DOMAIN new
    BY <2>2, <1>1
  <2> QED BY <2>1, <2>2, <1>1
<1> QED BY <1>2 DEF put

\* The cache entries of the outputs of a transaction, and of a block.
LEMMA NewItemsAre ==
    ASSUME NEW b \in Block, NEW i \in 1 .. Len(Txs[b])
    PROVE  LET new == NewItems(b, i) IN
           /\ DOMAIN new = Stored(Txs[b][i])
           /\ \A o \in DOMAIN new : /\ new[o] \in Item
                                    /\ new[o].hashX = HashXOf(o) /\ new[o].value = o
                                    /\ new[o].tx_num = TxNum(b, i)
           /\ CreatedBy(b, i) = {Coin(o, new[o].tx_num) : o \in DOMAIN new}
<1> DEFINE new == NewItems(b, i)
           t == Txs[b][i]
<1>1. t \in Tx /\ TxNum(b, i) \in Nat
  BY BlockFacts
<1>2. \A o \in Stored(t) : HashXOf(o) \in HashX /\ o \in Output
  BY <1>1, OutputFacts
<1>3. new = [o \in Stored(t) |-> [hashX |-> HashXOf(o), tx_num |-> TxNum(b, i), value |-> o]]
  BY DEF NewItems
<1>c. CreatedBy(b, i) = {Coin(o, TxNum(b, i)) : o \in Stored(t)}
  BY DEF CreatedBy
<1> HIDE DEF new, t
<1>4. DOMAIN new = Stored(t)
  BY <1>3
<1>5. ASSUME NEW o \in DOMAIN new
      PROVE  /\ new[o] \in Item
             /\ new[o].hashX = HashXOf(o) /\ new[o].value = o
             /\ new[o].tx_num = TxNum(b, i)
  <2>1. new[o] = [hashX |-> HashXOf(o), tx_num |-> TxNum(b, i), value |-> o]
    BY <1>3, <1>4
  <2>2. new[o] \in Item
    BY <2>1, <1>1, <1>2, <1>4, ItemIs
  <2> QED BY <2>1, <2>2
<1>6. CreatedBy(b, i) = {Coin(o, new[o].tx_num) : o \in DOMAIN new}
  BY <1>c, <1>4, <1>5
<1> QED BY <1>4, <1>5, <1>6 DEF new, t

\* What LTORBlockProcessor puts into the cache at the start of a block.
BlockItems(b) ==
    [c \in {c.out : c \in Created(b, Len(Txs[b]))} |->
        LET k == CHOOSE k \in 1 .. Len(Txs[b]) : Txs[b][k] = c[1]
        IN  NewItems(b, k)[c]]

\* The cache entries of all outputs of a block are those of its new coins.
LEMMA BlockItemsAre ==
    ASSUME NEW b \in Block
    PROVE  LET new == BlockItems(b) IN
           /\ DOMAIN new = {c.out : c \in Created(b, Len(Txs[b]))}
           /\ \A o \in DOMAIN new : /\ new[o] \in Item
                                    /\ new[o].hashX = HashXOf(o) /\ new[o].value = o
           /\ Created(b, Len(Txs[b])) = {Coin(o, new[o].tx_num) : o \in DOMAIN new}
<1> DEFINE N == Len(Txs[b])
           new == BlockItems(b)
           D == {c.out : c \in Created(b, N)}
           it(o) == LET k == CHOOSE k \in 1 .. N : Txs[b][k] = o[1] IN NewItems(b, k)[o]
<1>1. new = [o \in D |-> it(o)]
  BY DEF BlockItems
<1>2. DOMAIN new = D /\ \A o \in D : new[o] = it(o)
  <2> HIDE DEF D, it, new
  <2> QED BY <1>1
<1>3. ASSUME NEW c \in Created(b, N)
      PROVE  /\ it(c.out) \in Item
             /\ it(c.out).hashX = HashXOf(c.out) /\ it(c.out).value = c.out
             /\ it(c.out).tx_num = c.tx_num /\ c = Coin(c.out, c.tx_num)
  <2>1. PICK i \in 1 .. N : c \in CreatedBy(b, i)
    BY <1>3, CreatedMember
  <2> DEFINE o == c.out
  <2>2. o \in Stored(Txs[b][i]) /\ c.tx_num = TxNum(b, i) /\ o[1] = Txs[b][i]
        /\ c = Coin(o, c.tx_num)
    BY <2>1, CreatedByFacts
  <2>3. (CHOOSE k \in 1 .. N : Txs[b][k] = o[1]) = i
    <3>1. \A k \in 1 .. N : Txs[b][k] = o[1] => k = i
      BY <2>2, BlockCoins
    <3> HIDE DEF o, N
    <3> QED BY <3>1, <2>2
  <2>4. it(o) = NewItems(b, i)[o]
    BY <2>3
  <2>5. /\ NewItems(b, i)[o] \in Item
        /\ NewItems(b, i)[o].hashX = HashXOf(o) /\ NewItems(b, i)[o].value = o
        /\ NewItems(b, i)[o].tx_num = TxNum(b, i)
    BY <2>2, NewItemsAre
  <2> HIDE DEF it, o
  <2>6. /\ it(o) \in Item /\ it(o).hashX = HashXOf(o) /\ it(o).value = o
        /\ it(o).tx_num = c.tx_num /\ c = Coin(o, c.tx_num)
    BY <2>2, <2>4, <2>5
  <2> QED BY <2>6 DEF o
<1> HIDE DEF it, new, N
<1>4. \A o \in DOMAIN new : /\ new[o] \in Item
                            /\ new[o].hashX = HashXOf(o) /\ new[o].value = o
  <2> TAKE o \in DOMAIN new
  <2>1. PICK c \in Created(b, N) : o = c.out
    BY <1>2
  <2> QED BY <2>1, <1>2, <1>3
<1>5. \A c \in Created(b, N) : c.out \in DOMAIN new /\ c = Coin(c.out, new[c.out].tx_num)
  BY <1>2, <1>3
<1>6. \A o \in DOMAIN new : Coin(o, new[o].tx_num) \in Created(b, N)
  <2> TAKE o \in DOMAIN new
  <2>1. PICK c \in Created(b, N) : o = c.out
    BY <1>2
  <2> QED BY <2>1, <1>5
<1> HIDE DEF D
<1>7. Created(b, N) = {Coin(o, new[o].tx_num) : o \in DOMAIN new}
  BY <1>5, <1>6
<1> QED BY <1>2, <1>4, <1>7, Zenon DEF new, N, D

\* Items restored are those of the undo info.
LEMMA RestoredTyped ==
    ASSUME NEW outs, NEW items \in Seq(Item), Len(outs) = Len(items)
    PROVE  /\ DOMAIN Restored(outs, items) = {outs[k] : k \in 1 .. Len(outs)}
           /\ \A o \in DOMAIN Restored(outs, items) : Restored(outs, items)[o] \in Item
           /\ HashXsIn(items) \in SUBSET HashX
<1> DEFINE D == {outs[k] : k \in 1 .. Len(outs)}
           ch(o) == CHOOSE k \in 1 .. Len(outs) : outs[k] = o
           r == Restored(outs, items)
<1>1. r = [o \in D |-> items[ch(o)]]
  BY DEF Restored
<1>2. \A o \in D : ch(o) \in 1 .. Len(outs)
  OBVIOUS
<1>3. \A k \in 1 .. Len(items) : items[k] \in Item
  BY ElementOfSeq
<1> HIDE DEF ch, r, D
<1>4. DOMAIN r = D /\ \A o \in D : r[o] \in Item
  BY <1>1, <1>2, <1>3
<1>5. HashXsIn(items) \in SUBSET HashX
  BY <1>3, ItemParts DEF HashXsIn
<1> QED BY <1>4, <1>5 DEF r, D

\* What spend_utxo returns is typed.
LEMMA FoundTyped ==
    ASSUME TypeOK, ValuesTyped, NEW o, NEW f \in Found(o)
    PROVE  f.item \in Item
<1>1. CASE o \in DOMAIN utxo_cache
  <2>1. f = [item |-> utxo_cache[o], keys |-> {}]
    BY <1>1 DEF Found
  <2> QED BY <2>1, <1>1 DEF TypeOK
<1>2. CASE o \notin DOMAIN utxo_cache
  <2>1. PICK p \in InTables(o) :
          f = [item |-> [hashX |-> p[1].hashX, tx_num |-> p[1].tx_num, value |-> p[2].value],
               keys |-> {<<HKey(p[1]), UKey(p[2])>>}]
    BY <1>2 DEF Found
  <2>2. p[1] \in h_table /\ p[2] \in u_table
    BY DEF InTables, Candidates
  <2>3. p[1].hashX \in HashX /\ p[1].tx_num \in Nat /\ p[2].value \in Output
    BY <2>2 DEF TypeOK, ValuesTyped, Output
  <2> QED BY <2>1, <2>3, ItemIs
<1> QED BY <1>1, <1>2

\* flush_utxo_db writes rows of the right kind.
LEMMA FlushTyped ==
    ASSUME TypeOK, ValuesTyped, FlushUtxoDb
    PROVE  /\ \A r \in h_table' : r.hashX \in HashX /\ r.idx \in Nat /\ r.tx_num \in Nat
           /\ \A u \in u_table' : u.hashX \in HashX /\ u.idx \in Nat /\ u.tx_num \in Nat
                                  /\ u.value \in Output
           /\ \A h \in DOMAIN undo_table' : h \in Nat /\ undo_table'[h] \in Seq(Item)
<1> DEFINE hrow(o) == [short |-> Short[o[1]], idx |-> o[2], tx_num |-> utxo_cache[o].tx_num,
                       hashX |-> utxo_cache[o].hashX]
           urow(o) == [hashX |-> utxo_cache[o].hashX, idx |-> o[2],
                       tx_num |-> utxo_cache[o].tx_num, value |-> utxo_cache[o].value]
           hrows == {hrow(o) : o \in DOMAIN utxo_cache}
           urows == {urow(o) : o \in DOMAIN utxo_cache}
<1>1. /\ \A r \in h_table' : r \in h_table \/ r \in hrows
      /\ \A u \in u_table' : u \in u_table \/ u \in urows
      /\ undo_table' = Put(undo_table, undo_infos)
  BY DEF FlushUtxoDb
<1>2. ASSUME NEW o \in DOMAIN utxo_cache
      PROVE  /\ o[2] \in Nat
             /\ utxo_cache[o].hashX \in HashX /\ utxo_cache[o].tx_num \in Nat
             /\ utxo_cache[o].value \in Output
  <2>1. o \in Output /\ utxo_cache[o] \in Item
    BY DEF TypeOK, ValuesTyped
  <2> QED BY <2>1, AnyOutput, ItemParts
<1>3. \A r \in hrows : r.hashX \in HashX /\ r.idx \in Nat /\ r.tx_num \in Nat
  BY <1>2
<1>4. \A u \in urows : u.hashX \in HashX /\ u.idx \in Nat /\ u.tx_num \in Nat /\ u.value \in Output
  BY <1>2
<1> HIDE DEF hrows, urows
<1>5. \A r \in h_table' : r.hashX \in HashX /\ r.idx \in Nat /\ r.tx_num \in Nat
  BY <1>1, <1>3 DEF TypeOK
<1>6. \A u \in u_table' : u.hashX \in HashX /\ u.idx \in Nat /\ u.tx_num \in Nat
                          /\ u.value \in Output
  BY <1>1, <1>4 DEF TypeOK, ValuesTyped
<1>7. \A h \in DOMAIN undo_table' : h \in Nat /\ undo_table'[h] \in Seq(Item)
  <2> DEFINE put == Put(undo_table, undo_infos)
  <2>1. /\ DOMAIN put = DOMAIN undo_table \cup DOMAIN undo_infos
        /\ \A h \in DOMAIN undo_infos : put[h] = undo_infos[h]
        /\ \A h \in DOMAIN undo_table \ DOMAIN undo_infos : put[h] = undo_table[h]
    BY PutIs
  <2> HIDE DEF put
  <2>2. \A h \in DOMAIN put : h \in Nat /\ put[h] \in Seq(Item)
    BY <2>1 DEF TypeOK
  <2> QED BY <2>2, <1>1 DEF put
<1> QED BY <1>5, <1>6, <1>7

-----------------------------------------------------------------------------
(* What holds always: advancing and flushing *)

\* A valid block links onto the tip.
LEMMA SafeBeginBlock ==
    ASSUME Safe, NEW b \in Block, NEW daemon \in 0 .. MaxHeight, BeginBlock(b, daemon),
           UNCHANGED ltor
    PROVE  Safe'
<1> USE DEF diskVars, reorgVars
<1>1. /\ pc \in {"idle", "advanced"} /\ pc' = "advance"
      /\ Prev[b] = tip /\ Valid(b, ltor) /\ daemon >= Len(chain)
      /\ block' = b /\ cur_tx' = 1 /\ cur_io' = 1 /\ undo' = <<>>
      /\ min_height' = daemon - ReorgLimit + 1
      /\ seen' = IF seen > daemon THEN seen ELSE daemon
      /\ UNCHANGED <<diskVars, chain, db_deletes, undo_infos, touched, unflushed, reorgVars, deep>>
      /\ UNCHANGED ltor
  BY DEF BeginBlock, MinUndoHeight
<1>2. utxo_cache' = IF ~ltor THEN utxo_cache ELSE Put(utxo_cache, BlockItems(b))
  BY DEF BeginBlock, BlockItems
<1>3. TypeOK /\ ValuesTyped /\ ChainsValid
  BY DEF Safe
<1>4. /\ seen' \in Int /\ seen' >= seen /\ seen' >= daemon /\ min_height' \in Int
      /\ min_height' <= seen' - ReorgLimit + 1
      /\ Len(chain) \in Nat /\ Len(db_chain) \in Nat /\ seen \in Int
  <2>1. seen \in Int /\ daemon \in Int /\ ReorgLimit \in Int
    BY <1>3, LimitAssumption DEF TypeOK
  <2>2. Len(chain) \in Nat /\ Len(db_chain) \in Nat
    BY <1>3, LenProperties DEF TypeOK
  <2> QED BY <1>1, <2>1, <2>2
<1>5. /\ DOMAIN utxo_cache' \subseteq Output
      /\ \A o \in DOMAIN utxo_cache' : utxo_cache'[o] \in Item
  <2> DEFINE new == BlockItems(b)
             put == Put(utxo_cache, new)
  <2>1. DOMAIN new \subseteq Output /\ \A o \in DOMAIN new : new[o] \in Item
    <3>1. \A o \in DOMAIN new : new[o] \in Item /\ new[o].value = o
      BY BlockItemsAre
    <3> HIDE DEF new
    <3> QED BY <3>1, ItemParts
  <2> HIDE DEF new
  <2>2. \A o \in DOMAIN put : put[o] \in Item
    BY <2>1, <1>3, PutTyped DEF TypeOK
  <2>3. DOMAIN put = DOMAIN utxo_cache \cup DOMAIN new
    BY PutIs
  <2> HIDE DEF put
  <2>4. DOMAIN put \subseteq Output
    BY <2>1, <2>3, <1>3 DEF ValuesTyped
  <2>5. utxo_cache' = IF ~ltor THEN utxo_cache ELSE put
    BY <1>2 DEF put, new
  <2>6. DOMAIN utxo_cache \subseteq Output /\ \A o \in DOMAIN utxo_cache : utxo_cache[o] \in Item
    BY <1>3 DEF ValuesTyped, TypeOK
  <2> QED BY <2>2, <2>4, <2>5, <2>6
<1>6. TypeOK'
  <2>1. <<>> \in Seq(Item)
    BY EmptySeq
  <2> QED BY <2>1, <1>1, <1>3, <1>4, <1>5 DEF TypeOK, Phase
<1>7. ValuesTyped'
  BY <1>1, <1>3, <1>5 DEF ValuesTyped
<1>8. ChainsValid'
  BY <1>1, <1>3, <1>4 DEF ChainsValid
<1>9. ChainsRelated'
  BY <1>1 DEF Safe, ChainsRelated, Ahead, Behind
<1>10. AtWork'
  <2>1. Len(Txs[b]) \in Nat /\ Len(Txs[b]) > 0 /\ Txs[b][1] \in Tx
    BY BlockFacts
  <2>2. Len(Ins[Txs[b][1]]) \in Nat
    BY <2>1, InputFacts
  <2>3. /\ 1 \in 1 .. Len(Txs[b]) + 1 /\ ~ (1 > Len(Txs[b]))
        /\ 1 \in 1 .. Len(Ins[Txs[b][1]]) + 1
    BY <2>1, <2>2
  <2>5. Len(chain) <= seen'
    <3>1. daemon >= Len(chain) /\ seen' >= daemon
      BY <1>1, <1>4
    <3>2. daemon \in Int /\ seen' \in Int /\ Len(chain) \in Int
      BY <1>4
    <3> QED BY <3>1, <3>2
  <2>4. Prev[b] = tip'
    BY <1>1 DEF tip
  <2> QED BY <2>3, <2>4, <2>5, <1>1, <1>4 DEF AtWork, txid
<1>11. ReorgLeft'
  BY <1>1 DEF ReorgLeft, Behind
<1>12. RawKept'
  <2>1. seen' \in Int /\ seen \in Int /\ seen' >= seen /\ ReorgLimit \in Int
    BY <1>4, LimitAssumption
  <2>2. \A h \in Nat : h > seen' - ReorgLimit => h > seen - ReorgLimit
    <3> TAKE h \in Nat
    <3>1. \A m, n, k \in Int : m >= n /\ h > m - k => h > n - k
      OBVIOUS
    <3> QED BY <2>1, <3>1
  <2>3. RawKept
    BY DEF Safe
  <2> QED BY <2>2, <2>3, <1>1, <1>4 DEF RawKept
<1> QED BY <1>6, <1>7, <1>8, <1>9, <1>10, <1>11, <1>12 DEF Safe

\* The next input of it is spent.
LEMMA SafeSpendInput ==
    ASSUME Safe, SpendInput, UNCHANGED ltor
    PROVE  Safe'
<1> USE DEF diskVars, reorgVars, histVars
<1>1. /\ pc = "advance" /\ pc' = "advance"
      /\ cur_tx <= Len(Txs[block]) /\ cur_io <= Len(Ins[txid]) /\ cur_io' = cur_io + 1
      /\ UNCHANGED <<diskVars, chain, undo_infos, block, cur_tx, min_height, reorgVars, histVars>>
      /\ UNCHANGED ltor
  BY DEF SpendInput
<1>2. PICK f \in Found(Ins[txid][cur_io]) :
         /\ SpendUtxo(Ins[txid][cur_io], f)
         /\ undo' = Append(undo, f.item)
         /\ touched' = touched \cup {f.item.hashX}
         /\ unflushed' = unflushed \cup {<<f.item.hashX, TxNum(block, cur_tx)>>}
  BY DEF SpendInput
<1>3. TypeOK /\ ValuesTyped
  BY DEF Safe
<1>4. f.item \in Item /\ f.item.hashX \in HashX
  BY <1>3, FoundTyped, ItemParts
<1>5. /\ block \in Block /\ cur_tx \in 1 .. Len(Txs[block]) /\ cur_io \in Nat
      /\ cur_io \in 1 .. Len(Ins[txid]) + 1 /\ Len(Ins[txid]) \in Nat
      /\ TxNum(block, cur_tx) \in Nat /\ Len(Txs[block]) \in Nat
  <2>1. block \in Block /\ cur_tx \in 1 .. Len(Txs[block]) + 1 /\ cur_io \in 1 .. Len(Ins[txid]) + 1
    BY <1>1 DEF Safe, AtWork
  <2>2. Len(Txs[block]) \in Nat /\ cur_tx \in 1 .. Len(Txs[block])
    BY <2>1, <1>1, BlockFacts
  <2>3. txid \in Tx /\ TxNum(block, cur_tx) \in Nat
    BY <2>1, <2>2, BlockFacts DEF txid
  <2> QED BY <2>1, <2>2, <2>3, InputFacts
<1>6. /\ DOMAIN utxo_cache' \subseteq DOMAIN utxo_cache
      /\ \A o \in DOMAIN utxo_cache' : utxo_cache'[o] = utxo_cache[o]
  BY <1>2 DEF SpendUtxo
<1>7. TypeOK'
  <2>1. undo' \in Seq(Item)
    BY <1>2, <1>3, <1>4, AppendProperties DEF TypeOK
  <2>2. touched' \subseteq HashX /\ unflushed' \subseteq HashX \X Nat
    BY <1>2, <1>3, <1>4, <1>5 DEF TypeOK
  <2>3. \A o \in DOMAIN utxo_cache' : utxo_cache'[o] \in Item
    BY <1>3, <1>6 DEF TypeOK
  <2>4. cur_io' \in Nat
    BY <1>1, <1>5
  <2> QED BY <2>1, <2>2, <2>3, <2>4, <1>1, <1>3 DEF TypeOK, Phase
<1>8. ValuesTyped'
  BY <1>1, <1>3, <1>6 DEF ValuesTyped
<1>9. ChainsValid' /\ RawKept'
  BY <1>1 DEF Safe, ChainsValid, RawKept
<1>10. ChainsRelated'
  BY <1>1 DEF Safe, ChainsRelated, Ahead, Behind
<1>11. AtWork'
  <2>1. cur_io' \in 1 .. Len(Ins[txid]) + 1
    BY <1>1, <1>5
  <2>2. txid' = txid /\ tip' = tip
    BY <1>1 DEF txid, tip
  <2>3. ~ (cur_tx > Len(Txs[block]))
    BY <1>5
  <2> QED BY <2>1, <2>2, <2>3, <1>1 DEF Safe, AtWork
<1>12. ReorgLeft'
  BY <1>1 DEF ReorgLeft, Behind
<1> QED BY <1>7, <1>8, <1>9, <1>10, <1>11, <1>12 DEF Safe

\* The outputs of a transaction are added, and the next one is begun.
LEMMA SafeAddOutputs ==
    ASSUME Safe, AddOutputs, UNCHANGED ltor
    PROVE  Safe'
<1> USE DEF diskVars, reorgVars, histVars
<1> DEFINE hashXs == OutHashXs(txid)
           new == NewItems(block, cur_tx)
           put == Put(utxo_cache, new)
<1>1. /\ pc = "advance" /\ pc' = "advance"
      /\ cur_tx <= Len(Txs[block]) /\ cur_tx' = cur_tx + 1 /\ cur_io' = 1
      /\ utxo_cache' = IF ltor THEN utxo_cache ELSE put
      /\ touched' = touched \cup hashXs
      /\ unflushed' = unflushed \cup {<<x, TxNum(block, cur_tx)>> : x \in hashXs}
      /\ UNCHANGED <<diskVars, chain, db_deletes, undo_infos, block, undo, min_height,
                     reorgVars, histVars>>
      /\ UNCHANGED ltor
  BY DEF AddOutputs, OutHashXs
<1>2. TypeOK /\ ValuesTyped
  BY DEF Safe
<1>3. /\ block \in Block /\ cur_tx \in 1 .. Len(Txs[block]) /\ Len(Txs[block]) \in Nat
      /\ TxNum(block, cur_tx) \in Nat /\ txid \in Tx
      /\ \A i \in 1 .. Len(Txs[block]) : Txs[block][i] \in Tx
  <2>1. block \in Block /\ cur_tx \in 1 .. Len(Txs[block]) + 1
    BY <1>1 DEF Safe, AtWork
  <2>2. /\ Len(Txs[block]) \in Nat
        /\ \A i \in 1 .. Len(Txs[block]) : Txs[block][i] \in Tx /\ TxNum(block, i) \in Nat
    BY <2>1, BlockFacts
  <2>3. cur_tx \in 1 .. Len(Txs[block])
    BY <2>1, <2>2, <1>1
  <2> QED BY <2>1, <2>2, <2>3 DEF txid
<1>4. hashXs \in SUBSET HashX
  BY <1>3, HashXFacts
<1>5. DOMAIN new \subseteq Output /\ \A o \in DOMAIN new : new[o] \in Item
  <2>1. \A o \in DOMAIN new : new[o] \in Item /\ new[o].value = o
    BY <1>3, NewItemsAre
  <2> HIDE DEF new
  <2> QED BY <2>1, ItemParts
<1> HIDE DEF hashXs, new
<1>6. (\A o \in DOMAIN put : put[o] \in Item) /\ DOMAIN put = DOMAIN utxo_cache \cup DOMAIN new
  BY <1>2, <1>5, PutTyped, PutIs DEF TypeOK
<1> HIDE DEF put
<1>7. /\ DOMAIN utxo_cache' \subseteq Output
      /\ \A o \in DOMAIN utxo_cache' : utxo_cache'[o] \in Item
  BY <1>1, <1>2, <1>5, <1>6 DEF TypeOK, ValuesTyped
<1>8. TypeOK'
  <2>1. touched' \subseteq HashX /\ unflushed' \subseteq HashX \X Nat
    BY <1>1, <1>2, <1>3, <1>4 DEF TypeOK
  <2>2. cur_tx' \in Nat /\ cur_io' \in Nat
    BY <1>1, <1>3
  <2> QED BY <2>1, <2>2, <1>1, <1>2, <1>7 DEF TypeOK, Phase
<1>9. ValuesTyped'
  BY <1>1, <1>2, <1>7 DEF ValuesTyped
<1>10. ChainsValid' /\ RawKept'
  BY <1>1 DEF Safe, ChainsValid, RawKept
<1>11. ChainsRelated'
  BY <1>1 DEF Safe, ChainsRelated, Ahead, Behind
<1>12. AtWork'
  <2>1. cur_tx' \in 1 .. Len(Txs[block]) + 1
    BY <1>1, <1>3
  <2>2. cur_tx' <= Len(Txs[block]) => 1 \in 1 .. Len(Ins[txid']) + 1
    <3> SUFFICES ASSUME cur_tx' <= Len(Txs[block])
                 PROVE  1 \in 1 .. Len(Ins[txid']) + 1
      OBVIOUS
    <3>1. cur_tx' \in 1 .. Len(Txs[block])
      BY <2>1, <1>3
    <3>2. txid' = Txs[block][cur_tx']
      BY <1>1 DEF txid
    <3>3. Len(Ins[txid']) \in Nat
      BY <3>1, <3>2, <1>3, InputFacts
    <3> QED BY <3>3
  <2>3. tip' = tip
    BY <1>1 DEF tip
  <2> QED BY <2>1, <2>2, <2>3, <1>1 DEF Safe, AtWork
<1>13. ReorgLeft'
  BY <1>1 DEF ReorgLeft, Behind
<1> QED BY <1>8, <1>9, <1>10, <1>11, <1>12, <1>13 DEF Safe

\* The name entries of a block.
LEMMA NameEntriesTyped ==
    ASSUME NEW b \in Block
    PROVE  /\ NameEntries(b) \in SUBSET (HashX \X Nat)
           /\ \A e \in NameEntries(b) : e[1] \in HashX /\ e[1] \in AllNames
<1>1. ASSUME NEW e \in NameEntries(b)
      PROVE  e \in HashX \X Nat /\ e[1] \in HashX /\ e[1] \in AllNames
  <2>1. PICK k \in 1 .. Len(Txs[b]) : e \in Names[Txs[b][k]] \X {TxNum(b, k)}
    BY DEF NameEntries
  <2>2. Txs[b][k] \in Tx /\ TxNum(b, k) \in Nat
    BY BlockFacts
  <2>3. Names[Txs[b][k]] \in SUBSET HashX /\ Names[Txs[b][k]] \subseteq AllNames
    BY <2>2, HashXFacts
  <2> QED BY <2>1, <2>2, <2>3
<1> QED BY <1>1

\* What remains of the raw blocks when one is written.
LEMMA EndBlockIs ==
    ASSUME EndBlock
    PROVE  /\ pc = "advance" /\ pc' = "advanced" /\ cur_tx > Len(Txs[block])
           /\ chain' = Append(chain, block)
           /\ IF Len(chain) >= min_height
              THEN /\ undo_infos' = Put(undo_infos, [k \in {Len(chain)} |-> undo])
                   /\ DOMAIN raw_files' \subseteq DOMAIN raw_files \cup {Len(chain)}
                   /\ \A h \in DOMAIN raw_files' :
                         raw_files'[h] = IF h = Len(chain) THEN block ELSE raw_files[h]
              ELSE UNCHANGED <<undo_infos, raw_files>>
           /\ touched' = touched \cup {e[1] : e \in NameEntries(block)}
           /\ unflushed' = unflushed \cup NameEntries(block)
           /\ block' = NoTip /\ cur_tx' = 0 /\ cur_io' = 0 /\ undo' = <<>> /\ min_height' = 0
           /\ UNCHANGED <<h_table, u_table, undo_table, db_chain, history,
                          utxo_cache, db_deletes, reorgVars, histVars>>
<1>1. ASSUME Len(chain) >= min_height
      PROVE  /\ undo_infos' = Put(undo_infos, [k \in {Len(chain)} |-> undo])
             /\ DOMAIN raw_files' \subseteq DOMAIN raw_files \cup {Len(chain)}
             /\ \A h \in DOMAIN raw_files' :
                   raw_files'[h] = IF h = Len(chain) THEN block ELSE raw_files[h]
  BY <1>1 DEF EndBlock
<1>2. ASSUME ~ (Len(chain) >= min_height)
      PROVE  UNCHANGED <<undo_infos, raw_files>>
  BY <1>2 DEF EndBlock
<1>3. /\ pc = "advance" /\ pc' = "advanced" /\ cur_tx > Len(Txs[block])
      /\ chain' = Append(chain, block)
      /\ touched' = touched \cup {e[1] : e \in NameEntries(block)}
      /\ unflushed' = unflushed \cup NameEntries(block)
      /\ block' = NoTip /\ cur_tx' = 0 /\ cur_io' = 0 /\ undo' = <<>> /\ min_height' = 0
      /\ UNCHANGED <<h_table, u_table, undo_table, db_chain, history,
                     utxo_cache, db_deletes, reorgVars, histVars>>
  BY DEF EndBlock
<1> QED BY <1>1, <1>2, <1>3

\* The block is at its end, and is appended to the chain.
LEMMA SafeEndBlock ==
    ASSUME Safe, EndBlock, UNCHANGED ltor
    PROVE  Safe'
<1> USE DEF reorgVars, histVars
<1> DEFINE h == Len(chain)
<1>1. /\ pc = "advance" /\ pc' = "advanced" /\ cur_tx > Len(Txs[block])
      /\ chain' = Append(chain, block)
      /\ IF Len(chain) >= min_height
         THEN /\ undo_infos' = Put(undo_infos, [k \in {Len(chain)} |-> undo])
              /\ DOMAIN raw_files' \subseteq DOMAIN raw_files \cup {Len(chain)}
              /\ \A k \in DOMAIN raw_files' :
                    raw_files'[k] = IF k = Len(chain) THEN block ELSE raw_files[k]
         ELSE UNCHANGED <<undo_infos, raw_files>>
      /\ touched' = touched \cup {e[1] : e \in NameEntries(block)}
      /\ unflushed' = unflushed \cup NameEntries(block)
      /\ block' = NoTip /\ cur_tx' = 0 /\ cur_io' = 0 /\ undo' = <<>> /\ min_height' = 0
      /\ UNCHANGED <<h_table, u_table, undo_table, db_chain, history,
                     utxo_cache, db_deletes, reorgVars, histVars>>
      /\ UNCHANGED ltor
  BY EndBlockIs
<1>2. TypeOK /\ ValuesTyped /\ ChainsValid /\ ChainsRelated /\ RawKept
  BY DEF Safe
<1>3. /\ block \in Block /\ Prev[block] = H!TipOf(chain) /\ Valid(block, ltor)
      /\ Len(chain) <= seen /\ min_height <= seen - ReorgLimit + 1
      /\ Chained(chain) /\ Chained(db_chain)
  BY <1>1 DEF Safe, AtWork, ChainsValid, tip
<1>4. /\ Chained(chain') /\ Len(chain') = Len(chain) + 1
      /\ \A i \in 1 .. Len(chain) : chain'[i] = chain[i]
      /\ chain'[Len(chain) + 1] = block
  BY <1>1, <1>3, ChainGrows
<1>5. Len(chain) \in Nat /\ Len(db_chain) \in Nat /\ chain' \in Seq(Block)
  BY <1>3, <1>4, ChainEnd
<1>6. /\ \A k \in DOMAIN undo_infos' : k \in Nat /\ undo_infos'[k] \in Seq(Item)
      /\ DOMAIN undo_infos' \subseteq DOMAIN undo_infos \cup {Len(chain)}
  <2> DEFINE new == [k \in {Len(chain)} |-> undo]
             put == Put(undo_infos, new)
  <2>1. DOMAIN new = {Len(chain)} /\ \A k \in DOMAIN new : new[k] = undo
    OBVIOUS
  <2> HIDE DEF new
  <2>2. DOMAIN put = DOMAIN undo_infos \cup {Len(chain)}
    BY <2>1, PutIs
  <2>3. \A k \in DOMAIN put : put[k] \in Seq(Item)
    <3>1. \A k \in DOMAIN undo_infos : undo_infos[k] \in Seq(Item)
      BY <1>2 DEF TypeOK
    <3>2. \A k \in DOMAIN new : new[k] \in Seq(Item)
      BY <2>1, <1>2 DEF TypeOK
    <3> QED BY <3>1, <3>2, PutTyped
  <2>4. undo_infos' = IF Len(chain) >= min_height THEN put ELSE undo_infos
    BY <1>1 DEF new
  <2> HIDE DEF put
  <2>5. \A k \in DOMAIN undo_infos : k \in Nat /\ undo_infos[k] \in Seq(Item)
    BY <1>2 DEF TypeOK
  <2> QED BY <2>2, <2>3, <2>4, <2>5, <1>5
<1>7. \A k \in DOMAIN raw_files' :
         /\ k # Len(chain) => k \in DOMAIN raw_files /\ raw_files'[k] = raw_files[k]
         /\ k = Len(chain) /\ Len(chain) >= min_height => raw_files'[k] = block
         /\ raw_files'[k] = block \/ (k \in DOMAIN raw_files /\ raw_files'[k] = raw_files[k])
  <2>1. CASE Len(chain) >= min_height
    <3>1. /\ DOMAIN raw_files' \subseteq DOMAIN raw_files \cup {Len(chain)}
          /\ \A k \in DOMAIN raw_files' :
                raw_files'[k] = IF k = Len(chain) THEN block ELSE raw_files[k]
      BY <1>1, <2>1
    <3> QED BY <3>1
  <2>2. CASE ~ (Len(chain) >= min_height)
    <3>1. raw_files' = raw_files
      BY <1>1, <2>2
    <3> QED BY <3>1, <2>2
  <2> QED BY <2>1, <2>2
<1>8. TypeOK'
  <2>1. NameEntries(block) \in SUBSET (HashX \X Nat) /\ \A e \in NameEntries(block) : e[1] \in HashX
    BY <1>3, NameEntriesTyped
  <2>2. touched' \subseteq HashX /\ unflushed' \subseteq HashX \X Nat
    BY <2>1, <1>1, <1>2 DEF TypeOK
  <2>3. \A k \in DOMAIN raw_files' : k \in Nat /\ raw_files'[k] \in Block
    <3>1. \A k \in DOMAIN raw_files : k \in Nat /\ raw_files[k] \in Block
      BY <1>2 DEF TypeOK
    <3> QED BY <3>1, <1>3, <1>5, <1>7
  <2>4. <<>> \in Seq(Item) /\ 0 \in Nat /\ 0 \in Int
    BY EmptySeq
  <2> QED BY <2>2, <2>3, <2>4, <1>1, <1>2, <1>5, <1>6 DEF TypeOK, Phase
<1>9. ValuesTyped'
  BY <1>1, <1>2 DEF ValuesTyped
<1>10. ChainsValid'
  <2>1. ASSUME NEW i \in 1 .. Len(chain')
        PROVE  Valid(chain'[i], ltor)
    <3>1. CASE i = Len(chain) + 1
      BY <3>1, <1>3, <1>4
    <3>2. CASE i # Len(chain) + 1
      <4>1. i \in 1 .. Len(chain)
        BY <3>2, <1>4, <1>5
      <4> QED BY <4>1, <1>2, <1>4 DEF ChainsValid
    <3> QED BY <3>1, <3>2
  <2>2. Len(chain') <= seen + 1
    <3>1. seen \in Int
      BY <1>2 DEF TypeOK
    <3> QED BY <3>1, <1>3, <1>4, <1>5
  <2> QED BY <2>1, <2>2, <1>1, <1>2, <1>4 DEF ChainsValid
<1>11. ChainsRelated'
  <2>1. PrefixOf(db_chain, chain) /\ DOMAIN undo_infos \subseteq Len(db_chain) .. Len(chain) - 1
    BY <1>1, <1>2 DEF ChainsRelated, Ahead
  <2>2. Len(db_chain) <= Len(chain) /\ \A i \in 1 .. Len(db_chain) : db_chain[i] = chain[i]
    BY <2>1 DEF PrefixOf
  <2>3. PrefixOf(db_chain, chain')
    <3>1. Len(db_chain) <= Len(chain')
      BY <2>2, <1>4, <1>5
    <3>2. \A i \in 1 .. Len(db_chain) : i \in 1 .. Len(chain)
      BY <2>2, <1>5
    <3> QED BY <3>1, <3>2, <2>2, <1>4 DEF PrefixOf
  <2>4. chain' # db_chain
    BY <2>2, <1>4, <1>5
  <2>5. DOMAIN undo_infos' \subseteq Len(db_chain) .. Len(chain') - 1
    <3>1. \A k \in Len(db_chain) .. Len(chain) - 1 : k \in Len(db_chain) .. Len(chain') - 1
      BY <1>4, <1>5
    <3>2. Len(chain) \in Len(db_chain) .. Len(chain') - 1
      BY <2>2, <1>4, <1>5
    <3> QED BY <3>1, <3>2, <2>1, <1>6
  <2> QED BY <2>3, <2>4, <2>5, <1>1 DEF ChainsRelated, Ahead, Behind
<1>12. AtWork' /\ ReorgLeft'
  BY <1>1 DEF AtWork, ReorgLeft, Behind
<1>13. RawKept'
  <2>1. ASSUME NEW k \in 0 .. Len(chain') - 1, k > seen - ReorgLimit, k \in DOMAIN raw_files'
        PROVE  raw_files'[k] = chain'[k + 1]
    <3>1. CASE k = Len(chain)
      <4>1. Len(chain) >= min_height
        <5>1. min_height \in Int /\ seen \in Int /\ ReorgLimit \in Int
          BY <1>2, LimitAssumption DEF TypeOK
        <5> QED BY <5>1, <2>1, <3>1, <1>3, <1>5
      <4> QED BY <4>1, <3>1, <2>1, <1>4, <1>7
    <3>2. CASE k # Len(chain)
      <4>1. k \in 0 .. Len(chain) - 1 /\ k + 1 \in 1 .. Len(chain)
        BY <3>2, <1>4, <1>5
      <4>2. k \in DOMAIN raw_files /\ raw_files'[k] = raw_files[k]
        BY <3>2, <2>1, <1>7
      <4>3. raw_files[k] = chain[k + 1]
        BY <4>1, <4>2, <2>1, <1>2 DEF RawKept
      <4> QED BY <4>1, <4>2, <4>3, <1>4
    <3> QED BY <3>1, <3>2
  <2>2. ASSUME NEW k \in 0 .. Len(db_chain) - 1, k > seen - ReorgLimit, k \in DOMAIN raw_files'
        PROVE  raw_files'[k] = db_chain[k + 1]
    <3>1. k # Len(chain)
      <4>1. PrefixOf(db_chain, chain)
        BY <1>1, <1>2 DEF ChainsRelated, Ahead
      <4> QED BY <4>1, <1>5 DEF PrefixOf
    <3>2. k \in DOMAIN raw_files /\ raw_files'[k] = raw_files[k]
      BY <3>1, <2>2, <1>7
    <3> QED BY <3>2, <2>2, <1>2 DEF RawKept
  <2> QED BY <2>1, <2>2, <1>1 DEF RawKept
<1> QED BY <1>8, <1>9, <1>10, <1>11, <1>12, <1>13 DEF Safe

\* A flush makes the committed chain the chain.
LEMMA SafeFlush ==
    ASSUME Safe, Flush, UNCHANGED ltor
    PROVE  Safe'
<1> USE DEF workVars, reorgVars, histVars
<1>1. /\ pc \in {"idle", "advanced"} /\ pc' = "idle"
      /\ history' = history \cup unflushed /\ unflushed' = {}
      /\ utxo_cache' = <<>> /\ db_deletes' = {} /\ undo_infos' = <<>> /\ db_chain' = chain
      /\ touched' = IF pc = "advanced" THEN {} ELSE touched
      /\ UNCHANGED <<raw_files, chain, workVars, reorgVars, histVars>>
      /\ UNCHANGED ltor
  BY DEF Flush, FlushUtxoDb
<1>2. TypeOK /\ ValuesTyped /\ ChainsValid
  BY DEF Safe
<1>3. /\ \A r \in h_table' : r.hashX \in HashX /\ r.idx \in Nat /\ r.tx_num \in Nat
      /\ \A u \in u_table' : u.hashX \in HashX /\ u.idx \in Nat /\ u.tx_num \in Nat
                             /\ u.value \in Output
      /\ \A h \in DOMAIN undo_table' : h \in Nat /\ undo_table'[h] \in Seq(Item)
  BY <1>2, FlushTyped DEF Flush
<1>4. DOMAIN <<>> = {}
  OBVIOUS
<1>5. TypeOK'
  BY <1>1, <1>2, <1>3, <1>4 DEF TypeOK, Phase
<1>6. ValuesTyped'
  BY <1>1, <1>3, <1>4 DEF ValuesTyped
<1>7. ChainsValid'
  BY <1>1, <1>2 DEF ChainsValid
<1>8. ChainsRelated'
  <2>1. PrefixOf(chain, chain)
    BY <1>2, PrefixItself DEF TypeOK
  <2> QED BY <2>1, <1>1, <1>4 DEF ChainsRelated, Ahead, Behind
<1>9. AtWork' /\ ReorgLeft'
  BY <1>1 DEF AtWork, ReorgLeft, Behind
<1>10. RawKept'
  BY <1>1 DEF Safe, RawKept
<1> QED BY <1>5, <1>6, <1>7, <1>8, <1>9, <1>10 DEF Safe

-----------------------------------------------------------------------------
(* What holds always: backing up *)

\* SpentBy is the last of InsOf.
LEMMA SpentByIs ==
    ASSUME NEW b \in Block
    PROVE  /\ SpentBy(b) = InsOf(b)[Len(Txs[b])]
           /\ SpentBy(b) \in Seq(Output)
           /\ \A o : o \in SpentUpTo(b, Len(Txs[b]) + 1, 0) <=>
                        \E k \in 1 .. Len(SpentBy(b)) : o = SpentBy(b)[k]
<1>1. SpentBy(b) = InsOf(b)[Len(Txs[b])]
  BY DEF SpentBy, InsOf
<1>2. Len(Txs[b]) \in 0 .. Len(Txs[b])
  BY BlockFacts
<1> DEFINE n == Len(Txs[b])
           outs == InsOf(b)[n]
<1>3. /\ outs \in Seq(Output)
      /\ \A o : o \in SpentUpTo(b, n + 1, 0) <=> \E k \in 1 .. Len(outs) : o = outs[k]
  BY <1>2, InsOfFacts
<1>4. SpentBy(b) = outs
  BY <1>1
<1> HIDE DEF outs, n
<1>5. /\ SpentBy(b) \in Seq(Output)
      /\ \A o : o \in SpentUpTo(b, n + 1, 0) <=>
                   \E k \in 1 .. Len(SpentBy(b)) : o = SpentBy(b)[k]
  BY <1>3, <1>4
<1> QED BY <1>1, <1>5 DEF n

\* backup_block of the tip, with its undo info.
LEMMA SafeBeginUndo ==
    ASSUME Safe, BeginUndo, UNCHANGED ltor
    PROVE  Safe'
<1> USE DEF diskVars, reorgVars
<1>1. /\ pc = "chunk" /\ pc' = "undo" /\ height \in DOMAIN undo_table
      /\ block' = tip /\ cur_io' = 1
      /\ deep' = (deep \/ height <= seen - ReorgLimit)
      /\ UNCHANGED <<diskVars, chain, db_deletes, undo_infos, unflushed,
                     min_height, reorgVars, seen>>
      /\ UNCHANGED ltor
  BY DEF BeginUndo
<1> DEFINE items == undo_table[height]
           outs == SpentBy(tip)
           new == Restored(outs, items)
           put == Put(utxo_cache, new)
<1>2. /\ ltor => /\ Len(items) = Len(outs) /\ utxo_cache' = put
                 /\ touched' = touched \cup HashXsIn(items)
                 /\ undo' = <<>> /\ cur_tx' = 1
      /\ ~ltor => /\ undo' = items /\ cur_tx' = Len(Txs[tip])
                  /\ UNCHANGED <<utxo_cache, touched>>
  BY DEF BeginUndo
<1>3. TypeOK /\ ValuesTyped /\ ChainsValid
  BY DEF Safe
<1>4. tip \in Block /\ Len(chain) \in Nat /\ Len(chain) > 0 /\ height = Len(chain) - 1
  <2>1. Chained(chain) /\ todo < Len(chain) /\ todo \in Nat
    BY <1>1, <1>3 DEF Safe, ReorgLeft, Behind, ChainsValid, TypeOK
  <2>2. Len(chain) \in Nat
    BY <2>1, ChainEnd
  <2>3. Len(chain) > 0
    BY <2>1, <2>2
  <2> QED BY <2>1, <2>2, <2>3, ChainEnd DEF tip, height
<1>5. items \in Seq(Item) /\ outs \in Seq(Output)
  BY <1>1, <1>3, <1>4, SpentByIs DEF TypeOK
<1>6. ltor => /\ DOMAIN new \subseteq Output /\ \A o \in DOMAIN new : new[o] \in Item
              /\ HashXsIn(items) \in SUBSET HashX
  <2> SUFFICES ASSUME ltor
               PROVE  /\ DOMAIN new \subseteq Output /\ \A o \in DOMAIN new : new[o] \in Item
                      /\ HashXsIn(items) \in SUBSET HashX
    OBVIOUS
  <2>1. /\ DOMAIN new = {outs[k] : k \in 1 .. Len(outs)}
        /\ \A o \in DOMAIN new : new[o] \in Item
        /\ HashXsIn(items) \in SUBSET HashX
    BY <1>2, <1>5, RestoredTyped
  <2>2. \A k \in 1 .. Len(outs) : outs[k] \in Output
    BY <1>5, ElementOfSeq
  <2> QED BY <2>1, <2>2
<1> HIDE DEF new, outs, items
<1>7. /\ ltor => \A o \in DOMAIN put : put[o] \in Item
      /\ DOMAIN put = DOMAIN utxo_cache \cup DOMAIN new
  BY <1>3, <1>6, PutTyped, PutIs DEF TypeOK
<1> HIDE DEF put
<1>8. /\ DOMAIN utxo_cache' \subseteq Output
      /\ \A o \in DOMAIN utxo_cache' : utxo_cache'[o] \in Item
      /\ touched' \subseteq HashX /\ undo' \in Seq(Item)
  <2>1. /\ DOMAIN utxo_cache \subseteq Output
        /\ \A o \in DOMAIN utxo_cache : utxo_cache[o] \in Item
        /\ touched \subseteq HashX
    BY <1>3 DEF ValuesTyped, TypeOK
  <2>2. <<>> \in Seq(Item)
    BY EmptySeq
  <2>3. CASE ltor
    BY <2>1, <2>2, <2>3, <1>2, <1>6, <1>7
  <2>4. CASE ~ltor
    BY <2>1, <2>4, <1>2, <1>5
  <2> QED BY <2>3, <2>4
<1>9. /\ Len(Txs[tip]) \in Nat /\ Len(Txs[tip]) > 0
      /\ cur_tx' = IF ltor THEN 1 ELSE Len(Txs[tip])
      /\ cur_tx' \in 1 .. Len(Txs[tip]) /\ cur_tx' \in Nat
  BY <1>2, <1>4, BlockFacts
<1>10. TypeOK'
  BY <1>1, <1>3, <1>4, <1>8, <1>9 DEF TypeOK, Phase
<1>11. ValuesTyped'
  BY <1>1, <1>3, <1>8 DEF ValuesTyped
<1>12. ChainsValid' /\ RawKept'
  BY <1>1 DEF Safe, ChainsValid, RawKept
<1>13. ChainsRelated'
  BY <1>1 DEF Safe, ChainsRelated, Ahead, Behind
<1>14. AtWork'
  <2>1. tip' = tip /\ height' = height
    BY <1>1 DEF tip, height
  <2>2. txid' = Txs[tip][cur_tx']
    BY <1>1 DEF txid
  <2>3. Len(Outs[txid']) \in Nat
    BY <2>2, <1>4, <1>9, BlockFacts, OutsLength
  <2>4. cur_tx' \in IF ltor THEN 1 .. Len(Txs[tip]) + 1 ELSE 0 .. Len(Txs[tip])
    BY <1>9
  <2>5. ~deep' => height > seen - ReorgLimit
    <3>1. height \in Int /\ seen \in Int /\ ReorgLimit \in Int
      BY <1>3, <1>4, LimitAssumption DEF TypeOK
    <3>2. \A m, n, k \in Int : ~(m <= n - k) => m > n - k
      OBVIOUS
    <3>3. ~(height <= seen - ReorgLimit) => height > seen - ReorgLimit
      BY <3>1, <3>2
    <3>4. ~deep' => ~(height <= seen - ReorgLimit)
      BY <1>1, Zenon
    <3> QED BY <3>3, <3>4
  <2>6. 1 \in 1 .. Len(Outs[txid']) + 1
    BY <2>3
  <2> QED BY <2>1, <2>4, <2>5, <2>6, <1>1, <1>9 DEF AtWork
<1>15. ReorgLeft'
  BY <1>1 DEF Safe, ReorgLeft, Behind
<1> QED BY <1>10, <1>11, <1>12, <1>13, <1>14, <1>15 DEF Safe

\* Where backup_txs is in its block.
LEMMA UndoPlace ==
    ASSUME Safe, pc = "undo"
    PROVE  /\ block \in Block /\ block = tip /\ Len(Txs[block]) \in Nat
           /\ Len(chain) \in Nat /\ Len(chain) > 0
           /\ cur_tx \in Nat /\ cur_io \in Nat /\ cur_io >= 1
           /\ cur_tx \in 0 .. Len(Txs[block]) + 1
           /\ cur_tx \in 1 .. Len(Txs[block]) =>
                 /\ txid \in Tx /\ Len(Outs[txid]) \in Nat /\ Len(Ins[txid]) \in Nat
                 /\ Ins[txid] \in Seq(Output)
                 /\ cur_io \in 1 .. Len(Outs[txid]) + 1
<1>1. Chained(chain) /\ todo < Len(chain) /\ todo \in Nat /\ block = tip /\ cur_tx \in Nat /\ cur_io \in Nat
  BY DEF Safe, ReorgLeft, Behind, ChainsValid, TypeOK, AtWork
<1>2. Len(chain) \in Nat
  BY <1>1, ChainEnd
<1>3. Len(chain) > 0
  BY <1>1, <1>2
<1>4. block \in Block
  BY <1>1, <1>3, ChainEnd DEF tip
<1>5. Len(Txs[block]) \in Nat
  BY <1>4, BlockFacts
<1>6. /\ cur_tx \in IF ltor THEN 1 .. Len(Txs[block]) + 1 ELSE 0 .. Len(Txs[block])
      /\ cur_tx \in 1 .. Len(Txs[block]) => cur_io \in 1 .. Len(Outs[txid]) + 1
      /\ cur_tx \notin 1 .. Len(Txs[block]) => cur_io = 1
  BY DEF Safe, AtWork
<1>7. cur_tx \in 0 .. Len(Txs[block]) + 1
  BY <1>5, <1>6
<1>8. ASSUME cur_tx \in 1 .. Len(Txs[block])
      PROVE  /\ txid \in Tx /\ Len(Outs[txid]) \in Nat /\ Len(Ins[txid]) \in Nat
             /\ Ins[txid] \in Seq(Output)
             /\ cur_io \in 1 .. Len(Outs[txid]) + 1
  <2>1. txid \in Tx
    BY <1>4, <1>8, BlockFacts DEF txid
  <2> QED BY <2>1, <1>6, <1>8, OutsLength, InputFacts
<1>9. cur_io >= 1
  <2>1. CASE cur_tx \in 1 .. Len(Txs[block])
    BY <2>1, <1>8
  <2>2. CASE cur_tx \notin 1 .. Len(Txs[block])
    BY <2>2, <1>6
  <2> QED BY <2>1, <2>2
<1> QED BY <1>1, <1>2, <1>3, <1>4, <1>5, <1>7, <1>8, <1>9

\* An output is taken back.
LEMMA SafeUndoOutput ==
    ASSUME Safe, UndoOutput, UNCHANGED ltor
    PROVE  Safe'
<1> USE DEF diskVars, reorgVars, histVars
<1>1. /\ pc = "undo" /\ pc' = "undo"
      /\ cur_tx \in 1 .. Len(Txs[block]) /\ cur_io <= Len(Outs[txid]) /\ cur_io' = cur_io + 1
      /\ UNCHANGED <<diskVars, chain, undo_infos, unflushed, block, cur_tx, undo,
                     min_height, reorgVars, histVars>>
      /\ UNCHANGED ltor
  BY DEF UndoOutput
<1>2. TypeOK /\ ValuesTyped
  BY DEF Safe
<1>3. /\ \A o \in DOMAIN utxo_cache' : o \in DOMAIN utxo_cache /\ utxo_cache'[o] = utxo_cache[o]
      /\ touched' \subseteq HashX
  <2>1. CASE Outs[txid][cur_io] = Unspendable
    <3>1. UNCHANGED <<utxo_cache, touched>>
      BY <2>1 DEF UndoOutput
    <3> QED BY <3>1, <1>2 DEF TypeOK
  <2>2. CASE Outs[txid][cur_io] # Unspendable
    <3>1. PICK f \in Found(<<txid, cur_io>>) :
             SpendUtxo(<<txid, cur_io>>, f) /\ touched' = touched \cup {f.item.hashX}
      BY <2>2 DEF UndoOutput
    <3>2. f.item.hashX \in HashX
      BY <1>2, FoundTyped, ItemParts
    <3>3. \A o \in DOMAIN utxo_cache' : o \in DOMAIN utxo_cache /\ utxo_cache'[o] = utxo_cache[o]
      BY <3>1 DEF SpendUtxo
    <3> QED BY <3>1, <3>2, <3>3, <1>2 DEF TypeOK
  <2> QED BY <2>1, <2>2
<1>4. /\ Len(Outs[txid]) \in Nat /\ cur_io \in 1 .. Len(Outs[txid]) + 1
  BY <1>1, UndoPlace
<1>5. cur_io' \in 1 .. Len(Outs[txid]) + 1 /\ cur_io' \in Nat
  BY <1>1, <1>4
<1>6. TypeOK'
  <2>1. \A o \in DOMAIN utxo_cache' : utxo_cache'[o] \in Item
    BY <1>2, <1>3 DEF TypeOK
  <2> QED BY <2>1, <1>1, <1>2, <1>3, <1>5 DEF TypeOK, Phase
<1>7. ValuesTyped'
  BY <1>1, <1>2, <1>3 DEF ValuesTyped
<1>8. ChainsValid' /\ RawKept'
  BY <1>1 DEF Safe, ChainsValid, RawKept
<1>9. ChainsRelated'
  BY <1>1 DEF Safe, ChainsRelated, Ahead, Behind
<1>10. AtWork'
  <2>1. tip' = tip /\ height' = height /\ txid' = txid
    BY <1>1 DEF tip, height, txid
  <2> QED BY <2>1, <1>1, <1>5 DEF Safe, AtWork
<1>11. ReorgLeft'
  BY <1>1 DEF Safe, ReorgLeft, Behind
<1> QED BY <1>6, <1>7, <1>8, <1>9, <1>10, <1>11 DEF Safe

\* The inputs of a transaction are restored.
LEMMA SafeRestoreInputs ==
    ASSUME Safe, RestoreInputs, UNCHANGED ltor
    PROVE  Safe'
<1> USE DEF diskVars, reorgVars, histVars
<1> DEFINE m == Len(Ins[txid])
           items == LastItems(undo, m)
           new == Restored(Ins[txid], items)
           put == Put(utxo_cache, new)
<1>1. /\ pc = "undo" /\ pc' = "undo"
      /\ cur_tx \in 1 .. Len(Txs[block]) /\ cur_io' = 1
      /\ UNCHANGED <<diskVars, chain, db_deletes, undo_infos, unflushed, block,
                     min_height, reorgVars, histVars>>
      /\ UNCHANGED ltor
  BY DEF RestoreInputs
<1>2. /\ ltor => cur_tx' = cur_tx + 1 /\ UNCHANGED <<utxo_cache, touched, undo>>
      /\ ~ltor => /\ Len(undo) - m >= 0
                  /\ utxo_cache' = put
                  /\ touched' = touched \cup HashXsIn(items)
                  /\ undo' = SubSeq(undo, 1, Len(undo) - m)
                  /\ cur_tx' = cur_tx - 1
  BY DEF RestoreInputs
<1>3. TypeOK /\ ValuesTyped
  BY DEF Safe
<1>4. /\ block \in Block /\ Len(Txs[block]) \in Nat /\ cur_tx \in Nat
      /\ m \in Nat /\ Ins[txid] \in Seq(Output)
      /\ undo \in Seq(Item) /\ Len(undo) \in Nat
  BY <1>1, <1>3, UndoPlace, LenProperties DEF TypeOK
<1>5. ~ltor => /\ items \in Seq(Item) /\ Len(items) = m
               /\ undo' \in Seq(Item)
  <2> SUFFICES ASSUME ~ltor
               PROVE  /\ items \in Seq(Item) /\ Len(items) = m
                      /\ undo' \in Seq(Item)
    OBVIOUS
  <2> DEFINE l == Len(undo)
             i == l - m + 1
  <2>1. m \in Nat /\ l \in Nat /\ l - m >= 0 /\ undo' = SubSeq(undo, 1, l - m)
    BY <1>2, <1>4
  <2>2. items = SubSeq(undo, i, l)
    BY DEF LastItems
  <2>3. \A k \in 1 .. l : undo[k] \in Item
    BY <1>4, ElementOfSeq
  <2> HIDE DEF m, l
  <2>4. i \in Int /\ l \in Int /\ l - m \in Int /\ 1 \in Int
        /\ (i <= l => l - i + 1 = m) /\ (~ (i <= l) => m = 0)
    BY <2>1
  <2>5. (\A k \in i .. l : undo[k] \in Item) /\ (\A k \in 1 .. l - m : undo[k] \in Item)
    BY <2>1, <2>3
  <2> HIDE DEF i
  <2>6. /\ SubSeq(undo, i, l) \in Seq(Item)
        /\ Len(SubSeq(undo, i, l)) = IF i <= l THEN l - i + 1 ELSE 0
        /\ SubSeq(undo, 1, l - m) \in Seq(Item)
    BY <2>4, <2>5, SubSeqProperties
  <2>7. Len(SubSeq(undo, i, l)) = m
    BY <2>4, <2>6
  <2> HIDE DEF items
  <2> QED BY <2>1, <2>2, <2>6, <2>7
<1>6. ~ltor => /\ DOMAIN new \subseteq Output /\ \A o \in DOMAIN new : new[o] \in Item
               /\ HashXsIn(items) \in SUBSET HashX
  <2> SUFFICES ASSUME ~ltor
               PROVE  /\ DOMAIN new \subseteq Output /\ \A o \in DOMAIN new : new[o] \in Item
                      /\ HashXsIn(items) \in SUBSET HashX
    OBVIOUS
  <2> HIDE DEF items
  <2>1. /\ DOMAIN new = {Ins[txid][k] : k \in 1 .. m}
        /\ \A o \in DOMAIN new : new[o] \in Item
        /\ HashXsIn(items) \in SUBSET HashX
    BY <1>5, RestoredTyped
  <2>2. \A k \in 1 .. m : Ins[txid][k] \in Output
    BY <1>4, ElementOfSeq
  <2> QED BY <2>1, <2>2
<1> HIDE DEF new, items, m
<1>7. /\ ~ltor => \A o \in DOMAIN put : put[o] \in Item
      /\ DOMAIN put = DOMAIN utxo_cache \cup DOMAIN new
  BY <1>3, <1>6, PutTyped, PutIs DEF TypeOK
<1> HIDE DEF put
<1>8. /\ DOMAIN utxo_cache' \subseteq Output
      /\ \A o \in DOMAIN utxo_cache' : utxo_cache'[o] \in Item
      /\ touched' \subseteq HashX /\ undo' \in Seq(Item)
  <2>1. /\ DOMAIN utxo_cache \subseteq Output
        /\ \A o \in DOMAIN utxo_cache : utxo_cache[o] \in Item
        /\ touched \subseteq HashX
    BY <1>3 DEF ValuesTyped, TypeOK
  <2>3. CASE ltor
    BY <2>1, <2>3, <1>2, <1>4
  <2>4. CASE ~ltor
    BY <2>1, <2>4, <1>2, <1>5, <1>6, <1>7
  <2> QED BY <2>3, <2>4
<1>9. /\ cur_tx' \in IF ltor THEN 1 .. Len(Txs[block]) + 1 ELSE 0 .. Len(Txs[block])
      /\ cur_tx' \in Nat
  <2>1. CASE ltor
    BY <2>1, <1>1, <1>2, <1>4
  <2>2. CASE ~ltor
    BY <2>2, <1>1, <1>2, <1>4
  <2> QED BY <2>1, <2>2
<1>10. TypeOK'
  BY <1>1, <1>3, <1>8, <1>9 DEF TypeOK, Phase
<1>11. ValuesTyped'
  BY <1>1, <1>3, <1>8 DEF ValuesTyped
<1>12. ChainsValid' /\ RawKept'
  BY <1>1 DEF Safe, ChainsValid, RawKept
<1>13. ChainsRelated'
  BY <1>1 DEF Safe, ChainsRelated, Ahead, Behind
<1>14. AtWork'
  <2>1. tip' = tip /\ height' = height /\ txid' = Txs[block][cur_tx']
    BY <1>1 DEF tip, height, txid
  <2>2. cur_tx' \in 1 .. Len(Txs[block]) => 1 \in 1 .. Len(Outs[txid']) + 1
    <3> SUFFICES ASSUME cur_tx' \in 1 .. Len(Txs[block])
                 PROVE  1 \in 1 .. Len(Outs[txid']) + 1
      OBVIOUS
    <3>1. txid' \in Tx
      BY <2>1, <1>4, BlockFacts
    <3>2. Len(Outs[txid']) \in Nat
      BY <3>1, OutsLength
    <3> QED BY <3>2
  <2> QED BY <2>1, <2>2, <1>1, <1>9 DEF Safe, AtWork
<1>15. ReorgLeft'
  BY <1>1 DEF Safe, ReorgLeft, Behind
<1> QED BY <1>10, <1>11, <1>12, <1>13, <1>14, <1>15 DEF Safe

\* The block is undone, and the chain is one block shorter.
LEMMA SafeEndUndo ==
    ASSUME Safe, EndUndo, UNCHANGED ltor
    PROVE  Safe'
<1> USE DEF diskVars, histVars
<1>1. /\ pc = "undo" /\ undo = <<>>
      /\ chain' = SubSeq(chain, 1, Len(chain) - 1)
      /\ todo' = todo - 1 /\ chunk' = chunk - 1
      /\ pc' = IF chunk = 1 THEN "backup" ELSE "chunk"
      /\ block' = NoTip /\ cur_tx' = 0 /\ cur_io' = 0
      /\ UNCHANGED <<diskVars, utxo_cache, db_deletes, undo_infos, touched,
                     unflushed, undo, min_height, from_disk, histVars>>
      /\ UNCHANGED ltor
  BY DEF EndUndo
<1>2. TypeOK /\ ValuesTyped /\ ChainsValid /\ RawKept
  BY DEF Safe
<1>3. /\ Chained(chain) /\ Len(chain) \in Nat /\ Len(chain) > 0 /\ Len(db_chain) \in Nat
  BY <1>1, <1>2, UndoPlace, ChainEnd DEF ChainsValid
<1>4. /\ Chained(chain') /\ Len(chain') = Len(chain) - 1
      /\ \A i \in 1 .. Len(chain) - 1 : chain'[i] = chain[i]
      /\ chain' \in Seq(Block)
  <2> DEFINE d == SubSeq(chain, 1, Len(chain) - 1)
  <2>1. Chained(d) /\ Len(d) = Len(chain) - 1 /\ \A i \in 1 .. Len(d) : d[i] = chain[i]
    BY <1>3, ChainShrinks
  <2>2. d \in Seq(Block)
    BY <2>1, ChainEnd
  <2> HIDE DEF d
  <2>3. chain' = d
    BY <1>1 DEF d
  <2> QED BY <2>1, <2>2, <2>3
<1>5. /\ chunk \in 1 .. todo /\ todo < Len(chain) /\ todo \in Nat /\ chunk \in Nat
      /\ chunk \in 0 .. ChunkSize
      /\ from_disk => Len(chain) - chunk .. Len(chain) - 1 \subseteq DOMAIN raw_files
  BY <1>1, <1>2 DEF Safe, ReorgLeft, Behind, TypeOK
<1>6. todo' \in Nat /\ chunk' \in 0 .. ChunkSize
  BY <1>1, <1>5, LimitAssumption
<1>7. TypeOK'
  BY <1>1, <1>2, <1>4, <1>6 DEF TypeOK, Phase
<1>8. ValuesTyped'
  BY <1>1, <1>2 DEF ValuesTyped
<1>9. ChainsValid'
  <2>1. Len(chain') <= seen + 1
    <3>1. seen \in Int /\ Len(chain) <= seen + 1
      BY <1>2 DEF TypeOK, ChainsValid
    <3> QED BY <3>1, <1>3, <1>4
  <2>2. \A i \in 1 .. Len(chain') : i \in 1 .. Len(chain) /\ i \in 1 .. Len(chain) - 1
    BY <1>3, <1>4
  <2> QED BY <2>1, <2>2, <1>1, <1>2, <1>4 DEF ChainsValid
<1>10. ChainsRelated'
  <2>1. PrefixOf(chain, db_chain) /\ undo_infos = <<>> /\ unflushed = {}
    BY <1>1 DEF Safe, ChainsRelated, Behind
  <2>2. PrefixOf(chain', db_chain)
    <3>1. Len(chain') <= Len(db_chain)
      BY <2>1, <1>3, <1>4 DEF PrefixOf
    <3>2. \A i \in 1 .. Len(chain') : i \in 1 .. Len(chain) /\ i \in 1 .. Len(chain) - 1
      BY <1>3, <1>4
    <3> QED BY <3>1, <3>2, <2>1, <1>4 DEF PrefixOf
  <2> QED BY <2>1, <2>2, <1>1 DEF ChainsRelated, Ahead, Behind
<1>11. AtWork'
  BY <1>1 DEF AtWork
<1>12. ReorgLeft'
  <2>1. todo' < Len(chain')
    BY <1>1, <1>3, <1>4, <1>5
  <2>2. CASE chunk = 1
    BY <2>1, <2>2, <1>1 DEF ReorgLeft, Behind
  <2>3. CASE chunk # 1
    <3>1. chunk' \in 1 .. todo'
      BY <2>3, <1>1, <1>5
    <3>2. Len(chain') - chunk' = Len(chain) - chunk /\ Len(chain') - 1 <= Len(chain) - 1
          /\ Len(chain') \in Int /\ Len(chain) - chunk \in Int
      BY <1>1, <1>3, <1>4, <1>5
    <3>3. \A k \in Len(chain') - chunk' .. Len(chain') - 1 : k \in Len(chain) - chunk .. Len(chain) - 1
      BY <3>2, <1>3
    <3>4. from_disk' => Len(chain') - chunk' .. Len(chain') - 1 \subseteq DOMAIN raw_files'
      BY <3>3, <1>1, <1>5
    <3> QED BY <2>1, <2>3, <3>1, <3>4, <1>1 DEF ReorgLeft, Behind
  <2> QED BY <2>2, <2>3
<1>13. RawKept'
  <2>1. ASSUME NEW k \in 0 .. Len(chain') - 1, k > seen - ReorgLimit, k \in DOMAIN raw_files
        PROVE  raw_files[k] = chain'[k + 1]
    <3>1. k \in 0 .. Len(chain) - 1 /\ k + 1 \in 1 .. Len(chain) - 1
      BY <1>3, <1>4
    <3>2. raw_files[k] = chain[k + 1]
      BY <3>1, <2>1, <1>2 DEF RawKept
    <3> QED BY <3>1, <3>2, <1>4
  <2> QED BY <2>1, <1>1, <1>2 DEF RawKept
<1> QED BY <1>7, <1>8, <1>9, <1>10, <1>11, <1>12, <1>13 DEF Safe

\* flush_backup makes the committed chain the shorter one.
LEMMA SafeFlushBackup ==
    ASSUME Safe, FlushBackup, UNCHANGED ltor
    PROVE  Safe'
<1> USE DEF workVars, reorgVars, histVars
<1>1. /\ pc = "backup" /\ pc' = "reorg"
      /\ history' \subseteq history
      /\ utxo_cache' = <<>> /\ db_deletes' = {} /\ undo_infos' = <<>> /\ db_chain' = chain
      /\ UNCHANGED <<raw_files, chain, touched, unflushed, workVars, reorgVars, histVars>>
      /\ UNCHANGED ltor
  BY DEF FlushBackup, FlushUtxoDb
<1>2. TypeOK /\ ValuesTyped /\ ChainsValid
  BY DEF Safe
<1>3. /\ \A r \in h_table' : r.hashX \in HashX /\ r.idx \in Nat /\ r.tx_num \in Nat
      /\ \A u \in u_table' : u.hashX \in HashX /\ u.idx \in Nat /\ u.tx_num \in Nat
                             /\ u.value \in Output
      /\ \A h \in DOMAIN undo_table' : h \in Nat /\ undo_table'[h] \in Seq(Item)
  BY <1>2, FlushTyped DEF FlushBackup
<1>4. DOMAIN <<>> = {}
  OBVIOUS
<1>5. TypeOK'
  BY <1>1, <1>2, <1>3, <1>4 DEF TypeOK, Phase
<1>6. ValuesTyped'
  BY <1>1, <1>3, <1>4 DEF ValuesTyped
<1>7. ChainsValid'
  BY <1>1, <1>2 DEF ChainsValid
<1>8. ChainsRelated'
  <2>1. PrefixOf(chain, chain)
    BY <1>2, PrefixItself DEF TypeOK
  <2>2. unflushed = {}
    BY <1>1 DEF Safe, ChainsRelated, Behind
  <2> QED BY <2>1, <2>2, <1>1 DEF ChainsRelated, Ahead, Behind
<1>9. AtWork'
  BY <1>1 DEF AtWork
<1>10. ReorgLeft'
  BY <1>1 DEF Safe, ReorgLeft, Behind
<1>11. RawKept'
  BY <1>1 DEF Safe, RawKept
<1> QED BY <1>5, <1>6, <1>7, <1>8, <1>9, <1>10, <1>11 DEF Safe

\* Every step keeps what holds always.
LEMMA SafeStep ==
    ASSUME Safe, [Next]_vars
    PROVE  Safe'
<1>1. CASE UNCHANGED vars
  BY <1>1, SafeStutter
<1>2. CASE Next
  <2>1. UNCHANGED ltor
    BY <1>2 DEF Next
  <2>2. CASE Restart \/ OpenForServing \/ Crash
    BY <2>1, <2>2, SafeRestart, SafeOpenForServing, SafeCrash
  <2>3. CASE \E b \in Block, daemon \in 0 .. MaxHeight : BeginBlock(b, daemon)
    BY <2>1, <2>3, SafeBeginBlock
  <2>4. CASE SpendInput \/ AddOutputs \/ EndBlock \/ BatchDone \/ Flush
    BY <2>1, <2>4, SafeSpendInput, SafeAddOutputs, SafeEndBlock, SafeBatchDone, SafeFlush
  <2>5. CASE \E count \in 1 .. height : StartReorg(count)
    BY <2>1, <2>5, SafeStartReorg
  <2>6. CASE StartChunk \/ BeginUndo \/ UndoOutput \/ RestoreInputs \/ EndUndo
    BY <2>1, <2>6, SafeStartChunk, SafeBeginUndo, SafeUndoOutput, SafeRestoreInputs, SafeEndUndo
  <2>7. CASE FlushBackup \/ ReorgDone \/ Fails
    BY <2>1, <2>7, SafeFlushBackup, SafeReorgDone, SafeFails
  <2> QED BY <1>2, <2>2, <2>3, <2>4, <2>5, <2>6, <2>7 DEF Next
<1> QED BY <1>1, <1>2

-----------------------------------------------------------------------------
(* What holds near the tip: opening, ending a batch, starting and ending a reorg *)

\* A new database.
LEMMA ExactAtFirst ==
    ASSUME Init
    PROVE  Exact
<1> USE DEF Init
<1>1. /\ DOMAIN <<>> = {} /\ Len(<<>>) = 0 /\ H!TipOf(<<>>) = NoTip
      /\ H!HistoryOf(<<>>) = {} /\ UnspentAt(NoTip) = {}
  BY ChainStarts DEF UnspentAt
<1>2. TablesExact /\ HistoryExact
  BY <1>1 DEF TablesExact, HistoryExact
<1>3. UndoKept
  <2>1. 0 .. 0 - 1 = {}
    OBVIOUS
  <2> QED BY <1>1, <2>1 DEF UndoKept, Ahead
<1>4. UndoAtWork /\ CoinsHeld /\ HistoryAhead /\ HistoryBehind
  BY DEF UndoAtWork, CoinsHeld, HistoryAhead, HistoryBehind, Behind
<1> QED BY <1>2, <1>3, <1>4 DEF Exact

\* clear_excess_undo_info leaves undo info near the tip.
LEMMA RecentUndo ==
    ASSUME Safe
    PROVE  \A h \in 0 .. Len(db_chain) - 1 : h > seen - ReorgLimit /\ h \in DOMAIN undo_table =>
              h \in DOMAIN Recent(undo_table) /\ Recent(undo_table)[h] = undo_table[h]
<1>1. Len(db_chain) \in Nat /\ seen \in Int /\ ReorgLimit \in Int /\ Len(db_chain) <= seen + 1
  BY LenProperties, LimitAssumption DEF Safe, TypeOK, ChainsValid
<1>2. DOMAIN Recent(undo_table) = {h \in DOMAIN undo_table : h >= MinUndoHeight(db_height)}
  BY RecentIs
<1>3. \A h \in 0 .. Len(db_chain) - 1 : h > seen - ReorgLimit => h >= MinUndoHeight(db_height)
  <2>1. \A k, m, r \in Int : k <= m + 1 =>
           \A h \in 0 .. k - 1 : h > m - r => h >= (k - 1) - r + 1
    OBVIOUS
  <2> QED BY <1>1, <2>1 DEF MinUndoHeight, db_height
<1> QED BY <1>2, <1>3, RecentIs

\* Opening: the undo info that is deleted is too old to be needed.
LEMMA ExactRestart ==
    ASSUME IInv, ~deep, Restart, UNCHANGED ltor
    PROVE  Exact'
<1> USE DEF Restart, OpenDbs, workVars, reorgVars, histVars
<1>1. Safe /\ Exact
  BY DEF IInv
<1>2. TablesExact' /\ HistoryExact'
  BY <1>1 DEF Exact, TablesExact, HistoryExact
<1>3. Chained(db_chain) /\ Len(db_chain) \in Nat
  BY <1>1, ChainEnd DEF Safe, ChainsValid
<1>4. UndoKept'
  <2>1. undo_table' = Recent(undo_table) /\ UNCHANGED <<db_chain, seen>> /\ chain' = db_chain
    OBVIOUS
  <2>2. \A h \in 0 .. Len(db_chain) - 1 : h > seen - ReorgLimit =>
           /\ h \in DOMAIN undo_table
           /\ undo_table[h] = UndoItems(db_chain[h + 1], SpentBy(db_chain[h + 1]))
    BY <1>1 DEF Exact, UndoKept
  <2>3. Len(db_chain) .. Len(db_chain) - 1 = {}
    BY <1>3
  <2> QED BY <1>1, <2>1, <2>2, <2>3, RecentUndo DEF UndoKept
<1>5. CoinsHeld'
  <2>1. utxo_cache' = <<>> /\ db_deletes' = {} /\ UNCHANGED db_chain /\ chain' = db_chain
    BY <1>1 DEF Safe, ChainsRelated
  <2>2. tip' = H!TipOf(db_chain)
    BY <2>1 DEF tip
  <2> QED BY <2>1, <2>2, NothingCached DEF CoinsHeld
<1>6. HistoryAhead'
  <2>1. unflushed = {}
    BY <1>1 DEF Safe, ChainsRelated
  <2>2. NewEntries(db_chain, Len(db_chain)) = {}
    BY <1>3, NoNewEntries
  <2> QED BY <2>1, <2>2 DEF HistoryAhead
<1>7. UndoAtWork' /\ HistoryBehind'
  BY DEF UndoAtWork, HistoryBehind, Behind
<1> QED BY <1>2, <1>4, <1>5, <1>6, <1>7 DEF Exact

\* Opening again, for serving.
LEMMA ExactOpenForServing ==
    ASSUME IInv, ~deep, OpenForServing, UNCHANGED ltor
    PROVE  Exact'
<1> USE DEF OpenForServing, OpenDbs, cacheVars, workVars, reorgVars, histVars
<1>1. Safe /\ Exact
  BY DEF IInv
<1>2. TablesExact' /\ HistoryExact'
  BY <1>1 DEF Exact, TablesExact, HistoryExact
<1>3. UndoKept'
  <2>1. undo_table' = Recent(undo_table) /\ UNCHANGED <<db_chain, seen, chain, undo_infos, pc>>
    OBVIOUS
  <2> QED BY <1>1, <2>1, RecentUndo DEF UndoKept, Exact
<1>4. CoinsHeld' /\ UndoAtWork'
  BY <1>1 DEF Exact, CoinsHeld, UndoAtWork, tip
<1>5. HistoryAhead' /\ HistoryBehind'
  BY <1>1 DEF Exact, HistoryAhead, HistoryBehind, Behind
<1> QED BY <1>2, <1>3, <1>4, <1>5 DEF Exact

\* Being killed: what is on disk stays.
LEMMA ExactCrash ==
    ASSUME IInv, ~deep, Crash, UNCHANGED ltor
    PROVE  Exact'
<1> USE DEF Crash, Forgotten, diskVars, histVars
<1>1. Safe /\ Exact
  BY DEF IInv
<1>2. TablesExact' /\ HistoryExact'
  BY <1>1 DEF Exact, TablesExact, HistoryExact
<1>3. UndoKept'
  BY <1>1 DEF Exact, UndoKept, Ahead
<1>4. UndoAtWork' /\ CoinsHeld' /\ HistoryAhead' /\ HistoryBehind'
  BY DEF UndoAtWork, CoinsHeld, HistoryAhead, HistoryBehind, Behind
<1> QED BY <1>2, <1>3, <1>4 DEF Exact

\* The end of a batch without a flush.
LEMMA ExactBatchDone ==
    ASSUME IInv, ~deep, BatchDone, UNCHANGED ltor
    PROVE  Exact'
<1> USE DEF BatchDone, diskVars, workVars, reorgVars, histVars
<1>1. Safe /\ Exact
  BY DEF IInv
<1>2. TablesExact' /\ HistoryExact'
  BY <1>1 DEF Exact, TablesExact, HistoryExact
<1>3. UndoKept'
  BY <1>1 DEF Exact, UndoKept, Ahead
<1>4. UndoAtWork' /\ CoinsHeld'
  BY <1>1 DEF Exact, UndoAtWork, CoinsHeld, tip
<1>5. HistoryAhead' /\ HistoryBehind'
  BY <1>1 DEF Exact, HistoryAhead, HistoryBehind, Behind
<1> QED BY <1>2, <1>3, <1>4, <1>5 DEF Exact

\* The start of a reorg: nothing is undone yet.
LEMMA ExactStartReorg ==
    ASSUME IInv, ~deep, NEW count \in 1 .. height, StartReorg(count), UNCHANGED ltor
    PROVE  Exact'
<1> USE DEF StartReorg, diskVars, cacheVars, workVars, histVars
<1>1. Safe /\ Exact
  BY DEF IInv
<1>2. TablesExact' /\ HistoryExact'
  BY <1>1 DEF Exact, TablesExact, HistoryExact
<1>3. UndoKept'
  BY <1>1 DEF Exact, UndoKept, Ahead
<1>4. UndoAtWork' /\ CoinsHeld' /\ HistoryAhead'
  BY <1>1 DEF Exact, UndoAtWork, CoinsHeld, HistoryAhead, tip
<1>5. HistoryBehind'
  <2>1. Chained(db_chain)
    BY <1>1 DEF Safe, ChainsValid
  <2>2. NewEntries(db_chain, Len(db_chain)) = {}
    BY <2>1, NoNewEntries
  <2> QED BY <2>2 DEF HistoryBehind
<1> QED BY <1>2, <1>3, <1>4, <1>5 DEF Exact

\* The start of a chunk.
LEMMA ExactStartChunk ==
    ASSUME IInv, ~deep, StartChunk, UNCHANGED ltor
    PROVE  Exact'
<1>1. /\ pc = "reorg" /\ pc' = "chunk" /\ Safe /\ Exact
      /\ UNCHANGED <<diskVars, cacheVars, workVars, histVars>>
  BY DEF StartChunk, IInv
<1> USE DEF diskVars, cacheVars, workVars, histVars
<1>2. TablesExact' /\ HistoryExact'
  BY <1>1 DEF Exact, TablesExact, HistoryExact
<1>3. UndoKept'
  BY <1>1 DEF Exact, UndoKept, Ahead
<1>4. UndoAtWork' /\ CoinsHeld' /\ HistoryAhead' /\ HistoryBehind'
  BY <1>1 DEF Exact, UndoAtWork, CoinsHeld, HistoryAhead, HistoryBehind, Behind, tip
<1> QED BY <1>2, <1>3, <1>4 DEF Exact

\* The end of a reorg: nothing is ahead of what is flushed.
LEMMA ExactReorgDone ==
    ASSUME IInv, ~deep, ReorgDone, UNCHANGED ltor
    PROVE  Exact'
<1> USE DEF ReorgDone, diskVars, cacheVars, workVars, reorgVars, histVars
<1>1. Safe /\ Exact /\ chain = db_chain /\ unflushed = {}
  BY DEF IInv, Safe, ChainsRelated
<1>2. TablesExact' /\ HistoryExact'
  BY <1>1 DEF Exact, TablesExact, HistoryExact
<1>3. Chained(db_chain) /\ Len(db_chain) \in Nat
  BY <1>1, ChainEnd DEF Safe, ChainsValid
<1>4. UndoKept'
  <2>1. Len(db_chain) .. Len(db_chain) - 1 = {}
    BY <1>3
  <2> QED BY <1>1, <2>1 DEF Exact, UndoKept, Ahead
<1>5. UndoAtWork' /\ CoinsHeld' /\ HistoryBehind'
  BY <1>1 DEF Exact, UndoAtWork, CoinsHeld, HistoryBehind, Behind, tip
<1>6. HistoryAhead'
  <2>1. NewEntries(db_chain, Len(db_chain)) = {}
    BY <1>3, NoNewEntries
  <2> QED BY <1>1, <2>1 DEF HistoryAhead
<1> QED BY <1>2, <1>4, <1>5, <1>6 DEF Exact

\* An exception ends the process and changes nothing.
LEMMA ExactFails ==
    ASSUME IInv, ~deep, Fails, UNCHANGED ltor
    PROVE  Exact'
<1>1. /\ pc' = "failed" /\ Safe /\ Exact
      /\ UNCHANGED <<diskVars, cacheVars, workVars, reorgVars, histVars>>
  BY DEF Fails, IInv
<1> USE DEF diskVars, cacheVars, workVars, histVars
<1>2. TablesExact' /\ HistoryExact'
  BY <1>1 DEF Exact, TablesExact, HistoryExact
<1>3. UndoKept'
  BY <1>1 DEF Exact, UndoKept, Ahead
<1>4. UndoAtWork' /\ CoinsHeld' /\ HistoryAhead' /\ HistoryBehind'
  BY <1>1 DEF UndoAtWork, CoinsHeld, HistoryAhead, HistoryBehind, Behind
<1> QED BY <1>2, <1>3, <1>4 DEF Exact

\* Steps of nothing.
LEMMA ExactStutter ==
    ASSUME IInv, ~deep, UNCHANGED vars
    PROVE  Exact'
<1> USE DEF vars, diskVars, cacheVars, workVars, reorgVars, histVars
<1>1. Exact
  BY DEF IInv
<1>2. TablesExact' /\ HistoryExact'
  BY <1>1 DEF Exact, TablesExact, HistoryExact
<1>3. UndoKept' /\ UndoAtWork' /\ CoinsHeld'
  BY <1>1 DEF Exact, UndoKept, Ahead, UndoAtWork, CoinsHeld, tip
<1>4. HistoryAhead' /\ HistoryBehind'
  BY <1>1 DEF Exact, HistoryAhead, HistoryBehind, Behind, txid
<1> QED BY <1>2, <1>3, <1>4 DEF Exact

-----------------------------------------------------------------------------
(* What holds near the tip: advancing *)

\* Where advance_txs is in its block.
LEMMA AdvancePlace ==
    ASSUME Safe, pc = "advance"
    PROVE  /\ block \in Block /\ Prev[block] = tip /\ ltor \in BOOLEAN /\ Valid(block, ltor)
           /\ OnePerOutput(AllCoins(block)) /\ ProperCoins(AllCoins(block))
           /\ Chained(chain) /\ Chained(db_chain)
           /\ Len(chain) \in Nat /\ Len(db_chain) \in Nat
           /\ Len(Txs[block]) \in Nat /\ cur_tx \in 1 .. Len(Txs[block]) + 1
           /\ cur_tx > Len(Txs[block]) => cur_io = 1
           /\ cur_tx \in 1 .. Len(Txs[block]) =>
                 /\ txid \in Tx /\ Len(Ins[txid]) \in Nat /\ cur_io \in 1 .. Len(Ins[txid]) + 1
                 /\ TxNum(block, cur_tx) \in Nat
<1>1. /\ block \in Block /\ Prev[block] = tip /\ ltor \in BOOLEAN /\ Valid(block, ltor)
      /\ Chained(chain) /\ Chained(db_chain)
      /\ cur_tx \in 1 .. Len(Txs[block]) + 1
      /\ cur_tx > Len(Txs[block]) => cur_io = 1
      /\ cur_tx <= Len(Txs[block]) => cur_io \in 1 .. Len(Ins[txid]) + 1
  BY DEF Safe, AtWork, TypeOK, ChainsValid
<1>2. OnePerOutput(AllCoins(block)) /\ ProperCoins(AllCoins(block))
  BY <1>1, CoinsOfBlock DEF tip
<1>3. Len(chain) \in Nat /\ Len(db_chain) \in Nat
  BY <1>1, ChainEnd
<1>4. /\ Len(Txs[block]) \in Nat
      /\ \A i \in 1 .. Len(Txs[block]) : Txs[block][i] \in Tx /\ TxNum(block, i) \in Nat
  BY <1>1, BlockFacts
<1>5. ASSUME cur_tx \in 1 .. Len(Txs[block])
      PROVE  /\ txid \in Tx /\ Len(Ins[txid]) \in Nat /\ cur_io \in 1 .. Len(Ins[txid]) + 1
             /\ TxNum(block, cur_tx) \in Nat
  <2>1. txid \in Tx /\ TxNum(block, cur_tx) \in Nat
    BY <1>4, <1>5 DEF txid
  <2>2. cur_tx <= Len(Txs[block])
    BY <1>4, <1>5
  <2> QED BY <2>1, <2>2, <1>1, InputFacts
<1> QED BY <1>1, <1>2, <1>3, <1>4, <1>5

\* At the start of a block there are the coins of its predecessor, and for
\* LTORBlockProcessor all outputs of the block.
LEMMA ExactBeginBlock ==
    ASSUME IInv, ~deep, NEW b \in Block, NEW daemon \in 0 .. MaxHeight, BeginBlock(b, daemon),
           UNCHANGED ltor
    PROVE  Exact'
<1> USE DEF diskVars, reorgVars
<1>1. /\ pc \in {"idle", "advanced"} /\ pc' = "advance"
      /\ Prev[b] = tip /\ Valid(b, ltor)
      /\ block' = b /\ cur_tx' = 1 /\ cur_io' = 1 /\ undo' = <<>>
      /\ seen' = IF seen > daemon THEN seen ELSE daemon
      /\ UNCHANGED <<diskVars, chain, db_deletes, undo_infos, touched, unflushed, reorgVars, deep>>
      /\ UNCHANGED ltor
  BY DEF BeginBlock
<1>2. utxo_cache' = IF ~ltor THEN utxo_cache ELSE Put(utxo_cache, BlockItems(b))
  BY DEF BeginBlock, BlockItems
<1>3. Safe /\ Exact
  BY DEF IInv
<1>4. TablesExact' /\ HistoryExact'
  BY <1>1, <1>3 DEF Exact, TablesExact, HistoryExact
<1>5. UndoKept'
  <2>1. /\ seen' \in Int /\ seen' >= seen /\ seen \in Int /\ ReorgLimit \in Int
        /\ Len(chain) \in Nat /\ Len(db_chain) \in Nat
    BY <1>1, <1>3, LimitAssumption, LenProperties DEF Safe, TypeOK
  <2>2. \A h \in Nat : h > seen' - ReorgLimit => h > seen - ReorgLimit
    <3> TAKE h \in Nat
    <3>1. \A m, n, k \in Int : m >= n /\ h > m - k => h > n - k
      OBVIOUS
    <3> QED BY <2>1, <3>1
  <2>3. UndoKept /\ pc \in Ahead
    BY <1>1, <1>3 DEF Exact, Ahead
  <2> QED BY <2>1, <2>2, <2>3, <1>1 DEF UndoKept, Ahead
<1>6. UndoAtWork'
  <2>1. Spending(b, 1, 0) = <<>>
    BY SpendingFirst
  <2>2. UndoItems(b, Spending(b, 1, 0)) = <<>>
    BY <2>1, UndoItemsNone
  <2>3. cur_io' - 1 = 0
    BY <1>1
  <2> QED BY <2>2, <2>3, <1>1 DEF UndoAtWork
<1>7. CoinsHeld'
  <2> DEFINE new == BlockItems(b)
             old == UnspentAt(Prev[b])
             made == Created(b, Len(Txs[b]))
  <2>1. Holds(db_chain, utxo_cache, db_deletes, old)
    BY <1>1, <1>3 DEF Exact, CoinsHeld
  <2>2. /\ DOMAIN new = {c.out : c \in made}
        /\ \A o \in DOMAIN new : new[o].hashX = HashXOf(o) /\ new[o].value = o
        /\ made = CoinsIn(new)
    BY BlockItemsAre DEF CoinsIn
  <2>3. \A c \in old, d \in made : c.out # d.out
    BY BlockCoins
  <2>4. /\ Midway(b, 1, 0, FALSE) = old
        /\ Midway(b, 1, 0, TRUE) = old \cup made
    BY MidwayFirst DEF AllCoins
  <2>5. ltor \in BOOLEAN /\ cur_io' - 1 = 0
    BY <1>1, <1>3 DEF Safe, TypeOK
  <2>6. utxo_cache' = IF ~ltor THEN utxo_cache ELSE Put(utxo_cache, new)
    BY <1>2
  <2> HIDE DEF new, old, made
  <2>7. \A c \in old : c.out \notin DOMAIN new
    <3> TAKE c \in old
    <3> SUFFICES ASSUME c.out \in DOMAIN new
                 PROVE  FALSE
      OBVIOUS
    <3>1. \E d \in made : c.out = d.out
      BY <2>2
    <3> QED BY <3>1, <2>3
  <2>8. Holds(db_chain, Put(utxo_cache, new), db_deletes, old \cup made)
    BY <2>1, <2>2, <2>7, PutHolds
  <2>9. Holds(db_chain, utxo_cache', db_deletes, Midway(b, 1, 0, ltor))
    <3>1. CASE ltor
      BY <3>1, <2>4, <2>5, <2>6, <2>8
    <3>2. CASE ~ltor
      BY <3>2, <2>1, <2>4, <2>5, <2>6
    <3> QED BY <3>1, <3>2
  <2> QED BY <2>9, <2>5, <1>1 DEF CoinsHeld
<1>8. HistoryAhead'
  <2>1. EntriesUpTo(b, 1, 0) = {}
    BY EntriesStart
  <2>2. unflushed = NewEntries(chain, Len(db_chain))
    BY <1>1, <1>3 DEF Exact, HistoryAhead
  <2>3. cur_io' - 1 = 0
    BY <1>1
  <2> QED BY <2>1, <2>2, <2>3, <1>1 DEF HistoryAhead
<1>9. HistoryBehind'
  BY <1>1 DEF HistoryBehind, Behind
<1> QED BY <1>4, <1>5, <1>6, <1>7, <1>8, <1>9 DEF Exact

\* spend_utxo of an input: the coin is found and gone, and it is in the undo
\* info and in the history.
LEMMA ExactSpendInput ==
    ASSUME IInv, ~deep, SpendInput, UNCHANGED ltor
    PROVE  Exact'
<1> USE DEF diskVars, reorgVars, histVars
<1>1. /\ pc = "advance" /\ pc' = "advance"
      /\ cur_tx <= Len(Txs[block]) /\ cur_io <= Len(Ins[txid]) /\ cur_io' = cur_io + 1
      /\ UNCHANGED <<diskVars, chain, undo_infos, block, cur_tx, min_height, reorgVars, histVars>>
      /\ UNCHANGED ltor
  BY DEF SpendInput
<1> DEFINE o == Ins[txid][cur_io]
           b == block
           i == cur_tx
           coins == Midway(b, i, cur_io - 1, ltor)
<1>2. PICK f \in Found(o) :
         /\ SpendUtxo(o, f)
         /\ undo' = Append(undo, f.item)
         /\ unflushed' = unflushed \cup {<<f.item.hashX, TxNum(b, i)>>}
  BY DEF SpendInput
<1>3. Safe /\ Exact
  BY DEF IInv
<1>4. /\ b \in Block /\ ltor \in BOOLEAN /\ Valid(b, ltor)
      /\ OnePerOutput(AllCoins(b)) /\ ProperCoins(AllCoins(b))
      /\ i \in 1 .. Len(Txs[b]) /\ txid = Txs[b][i]
      /\ Len(Ins[txid]) \in Nat /\ cur_io \in 1 .. Len(Ins[txid])
      /\ Chained(db_chain)
  <2>1. i \in 1 .. Len(Txs[b])
    BY <1>1, <1>3, AdvancePlace
  <2>2. Len(Ins[txid]) \in Nat /\ cur_io \in 1 .. Len(Ins[txid]) + 1
    BY <2>1, <1>1, <1>3, AdvancePlace
  <2>3. cur_io \in 1 .. Len(Ins[txid])
    BY <2>2, <1>1
  <2> QED BY <2>1, <2>2, <2>3, <1>1, <1>3, AdvancePlace DEF txid
<1>5. cur_io - 1 \in Nat /\ cur_io \in Nat \ {0} /\ (cur_io - 1) + 1 = cur_io /\ cur_io' - 1 = cur_io
  BY <1>1, <1>4
<1>6. PICK c \in coins : c.out = o
  BY <1>4, InputCoin
<1>7. coins \subseteq AllCoins(b) /\ OnePerOutput(coins) /\ c \in AllCoins(b) /\ o \in Output
  <2>1. i \in 1 .. Len(Txs[b]) + 1
    BY <1>4
  <2>2. \A d \in coins : d \in AllCoins(b)
    BY <2>1, <1>4, MidwayMember
  <2> HIDE DEF coins
  <2> QED BY <2>2, <1>4, <1>6 DEF OnePerOutput, ProperCoins
<1>8. Holds(db_chain, utxo_cache, db_deletes, coins)
  BY <1>1, <1>3 DEF Exact, CoinsHeld
<1>9. Midway(b, i, cur_io, ltor) = coins \ {c}
  <2>1. Midway(b, i, cur_io, ltor) = {d \in coins : d.out # o}
    <3> DEFINE n == cur_io - 1
    <3>1. n \in Nat /\ n + 1 = cur_io
      BY <1>5
    <3>2. Midway(b, i, n + 1, ltor) = {d \in Midway(b, i, n, ltor) : d.out # Ins[Txs[b][i]][n + 1]}
      <4>1. b \in Block /\ i \in 1 .. Len(Txs[b]) /\ ltor \in BOOLEAN
        BY <1>4
      <4>2. \A m \in Nat :
               Midway(b, i, m + 1, ltor) = {d \in Midway(b, i, m, ltor) : d.out # Ins[Txs[b][i]][m + 1]}
        BY <4>1, MidwayInput
      <4> HIDE DEF n
      <4> QED BY <4>2, <3>1
    <3> QED BY <3>1, <3>2, <1>4
  <2> HIDE DEF coins
  <2> QED BY <2>1, <1>6, <1>7 DEF OnePerOutput
<1>10. UndoItem(b, o) = ItemOf(c)
  BY <1>4, <1>6, <1>7, UndoItemIs DEF ItemOf
<1> HIDE DEF coins
<1>11. Found(o) = {[item |-> ItemOf(c),
                    keys |-> IF o \in DOMAIN utxo_cache THEN {} ELSE {KeysOf(c)}]}
  <2>1. \A p \in DOMAIN utxo_cache : utxo_cache[p] \in Item
    BY <1>3 DEF Safe, TypeOK
  <2>2. TablesOf(UnspentAt(H!TipOf(db_chain)))
    BY <1>3, TablesAre DEF Exact
  <2> QED BY <2>1, <2>2, <1>4, <1>6, <1>7, <1>8, FoundIs
<1> DEFINE keys == IF o \in DOMAIN utxo_cache THEN {} ELSE {KeysOf(c)}
<1>12. f.item = ItemOf(c) /\ f.keys = keys
  BY <1>2, <1>11
<1> HIDE DEF keys
<1>13. /\ utxo_cache' = [p \in DOMAIN utxo_cache \ {o} |-> utxo_cache[p]]
       /\ db_deletes' = db_deletes \cup keys
  BY <1>2, <1>12 DEF SpendUtxo
<1>14. Holds(db_chain, utxo_cache', db_deletes', coins \ {c})
  BY <1>4, <1>6, <1>7, <1>8, <1>13, SpendHolds DEF keys
<1>15. TablesExact' /\ HistoryExact'
  BY <1>1, <1>3 DEF Exact, TablesExact, HistoryExact
<1>16. UndoKept'
  BY <1>1, <1>3 DEF Exact, UndoKept
<1>17. UndoAtWork'
  <2>1. undo = UndoItems(b, Spending(b, i, cur_io - 1))
    BY <1>1, <1>3 DEF Exact, UndoAtWork
  <2>2. /\ Spending(b, i, cur_io - 1) \in Seq(Output)
        /\ Spending(b, i, cur_io) = Append(Spending(b, i, cur_io - 1), o)
    BY <1>4, SpendingStep
  <2>3. UndoItems(b, Spending(b, i, cur_io)) = Append(undo, UndoItem(b, o))
    BY <2>1, <2>2, <1>7, UndoItemsAppend
  <2>4. undo' = UndoItems(b, Spending(b, i, cur_io))
    BY <2>3, <1>2, <1>10, <1>12
  <2> HIDE DEF o
  <2> QED BY <2>4, <1>1, <1>5 DEF UndoAtWork
<1>18. CoinsHeld'
  <2>1. Holds(db_chain, utxo_cache', db_deletes', Midway(b, i, cur_io, ltor))
    BY <1>9, <1>14
  <2> QED BY <2>1, <1>1, <1>5 DEF CoinsHeld
<1>19. HistoryAhead'
  <2>1. unflushed = NewEntries(chain, Len(db_chain)) \cup EntriesUpTo(b, i, cur_io - 1)
    BY <1>1, <1>3 DEF Exact, HistoryAhead
  <2>2. EntriesUpTo(b, i, cur_io) =
           EntriesUpTo(b, i, cur_io - 1) \cup {<<HashXOf(o), TxNum(b, i)>>}
    BY <1>4, <1>5, EntriesInput
  <2>3. f.item.hashX = HashXOf(o)
    BY <1>6, <1>12 DEF ItemOf
  <2>4. unflushed' = NewEntries(chain, Len(db_chain)) \cup EntriesUpTo(b, i, cur_io)
    BY <2>1, <2>2, <2>3, <1>2
  <2> QED BY <2>4, <1>1, <1>5 DEF HistoryAhead
<1>20. HistoryBehind'
  BY <1>1 DEF HistoryBehind, Behind
<1> QED BY <1>15, <1>16, <1>17, <1>18, <1>19, <1>20 DEF Exact

\* No coin there is of an output that is about to be created.
LEMMA NotYetCreated ==
    ASSUME NEW b \in Block, OnePerOutput(AllCoins(b)), NEW i \in 1 .. Len(Txs[b]), NEW n,
           NEW c \in Midway(b, i, n, FALSE)
    PROVE  c.out \notin Stored(Txs[b][i])
<1> SUFFICES ASSUME c.out \in Stored(Txs[b][i])
             PROVE  FALSE
  OBVIOUS
<1> DEFINE d == Coin(c.out, TxNum(b, i))
<1>1. Len(Txs[b]) \in Nat /\ i \in 1 .. Len(Txs[b]) + 1 /\ FALSE \in BOOLEAN
  BY BlockFacts
<1>2. /\ c \in UnspentAt(Prev[b]) \/ \E j \in 1 .. Len(Txs[b]) : c \in CreatedBy(b, j) /\ j < i
      /\ c \in AllCoins(b)
  BY <1>1, MidwayMember
<1>3. d.out = c.out
  BY DEF Coin
<1>4. d \in CreatedBy(b, i)
  BY DEF CreatedBy
<1> HIDE DEF d
<1>5. d \in Created(b, Len(Txs[b]))
  BY <1>4, CreatedMember
<1>6. d \in AllCoins(b)
  BY <1>5 DEF AllCoins
<1>7. c \notin UnspentAt(Prev[b])
  BY <1>3, <1>5, BlockCoins
<1>8. PICK j \in 1 .. Len(Txs[b]) : c \in CreatedBy(b, j) /\ j < i
  BY <1>2, <1>7
<1>9. c.out[1] = Txs[b][j]
  BY <1>8, CreatedByFacts
<1>10. d.out[1] = Txs[b][i]
  BY <1>4, CreatedByFacts
<1>11. i = j
  BY <1>3, <1>9, <1>10, BlockCoins
<1> QED BY <1>8, <1>11

\* The outputs of a transaction: they are new.
LEMMA ExactAddOutputs ==
    ASSUME IInv, ~deep, AddOutputs, UNCHANGED ltor
    PROVE  Exact'
<1> USE DEF diskVars, reorgVars, histVars
<1> DEFINE b == block
           i == cur_tx
           n == Len(Ins[Txs[b][i]])
           new == NewItems(b, i)
           coins == Midway(b, i, n, ltor)
<1>1. /\ pc = "advance" /\ pc' = "advance"
      /\ cur_tx <= Len(Txs[block]) /\ cur_io > Len(Ins[txid])
      /\ utxo_cache' = IF ltor THEN utxo_cache ELSE Put(utxo_cache, new)
      /\ unflushed' = unflushed \cup {<<x, TxNum(b, i)>> : x \in OutHashXs(txid)}
      /\ cur_tx' = cur_tx + 1 /\ cur_io' = 1
      /\ UNCHANGED <<diskVars, chain, db_deletes, undo_infos, block, undo,
                     min_height, reorgVars, histVars>>
      /\ UNCHANGED ltor
  BY DEF AddOutputs, OutHashXs
<1>2. Safe /\ Exact
  BY DEF IInv
<1>3. /\ b \in Block /\ ltor \in BOOLEAN /\ Valid(b, ltor) /\ OnePerOutput(AllCoins(b))
      /\ i \in 1 .. Len(Txs[b]) /\ txid = Txs[b][i]
      /\ cur_io - 1 = n /\ cur_io' - 1 = 0
  <2>1. i \in 1 .. Len(Txs[b])
    BY <1>1, <1>2, AdvancePlace
  <2>2. Len(Ins[txid]) \in Nat /\ cur_io \in 1 .. Len(Ins[txid]) + 1
    BY <2>1, <1>1, <1>2, AdvancePlace
  <2>3. cur_io - 1 = Len(Ins[txid]) /\ cur_io' - 1 = 0
    BY <2>2, <1>1
  <2> QED BY <2>1, <2>3, <1>1, <1>2, AdvancePlace DEF txid
<1>4. Holds(db_chain, utxo_cache, db_deletes, coins)
  BY <1>1, <1>2, <1>3 DEF Exact, CoinsHeld
<1>5. TablesExact' /\ HistoryExact'
  BY <1>1, <1>2 DEF Exact, TablesExact, HistoryExact
<1>6. UndoKept'
  BY <1>1, <1>2 DEF Exact, UndoKept
<1>7. UndoAtWork'
  <2>1. undo = UndoItems(b, Spending(b, i, n))
    BY <1>1, <1>2, <1>3 DEF Exact, UndoAtWork
  <2>2. Spending(b, i + 1, 0) = Spending(b, i, n)
    BY <1>3, SpendingNext
  <2> HIDE DEF n
  <2> QED BY <2>1, <2>2, <1>1, <1>3 DEF UndoAtWork
<1>8. Holds(db_chain, utxo_cache', db_deletes, Midway(b, i + 1, 0, ltor))
  <2>1. CASE ltor
    <3>1. Midway(b, i + 1, 0, TRUE) = Midway(b, i, n, TRUE)
      BY <1>3, MidwayOutputs
    <3>2. ltor = TRUE
      BY <2>1, <1>3
    <3>3. Midway(b, i + 1, 0, ltor) = coins
      BY <3>1, <3>2
    <3> QED BY <3>3, <2>1, <1>1, <1>4
  <2>2. CASE ~ltor
    <3>1. ltor = FALSE
      BY <2>2, <1>3
    <3>2. Valid(b, FALSE) /\ coins = Midway(b, i, n, FALSE)
      BY <3>1, <1>3
    <3>3. Midway(b, i + 1, 0, ltor) = coins \cup CreatedBy(b, i)
      BY <3>1, <3>2, <1>3, MidwayOutputs
    <3>4. /\ DOMAIN new = Stored(Txs[b][i])
          /\ \A o \in DOMAIN new : new[o].hashX = HashXOf(o) /\ new[o].value = o
          /\ CreatedBy(b, i) = CoinsIn(new)
      BY <1>3, NewItemsAre DEF CoinsIn
    <3>5. \A c \in coins : c.out \notin Stored(Txs[b][i])
      <4> HIDE DEF n
      <4> QED BY <3>2, <1>3, NotYetCreated
    <3> HIDE DEF new, coins
    <3>6. \A c \in coins : c.out \notin DOMAIN new
      BY <3>4, <3>5
    <3>7. Holds(db_chain, Put(utxo_cache, new), db_deletes, coins \cup CoinsIn(new))
      BY <3>4, <3>6, <1>4, PutHolds
    <3> QED BY <3>3, <3>4, <3>7, <2>2, <1>1
  <2> QED BY <2>1, <2>2
<1>9. CoinsHeld'
  BY <1>1, <1>3, <1>8 DEF CoinsHeld
<1>10. HistoryAhead'
  <2>1. unflushed = NewEntries(chain, Len(db_chain)) \cup EntriesUpTo(b, i, n)
    BY <1>1, <1>2, <1>3 DEF Exact, HistoryAhead
  <2>2. EntriesUpTo(b, i + 1, 0) = EntriesUpTo(b, i, n) \cup OutHashXs(txid) \X {TxNum(b, i)}
    BY <1>3, EntriesOutputs
  <2>3. {<<x, TxNum(b, i)>> : x \in OutHashXs(txid)} = OutHashXs(txid) \X {TxNum(b, i)}
    OBVIOUS
  <2>4. unflushed' = NewEntries(chain, Len(db_chain)) \cup EntriesUpTo(b, i + 1, 0)
    BY <2>1, <2>2, <2>3, <1>1
  <2> QED BY <2>4, <1>1, <1>3 DEF HistoryAhead
<1>11. HistoryBehind'
  BY <1>1 DEF HistoryBehind, Behind
<1> QED BY <1>5, <1>6, <1>7, <1>9, <1>10, <1>11 DEF Exact

\* At the end of a block there are the coins it leaves, its undo info is
\* that of its inputs in order, and its history is complete.
LEMMA ExactEndBlock ==
    ASSUME IInv, ~deep, EndBlock, UNCHANGED ltor
    PROVE  Exact'
<1> DEFINE b == block
           k == Len(chain)
           N == Len(Txs[b])
<1>1. /\ pc = "advance" /\ pc' = "advanced" /\ cur_tx > N
      /\ chain' = Append(chain, b)
      /\ IF k >= min_height THEN undo_infos' = Put(undo_infos, [h \in {k} |-> undo])
                            ELSE UNCHANGED undo_infos
      /\ unflushed' = unflushed \cup NameEntries(b)
      /\ UNCHANGED <<h_table, u_table, undo_table, db_chain, history,
                     utxo_cache, db_deletes, seen, deep>>
  BY EndBlockIs DEF histVars
<1>2. Safe /\ Exact
  BY DEF IInv
<1>3. /\ b \in Block /\ Prev[b] = tip /\ ltor \in BOOLEAN /\ N \in Nat
      /\ Chained(chain) /\ k \in Nat /\ Len(db_chain) \in Nat
      /\ cur_tx = N + 1 /\ cur_io = 1 /\ cur_io - 1 = 0
  <2>1. cur_tx \in 1 .. N + 1 /\ N \in Nat
    BY <1>1, <1>2, AdvancePlace
  <2>2. cur_tx = N + 1
    BY <2>1, <1>1
  <2>3. cur_io = 1
    BY <1>1, <1>2, AdvancePlace
  <2> QED BY <2>1, <2>2, <2>3, <1>1, <1>2, AdvancePlace
<1>4. /\ Len(chain') = k + 1 /\ H!TipOf(chain') = b
      /\ \A j \in 1 .. k : chain'[j] = chain[j]
      /\ chain'[k + 1] = b
  BY <1>1, <1>3, ChainGrows DEF tip
<1>5. TablesExact' /\ HistoryExact'
  BY <1>1, <1>2 DEF Exact, TablesExact, HistoryExact
<1>6. undo = UndoItems(b, SpentBy(b))
  <2>1. undo = UndoItems(b, Spending(b, N + 1, 0))
    BY <1>1, <1>2, <1>3 DEF Exact, UndoAtWork
  <2>2. Spending(b, N + 1, 0) = SpentBy(b)
    BY <1>3, SpendingFirst, SpentByIs
  <2> QED BY <2>1, <2>2
<1>7. UndoKept'
  <2> DEFINE kept(h) == /\ h \in DOMAIN undo_infos'
                        /\ undo_infos'[h] = UndoItems(chain'[h + 1], SpentBy(chain'[h + 1]))
             put == [h \in {k} |-> undo]
  <2>1. UndoKept /\ pc \in Ahead
    BY <1>1, <1>2 DEF Exact, Ahead
  <2>2. /\ DOMAIN put = {k} /\ put[k] = undo
    OBVIOUS
  <2>3. min_height \in Int /\ seen \in Int /\ ReorgLimit \in Int /\ min_height <= seen - ReorgLimit + 1
    BY <1>1, <1>2, LimitAssumption DEF Safe, TypeOK, AtWork
  <2>4. k > seen - ReorgLimit => k >= min_height
    <3>1. \A l, m, s, r \in Int : m <= s - r + 1 /\ l > s - r => l >= m
      OBVIOUS
    <3> QED BY <3>1, <2>3, <1>3
  <2> HIDE DEF put
  <2> DEFINE more == Put(undo_infos, put)
  <2>9. /\ DOMAIN more = DOMAIN undo_infos \cup DOMAIN put
        /\ \A h \in DOMAIN put : more[h] = put[h]
        /\ \A h \in DOMAIN undo_infos \ DOMAIN put : more[h] = undo_infos[h]
    BY PutIs
  <2> HIDE DEF more
  <2>5. k > seen - ReorgLimit => kept(k)
    <3> SUFFICES ASSUME k > seen - ReorgLimit
                 PROVE  kept(k)
      OBVIOUS
    <3>1. undo_infos' = more
      BY <2>4, <1>1 DEF put, more
    <3>2. k \in DOMAIN undo_infos' /\ undo_infos'[k] = undo
      BY <3>1, <2>2, <2>9
    <3> QED BY <3>2, <1>4, <1>6
  <2>6. ASSUME NEW h \in Len(db_chain) .. k - 1, h > seen - ReorgLimit
        PROVE  kept(h)
    <3>1. /\ h \in DOMAIN undo_infos
          /\ undo_infos[h] = UndoItems(chain[h + 1], SpentBy(chain[h + 1]))
      BY <2>1, <2>6 DEF UndoKept
    <3>2. h + 1 \in 1 .. k /\ h # k
      BY <1>3
    <3>3. chain'[h + 1] = chain[h + 1]
      BY <3>2, <1>4
    <3>4. h \in DOMAIN undo_infos' /\ undo_infos'[h] = undo_infos[h]
      <4>1. undo_infos' = undo_infos \/ undo_infos' = more
        BY <1>1 DEF put, more
      <4> HIDE DEF k
      <4>2. h \in DOMAIN undo_infos \ DOMAIN put
        BY <3>1, <3>2, <2>2
      <4> QED BY <4>1, <4>2, <2>9
    <3> QED BY <3>1, <3>3, <3>4
  <2>7. \A h \in Len(db_chain) .. Len(chain') - 1 : h = k \/ h \in Len(db_chain) .. k - 1
    BY <1>3, <1>4
  <2>8. \A h \in Len(db_chain) .. Len(chain') - 1 : h > seen - ReorgLimit => kept(h)
    <3> HIDE DEF kept
    <3> QED BY <2>5, <2>6, <2>7
  <2> QED BY <2>1, <2>8, <1>1 DEF UndoKept
<1>8. CoinsHeld'
  <2>1. Holds(db_chain, utxo_cache, db_deletes, Midway(b, N + 1, 0, ltor))
    BY <1>1, <1>2, <1>3 DEF Exact, CoinsHeld
  <2>2. Midway(b, N + 1, 0, ltor) = UnspentAt(b)
    BY <1>3, MidwayLast
  <2>3. tip' = b
    BY <1>4 DEF tip
  <2> QED BY <2>1, <2>2, <2>3, <1>1 DEF CoinsHeld
<1>9. HistoryAhead'
  <2>1. unflushed = NewEntries(chain, Len(db_chain)) \cup EntriesUpTo(b, N + 1, 0)
    BY <1>1, <1>2, <1>3 DEF Exact, HistoryAhead
  <2>2. H!Entries(b) = EntriesUpTo(b, N + 1, 0) \cup NameEntries(b)
    BY <1>3, EntriesLast DEF NameEntries
  <2>3. Len(db_chain) \in 0 .. k
    <3>1. Len(db_chain) <= k
      BY <1>1, <1>2 DEF Safe, ChainsRelated, Ahead, PrefixOf
    <3> QED BY <3>1, <1>3
  <2>4. NewEntries(chain', Len(db_chain)) = NewEntries(chain, Len(db_chain)) \cup H!Entries(b)
    BY <2>3, <1>1, <1>3, NewEntriesGrow DEF tip
  <2>5. unflushed' = NewEntries(chain', Len(db_chain))
    BY <2>1, <2>2, <2>4, <1>1
  <2> QED BY <2>5, <1>1 DEF HistoryAhead
<1>10. UndoAtWork' /\ HistoryBehind'
  BY <1>1 DEF UndoAtWork, HistoryBehind, Behind
<1> QED BY <1>5, <1>7, <1>8, <1>9, <1>10 DEF Exact

\* After a flush the tables, the history and the undo info are those of the
\* chain.
LEMMA ExactFlush ==
    ASSUME IInv, ~deep, Flush, UNCHANGED ltor
    PROVE  Exact'
<1>1. /\ pc \in {"idle", "advanced"} /\ pc' = "idle" /\ chain' = chain
      /\ history' = history \cup unflushed /\ unflushed' = {}
      /\ undo_table' = Put(undo_table, undo_infos)
      /\ utxo_cache' = <<>> /\ db_deletes' = {} /\ undo_infos' = <<>>
      /\ db_chain' = chain /\ seen' = seen
  BY DEF Flush, FlushUtxoDb, histVars
<1>2. Safe /\ Exact /\ FlushUtxoDb
  BY DEF IInv, Flush
<1>3. /\ Chained(chain) /\ Chained(db_chain) /\ PrefixOf(db_chain, chain)
      /\ Len(chain) \in Nat /\ Len(db_chain) \in Nat
      /\ DOMAIN undo_infos \subseteq Len(db_chain) .. Len(chain) - 1
  BY <1>1, <1>2, ChainEnd DEF Safe, ChainsValid, ChainsRelated, Ahead
<1>4. TablesExact'
  <2>1. TablesOf(UnspentAt(H!TipOf(db_chain)))
    BY <1>2, TablesAre DEF Exact
  <2>2. Holds(db_chain, utxo_cache, db_deletes, UnspentAt(H!TipOf(chain)))
    BY <1>1, <1>2 DEF Exact, CoinsHeld, tip
  <2>3. /\ h_table' = {HRow(c) : c \in UnspentAt(H!TipOf(chain))}
        /\ u_table' = {URow(c) : c \in UnspentAt(H!TipOf(chain))}
    BY <2>1, <2>2, <1>2, <1>3, FlushTables
  <2> QED BY <2>3, <1>1 DEF TablesExact, HRow, URow
<1>5. HistoryExact'
  <2>1. H!HistoryOf(chain) = H!HistoryOf(db_chain) \cup NewEntries(chain, Len(db_chain))
    BY <1>3, HistoryParts
  <2>2. unflushed = NewEntries(chain, Len(db_chain))
    BY <1>1, <1>2 DEF Exact, HistoryAhead
  <2>3. /\ H!HistoryOf(db_chain) \subseteq history
        /\ \A e \in history \ H!HistoryOf(db_chain) : \E t \in Tx : e[1] \in Names[t]
    BY <1>2 DEF Exact, HistoryExact
  <2>4. /\ H!HistoryOf(chain) \subseteq history'
        /\ \A e \in history' \ H!HistoryOf(chain) : \E t \in Tx : e[1] \in Names[t]
    BY <2>1, <2>2, <2>3, <1>1
  <2> QED BY <2>4, <1>1 DEF HistoryExact
<1>6. UndoKept'
  <2> DEFINE put == Put(undo_table, undo_infos)
             kept(h) == /\ h \in DOMAIN put
                        /\ put[h] = UndoItems(chain[h + 1], SpentBy(chain[h + 1]))
  <2>1. UndoKept /\ pc \in Ahead
    BY <1>1, <1>2 DEF Exact, Ahead
  <2>5. /\ DOMAIN put = DOMAIN undo_table \cup DOMAIN undo_infos
        /\ \A h \in DOMAIN undo_infos : put[h] = undo_infos[h]
        /\ \A h \in DOMAIN undo_table \ DOMAIN undo_infos : put[h] = undo_table[h]
    BY PutIs
  <2> HIDE DEF put
  <2>2. ASSUME NEW h \in 0 .. Len(chain) - 1, h > seen - ReorgLimit
        PROVE  kept(h)
    <3>1. CASE h \in 0 .. Len(db_chain) - 1
      <4>1. /\ h \in DOMAIN undo_table
            /\ undo_table[h] = UndoItems(db_chain[h + 1], SpentBy(db_chain[h + 1]))
        BY <2>1, <2>2, <3>1 DEF UndoKept
      <4>2. h \notin Len(db_chain) .. Len(chain) - 1 /\ h + 1 \in 1 .. Len(db_chain)
        BY <3>1, <1>3
      <4>3. h \in DOMAIN undo_table \ DOMAIN undo_infos
        BY <4>1, <4>2, <1>3
      <4>4. h \in DOMAIN put /\ put[h] = undo_table[h]
        BY <4>3, <2>5
      <4>5. db_chain[h + 1] = chain[h + 1]
        BY <4>2, <1>3 DEF PrefixOf
      <4> QED BY <4>1, <4>4, <4>5
    <3>2. CASE h \in Len(db_chain) .. Len(chain) - 1
      <4>1. /\ h \in DOMAIN undo_infos
            /\ undo_infos[h] = UndoItems(chain[h + 1], SpentBy(chain[h + 1]))
        BY <2>1, <2>2, <3>2 DEF UndoKept
      <4>2. h \in DOMAIN put /\ put[h] = undo_infos[h]
        BY <4>1, <2>5
      <4> QED BY <4>1, <4>2
    <3>3. h \in 0 .. Len(db_chain) - 1 \/ h \in Len(db_chain) .. Len(chain) - 1
      BY <1>3
    <3> QED BY <3>1, <3>2, <3>3
  <2>3. Len(chain) .. Len(chain) - 1 = {}
    BY <1>3
  <2>4. undo_table' = put
    BY <1>1 DEF put
  <2> QED BY <2>2, <2>3, <2>4, <1>1 DEF UndoKept
<1>7. CoinsHeld'
  <2>1. tip' = H!TipOf(chain)
    BY <1>1 DEF tip
  <2> QED BY <2>1, <1>1, NothingCached DEF CoinsHeld
<1>8. HistoryAhead'
  <2>1. NewEntries(chain, Len(chain)) = {}
    BY <1>3, NoNewEntries
  <2> QED BY <2>1, <1>1 DEF HistoryAhead
<1>9. UndoAtWork' /\ HistoryBehind'
  BY <1>1 DEF UndoAtWork, HistoryBehind, Behind
<1> QED BY <1>4, <1>5, <1>6, <1>7, <1>8, <1>9 DEF Exact

-----------------------------------------------------------------------------
(* What holds near the tip: backing up *)

\* While there is a block to back up, it is valid and its coins are known.
LEMMA TipCoins ==
    ASSUME Safe, pc \in Behind
    PROVE  /\ tip \in Block /\ ltor \in BOOLEAN /\ Valid(tip, ltor)
           /\ OnePerOutput(AllCoins(tip)) /\ ProperCoins(AllCoins(tip))
           /\ Chained(chain) /\ Chained(db_chain) /\ PrefixOf(chain, db_chain)
           /\ Len(chain) \in Nat /\ Len(chain) > 0 /\ Len(db_chain) \in Nat
           /\ Len(chain) <= Len(db_chain)
           /\ tip = chain[Len(chain)] /\ tip = db_chain[Len(chain)]
           /\ height = Len(chain) - 1 /\ height \in 0 .. Len(db_chain) - 1
<1>1. /\ Chained(chain) /\ Chained(db_chain) /\ PrefixOf(chain, db_chain)
      /\ todo < Len(chain) /\ todo \in Nat /\ ltor \in BOOLEAN
      /\ \A i \in 1 .. Len(chain) : Valid(chain[i], ltor)
  BY DEF Safe, TypeOK, ChainsValid, ChainsRelated, ReorgLeft
<1>2. Len(chain) \in Nat /\ Len(db_chain) \in Nat
  BY <1>1, ChainEnd
<1>3. Len(chain) > 0 /\ Len(chain) \in 1 .. Len(chain)
  BY <1>1, <1>2
<1>4. tip \in Block /\ tip = chain[Len(chain)]
  BY <1>1, <1>3, ChainEnd DEF tip
<1>5. Len(chain) <= Len(db_chain) /\ chain[Len(chain)] = db_chain[Len(chain)]
  BY <1>1, <1>3 DEF PrefixOf
<1>6. Valid(tip, ltor)
  BY <1>1, <1>3, <1>4
<1>7. height = Len(chain) - 1 /\ height \in 0 .. Len(db_chain) - 1
  BY <1>2, <1>3, <1>5 DEF height
<1>8. OnePerOutput(AllCoins(tip)) /\ ProperCoins(AllCoins(tip))
  <2> DEFINE d == SubSeq(chain, 1, Len(chain) - 1)
  <2>1. Chained(d) /\ H!TipOf(d) = Prev[tip]
    BY <1>1, <1>3, ChainShrinks DEF tip
  <2> HIDE DEF d
  <2> QED BY <2>1, <1>4, CoinsOfBlock
<1> QED BY <1>1, <1>2, <1>3, <1>4, <1>5, <1>6, <1>7, <1>8

ElementsOf(outs) == {outs[k] : k \in 1 .. Len(outs)}

\* The cache entries that undo info restores are the coins that were spent.
LEMMA RestoredIs ==
    ASSUME NEW b \in Block, OnePerOutput(AllCoins(b)), ProperCoins(AllCoins(b)),
           NEW outs \in Seq(Output),
           \A o \in ElementsOf(outs) : \E c \in AllCoins(b) : c.out = o
    PROVE  LET items == UndoItems(b, outs)
               new == Restored(outs, items)
               S == ElementsOf(outs)
           IN  /\ DOMAIN new = S
               /\ \A o \in DOMAIN new : new[o].hashX = HashXOf(o) /\ new[o].value = o
               /\ CoinsIn(new) = CoinsOn(b, S)
               /\ \A o \in S : HashXOf(o) \in HashXsIn(items)
<1> DEFINE items == UndoItems(b, outs)
           new == Restored(outs, items)
           pick(o) == CHOOSE k \in 1 .. Len(outs) : outs[k] = o
           S == ElementsOf(outs)
<1>0. \A o : o \in S <=> \E k \in 1 .. Len(outs) : o = outs[k]
  BY DEF ElementsOf
<1>1. /\ Len(outs) \in Nat /\ Len(items) = Len(outs)
      /\ \A k \in 1 .. Len(outs) : items[k] = UndoItem(b, outs[k])
  BY UndoItemsOf
<1>2. /\ DOMAIN new = {outs[k] : k \in 1 .. Len(outs)}
      /\ \A o \in DOMAIN new : new[o] = items[pick(o)]
  BY DEF Restored
<1>3. HashXsIn(items) = {items[k].hashX : k \in 1 .. Len(items)}
  BY DEF HashXsIn
<1>4. \A o \in S : pick(o) \in 1 .. Len(outs) /\ outs[pick(o)] = o
  <2> TAKE o \in S
  <2>1. \E k \in 1 .. Len(outs) : outs[k] = o
    BY <1>0
  <2> QED BY <2>1
<1> HIDE DEF items, new, pick, S
<1>5. DOMAIN new = S
  BY <1>0, <1>2
<1>6. \A o \in S : new[o] = UndoItem(b, o)
  BY <1>1, <1>2, <1>4, <1>5
<1>7. \A o \in S : new[o].hashX = HashXOf(o) /\ new[o].value = o
  <2>1. \A o : UndoItem(b, o).hashX = HashXOf(o) /\ UndoItem(b, o).value = o
    BY DEF UndoItem
  <2> QED BY <2>1, <1>6
<1>8. CoinsIn(new) = CoinsOn(b, S)
  <2>1. CoinsIn(new) = {Coin(o, new[o].tx_num) : o \in S}
    BY <1>5 DEF CoinsIn
  <2>2. {Coin(o, new[o].tx_num) : o \in S} = {Coin(o, UndoItem(b, o).tx_num) : o \in S}
    BY <1>6
  <2>3. CoinsOn(b, S) = {Coin(o, UndoItem(b, o).tx_num) : o \in S}
    BY RestoredCoins DEF S
  <2> QED BY <2>1, <2>2, <2>3
<1>9. \A o \in S : HashXOf(o) \in HashXsIn(items)
  <2> TAKE o \in S
  <2> DEFINE k == pick(o)
  <2>1. k \in 1 .. Len(items) /\ items[k] = UndoItem(b, o)
    BY <1>1, <1>4
  <2>2. UndoItem(b, o).hashX = HashXOf(o)
    BY DEF UndoItem
  <2> HIDE DEF k
  <2> QED BY <2>1, <2>2, <1>3
<1>10. /\ DOMAIN new = S
       /\ \A o \in DOMAIN new : new[o].hashX = HashXOf(o) /\ new[o].value = o
       /\ CoinsIn(new) = CoinsOn(b, S)
       /\ \A o \in S : HashXOf(o) \in HashXsIn(items)
  BY <1>5, <1>7, <1>8, <1>9
<1> QED BY <1>10 DEF items, new, S

\* With undo info the reorg can go on: it is that of the tip.
LEMMA TipUndo ==
    ASSUME Safe, UndoKept, pc \in Behind, ~(height <= seen - ReorgLimit)
    PROVE  /\ height \in DOMAIN undo_table
           /\ undo_table[height] = UndoItems(tip, SpentBy(tip))
<1>1. /\ height \in 0 .. Len(db_chain) - 1 /\ Len(chain) \in Nat /\ Len(db_chain) \in Nat
      /\ height = Len(chain) - 1 /\ tip = db_chain[Len(chain)]
  BY TipCoins
<1>2. height > seen - ReorgLimit
  <2>1. height \in Int /\ seen \in Int /\ ReorgLimit \in Int
    BY <1>1, LimitAssumption DEF Safe, TypeOK
  <2>2. \A m, n, k \in Int : ~(m <= n - k) => m > n - k
    OBVIOUS
  <2> QED BY <2>1, <2>2
<1>3. height + 1 = Len(chain)
  BY <1>1
<1> QED BY <1>1, <1>2, <1>3 DEF UndoKept

\* backup_block: the undo info is that of the tip; LTORBlockProcessor restores
\* all inputs first.
LEMMA ExactBeginUndo ==
    ASSUME IInv, BeginUndo, UNCHANGED ltor, ~deep'
    PROVE  Exact'
<1> USE DEF diskVars, reorgVars
<1> DEFINE b == tip
           N == Len(Txs[b])
           items == undo_table[height]
           outs == SpentBy(b)
           new == Restored(outs, items)
           S == SpentUpTo(b, N + 1, 0)
<1>1. /\ pc = "chunk" /\ pc' = "undo"
      /\ block' = b /\ cur_io' = 1
      /\ deep' = (deep \/ height <= seen - ReorgLimit)
      /\ UNCHANGED <<diskVars, chain, db_deletes, undo_infos, unflushed,
                     min_height, reorgVars, seen>>
      /\ UNCHANGED ltor
  BY DEF BeginUndo
<1>2. /\ ltor => /\ utxo_cache' = Put(utxo_cache, new)
                 /\ touched' = touched \cup HashXsIn(items)
                 /\ undo' = <<>> /\ cur_tx' = 1
      /\ ~ltor => /\ undo' = items /\ cur_tx' = N
                  /\ UNCHANGED <<utxo_cache, touched>>
  BY DEF BeginUndo
<1>3. ~deep /\ ~(height <= seen - ReorgLimit)
  BY <1>1, Zenon
<1>4. Safe /\ Exact /\ pc \in Behind /\ UndoKept /\ HistoryBehind
  BY <1>1, <1>3 DEF IInv, Behind, Exact
<1>5. /\ b \in Block /\ ltor \in BOOLEAN /\ Valid(b, ltor)
      /\ OnePerOutput(AllCoins(b)) /\ ProperCoins(AllCoins(b))
      /\ N \in Nat /\ N > 0
  BY <1>4, TipCoins, BlockFacts
<1>6. items = UndoItems(b, outs)
  BY <1>3, <1>4, TipUndo
<1>7. /\ outs = InsOf(b)[N] /\ outs \in Seq(Output)
      /\ \A o : o \in S <=> \E k \in 1 .. Len(outs) : o = outs[k]
  BY <1>5, SpentByIs
<1>8. \A o \in S : \E c \in AllCoins(b) : c.out = o
  BY <1>5, SpentHaveCoins
<1>9. /\ DOMAIN new = S
      /\ \A o \in DOMAIN new : new[o].hashX = HashXOf(o) /\ new[o].value = o
      /\ CoinsIn(new) = CoinsOn(b, S)
      /\ \A o \in S : HashXOf(o) \in HashXsIn(items)
  <2> DEFINE its == UndoItems(b, outs)
             res == Restored(outs, its)
             els == ElementsOf(outs)
  <2> HIDE DEF outs, S, b
  <2>3. els = S
    BY <1>7 DEF ElementsOf
  <2>4. /\ DOMAIN res = els
        /\ \A o \in DOMAIN res : res[o].hashX = HashXOf(o) /\ res[o].value = o
        /\ CoinsIn(res) = CoinsOn(b, els)
        /\ \A o \in els : HashXOf(o) \in HashXsIn(its)
    BY <2>3, <1>5, <1>7, <1>8, RestoredIs
  <2>1. /\ DOMAIN res = S
        /\ \A o \in DOMAIN res : res[o].hashX = HashXOf(o) /\ res[o].value = o
        /\ CoinsIn(res) = CoinsOn(b, S)
        /\ \A o \in S : HashXOf(o) \in HashXsIn(its)
    BY <2>3, <2>4
  <2>2. new = res /\ items = its
    BY <1>6
  <2> HIDE DEF new, items, res, its
  <2> QED BY <2>1, <2>2
<1> HIDE DEF new, items, outs
<1>10. TablesExact' /\ HistoryExact'
  BY <1>1, <1>4 DEF Exact, TablesExact, HistoryExact
<1>11. UndoKept'
  BY <1>1, <1>4 DEF UndoKept, Ahead
<1>12. UndoAtWork'
  BY <1>1, <1>2, <1>6, <1>7 DEF UndoAtWork
<1>13. Holds(db_chain, utxo_cache, db_deletes, UnspentAt(b))
  BY <1>1, <1>4 DEF Exact, CoinsHeld
<1>14. CoinsHeld'
  <2>1. CASE ltor
    <3>1. /\ Backway(b, 1, 1, TRUE) = UnspentAt(b) \cup CoinsOn(b, S)
          /\ \A c \in UnspentAt(b) : c.out \notin S
      BY <1>5, BackwayFirst
    <3>2. Holds(db_chain, Put(utxo_cache, new), db_deletes, UnspentAt(b) \cup CoinsIn(new))
      BY <3>1, <1>9, <1>13, PutHolds
    <3>3. ltor' = TRUE
      BY <2>1, <1>1, <1>5
    <3> QED BY <3>1, <3>2, <3>3, <2>1, <1>1, <1>2, <1>9 DEF CoinsHeld
  <2>2. CASE ~ltor
    <3>1. Backway(b, N, 1, FALSE) = UnspentAt(b)
      BY <1>5, BackwayFirst
    <3>2. ltor' = FALSE
      BY <2>2, <1>1, <1>5
    <3> QED BY <3>1, <3>2, <2>2, <1>1, <1>2, <1>13 DEF CoinsHeld
  <2> QED BY <2>1, <2>2
<1>15. HistoryAhead'
  BY <1>1 DEF HistoryAhead
<1>16. HistoryBehind'
  <2>1. touched \subseteq touched'
    BY <1>2
  <2>2. \A e \in NewEntries(db_chain, Len(chain)) : e[1] \in touched \cup AllNames
    BY <1>4 DEF HistoryBehind
  <2>3. ASSUME NEW j \in 1 .. N, ltor
        PROVE  InHashXs(Txs[b][j]) \subseteq touched'
    <3>1. ASSUME NEW x \in InHashXs(Txs[b][j])
          PROVE  x \in touched'
      <4>1. PICK k \in 1 .. Len(Ins[Txs[b][j]]) : x = HashXOf(Ins[Txs[b][j]][k])
        BY <3>1 DEF InHashXs
      <4>2. Ins[Txs[b][j]][k] \in SpentIn(b, j)
        BY <4>1 DEF SpentIn
      <4>3. Ins[Txs[b][j]][k] \in S
        BY <4>2, <1>5, SpentHaveCoins
      <4> QED BY <4>1, <4>3, <2>3, <1>2, <1>9
    <3> QED BY <3>1
  <2>4. \A j \in 1 .. N : /\ ltor \/ j > cur_tx' => InHashXs(Txs[b][j]) \subseteq touched'
                          /\ ~((ltor /\ j < cur_tx') \/ (~ltor /\ j > cur_tx'))
    <3> TAKE j \in 1 .. N
    <3>1. CASE ltor
      BY <3>1, <2>3, <1>2, <1>5
    <3>2. CASE ~ltor
      <4>1. ~(j > cur_tx')
        BY <3>2, <1>2, <1>5
      <4> QED BY <4>1, <3>2
    <3> QED BY <3>1, <3>2
  <2>5. cur_tx' \in 1 .. N => \A o \in Stored(Txs[b][cur_tx']) : ~(o[2] < 1)
    <3> SUFFICES ASSUME cur_tx' \in 1 .. N, NEW o \in Stored(Txs[b][cur_tx'])
                 PROVE  ~(o[2] < 1)
      OBVIOUS
    <3>1. Txs[b][cur_tx'] \in Tx
      BY <1>5, BlockFacts
    <3>2. o[2] \in 1 .. Len(Outs[Txs[b][cur_tx']])
      BY <3>1, OutputFacts
    <3>3. Len(Outs[Txs[b][cur_tx']]) \in Nat
      BY <3>1, OutsLength
    <3> QED BY <3>2, <3>3
  <2> QED BY <2>1, <2>2, <2>4, <2>5, <1>1 DEF HistoryBehind, Behind, txid
<1> QED BY <1>10, <1>11, <1>12, <1>14, <1>15, <1>16 DEF Exact

\* spend_utxo of an output that is taken back: it is found and gone.
LEMMA ExactUndoOutput ==
    ASSUME IInv, ~deep, UndoOutput, UNCHANGED ltor
    PROVE  Exact'
<1> USE DEF diskVars, reorgVars, histVars
<1> DEFINE b == block
           i == cur_tx
           n == cur_io
           o == <<txid, n>>
           c == Coin(o, TxNum(b, i))
           coins == Backway(b, i, n, ltor)
<1>1. /\ pc = "undo" /\ pc' = "undo"
      /\ i \in 1 .. Len(Txs[b]) /\ n <= Len(Outs[txid]) /\ cur_io' = n + 1
      /\ UNCHANGED <<diskVars, chain, undo_infos, unflushed, block, cur_tx, undo,
                     min_height, reorgVars, histVars>>
      /\ UNCHANGED ltor
  BY DEF UndoOutput
<1>2. Safe /\ Exact /\ pc \in Behind
  BY <1>1 DEF IInv, Behind
<1>3. /\ b \in Block /\ ltor \in BOOLEAN /\ Valid(b, ltor) /\ OnePerOutput(AllCoins(b))
      /\ txid = Txs[b][i] /\ txid \in Tx /\ n \in 1 .. Len(Outs[txid]) /\ n \in Nat
      /\ Chained(db_chain) /\ Len(Txs[b]) \in Nat
  <2>1. b = tip /\ txid \in Tx /\ Len(Outs[txid]) \in Nat /\ n \in 1 .. Len(Outs[txid]) + 1
        /\ Len(Txs[b]) \in Nat
    BY <1>1, <1>2, UndoPlace
  <2>2. n \in 1 .. Len(Outs[txid]) /\ n \in Nat
    BY <2>1, <1>1
  <2> QED BY <2>1, <2>2, <1>2, TipCoins DEF txid
<1>4. Holds(db_chain, utxo_cache, db_deletes, coins)
  BY <1>1, <1>2 DEF Exact, CoinsHeld
<1>5. OnePerOutput(coins)
  <2>1. \A d \in coins : d \in AllCoins(b)
    <3> TAKE d \in coins
    <3>1. i \in 0 .. Len(Txs[b]) + 1
      BY <1>1, <1>3
    <3>2. d \in UnspentAt(Prev[b]) \/ \E j \in 1 .. Len(Txs[b]) : d \in CreatedBy(b, j)
      <4>1. CASE ltor = TRUE
        BY <4>1, <3>1, <1>3, BackwayMember
      <4>2. CASE ltor = FALSE
        BY <4>2, <3>1, <1>3, BackwayMember
      <4> QED BY <4>1, <4>2, <1>3
    <3>3. d \in UnspentAt(Prev[b]) \/ d \in Created(b, Len(Txs[b]))
      BY <3>2, CreatedMember
    <3> QED BY <3>3 DEF AllCoins
  <2> HIDE DEF coins
  <2> QED BY <2>1, <1>3 DEF OnePerOutput
<1> HIDE DEF coins
<1>6. /\ Holds(db_chain, utxo_cache', db_deletes', Backway(b, i, n + 1, ltor))
      /\ touched \subseteq touched'
      /\ Outs[txid][n] # Unspendable => HashXOf(o) \in touched'
  <2>1. CASE Outs[txid][n] = Unspendable
    <3>1. UNCHANGED <<utxo_cache, db_deletes, touched>>
      BY <2>1 DEF UndoOutput
    <3>2. Backway(b, i, n + 1, ltor) = coins
      BY <2>1, <1>1, <1>3, BackwayOutput DEF coins
    <3> QED BY <3>1, <3>2, <2>1, <1>4
  <2>2. CASE Outs[txid][n] # Unspendable
    <3>1. PICK f \in Found(o) :
             /\ SpendUtxo(o, f)
             /\ touched' = touched \cup {f.item.hashX}
      BY <2>2 DEF UndoOutput
    <3>2. c \in coins /\ Backway(b, i, n + 1, ltor) = coins \ {c}
      BY <2>2, <1>1, <1>3, BackwayOutput DEF coins
    <3>3. c.out = o
      BY DEF Coin
    <3> HIDE DEF c, o
    <3> DEFINE keys == IF o \in DOMAIN utxo_cache THEN {} ELSE {KeysOf(c)}
    <3>4. Found(o) = {[item |-> ItemOf(c), keys |-> keys]}
      <4>1. \A p \in DOMAIN utxo_cache : utxo_cache[p] \in Item
        BY <1>2 DEF Safe, TypeOK
      <4>2. TablesOf(UnspentAt(H!TipOf(db_chain)))
        BY <1>2, TablesAre DEF Exact
      <4> QED BY <4>1, <4>2, <3>2, <3>3, <1>3, <1>4, <1>5, FoundIs
    <3> HIDE DEF keys
    <3>5. f.item = ItemOf(c) /\ f.keys = keys
      BY <3>1, <3>4
    <3>6. /\ utxo_cache' = [p \in DOMAIN utxo_cache \ {o} |-> utxo_cache[p]]
          /\ db_deletes' = db_deletes \cup keys
      BY <3>1, <3>5 DEF SpendUtxo
    <3>7. Holds(db_chain, utxo_cache', db_deletes', coins \ {c})
      <4>1. c \in coins /\ Chained(db_chain)
        BY <3>2, <1>3
      <4>2. Holds(db_chain, [p \in DOMAIN utxo_cache \ {c.out} |-> utxo_cache[p]],
                  db_deletes \cup (IF c.out \in DOMAIN utxo_cache THEN {} ELSE {KeysOf(c)}),
                  coins \ {c})
        BY <4>1, <1>4, <1>5, SpendHolds
      <4> QED BY <4>2, <3>3, <3>6 DEF keys
    <3>8. f.item.hashX = HashXOf(o)
      BY <3>3, <3>5 DEF ItemOf
    <3> QED BY <3>1, <3>2, <3>7, <3>8
  <2> QED BY <2>1, <2>2
<1>7. TablesExact' /\ HistoryExact'
  BY <1>1, <1>2 DEF Exact, TablesExact, HistoryExact
<1>8. UndoKept' /\ UndoAtWork'
  BY <1>1, <1>2 DEF Exact, UndoKept, UndoAtWork, Ahead
<1>9. CoinsHeld'
  BY <1>1, <1>6 DEF CoinsHeld
<1>10. HistoryAhead'
  BY <1>1 DEF HistoryAhead
<1>11. HistoryBehind'
  <2>1. HistoryBehind
    BY <1>2 DEF Exact
  <2>2. \A p \in Stored(txid) : p[2] < n + 1 => HashXOf(p) \in touched'
    <3> TAKE p \in Stored(txid)
    <3>1. p = <<txid, p[2]>> /\ p[2] \in Nat /\ p[2] \in 1 .. Len(Outs[txid])
      BY <1>3, OutputFacts
    <3>2. CASE p[2] < n
      BY <3>2, <2>1, <1>1, <1>6 DEF HistoryBehind
    <3>3. CASE p[2] = n
      <4>1. p = o
        BY <3>1, <3>3
      <4>2. Outs[txid][n] # Unspendable
        BY <3>1, <3>3 DEF Stored
      <4> QED BY <4>1, <4>2, <1>6
    <3> QED BY <3>1, <3>2, <3>3, <1>3
  <2>3. txid' = txid
    BY <1>1 DEF txid
  <2>4. /\ \A e \in NewEntries(db_chain, Len(chain)) : e[1] \in touched' \cup AllNames
        /\ \A j \in 1 .. Len(Txs[b]) :
              /\ ltor \/ j > i => InHashXs(Txs[b][j]) \subseteq touched'
              /\ (ltor /\ j < i) \/ (~ltor /\ j > i) => OutHashXs(Txs[b][j]) \subseteq touched'
    BY <2>1, <1>1, <1>2, <1>6 DEF HistoryBehind
  <2> QED BY <2>2, <2>3, <2>4, <1>1 DEF HistoryBehind
<1> QED BY <1>7, <1>8, <1>9, <1>10, <1>11 DEF Exact

\* Once all its outputs are gone, those of a transaction have been touched.
LEMMA OutputsTouched ==
    ASSUME Safe, HistoryBehind, pc = "undo", cur_tx \in 1 .. Len(Txs[block]),
           cur_io > Len(Outs[txid])
    PROVE  OutHashXs(txid) \subseteq touched
<1>1. txid \in Tx /\ Len(Outs[txid]) \in Nat /\ cur_io \in Nat
  BY UndoPlace
<1>2. \A o \in Stored(txid) : HashXOf(o) \in touched
  <2> TAKE o \in Stored(txid)
  <2>1. o[2] \in 1 .. Len(Outs[txid])
    BY <1>1, OutputFacts
  <2>2. o[2] < cur_io
    BY <2>1, <1>1
  <2> QED BY <2>2 DEF HistoryBehind
<1> QED BY <1>2 DEF OutHashXs

\* LTORBlockProcessor goes on to the next transaction.
LEMMA ExactRestoreLtor ==
    ASSUME IInv, ~deep, RestoreInputs, UNCHANGED ltor, ltor
    PROVE  Exact'
<1> USE DEF diskVars, reorgVars, histVars
<1> DEFINE b == block
           i == cur_tx
           N == Len(Txs[b])
<1>1. /\ pc = "undo" /\ pc' = "undo"
      /\ i \in 1 .. N /\ cur_io > Len(Outs[txid]) /\ cur_io' = 1 /\ cur_tx' = i + 1
      /\ UNCHANGED <<diskVars, chain, db_deletes, undo_infos, unflushed, block,
                     min_height, reorgVars, histVars>>
      /\ UNCHANGED <<utxo_cache, touched, undo>>
      /\ UNCHANGED ltor
  BY DEF RestoreInputs
<1>2. Safe /\ Exact /\ pc \in Behind
  BY <1>1 DEF IInv, Behind
<1>3. /\ b \in Block /\ N \in Nat /\ txid = Txs[b][i] /\ txid \in Tx
      /\ cur_io = Len(Outs[txid]) + 1 /\ ltor = TRUE
  <2>1. /\ b \in Block /\ N \in Nat /\ txid \in Tx
        /\ Len(Outs[txid]) \in Nat /\ cur_io \in 1 .. Len(Outs[txid]) + 1
    BY <1>1, <1>2, UndoPlace
  <2>2. cur_io = Len(Outs[txid]) + 1
    BY <2>1, <1>1
  <2> QED BY <2>1, <2>2, <1>2 DEF Safe, TypeOK, txid
<1>4. TablesExact' /\ HistoryExact'
  BY <1>1, <1>2 DEF Exact, TablesExact, HistoryExact
<1>5. UndoKept' /\ UndoAtWork'
  BY <1>1, <1>2 DEF Exact, UndoKept, UndoAtWork, Ahead
<1>6. CoinsHeld'
  <2>1. Holds(db_chain, utxo_cache, db_deletes, Backway(b, i, cur_io, TRUE))
    BY <1>1, <1>2, <1>3 DEF Exact, CoinsHeld
  <2>2. Backway(b, i + 1, 1, TRUE) = Backway(b, i, cur_io, TRUE)
    BY <1>1, <1>3, BackwayOn
  <2> QED BY <2>1, <2>2, <1>1, <1>3 DEF CoinsHeld
<1>7. HistoryAhead'
  BY <1>1 DEF HistoryAhead
<1>8. HistoryBehind'
  <2>1. HistoryBehind
    BY <1>2 DEF Exact
  <2>2. OutHashXs(txid) \subseteq touched
    BY <2>1, <1>1, <1>2, OutputsTouched
  <2>3. \A j \in 1 .. N : j < i + 1 => OutHashXs(Txs[b][j]) \subseteq touched
    <3> TAKE j \in 1 .. N
    <3>1. CASE j < i
      BY <3>1, <2>1, <1>1, <1>3 DEF HistoryBehind
    <3>2. CASE j = i
      BY <3>2, <2>2, <1>3
    <3> QED BY <3>1, <3>2, <1>1, <1>3
  <2>4. /\ \A e \in NewEntries(db_chain, Len(chain)) : e[1] \in touched \cup AllNames
        /\ \A j \in 1 .. N : InHashXs(Txs[b][j]) \subseteq touched
    BY <2>1, <1>1, <1>2, <1>3 DEF HistoryBehind
  <2>5. cur_tx' \in 1 .. N => \A o \in Stored(txid') : ~(o[2] < 1)
    <3> SUFFICES ASSUME cur_tx' \in 1 .. N, NEW o \in Stored(txid')
                 PROVE  ~(o[2] < 1)
      OBVIOUS
    <3>1. txid' \in Tx
      BY <1>1, <1>3, BlockFacts DEF txid
    <3>2. o[2] \in 1 .. Len(Outs[txid']) /\ Len(Outs[txid']) \in Nat
      BY <3>1, OutputFacts, OutsLength
    <3> QED BY <3>2
  <2> QED BY <2>3, <2>4, <2>5, <1>1, <1>3 DEF HistoryBehind
<1> QED BY <1>4, <1>5, <1>6, <1>7, <1>8 DEF Exact

\* backup_txs of a coin whose transactions are in order: the inputs of the
\* transaction are restored from the end of the undo info.
LEMMA ExactRestoreInputs ==
    ASSUME IInv, ~deep, RestoreInputs, UNCHANGED ltor, ~ltor
    PROVE  Exact'
<1> USE DEF diskVars, reorgVars, histVars
<1> DEFINE b == block
           i == cur_tx
           N == Len(Txs[b])
           ins == Ins[Txs[b][i]]
           m == Len(ins)
           items == LastItems(undo, m)
           new == Restored(ins, items)
           S == SpentIn(b, i)
           before == InsOf(b)[i - 1]
<1>1. /\ pc = "undo" /\ pc' = "undo"
      /\ i \in 1 .. N /\ cur_io > Len(Outs[txid]) /\ cur_io' = 1 /\ cur_tx' = i - 1
      /\ utxo_cache' = Put(utxo_cache, new)
      /\ touched' = touched \cup HashXsIn(items)
      /\ undo' = SubSeq(undo, 1, Len(undo) - m)
      /\ UNCHANGED <<diskVars, chain, db_deletes, undo_infos, unflushed, block,
                     min_height, reorgVars, histVars>>
      /\ UNCHANGED ltor
  BY DEF RestoreInputs, txid
<1>2. Safe /\ Exact /\ pc \in Behind
  BY <1>1 DEF IInv, Behind
<1>3. /\ b \in Block /\ N \in Nat /\ txid = Txs[b][i] /\ txid \in Tx
      /\ cur_io = Len(Outs[txid]) + 1 /\ ltor = FALSE
      /\ Valid(b, FALSE) /\ OnePerOutput(AllCoins(b)) /\ ProperCoins(AllCoins(b))
      /\ ins \in Seq(Output) /\ m \in Nat
  <2>1. /\ b \in Block /\ b = tip /\ N \in Nat /\ txid \in Tx
        /\ Len(Outs[txid]) \in Nat /\ cur_io \in 1 .. Len(Outs[txid]) + 1
    BY <1>1, <1>2, UndoPlace
  <2>2. cur_io = Len(Outs[txid]) + 1
    BY <2>1, <1>1
  <2>3. ltor = FALSE
    BY <1>2 DEF Safe, TypeOK
  <2> QED BY <2>1, <2>2, <2>3, <1>2, TipCoins, InputFacts DEF txid
<1>4. /\ before \in Seq(Output) /\ Len(before) \in Nat
      /\ InsOf(b)[i] = before \o ins
  <2>1. i - 1 \in 0 .. N
    BY <1>1, <1>3
  <2>2. InsOf(b)[i] = before \o ins
    BY <1>1, <1>3, InsOfFacts
  <2>3. \A k \in 0 .. N : InsOf(b)[k] \in Seq(Output) /\ Len(InsOf(b)[k]) \in Nat
    BY <1>3, InsOfFacts
  <2> QED BY <2>1, <2>2, <2>3
<1> HIDE DEF before, ins
<1>5. undo = UndoItems(b, before \o ins)
  BY <1>1, <1>2, <1>3, <1>4 DEF Exact, UndoAtWork
<1>6. /\ items = UndoItems(b, ins)
      /\ undo' = UndoItems(b, before)
  <2> DEFINE u == UndoItems(b, before \o ins)
             l == Len(before)
  <2>1. /\ Len(u) = l + m /\ SubSeq(u, 1, l) = UndoItems(b, before)
        /\ SubSeq(u, l + 1, l + m) = UndoItems(b, ins)
    BY <1>3, <1>4, UndoItemsParts
  <2>2. undo = u
    BY <1>5
  <2>5. l \in Nat /\ m \in Nat
    BY <1>3, <1>4
  <2> HIDE DEF u, l, m
  <2>3. Len(u) - m = l /\ Len(u) - m + 1 = l + 1
    <3>1. (l + m) - m = l
      BY <2>5
    <3> QED BY <3>1, <2>1
  <2>4. LastItems(u, m) = SubSeq(u, l + 1, l + m)
    BY <2>1, <2>3 DEF LastItems
  <2> QED BY <2>1, <2>2, <2>3, <2>4, <1>1
<1>7. /\ \A o \in S : \E c \in AllCoins(b) : c.out = o
      /\ ElementsOf(ins) = S
  <2>1. ElementsOf(ins) = S
    BY DEF ElementsOf, SpentIn, ins
  <2>2. \A o \in S : o \in SpentUpTo(b, N + 1, 0)
    BY <1>1, <1>3, SpentHaveCoins
  <2>3. \A o \in SpentUpTo(b, N + 1, 0) : \E c \in AllCoins(b) : c.out = o
    BY <1>3, SpentHaveCoins
  <2> QED BY <2>1, <2>2, <2>3
<1>8. /\ DOMAIN new = S
      /\ \A o \in DOMAIN new : new[o].hashX = HashXOf(o) /\ new[o].value = o
      /\ CoinsIn(new) = CoinsOn(b, S)
      /\ \A o \in S : HashXOf(o) \in HashXsIn(items)
  <2> DEFINE its == UndoItems(b, ins)
             res == Restored(ins, its)
             els == ElementsOf(ins)
  <2>1. /\ DOMAIN res = els
        /\ \A o \in DOMAIN res : res[o].hashX = HashXOf(o) /\ res[o].value = o
        /\ CoinsIn(res) = CoinsOn(b, els)
        /\ \A o \in els : HashXOf(o) \in HashXsIn(its)
    BY <1>3, <1>7, RestoredIs
  <2>2. new = res /\ items = its /\ els = S
    BY <1>6, <1>7
  <2> HIDE DEF new, items, res, its, els, S
  <2> QED BY <2>1, <2>2
<1> HIDE DEF new, items, S, m
<1>9. TablesExact' /\ HistoryExact'
  BY <1>1, <1>2 DEF Exact, TablesExact, HistoryExact
<1>10. UndoKept'
  BY <1>1, <1>2 DEF Exact, UndoKept, Ahead
<1>11. UndoAtWork'
  BY <1>1, <1>3, <1>6 DEF UndoAtWork, before
<1>12. CoinsHeld'
  <2> DEFINE coins == Backway(b, i, cur_io, FALSE)
  <2>1. Holds(db_chain, utxo_cache, db_deletes, coins)
    BY <1>1, <1>2, <1>3 DEF Exact, CoinsHeld
  <2>2. /\ Backway(b, i - 1, 1, FALSE) = coins \cup CoinsOn(b, S)
        /\ \A c \in coins : c.out \notin S
    BY <1>1, <1>3, BackwayInputs DEF S
  <2> HIDE DEF coins
  <2>3. Holds(db_chain, Put(utxo_cache, new), db_deletes, coins \cup CoinsIn(new))
    BY <2>1, <2>2, <1>8, PutHolds
  <2> QED BY <2>2, <2>3, <1>1, <1>3, <1>8 DEF CoinsHeld
<1>13. HistoryAhead'
  BY <1>1 DEF HistoryAhead
<1>14. HistoryBehind'
  <2>1. HistoryBehind /\ touched \subseteq touched'
    BY <1>1, <1>2 DEF Exact
  <2>2. OutHashXs(txid) \subseteq touched
    BY <2>1, <1>1, <1>2, OutputsTouched
  <2>3. InHashXs(txid) \subseteq touched'
    <3> SUFFICES ASSUME NEW x \in InHashXs(txid)
                 PROVE  x \in touched'
      OBVIOUS
    <3>1. \E o \in S : x = HashXOf(o)
      BY <1>3 DEF InHashXs, S, SpentIn
    <3> QED BY <3>1, <1>1, <1>8
  <2>4. \A j \in 1 .. N : j > i - 1 => /\ InHashXs(Txs[b][j]) \subseteq touched'
                                       /\ OutHashXs(Txs[b][j]) \subseteq touched'
    <3> TAKE j \in 1 .. N
    <3>1. CASE j > i
      BY <3>1, <2>1, <1>1, <1>3 DEF HistoryBehind
    <3>2. CASE j = i
      BY <3>2, <2>1, <2>2, <2>3, <1>3
    <3> QED BY <3>1, <3>2, <1>1, <1>3
  <2>5. \A e \in NewEntries(db_chain, Len(chain)) : e[1] \in touched' \cup AllNames
    BY <2>1, <1>2 DEF HistoryBehind
  <2>6. cur_tx' \in 1 .. N => \A o \in Stored(txid') : ~(o[2] < 1)
    <3> SUFFICES ASSUME cur_tx' \in 1 .. N, NEW o \in Stored(txid')
                 PROVE  ~(o[2] < 1)
      OBVIOUS
    <3>1. txid' \in Tx
      BY <1>1, <1>3, BlockFacts DEF txid
    <3>2. o[2] \in 1 .. Len(Outs[txid']) /\ Len(Outs[txid']) \in Nat
      BY <3>1, OutputFacts, OutsLength
    <3> QED BY <3>2
  <2> QED BY <2>4, <2>5, <2>6, <1>1, <1>3 DEF HistoryBehind
<1> QED BY <1>9, <1>10, <1>11, <1>12, <1>13, <1>14 DEF Exact

\* All of the block's history will be looked for by the next flush_backup.
LEMMA ExactEndUndo ==
    ASSUME IInv, ~deep, EndUndo, UNCHANGED ltor
    PROVE  Exact'
<1> USE DEF diskVars, histVars
<1> DEFINE b == block
           N == Len(Txs[b])
           k == Len(chain)
<1>1. /\ pc = "undo" /\ pc' \in {"backup", "chunk"}
      /\ cur_tx \notin 1 .. N
      /\ chain' = SubSeq(chain, 1, k - 1)
      /\ UNCHANGED <<diskVars, utxo_cache, db_deletes, undo_infos, touched,
                     unflushed, undo, min_height, from_disk, histVars>>
      /\ UNCHANGED ltor
  BY DEF EndUndo
<1>2. Safe /\ Exact /\ pc \in Behind
  BY <1>1 DEF IInv, Behind
<1>3. /\ b \in Block /\ b = tip /\ N \in Nat /\ cur_io = 1
      /\ ltor => cur_tx = N + 1
      /\ ~ltor => cur_tx = 0
  <2>1. b \in Block /\ b = tip /\ N \in Nat
    BY <1>1, <1>2, UndoPlace
  <2>3. cur_io = 1
    BY <1>1, <1>2 DEF Safe, AtWork
  <2>2. cur_tx \in IF ltor THEN 1 .. N + 1 ELSE 0 .. N
    BY <1>1, <1>2 DEF Safe, AtWork
  <2> QED BY <2>1, <2>2, <2>3, <1>1
<1>4. /\ Chained(chain) /\ Chained(db_chain) /\ ltor \in BOOLEAN
      /\ k \in 1 .. Len(db_chain) /\ b = db_chain[k] /\ k \in Nat /\ k > 0
  <2>1. /\ Chained(chain) /\ Chained(db_chain) /\ ltor \in BOOLEAN
        /\ k \in Nat /\ k > 0 /\ Len(db_chain) \in Nat /\ k <= Len(db_chain)
        /\ tip = db_chain[k]
    BY <1>2, TipCoins
  <2> QED BY <2>1, <1>3
<1>5. Len(chain') = k - 1 /\ H!TipOf(chain') = Prev[b]
  <2> DEFINE d == SubSeq(chain, 1, k - 1)
  <2>1. Len(d) = k - 1 /\ H!TipOf(d) = Prev[b]
    BY <1>3, <1>4, ChainShrinks DEF tip
  <2> HIDE DEF d
  <2>2. chain' = d
    BY <1>1 DEF d
  <2> QED BY <2>1, <2>2
<1>6. TablesExact' /\ HistoryExact'
  BY <1>1, <1>2 DEF Exact, TablesExact, HistoryExact
<1>7. UndoKept'
  BY <1>1, <1>2 DEF Exact, UndoKept, Ahead
<1>8. CoinsHeld'
  <2>1. Holds(db_chain, utxo_cache, db_deletes, Backway(b, cur_tx, 1, ltor))
    BY <1>1, <1>2, <1>3 DEF Exact, CoinsHeld
  <2>2. Backway(b, cur_tx, 1, ltor) = UnspentAt(Prev[b])
    <3>1. CASE ltor = TRUE
      BY <3>1, <1>3, BackwayLast
    <3>2. CASE ltor = FALSE
      BY <3>2, <1>3, BackwayLast
    <3> QED BY <3>1, <3>2, <1>4
  <2>3. tip' = Prev[b]
    BY <1>5 DEF tip
  <2> QED BY <2>1, <2>2, <2>3, <1>1 DEF CoinsHeld
<1>9. UndoAtWork' /\ HistoryAhead'
  BY <1>1 DEF UndoAtWork, HistoryAhead
<1>10. HistoryBehind'
  <2>1. HistoryBehind
    BY <1>2 DEF Exact
  <2>2. \A j \in 1 .. N : /\ InHashXs(Txs[b][j]) \subseteq touched
                          /\ OutHashXs(Txs[b][j]) \subseteq touched
    <3> TAKE j \in 1 .. N
    <3>1. ltor => j < cur_tx
      BY <1>3
    <3>2. ~ltor => j > cur_tx
      BY <1>3
    <3> QED BY <3>1, <3>2, <2>1, <1>1 DEF HistoryBehind
  <2>3. \A e \in NewEntries(db_chain, k - 1) : e[1] \in touched \cup AllNames
    <3> TAKE e \in NewEntries(db_chain, k - 1)
    <3>1. e \in NewEntries(db_chain, k) \/ e \in H!Entries(b)
      <4>1. \A j \in 1 .. Len(db_chain) : \A f \in NewEntries(db_chain, j - 1) :
               f \in NewEntries(db_chain, j) \/ f \in H!Entries(db_chain[j])
        BY <1>4, OneFewerKept
      <4> HIDE DEF k
      <4> QED BY <4>1, <1>4
    <3>2. CASE e \in NewEntries(db_chain, k)
      BY <3>2, <2>1, <1>2 DEF HistoryBehind
    <3>3. CASE e \in H!Entries(b)
      <4>1. \E j \in 1 .. N :
               \/ e[1] \in InHashXs(Txs[b][j])
               \/ e[1] \in OutHashXs(Txs[b][j])
               \/ e[1] \in AllNames
        BY <3>3, <1>3, EntryHashX
      <4> QED BY <4>1, <2>2
    <3> QED BY <3>1, <3>2, <3>3
  <2> HIDE DEF k
  <2> QED BY <2>3, <1>1, <1>5 DEF HistoryBehind, k
<1> QED BY <1>6, <1>7, <1>8, <1>9, <1>10 DEF Exact

\* flush_backup: the tables and the history are those of the chain, except
\* that the rows of names stay behind.
LEMMA ExactFlushBackup ==
    ASSUME IInv, ~deep, FlushBackup, UNCHANGED ltor
    PROVE  Exact'
<1>1. /\ pc = "backup" /\ pc' = "reorg" /\ chain' = chain
      /\ history' = {e \in history : e[1] \in touched => e[2] < H!TxCountOf(chain)}
      /\ undo_table' = Put(undo_table, undo_infos)
      /\ utxo_cache' = <<>> /\ db_deletes' = {} /\ undo_infos' = <<>>
      /\ db_chain' = chain /\ seen' = seen
  BY DEF FlushBackup, FlushUtxoDb, histVars
<1>2. Safe /\ Exact /\ FlushUtxoDb /\ pc \in Behind
  BY <1>1 DEF IInv, FlushBackup, Behind
<1>3. /\ Chained(chain) /\ Chained(db_chain) /\ PrefixOf(chain, db_chain)
      /\ Len(chain) \in Nat /\ Len(db_chain) \in Nat /\ Len(chain) <= Len(db_chain)
      /\ undo_infos = <<>>
  BY <1>2, TipCoins DEF Safe, ChainsRelated
<1>4. TablesExact'
  <2>1. TablesOf(UnspentAt(H!TipOf(db_chain)))
    BY <1>2, TablesAre DEF Exact
  <2>2. Holds(db_chain, utxo_cache, db_deletes, UnspentAt(H!TipOf(chain)))
    BY <1>1, <1>2 DEF Exact, CoinsHeld, tip
  <2>3. /\ h_table' = {HRow(c) : c \in UnspentAt(H!TipOf(chain))}
        /\ u_table' = {URow(c) : c \in UnspentAt(H!TipOf(chain))}
    BY <2>1, <2>2, <1>2, <1>3, FlushTables
  <2> QED BY <2>3, <1>1 DEF TablesExact, HRow, URow
<1>5. HistoryExact'
  <2> DEFINE old == H!HistoryOf(db_chain)
             exact == H!HistoryOf(chain)
             undone == NewEntries(db_chain, Len(chain))
             count == H!TxCountOf(chain)
  <2>1. old = exact \cup undone /\ exact = {e \in old : e[2] < count}
    BY <1>3, HistoryParts
  <2>2. old \subseteq history /\ \A e \in history \ old : \E t \in Tx : e[1] \in Names[t]
    BY <1>2 DEF Exact, HistoryExact
  <2>3. \A e \in undone : e[1] \in touched \cup AllNames
    BY <1>2 DEF Exact, HistoryBehind
  <2> HIDE DEF old, exact, undone, count
  <2>4. history' = {e \in history : e[1] \in touched => e[2] < count}
    BY <1>1 DEF count
  <2>5. exact \subseteq history'
    BY <2>1, <2>2, <2>4
  <2>6. \A e \in history' \ exact : \E t \in Tx : e[1] \in Names[t]
    <3> TAKE e \in history' \ exact
    <3>1. CASE e \notin old
      BY <3>1, <2>2, <2>4
    <3>2. CASE e \in old
      <4>1. e \in undone /\ ~(e[2] < count)
        BY <3>2, <2>1
      <4>2. e[1] \in AllNames
        BY <4>1, <2>3, <2>4
      <4> QED BY <4>2 DEF AllNames
    <3> QED BY <3>1, <3>2
  <2> QED BY <2>5, <2>6, <1>1 DEF HistoryExact, exact
<1>6. UndoKept'
  <2> DEFINE put == Put(undo_table, undo_infos)
  <2>1. /\ DOMAIN put = DOMAIN undo_table \cup DOMAIN undo_infos
        /\ \A h \in DOMAIN undo_table \ DOMAIN undo_infos : put[h] = undo_table[h]
    BY PutIs
  <2> HIDE DEF put
  <2>2. DOMAIN undo_infos = {}
    BY <1>3
  <2>3. ASSUME NEW h \in 0 .. Len(chain) - 1, h > seen - ReorgLimit
        PROVE  /\ h \in DOMAIN put
               /\ put[h] = UndoItems(chain[h + 1], SpentBy(chain[h + 1]))
    <3>1. h \in 0 .. Len(db_chain) - 1 /\ h + 1 \in 1 .. Len(chain)
      BY <1>3
    <3>2. /\ h \in DOMAIN undo_table
          /\ undo_table[h] = UndoItems(db_chain[h + 1], SpentBy(db_chain[h + 1]))
      BY <3>1, <2>3, <1>2 DEF Exact, UndoKept
    <3>3. chain[h + 1] = db_chain[h + 1]
      BY <3>1, <1>3 DEF PrefixOf
    <3> QED BY <3>2, <3>3, <2>1, <2>2
  <2>4. undo_table' = put
    BY <1>1 DEF put
  <2> QED BY <2>3, <2>4, <1>1 DEF UndoKept, Ahead
<1>7. CoinsHeld'
  <2>1. tip' = H!TipOf(chain)
    BY <1>1 DEF tip
  <2> QED BY <2>1, <1>1, NothingCached DEF CoinsHeld
<1>8. HistoryBehind'
  <2>1. NewEntries(chain, Len(chain)) = {}
    BY <1>3, NoNewEntries
  <2> QED BY <2>1, <1>1 DEF HistoryBehind
<1>9. UndoAtWork' /\ HistoryAhead'
  BY <1>1 DEF UndoAtWork, HistoryAhead
<1> QED BY <1>4, <1>5, <1>6, <1>7, <1>8, <1>9 DEF Exact

-----------------------------------------------------------------------------
(* The theorems *)

\* A block undone too far below is never forgotten.
LEMMA DeepStays ==
    ASSUME Next, deep
    PROVE  deep'
<1> USE DEF histVars
<1>1. CASE Restart \/ OpenForServing \/ Crash
  <2>1. CASE Restart
    BY <2>1 DEF Restart
  <2>2. CASE OpenForServing
    BY <2>2 DEF OpenForServing
  <2>3. CASE Crash
    BY <2>3 DEF Crash
  <2> QED BY <1>1, <2>1, <2>2, <2>3
<1>2. CASE \E b \in Block, daemon \in 0 .. MaxHeight : BeginBlock(b, daemon)
  BY <1>2 DEF BeginBlock
<1>3. CASE SpendInput \/ AddOutputs \/ EndBlock \/ BatchDone \/ Flush
  BY <1>3 DEF SpendInput, AddOutputs, EndBlock, BatchDone, Flush
<1>4. CASE \E count \in 1 .. height : StartReorg(count)
  BY <1>4 DEF StartReorg
<1>5. CASE StartChunk \/ BeginUndo \/ UndoOutput \/ RestoreInputs \/ EndUndo
  BY <1>5 DEF StartChunk, BeginUndo, UndoOutput, RestoreInputs, EndUndo
<1>6. CASE FlushBackup \/ ReorgDone \/ Fails
  BY <1>6 DEF FlushBackup, ReorgDone, Fails
<1> QED BY <1>1, <1>2, <1>3, <1>4, <1>5, <1>6 DEF Next

\* Every step keeps what holds near the tip, until a block is undone that is
\* reorg_limit or more below.
LEMMA ExactStep ==
    ASSUME IInv, [Next]_vars, ~deep'
    PROVE  Exact'
<1>1. CASE UNCHANGED vars
  <2>1. ~deep
    BY <1>1 DEF vars, histVars
  <2> QED BY <2>1, <1>1, ExactStutter
<1>2. CASE Next
  <2>1. UNCHANGED ltor /\ ~deep
    BY <1>2, DeepStays DEF Next
  <2>2. CASE Restart \/ OpenForServing \/ Crash
    BY <2>1, <2>2, ExactRestart, ExactOpenForServing, ExactCrash
  <2>3. CASE \E b \in Block, daemon \in 0 .. MaxHeight : BeginBlock(b, daemon)
    BY <2>1, <2>3, ExactBeginBlock
  <2>4. CASE SpendInput \/ AddOutputs \/ EndBlock \/ BatchDone \/ Flush
    BY <2>1, <2>4, ExactSpendInput, ExactAddOutputs, ExactEndBlock, ExactBatchDone, ExactFlush
  <2>5. CASE \E count \in 1 .. height : StartReorg(count)
    BY <2>1, <2>5, ExactStartReorg
  <2>6. CASE StartChunk \/ BeginUndo \/ UndoOutput \/ EndUndo
    BY <2>1, <2>6, ExactStartChunk, ExactBeginUndo, ExactUndoOutput, ExactEndUndo
  <2>7. CASE RestoreInputs
    BY <2>1, <2>7, ExactRestoreLtor, ExactRestoreInputs
  <2>8. CASE FlushBackup \/ ReorgDone \/ Fails
    BY <2>1, <2>8, ExactFlushBackup, ExactReorgDone, ExactFails
  <2> QED BY <1>2, <2>2, <2>3, <2>4, <2>5, <2>6, <2>7, <2>8 DEF Next
<1> QED BY <1>1, <1>2

\* The invariant is inductive.
LEMMA Inductive ==
    /\ Init => IInv
    /\ IInv /\ [Next]_vars => IInv'
<1>1. Init => IInv
  BY SafeAtFirst, ExactAtFirst DEF IInv
<1>2. ASSUME IInv, [Next]_vars
      PROVE  IInv'
  <2>1. Safe'
    BY <1>2, SafeStep DEF IInv
  <2>2. ~deep' => Exact'
    BY <1>2, ExactStep
  <2> QED BY <2>1, <2>2 DEF IInv
<1> QED BY <1>1, <1>2

\* The invariant holds of every behaviour.
LEMMA Invariant == Spec => []IInv
BY Inductive, PTL DEF Spec

\* Every variable holds a value of its kind at every step of advancing,
\* flushing, backing up, being killed and opened again.
THEOREM TypeCorrect == Spec => []TypeOK
<1>1. IInv => TypeOK
  BY DEF IInv, Safe
<1> QED BY <1>1, Invariant, PTL

\* The two tables that flush_utxo_db writes are those of the chain of the state
\* record: one row each per unspent output, whichever transaction hashes share
\* their first bytes, after any sequence of blocks, reorgs and kills.
THEOREM Tables == Spec => []TablesExact
<1>1. IInv => TablesExact
  BY DEF IInv, Exact, TablesExact
<1> QED BY <1>1, Invariant, PTL

\* What spend_utxo can find, in the cache or in the tables, is at every step of
\* advance_txs what is unspent at that point of the block, and after each block
\* that is backed up what is unspent after its predecessor.
THEOREM Cache == Spec => []CacheExact
<1>1. ASSUME IInv
      PROVE  CacheExact
  <2> SUFFICES ASSUME pc \notin {"down", "undo", "failed"}, ~deep
               PROVE  /\ Cached \cup Kept =
                           IF pc = "advance" THEN Midway(block, cur_tx, cur_io - 1, ltor)
                           ELSE UnspentAt(tip)
                      /\ \A c \in Kept : c.out \notin DOMAIN utxo_cache
    BY DEF CacheExact
  <2>1. CoinsHeld
    BY <1>1 DEF IInv, Exact
  <2>2. Cached = CoinsIn(utxo_cache) /\ Kept = KeptFrom(db_chain, db_deletes)
    BY DEF Cached, Kept, CoinsIn, KeptFrom, KeysOf, HKeyOf, UKeyOf
  <2>3. CASE pc = "advance"
    BY <2>1, <2>2, <2>3 DEF CoinsHeld, Holds
  <2>4. CASE pc # "advance"
    BY <2>1, <2>2, <2>4 DEF CoinsHeld, Holds
  <2> QED BY <2>3, <2>4
<1> QED BY <1>1, Invariant, PTL

\* The committed history is that of the committed chain, also after backups,
\* which only look for the hashXs they touched; only rows of names stay behind.
THEOREM History == Spec => []HistoryExact
<1>1. IInv => HistoryExact
  BY DEF IInv, Exact, HistoryExact
<1> QED BY <1>1, Invariant, PTL

\* spend_utxo finds the output of every input of a valid block.
LEMMA InputFound ==
    ASSUME Safe, Exact, ~deep, pc = "advance",
           cur_tx <= Len(Txs[block]), cur_io <= Len(Ins[txid])
    PROVE  Found(Ins[txid][cur_io]) # {}
<1> DEFINE coins == Midway(block, cur_tx, cur_io - 1, ltor)
           o == Ins[txid][cur_io]
<1>1. /\ block \in Block /\ ltor \in BOOLEAN /\ Valid(block, ltor)
      /\ OnePerOutput(AllCoins(block)) /\ Chained(db_chain)
      /\ cur_tx \in 1 .. Len(Txs[block]) /\ cur_tx \in 1 .. Len(Txs[block]) + 1
      /\ txid = Txs[block][cur_tx] /\ cur_io \in 1 .. Len(Ins[txid])
  <2>1. cur_tx \in 1 .. Len(Txs[block]) /\ cur_tx \in 1 .. Len(Txs[block]) + 1
    BY AdvancePlace
  <2>2. Len(Ins[txid]) \in Nat /\ cur_io \in 1 .. Len(Ins[txid]) + 1
    BY <2>1, AdvancePlace
  <2> QED BY <2>1, <2>2, AdvancePlace DEF txid
<1>2. PICK c \in coins : c.out = o
  BY <1>1, InputCoin
<1>3. \A d \in coins : d \in AllCoins(block)
  BY <1>1, MidwayMember
<1>4. Holds(db_chain, utxo_cache, db_deletes, coins)
  BY DEF Exact, CoinsHeld
<1> HIDE DEF coins
<1>5. OnePerOutput(coins)
  BY <1>1, <1>3 DEF OnePerOutput
<1>6. \A p \in DOMAIN utxo_cache : utxo_cache[p] \in Item
  BY DEF Safe, TypeOK
<1>7. TablesOf(UnspentAt(H!TipOf(db_chain)))
  BY TablesAre DEF Exact
<1>8. Found(c.out) # {}
  BY <1>1, <1>4, <1>5, <1>6, <1>7, FoundIs
<1> QED BY <1>2, <1>8

\* And every output that backup_txs takes back.
LEMMA OutputFound ==
    ASSUME Safe, Exact, ~deep, pc = "undo", cur_tx \in 1 .. Len(Txs[block]),
           cur_io <= Len(Outs[txid]), Outs[txid][cur_io] # Unspendable
    PROVE  Found(<<txid, cur_io>>) # {}
<1> DEFINE b == block
           i == cur_tx
           n == cur_io
           o == <<txid, n>>
           c == Coin(o, TxNum(b, i))
           coins == Backway(b, i, n, ltor)
<1>1. /\ b \in Block /\ ltor \in BOOLEAN /\ Valid(b, ltor) /\ OnePerOutput(AllCoins(b))
      /\ txid = Txs[b][i] /\ txid \in Tx /\ n \in 1 .. Len(Outs[txid]) /\ n \in Nat
      /\ Chained(db_chain) /\ i \in 0 .. Len(Txs[b]) + 1
  <2>1. b = tip /\ txid \in Tx /\ Len(Outs[txid]) \in Nat /\ n \in 1 .. Len(Outs[txid]) + 1
        /\ Len(Txs[b]) \in Nat
    BY UndoPlace
  <2>2. n \in 1 .. Len(Outs[txid]) /\ n \in Nat /\ i \in 0 .. Len(Txs[b]) + 1
    BY <2>1
  <2> QED BY <2>1, <2>2, TipCoins DEF txid, Behind
<1>2. Holds(db_chain, utxo_cache, db_deletes, coins)
  BY DEF Exact, CoinsHeld
<1>3. \A d \in coins : d \in AllCoins(b)
  <2> TAKE d \in coins
  <2>1. d \in UnspentAt(Prev[b]) \/ \E j \in 1 .. Len(Txs[b]) : d \in CreatedBy(b, j)
    <3>1. CASE ltor = TRUE
      BY <3>1, <1>1, BackwayMember
    <3>2. CASE ltor = FALSE
      BY <3>2, <1>1, BackwayMember
    <3> QED BY <3>1, <3>2, <1>1
  <2>2. d \in UnspentAt(Prev[b]) \/ d \in Created(b, Len(Txs[b]))
    BY <2>1, CreatedMember
  <2> QED BY <2>2 DEF AllCoins
<1>4. c \in coins
  BY <1>1, BackwayOutput
<1>5. c.out = o
  BY DEF Coin
<1> HIDE DEF c, coins, o
<1>6. OnePerOutput(coins)
  BY <1>1, <1>3 DEF OnePerOutput
<1>7. \A p \in DOMAIN utxo_cache : utxo_cache[p] \in Item
  BY DEF Safe, TypeOK
<1>8. TablesOf(UnspentAt(H!TipOf(db_chain)))
  BY TablesAre DEF Exact
<1>9. Found(c.out) # {}
  BY <1>1, <1>2, <1>4, <1>6, <1>7, <1>8, FoundIs
<1> QED BY <1>5, <1>9 DEF o

\* The undo info and the raw file of a block near the tip are there.
LEMMA ChunkSucceeds ==
    ASSUME Safe, Exact, ~deep, pc = "chunk", ~(height <= seen - ReorgLimit)
    PROVE  /\ from_disk => raw_files[height] = tip
           /\ height \in DOMAIN undo_table
           /\ Len(undo_table[height]) = Len(SpentBy(tip))
<1>1. /\ tip \in Block /\ Len(chain) \in Nat /\ Len(chain) > 0
      /\ height = Len(chain) - 1 /\ tip = chain[Len(chain)]
  BY TipCoins DEF Behind
<1>2. /\ height \in DOMAIN undo_table
      /\ undo_table[height] = UndoItems(tip, SpentBy(tip))
  BY TipUndo DEF Exact, Behind
<1>3. Len(undo_table[height]) = Len(SpentBy(tip))
  BY <1>1, <1>2, SpentByIs, UndoItemsOf
<1>4. ASSUME from_disk
      PROVE  raw_files[height] = tip
  <2>1. chunk \in 1 .. todo /\ Len(chain) - chunk .. Len(chain) - 1 \subseteq DOMAIN raw_files
    BY <1>4 DEF Safe, ReorgLeft
  <2>2. todo \in Nat
    BY DEF Safe, TypeOK
  <2>3. height \in Len(chain) - chunk .. Len(chain) - 1
    BY <2>1, <2>2, <1>1
  <2>4. height > seen - ReorgLimit
    <3>1. height \in Int /\ seen \in Int /\ ReorgLimit \in Int
      BY <1>1, LimitAssumption DEF Safe, TypeOK
    <3>2. \A m, n, k \in Int : ~(m <= n - k) => m > n - k
      OBVIOUS
    <3> QED BY <3>1, <3>2
  <2>5. height \in 0 .. Len(chain) - 1 /\ height + 1 = Len(chain)
    BY <1>1
  <2>6. RawKept
    BY DEF Safe
  <2>7. \A h \in 0 .. Len(chain) - 1 :
           h > seen - ReorgLimit /\ h \in DOMAIN raw_files => raw_files[h] = chain[h + 1]
    BY <2>6 DEF RawKept
  <2>8. raw_files[height] = chain[height + 1]
    BY <2>1, <2>3, <2>4, <2>5, <2>7
  <2> QED BY <2>5, <2>8, <1>1
<1> QED BY <1>2, <1>3, <1>4

\* The undo info lasts for the block, and none of it is left over.
LEMMA UndoLasts ==
    ASSUME Safe, Exact, pc = "undo"
    PROVE  /\ cur_tx \in 1 .. Len(Txs[block]) /\ ~ltor => Len(undo) >= Len(Ins[txid])
           /\ cur_tx \notin 1 .. Len(Txs[block]) => undo = <<>>
<1> DEFINE b == block
           N == Len(Txs[b])
<1>1. b \in Block /\ N \in Nat
  BY UndoPlace
<1>2. undo = IF ltor THEN <<>> ELSE UndoItems(b, InsOf(b)[cur_tx])
  BY DEF Exact, UndoAtWork
<1>3. cur_tx \in IF ltor THEN 1 .. N + 1 ELSE 0 .. N
  BY DEF Safe, AtWork
<1>4. ASSUME cur_tx \in 1 .. N, ~ltor
      PROVE  Len(undo) >= Len(Ins[txid])
  <2> DEFINE s == InsOf(b)[cur_tx - 1]
             t == Ins[Txs[b][cur_tx]]
  <2>1. InsOf(b)[cur_tx] = s \o t
    BY <1>1, <1>4, InsOfFacts
  <2>2. \A k \in 0 .. N : InsOf(b)[k] \in Seq(Output) /\ Len(InsOf(b)[k]) \in Nat
    BY <1>1, InsOfFacts
  <2>3. cur_tx - 1 \in 0 .. N
    BY <1>1, <1>4
  <2>4. s \in Seq(Output) /\ Len(s) \in Nat
    BY <2>2, <2>3
  <2>5. t \in Seq(Output) /\ Len(t) \in Nat /\ t = Ins[txid]
    BY <1>1, <1>4, BlockFacts, InputFacts DEF txid
  <2> HIDE DEF s, t
  <2>6. Len(UndoItems(b, s \o t)) = Len(s) + Len(t)
    BY <2>4, <2>5, UndoItemsParts
  <2>7. Len(undo) = Len(s) + Len(t)
    BY <2>1, <2>6, <1>2, <1>4
  <2> QED BY <2>4, <2>5, <2>7
<1>5. ASSUME cur_tx \notin 1 .. N
      PROVE  undo = <<>>
  <2>1. CASE ltor
    BY <2>1, <1>2
  <2>2. CASE ~ltor
    <3>1. cur_tx = 0
      BY <2>2, <1>1, <1>3, <1>5
    <3>2. InsOf(b)[0] = <<>>
      BY <1>1, InsOfFacts
    <3>3. UndoItems(b, InsOf(b)[0]) = <<>>
      BY <3>2, UndoItemsNone
    <3> QED BY <3>1, <3>3, <2>2, <1>2
  <2> QED BY <2>1, <2>2
<1> QED BY <1>4, <1>5

\* Only Fails ends the process.
LEMMA OnlyFails ==
    ASSUME Next, pc' = "failed"
    PROVE  Fails
<1>1. CASE Restart \/ OpenForServing \/ Crash
  BY <1>1 DEF Restart, OpenForServing, Crash
<1>2. CASE \E b \in Block, daemon \in 0 .. MaxHeight : BeginBlock(b, daemon)
  BY <1>2 DEF BeginBlock
<1>3. CASE SpendInput \/ AddOutputs \/ EndBlock \/ BatchDone \/ Flush
  BY <1>3 DEF SpendInput, AddOutputs, EndBlock, BatchDone, Flush
<1>4. CASE \E count \in 1 .. height : StartReorg(count)
  BY <1>4 DEF StartReorg
<1>5. CASE StartChunk \/ BeginUndo \/ UndoOutput \/ RestoreInputs \/ EndUndo
  BY <1>5 DEF StartChunk, BeginUndo, UndoOutput, RestoreInputs, EndUndo
<1>6. CASE FlushBackup \/ ReorgDone \/ Fails
  BY <1>6 DEF FlushBackup, ReorgDone
<1> QED BY <1>1, <1>2, <1>3, <1>4, <1>5, <1>6 DEF Next

\* ChainError and the assertions on the undo info are out of reach: advancing
\* always finds an output, and a reorg only fails once it reaches blocks that
\* are reorg_limit or more below the greatest height acted on.
THEOREM Reorgs == Spec => ReorgsSucceed
<1>1. ASSUME IInv, Next, pc' = "failed", ~deep, ~(pc = "chunk" /\ height <= seen - ReorgLimit)
      PROVE  FALSE
  <2>1. Fails /\ Safe /\ Exact
    BY <1>1, OnlyFails DEF IInv
  <2>2. ~ /\ pc = "advance" /\ cur_tx <= Len(Txs[block]) /\ cur_io <= Len(Ins[txid])
          /\ Found(Ins[txid][cur_io]) = {}
    BY <2>1, <1>1, InputFound
  <2>3. ~ /\ pc = "chunk"
          /\ \/ from_disk /\ raw_files[height] # tip
             \/ height \notin DOMAIN undo_table
             \/ /\ ltor /\ height \in DOMAIN undo_table
                /\ Len(undo_table[height]) # Len(SpentBy(tip))
    BY <2>1, <1>1, ChunkSucceeds
  <2>4. ~ /\ pc = "undo" /\ cur_tx \in 1 .. Len(Txs[block])
          /\ cur_io <= Len(Outs[txid]) /\ Outs[txid][cur_io] # Unspendable
          /\ Found(<<txid, cur_io>>) = {}
    BY <2>1, <1>1, OutputFound
  <2>5. ~ /\ pc = "undo" /\ cur_tx \in 1 .. Len(Txs[block])
          /\ cur_io > Len(Outs[txid]) /\ ~ltor /\ Len(undo) < Len(Ins[txid])
    <3> SUFFICES ASSUME pc = "undo", cur_tx \in 1 .. Len(Txs[block]), ~ltor,
                        Len(undo) < Len(Ins[txid])
                 PROVE  FALSE
      OBVIOUS
    <3>1. Len(undo) >= Len(Ins[txid])
      BY <2>1, UndoLasts
    <3>2. Len(undo) \in Nat /\ Len(Ins[txid]) \in Nat
      BY <2>1, UndoPlace, LenProperties DEF Safe, TypeOK
    <3> QED BY <3>1, <3>2
  <2>6. ~ (pc = "undo" /\ cur_tx \notin 1 .. Len(Txs[block]) /\ undo # <<>>)
    BY <2>1, UndoLasts
  <2> QED BY <2>1, <2>2, <2>3, <2>4, <2>5, <2>6 DEF Fails
<1>2. IInv /\ [Next]_vars =>
         [pc' = "failed" => deep \/ (pc = "chunk" /\ height <= seen - ReorgLimit)]_vars
  BY <1>1
<1> QED BY <1>2, Invariant, PTL DEF Spec, ReorgsSucceed
=============================================================================
