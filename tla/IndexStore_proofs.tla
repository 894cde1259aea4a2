-------------------------- MODULE IndexStore_proofs --------------------------
(***************************************************************************)
(* That the index keeps its invariants for every tree of blocks, chunk     *)
(* size and bound: an inductive invariant IInv, preserved step by step.    *)
(***************************************************************************)
EXTENDS IndexLedger, SequenceTheorems, TLAPS

-----------------------------------------------------------------------------
(* Chains of blocks, their histories and the writing of files *)

\* c is where d starts.
PrefixOf(c, d) == Len(c) <= Len(d) /\ \A i \in 1 .. Len(c) : c[i] = d[i]

\* Along a chain tx_nums increase ...
Ordered(c) ==
    \A i, j \in 1 .. Len(c) : i < j => End(c[i]) <= FirstTx[c[j]]

\* ... and leave no gap.
Covered(c) ==
    \A n \in 0 .. TxCountOf(c) - 1 :
        \E i \in 1 .. Len(c) : n \in FirstTx[c[i]] .. End(c[i]) - 1

WellFormed(c) == c \in Seq(Block) /\ Linked(c) /\ Ordered(c) /\ Covered(c)

-----------------------------------------------------------------------------
\* Writing at an offset inside the file or at its end yields a file that has
\* the data there and is as it was everywhere else (LogicalFile.write).
LEMMA WrittenProperties ==
    ASSUME NEW S, NEW file \in Seq(S), NEW data \in Seq(S),
           NEW offset \in 0 .. Len(file)
    PROVE  /\ Written(file, offset, data) \in Seq(S)
           /\ Len(Written(file, offset, data)) >= Len(file)
           /\ Len(Written(file, offset, data)) >= offset + Len(data)
           /\ \A i \in 1 .. offset : Written(file, offset, data)[i] = file[i]
           /\ \A i \in 1 .. Len(data) : Written(file, offset, data)[offset + i] = data[i]
<1> DEFINE n == IF offset + Len(data) > Len(file) THEN offset + Len(data) ELSE Len(file)
           e(i) == IF i > offset /\ i <= offset + Len(data)
                   THEN data[i - offset] ELSE file[i]
           w == [i \in 1 .. n |-> e(i)]
<1>1. Len(file) \in Nat /\ Len(data) \in Nat
  BY LenProperties
<1>2. n \in Nat /\ n >= Len(file) /\ n >= offset + Len(data)
  BY <1>1
<1>3. \A i \in 1 .. n : e(i) \in S
  <2> TAKE i \in 1 .. n
  <2>1. CASE i > offset /\ i <= offset + Len(data)
    <3>1. i - offset \in 1 .. Len(data)
      BY <2>1, <1>1
    <3> QED BY <3>1, <2>1, ElementOfSeq
  <2>2. CASE ~(i > offset /\ i <= offset + Len(data))
    <3>1. i \in 1 .. Len(file)
      BY <2>2, <1>1
    <3> QED BY <3>1, <2>2, ElementOfSeq
  <2> QED BY <2>1, <2>2
<1>4. w \in Seq(S)
  <2> HIDE DEF n, e
  <2> QED BY <1>2, <1>3, IsASeq
<1>5. DOMAIN w = 1 .. n
  OBVIOUS
<1>6. Len(w) = n
  BY <1>2, <1>4, <1>5, LenProperties
<1>7. \A i \in 1 .. offset : w[i] = file[i]
  BY <1>1, <1>2
<1>8. \A i \in 1 .. Len(data) : w[offset + i] = data[i]
  BY <1>1, <1>2
<1>9. Written(file, offset, data) = w
  BY DEF Written
<1> QED BY <1>2, <1>4, <1>6, <1>7, <1>8, <1>9

\* The same of a file of numbers, which the provers sort differently.
LEMMA WrittenNumbers ==
    ASSUME NEW file \in Seq(Nat), NEW data \in Seq(Nat),
           NEW offset \in 0 .. Len(file)
    PROVE  /\ Written(file, offset, data) \in Seq(Nat)
           /\ Len(Written(file, offset, data)) >= Len(file)
           /\ Len(Written(file, offset, data)) >= offset + Len(data)
           /\ \A i \in 1 .. offset : Written(file, offset, data)[i] = file[i]
           /\ \A i \in 1 .. Len(data) : Written(file, offset, data)[offset + i] = data[i]
<1> DEFINE S == Nat
           w == Written(file, offset, data)
<1> HIDE DEF S
<1>1. file \in Seq(S) /\ data \in Seq(S)
  BY DEF S
<1>2. /\ w \in Seq(S) /\ Len(w) >= Len(file) /\ Len(w) >= offset + Len(data)
      /\ \A i \in 1 .. offset : w[i] = file[i]
      /\ \A i \in 1 .. Len(data) : w[offset + i] = data[i]
  BY <1>1, WrittenProperties
<1> HIDE DEF w
<1>3. /\ w \in Seq(Nat) /\ Len(w) >= Len(file) /\ Len(w) >= offset + Len(data)
      /\ \A i \in 1 .. offset : w[i] = file[i]
      /\ \A i \in 1 .. Len(data) : w[offset + i] = data[i]
  BY <1>2 DEF S
<1> QED BY <1>3 DEF w

-----------------------------------------------------------------------------
\* The numbers of a block's transactions.
LEMMA BlockNumbers ==
    ASSUME NEW b \in Block
    PROVE  /\ FirstTx[b] \in Nat
           /\ Len(Txs[b]) \in Nat \ {0}
           /\ End(b) \in Nat
           /\ FirstTx[b] < End(b)
           /\ End(b) = FirstTx[b] + Len(Txs[b])
           /\ FirstTx[b] = IF Prev[b] = NoTip THEN 0 ELSE End(Prev[b])
<1>1. Txs[b] \in Seq(SUBSET HashX)
  BY BlockAssumption
<1>2. Len(Txs[b]) \in Nat
  BY <1>1, LenProperties
<1> QED BY <1>2, BlockAssumption DEF End

\* The entries of a block, and that their hashXs are among those it touches.
LEMMA EntriesOfBlock ==
    ASSUME NEW b \in Block
    PROVE  /\ Entries(b) \subseteq HashX \X Nat
           /\ \A e \in Entries(b) : /\ e = <<e[1], e[2]>>
                                    /\ FirstTx[b] <= e[2] /\ e[2] < End(b)
                                    /\ e[1] \in Touches(b)
<1> SUFFICES ASSUME NEW e \in Entries(b)
             PROVE  /\ e \in HashX \X Nat
                    /\ e = <<e[1], e[2]>>
                    /\ FirstTx[b] <= e[2] /\ e[2] < End(b)
                    /\ e[1] \in Touches(b)
  OBVIOUS
<1>1. /\ e \in HashX \X (FirstTx[b] .. End(b) - 1)
      /\ e[1] \in Txs[b][e[2] - FirstTx[b] + 1]
  BY DEF Entries
<1>2. e[2] \in FirstTx[b] .. End(b) - 1 /\ e[1] \in HashX /\ e = <<e[1], e[2]>>
  BY <1>1
<1>3. e[2] \in Nat /\ FirstTx[b] <= e[2] /\ e[2] < End(b)
  BY <1>2, BlockNumbers
<1>4. e[2] - FirstTx[b] + 1 \in 1 .. Len(Txs[b])
  BY <1>2, BlockNumbers
<1>5. e[1] \in Touches(b)
  BY <1>1, <1>4 DEF Touches
<1> QED BY <1>2, <1>3, <1>5

\* The history of a chain is that of its blocks.
LEMMA HistoryMember ==
    ASSUME NEW c, NEW e
    PROVE  e \in HistoryOf(c) <=> \E i \in 1 .. Len(c) : e \in Entries(c[i])
BY DEF HistoryOf

\* An entry of a chain's history has the number of one of its transactions.
LEMMA HistoryRange ==
    ASSUME NEW c, WellFormed(c), NEW e \in HistoryOf(c)
    PROVE  /\ e \in HashX \X Nat
           /\ e = <<e[1], e[2]>>
           /\ e[2] < TxCountOf(c)
<1>1. PICK i \in 1 .. Len(c) : e \in Entries(c[i])
  BY HistoryMember
<1>2. c \in Seq(Block) /\ Len(c) \in Nat /\ c[i] \in Block /\ c[Len(c)] \in Block
  <2>1. c \in Seq(Block)
    BY DEF WellFormed
  <2> QED BY <2>1, LenProperties, ElementOfSeq
<1>3. e \in HashX \X Nat /\ e = <<e[1], e[2]>> /\ e[2] < End(c[i])
  BY <1>1, <1>2, EntriesOfBlock
<1>4. End(c[i]) <= End(c[Len(c)])
  <2>1. CASE i = Len(c)
    BY <2>1, <1>2, BlockNumbers
  <2>2. CASE i < Len(c)
    <3>1. End(c[i]) <= FirstTx[c[Len(c)]]
      BY <2>2, <1>2 DEF WellFormed, Ordered
    <3>2. /\ FirstTx[c[Len(c)]] < End(c[Len(c)])
          /\ FirstTx[c[Len(c)]] \in Nat /\ End(c[Len(c)]) \in Nat /\ End(c[i]) \in Nat
      BY <1>2, BlockNumbers
    <3> QED BY <3>1, <3>2
  <2> QED BY <2>1, <2>2, <1>2
<1>5. TxCountOf(c) = End(c[Len(c)])
  <2>1. c # <<>>
    BY <1>1, EmptySeq
  <2> QED BY <2>1 DEF TxCountOf
<1>6. End(c[i]) \in Nat /\ End(c[Len(c)]) \in Nat /\ e[2] \in Nat
  BY <1>2, <1>3, BlockNumbers
<1> QED BY <1>3, <1>4, <1>5, <1>6

-----------------------------------------------------------------------------
\* The empty chain is a chain.
LEMMA EmptyChain ==
    /\ WellFormed(<<>>)
    /\ TipOf(<<>>) = NoTip
    /\ TxCountOf(<<>>) = 0
    /\ HistoryOf(<<>>) = {}
<1>1. <<>> \in Seq(Block) /\ Len(<<>>) = 0
  BY EmptySeq
<1>2. TipOf(<<>>) = NoTip /\ TxCountOf(<<>>) = 0
  BY DEF TipOf, TxCountOf
<1>3. HistoryOf(<<>>) = {}
  BY <1>1 DEF HistoryOf
<1>4. Linked(<<>>) /\ Ordered(<<>>) /\ Covered(<<>>)
  BY <1>1, <1>2 DEF Linked, Ordered, Covered
<1> QED BY <1>1, <1>2, <1>3, <1>4 DEF WellFormed

\* The tip and the transactions of a chain, empty or not.
LEMMA ChainEnds ==
    ASSUME NEW c, WellFormed(c)
    PROVE  /\ c \in Seq(Block) /\ Len(c) \in Nat
           /\ TxCountOf(c) \in Nat /\ TipOf(c) \in Block \cup {NoTip}
           /\ Len(c) = 0 <=> c = <<>>
           /\ Len(c) = 0 => TipOf(c) = NoTip /\ TxCountOf(c) = 0
           /\ Len(c) > 0 => /\ TipOf(c) = c[Len(c)]
                            /\ TxCountOf(c) = End(c[Len(c)])
                            /\ c[Len(c)] \in Block
           /\ \A i \in 1 .. Len(c) : /\ c[i] \in Block
                                     /\ FirstTx[c[i]] \in Nat
                                     /\ FirstTx[c[i]] < End(c[i])
                                     /\ End(c[i]) <= TxCountOf(c)
<1>1. c \in Seq(Block) /\ Len(c) \in Nat /\ (Len(c) = 0 <=> c = <<>>)
  BY EmptySeq, LenProperties DEF WellFormed
<1>2. Len(c) = 0 => TipOf(c) = NoTip /\ TxCountOf(c) = 0
  BY <1>1 DEF TipOf, TxCountOf
<1>3. Len(c) > 0 => /\ TipOf(c) = c[Len(c)]
                    /\ TxCountOf(c) = End(c[Len(c)])
                    /\ c[Len(c)] \in Block
  BY <1>1, ElementOfSeq DEF TipOf, TxCountOf
<1>4. TxCountOf(c) \in Nat /\ TipOf(c) \in Block \cup {NoTip}
  <2>1. CASE Len(c) = 0
    BY <2>1, <1>2
  <2>2. CASE Len(c) > 0
    BY <2>2, <1>3, BlockNumbers
  <2> QED BY <2>1, <2>2, <1>1
<1>5. ASSUME NEW i \in 1 .. Len(c)
      PROVE  /\ c[i] \in Block
             /\ FirstTx[c[i]] \in Nat
             /\ FirstTx[c[i]] < End(c[i])
             /\ End(c[i]) <= TxCountOf(c)
  <2>1. c[i] \in Block
    BY <1>1, ElementOfSeq
  <2>2. /\ FirstTx[c[i]] \in Nat /\ FirstTx[c[i]] < End(c[i]) /\ End(c[i]) \in Nat
        /\ FirstTx[c[Len(c)]] \in Nat /\ FirstTx[c[Len(c)]] < End(c[Len(c)])
        /\ End(c[Len(c)]) \in Nat
    BY <2>1, <1>1, <1>3, BlockNumbers
  <2>3. i < Len(c) => End(c[i]) <= FirstTx[c[Len(c)]]
    BY <1>1 DEF WellFormed, Ordered
  <2> QED BY <2>1, <2>2, <2>3, <1>1, <1>3
<1> QED BY <1>1, <1>2, <1>3, <1>4, <1>5

\* A chain with a block that links onto its tip is a chain (advance_blocks).
LEMMA ChainAppend ==
    ASSUME NEW c, WellFormed(c), NEW b \in Block, Prev[b] = TipOf(c)
    PROVE  /\ WellFormed(Append(c, b))
           /\ Len(Append(c, b)) = Len(c) + 1
           /\ PrefixOf(c, Append(c, b))
           /\ Append(c, b)[Len(c) + 1] = b
           /\ TipOf(Append(c, b)) = b
           /\ FirstTx[b] = TxCountOf(c)
           /\ TxCountOf(Append(c, b)) = TxCountOf(c) + Len(Txs[b])
           /\ TxCountOf(Append(c, b)) = End(b)
           /\ HistoryOf(Append(c, b)) = HistoryOf(c) \cup Entries(b)
<1> DEFINE d == Append(c, b)
           n == Len(c)
<1>1. c \in Seq(Block) /\ n \in Nat
  BY ChainEnds
<1>2. /\ d \in Seq(Block) /\ Len(d) = n + 1 /\ d[n + 1] = b /\ d # <<>>
      /\ \A i \in 1 .. n : d[i] = c[i]
  BY <1>1, AppendProperties
<1>3. PrefixOf(c, d)
  BY <1>1, <1>2 DEF PrefixOf
<1>4. FirstTx[b] = TxCountOf(c)
  <2>1. CASE n = 0
    BY <2>1, ChainEnds, BlockNumbers
  <2>2. CASE n > 0
    <3>1. Prev[b] = c[n] /\ c[n] \in Block /\ TxCountOf(c) = End(c[n])
      BY <2>2, ChainEnds
    <3>2. Prev[b] # NoTip
      BY <3>1, BlockAssumption
    <3>3. FirstTx[b] = End(Prev[b])
      BY <3>2, BlockNumbers
    <3> QED BY <3>1, <3>3
  <2> QED BY <2>1, <2>2, <1>1
<1>5. TipOf(d) = b /\ TxCountOf(d) = End(b) /\ TxCountOf(d) = TxCountOf(c) + Len(Txs[b])
  BY <1>2, <1>4, BlockNumbers DEF TipOf, TxCountOf
<1>6. HistoryOf(d) = HistoryOf(c) \cup Entries(b)
  <2>1. 1 .. n + 1 = (1 .. n) \cup {n + 1}
    BY <1>1
  <2> HIDE DEF d, n
  <2>2. \A e : e \in HistoryOf(d) <=> \E i \in 1 .. n + 1 : e \in Entries(d[i])
    BY <1>2, HistoryMember
  <2>3. \A e : e \in HistoryOf(c) <=> \E i \in 1 .. n : e \in Entries(c[i])
    BY HistoryMember DEF n
  <2>4. \A e : e \in HistoryOf(d) <=> e \in HistoryOf(c) \/ e \in Entries(b)
    BY <2>1, <2>2, <2>3, <1>2
  <2> QED BY <2>4
<1>7. Linked(d)
  <2>1. \A i \in 1 .. n : Prev[c[i]] = IF i = 1 THEN NoTip ELSE c[i - 1]
    BY DEF WellFormed, Linked
  <2>2. Prev[b] = IF n = 0 THEN NoTip ELSE c[n]
    BY <1>1, ChainEnds
  <2> SUFFICES ASSUME NEW i \in 1 .. n + 1
               PROVE  Prev[d[i]] = IF i = 1 THEN NoTip ELSE d[i - 1]
    BY <1>2 DEF Linked
  <2>3. CASE i = n + 1
    <3>1. n > 0 => n \in 1 .. n
      BY <1>1
    <3> QED BY <2>2, <2>3, <1>1, <1>2, <3>1
  <2>4. CASE i \in 1 .. n
    <3>1. i # 1 => i - 1 \in 1 .. n
      BY <2>4, <1>1
    <3> QED BY <2>1, <2>4, <3>1, <1>2
  <2> QED BY <2>3, <2>4, <1>1
<1>8. Ordered(d)
  <2> SUFFICES ASSUME NEW i \in 1 .. n + 1, NEW j \in 1 .. n + 1, i < j
               PROVE  End(d[i]) <= FirstTx[d[j]]
    BY <1>2 DEF Ordered
  <2>1. i \in 1 .. n
    BY <1>1
  <2>2. CASE j = n + 1
    BY <2>1, <2>2, <1>2, <1>4, ChainEnds
  <2>3. CASE j \in 1 .. n
    BY <2>1, <2>3, <1>2 DEF WellFormed, Ordered
  <2> QED BY <2>2, <2>3, <1>1
<1>9. Covered(d)
  <2> SUFFICES ASSUME NEW m \in 0 .. End(b) - 1
               PROVE  \E i \in 1 .. n + 1 : m \in FirstTx[d[i]] .. End(d[i]) - 1
    BY <1>2, <1>5 DEF Covered
  <2>1. CASE m < FirstTx[b]
    <3>1. m \in 0 .. TxCountOf(c) - 1
      BY <2>1, <1>4, BlockNumbers
    <3>2. PICK i \in 1 .. n : m \in FirstTx[c[i]] .. End(c[i]) - 1
      BY <3>1 DEF WellFormed, Covered
    <3>3. i \in 1 .. n + 1
      BY <1>1
    <3> QED BY <3>2, <3>3, <1>2
  <2>2. CASE m >= FirstTx[b]
    <3>1. m \in FirstTx[b] .. End(b) - 1
      BY <2>2, BlockNumbers
    <3>2. n + 1 \in 1 .. n + 1
      BY <1>1
    <3> QED BY <3>1, <3>2, <1>2
  <2> QED BY <2>1, <2>2, BlockNumbers, SMTT(30)
<1> QED BY <1>2, <1>3, <1>4, <1>5, <1>6, <1>7, <1>8, <1>9 DEF WellFormed

\* A chain without its tip is a chain (backup_blocks).
LEMMA ChainPop ==
    ASSUME NEW c, WellFormed(c), Len(c) > 0
    PROVE  LET d == SubSeq(c, 1, Len(c) - 1)
               b == c[Len(c)]
           IN  /\ WellFormed(d)
               /\ Len(d) = Len(c) - 1
               /\ PrefixOf(d, c)
               /\ TipOf(d) = Prev[b]
               /\ TxCountOf(d) = FirstTx[b]
               /\ TxCountOf(d) = TxCountOf(c) - Len(Txs[b])
<1> DEFINE n == Len(c)
           d == SubSeq(c, 1, n - 1)
           b == c[n]
<1>1. c \in Seq(Block) /\ n \in Nat /\ b \in Block /\ n \in 1 .. n /\ n - 1 \in Nat
  BY ChainEnds
<1>0. n = 1 \/ n > 1
  <2>1. n > 0
    OBVIOUS
  <2> HIDE DEF n
  <2> QED BY <1>1, <2>1
<1>2. \A i \in 1 .. n - 1 : c[i] \in Block
  BY <1>1, ChainEnds
<1>3. d \in Seq(Block) /\ Len(d) = n - 1 /\ \A i \in 1 .. n - 1 : d[i] = c[i]
  <2>1. 1 \in Int /\ n - 1 \in Int
    BY <1>1
  <2>2. /\ SubSeq(c, 1, n - 1) \in Seq(Block)
        /\ Len(SubSeq(c, 1, n - 1)) = IF 1 <= n - 1 THEN n - 1 - 1 + 1 ELSE 0
        /\ \A i \in 1 .. n - 1 - 1 + 1 : SubSeq(c, 1, n - 1)[i] = c[1 + i - 1]
    BY <2>1, <1>2, SubSeqProperties
  <2>3. (IF 1 <= n - 1 THEN n - 1 - 1 + 1 ELSE 0) = n - 1 /\ n - 1 - 1 + 1 = n - 1
    <3> HIDE DEF n
    <3> QED BY <1>0, <1>1
  <2>4. \A i \in 1 .. n - 1 : 1 + i - 1 = i
    BY <1>1
  <2> HIDE DEF n
  <2> QED BY <2>2, <2>3, <2>4
<1>12. d = <<>> <=> n = 1
  <2>1. n > 0
    BY <1>1
  <2> HIDE DEF d, n
  <2> QED BY <1>1, <1>3, <2>1, EmptySeq
<1> HIDE DEF d
<1>4. PrefixOf(d, c)
  BY <1>1, <1>3 DEF PrefixOf
<1>5. Prev[b] = IF n = 1 THEN NoTip ELSE c[n - 1]
  BY <1>1 DEF WellFormed, Linked
<1>6. TipOf(d) = Prev[b]
  <2>1. CASE n = 1
    <3>1. d = <<>>
      BY <2>1, <1>12
    <3> QED BY <3>1, <2>1, <1>5 DEF TipOf
  <2>2. CASE n > 1
    <3>1. n - 1 \in 1 .. n - 1 /\ n # 1
      BY <2>2, <1>1
    <3>2. d # <<>>
      BY <3>1, <1>12
    <3> QED BY <3>1, <3>2, <1>3, <1>5 DEF TipOf
  <2> QED BY <2>1, <2>2, <1>0
<1>7. TxCountOf(d) = FirstTx[b]
  <2>1. CASE n = 1
    <3>1. d = <<>>
      BY <2>1, <1>12
    <3>2. FirstTx[b] = 0
      BY <2>1, <1>1, <1>5, BlockNumbers
    <3> QED BY <3>1, <3>2 DEF TxCountOf
  <2>2. CASE n > 1
    <3>1. n - 1 \in 1 .. n - 1 /\ n # 1
      BY <2>2, <1>1
    <3>2. d # <<>>
      BY <3>1, <1>12
    <3>3. Prev[b] = c[n - 1] /\ c[n - 1] \in Block /\ c[n - 1] # NoTip
      BY <3>1, <1>2, <1>5, BlockAssumption
    <3>4. FirstTx[b] = End(c[n - 1])
      BY <3>3, <1>1, BlockNumbers
    <3> QED BY <3>1, <3>2, <3>4, <1>3 DEF TxCountOf
  <2> QED BY <2>1, <2>2, <1>0
<1>8. TxCountOf(d) = TxCountOf(c) - Len(Txs[b])
  BY <1>1, <1>7, ChainEnds, BlockNumbers
<1>9. Linked(d)
  <2>1. \A i \in 1 .. n : Prev[c[i]] = IF i = 1 THEN NoTip ELSE c[i - 1]
    BY DEF WellFormed, Linked
  <2> SUFFICES ASSUME NEW i \in 1 .. n - 1
               PROVE  Prev[d[i]] = IF i = 1 THEN NoTip ELSE d[i - 1]
    BY <1>3 DEF Linked
  <2>2. i \in 1 .. n /\ (i # 1 => i - 1 \in 1 .. n - 1)
    BY <1>1
  <2> QED BY <2>1, <2>2, <1>3
<1>10. Ordered(d)
  <2> SUFFICES ASSUME NEW i \in 1 .. n - 1, NEW j \in 1 .. n - 1, i < j
               PROVE  End(d[i]) <= FirstTx[d[j]]
    BY <1>3 DEF Ordered
  <2>1. i \in 1 .. n /\ j \in 1 .. n
    BY <1>1
  <2> QED BY <2>1, <1>3 DEF WellFormed, Ordered
<1>11. Covered(d)
  <2> SUFFICES ASSUME NEW m \in 0 .. FirstTx[b] - 1
               PROVE  \E i \in 1 .. n - 1 : m \in FirstTx[d[i]] .. End(d[i]) - 1
    BY <1>3, <1>7 DEF Covered
  <2>1. m \in 0 .. TxCountOf(c) - 1
    BY <1>1, ChainEnds, BlockNumbers
  <2>2. PICK i \in 1 .. n : m \in FirstTx[c[i]] .. End(c[i]) - 1
    BY <2>1 DEF WellFormed, Covered
  <2>3. FirstTx[b] \in Nat
    BY <1>1, BlockNumbers
  <2>4. i # n
    BY <2>2, <2>3
  <2>5. i \in 1 .. n - 1
    BY <2>4, <1>1
  <2> QED BY <2>2, <2>5, <1>3
<1> QED BY <1>3, <1>4, <1>6, <1>7, <1>8, <1>9, <1>10, <1>11 DEF WellFormed, d

\* A chain that starts where one of its length starts is that chain.
LEMMA PrefixEqual ==
    ASSUME NEW c \in Seq(Block), NEW d \in Seq(Block),
           PrefixOf(c, d), Len(d) <= Len(c)
    PROVE  c = d
<1>1. Len(c) \in Nat /\ Len(d) \in Nat
  BY LenProperties
<1>2. Len(c) = Len(d)
  BY <1>1 DEF PrefixOf
<1> QED BY <1>2, SeqEqual DEF PrefixOf

\* Blocks of d beyond c have higher tx_nums than all those of c.
LEMMA BeyondPrefix ==
    ASSUME NEW c, WellFormed(c), NEW d, WellFormed(d), PrefixOf(c, d)
    PROVE  /\ TxCountOf(c) <= TxCountOf(d)
           /\ \A i \in Len(c) + 1 .. Len(d) : TxCountOf(c) <= FirstTx[d[i]]
<1> DEFINE k == Len(c)
<1>1. k \in Nat /\ Len(d) \in Nat /\ k <= Len(d)
  BY ChainEnds DEF PrefixOf
<1>2. CASE k = 0
  <2>1. TxCountOf(c) = 0 /\ TxCountOf(d) \in Nat
    BY <1>2, ChainEnds
  <2>2. \A i \in 1 .. Len(d) : FirstTx[d[i]] \in Nat
    BY ChainEnds
  <2> HIDE DEF k
  <2> QED BY <2>1, <2>2, <1>2 DEF k
<1>3. CASE k > 0
  <2>1. k \in 1 .. k /\ k \in 1 .. Len(d)
    BY <1>1, <1>3
  <2>2. c[k] = d[k]
    BY <2>1 DEF PrefixOf
  <2>3. TxCountOf(c) = End(d[k])
    BY <1>3, <2>2, ChainEnds
  <2>4. End(d[k]) <= TxCountOf(d)
    BY <2>1, ChainEnds
  <2>5. ASSUME NEW i \in k + 1 .. Len(d)
        PROVE  End(d[k]) <= FirstTx[d[i]]
    <3>1. i \in 1 .. Len(d) /\ k < i
      BY <1>1
    <3> QED BY <2>1, <3>1 DEF WellFormed, Ordered
  <2> QED BY <2>3, <2>4, <2>5
<1> QED BY <1>1, <1>2, <1>3

\* The history of the first blocks of a chain is its history below their
\* number of transactions.
LEMMA HistoryOfPrefix ==
    ASSUME NEW c, WellFormed(c), NEW d, WellFormed(d), PrefixOf(c, d)
    PROVE  HistoryOf(c) = {e \in HistoryOf(d) : e[2] < TxCountOf(c)}
<1>1. Len(c) \in Nat /\ Len(d) \in Nat /\ Len(c) <= Len(d)
  BY ChainEnds DEF PrefixOf
<1>2. ASSUME NEW e \in HistoryOf(c)
      PROVE  e \in HistoryOf(d) /\ e[2] < TxCountOf(c)
  <2>1. PICK i \in 1 .. Len(c) : e \in Entries(c[i])
    BY HistoryMember
  <2>2. i \in 1 .. Len(d) /\ c[i] = d[i]
    BY <1>1 DEF PrefixOf
  <2>3. e \in HistoryOf(d)
    BY <2>1, <2>2, HistoryMember
  <2> QED BY <2>3, HistoryRange
<1>3. ASSUME NEW e \in HistoryOf(d), e[2] < TxCountOf(c)
      PROVE  e \in HistoryOf(c)
  <2>1. PICK i \in 1 .. Len(d) : e \in Entries(d[i])
    BY HistoryMember
  <2>2. /\ d[i] \in Block /\ FirstTx[d[i]] \in Nat /\ TxCountOf(c) \in Nat
    BY ChainEnds
  <2>3. e[2] \in Nat /\ FirstTx[d[i]] <= e[2]
    BY <2>1, <2>2, EntriesOfBlock
  <2>4. CASE i \in 1 .. Len(c)
    BY <2>1, <2>4, HistoryMember DEF PrefixOf
  <2>5. CASE i \in Len(c) + 1 .. Len(d)
    <3>1. TxCountOf(c) <= FirstTx[d[i]]
      BY <2>5, BeyondPrefix
    <3> QED BY <3>1, <2>2, <2>3, <1>3
  <2> QED BY <2>4, <2>5, <1>1
<1> QED BY <1>2, <1>3

\* The transactions that flush_fs writes for the last blocks of a chain.
LEMMA TxNumberedInTail ==
    ASSUME NEW c, WellFormed(c), NEW k \in 0 .. Len(c),
           NEW bs \in Seq(Block), Len(bs) = Len(c) - k,
           \A i \in 1 .. Len(bs) : bs[i] = c[k + i]
    PROVE  /\ \A j \in k + 1 .. Len(c) : \A n \in FirstTx[c[j]] .. End(c[j]) - 1 :
                TxNumbered(bs, n) = <<c[j], n - FirstTx[c[j]] + 1>>
           /\ \A n \in (IF k = 0 THEN 0 ELSE End(c[k])) .. TxCountOf(c) - 1 :
                TxNumbered(bs, n) \in Block \X Nat
<1>1. Len(c) \in Nat /\ k \in Nat /\ k <= Len(c)
  BY ChainEnds
<1>2. ASSUME NEW j \in k + 1 .. Len(c), NEW n \in FirstTx[c[j]] .. End(c[j]) - 1
      PROVE  TxNumbered(bs, n) = <<c[j], n - FirstTx[c[j]] + 1>>
  <2>1. j - k \in 1 .. Len(bs) /\ bs[j - k] = c[j]
    <3>1. j - k \in 1 .. Len(bs) /\ k + (j - k) = j
      BY <1>1
    <3> QED BY <3>1
  <2>2. ASSUME NEW i \in 1 .. Len(bs), n \in FirstTx[bs[i]] .. End(bs[i]) - 1
        PROVE  i = j - k
    <3>1. k + i \in 1 .. Len(c) /\ bs[i] = c[k + i] /\ j \in 1 .. Len(c)
      BY <1>1
    <3>2. /\ FirstTx[c[j]] \in Nat /\ End(c[j]) \in Nat
          /\ FirstTx[c[k + i]] \in Nat /\ End(c[k + i]) \in Nat
      BY <3>1, ChainEnds, BlockNumbers
    <3>3. ~(k + i < j)
      <4>1. k + i < j => End(c[k + i]) <= FirstTx[c[j]]
        BY <3>1 DEF WellFormed, Ordered
      <4> QED BY <4>1, <3>1, <3>2, <2>2
    <3>4. ~(j < k + i)
      <4>1. j < k + i => End(c[j]) <= FirstTx[c[k + i]]
        BY <3>1 DEF WellFormed, Ordered
      <4> QED BY <4>1, <3>1, <3>2, <2>2
    <3> QED BY <3>1, <3>3, <3>4, <1>1
  <2> DEFINE P(i) == n \in FirstTx[bs[i]] .. End(bs[i]) - 1
             ch == CHOOSE i \in 1 .. Len(bs) : P(i)
  <2>3. P(j - k)
    BY <2>1
  <2>4. ch = j - k
    <3>1. \A i \in 1 .. Len(bs) : P(i) => i = j - k
      BY <2>2
    <3> HIDE DEF P
    <3>2. ch \in 1 .. Len(bs) /\ P(ch)
      BY <2>1, <2>3
    <3> QED BY <3>1, <3>2
  <2>5. TxNumbered(bs, n) = <<bs[ch], n - FirstTx[bs[ch]] + 1>>
    BY DEF TxNumbered
  <2> HIDE DEF ch
  <2> QED BY <2>1, <2>4, <2>5
<1>3. ASSUME NEW n \in (IF k = 0 THEN 0 ELSE End(c[k])) .. TxCountOf(c) - 1
      PROVE  TxNumbered(bs, n) \in Block \X Nat
  <2>1. k > 0 => k \in 1 .. Len(c) /\ c[k] \in Block /\ End(c[k]) \in Nat
    BY <1>1, ChainEnds, BlockNumbers
  <2>2. n \in 0 .. TxCountOf(c) - 1 /\ (k > 0 => End(c[k]) <= n)
    BY <2>1, <1>1, ChainEnds
  <2>3. PICK j \in 1 .. Len(c) : n \in FirstTx[c[j]] .. End(c[j]) - 1
    BY <2>2 DEF WellFormed, Covered
  <2>4. c[j] \in Block /\ FirstTx[c[j]] \in Nat /\ End(c[j]) \in Nat
    BY ChainEnds, BlockNumbers
  <2>5. j > k
    <3>1. k > 0 /\ j < k => End(c[j]) <= FirstTx[c[k]]
      BY <2>1 DEF WellFormed, Ordered
    <3>2. k > 0 => FirstTx[c[k]] < End(c[k]) /\ FirstTx[c[k]] \in Nat
      BY <2>1, BlockNumbers
    <3>3. k > 0 => j # k
      BY <2>1, <2>2, <2>3
    <3>4. k > 0 => ~(j < k)
      BY <2>1, <2>2, <2>3, <2>4, <3>1, <3>2
    <3> QED BY <1>1, <3>3, <3>4
  <2>6. TxNumbered(bs, n) = <<c[j], n - FirstTx[c[j]] + 1>>
    <3>1. j \in k + 1 .. Len(c)
      BY <1>1, <2>5
    <3> QED BY <1>2, <2>3, <3>1
  <2>7. n - FirstTx[c[j]] + 1 \in Nat
    BY <2>3, <2>4
  <2> QED BY <2>4, <2>6, <2>7
<1> QED BY <1>2, <1>3

-----------------------------------------------------------------------------
Up == pc # "down"

-----------------------------------------------------------------------------
(* The inductive invariant *)

\* What the UTXO DB holds is a chain, and its state record describes it.
TableInv ==
    /\ WellFormed(utxo_table)
    /\ utxo_state.height = Len(utxo_table) - 1
    /\ utxo_state.tip = TipOf(utxo_table)
    /\ utxo_state.tx_count = TxCountOf(utxo_table)

\* What the block processor has in memory is a chain too.
ChainInv ==
    /\ WellFormed(chain)
    /\ height = Len(chain) - 1
    /\ tip = TipOf(chain)
    /\ tx_count = TxCountOf(chain)
    /\ Len(tx_counts) = Len(chain)
    /\ \A i \in 1 .. Len(chain) : tx_counts[i] = End(chain[i])

\* A new process has nothing pending; the fields of the DB and History objects
\* repeat what is on disk.
MemoryInv ==
    /\ ~Up => headers = <<>> /\ unflushed = {}
    /\ Up => /\ db_height = utxo_state.height
             /\ db_tx_count = utxo_state.tx_count
             /\ db_tip = utxo_state.tip
             /\ utxo_flush_count = utxo_state.utxo_flush_count
             /\ flush_count = hist_flush_count

\* The block processor is ahead of the disk, with pending headers from
\* fs_height on, except while it undoes blocks.
AheadInv ==
    Up /\ height >= db_height =>
        /\ PrefixOf(utxo_table, chain)
        /\ fs_height >= db_height
        /\ height = fs_height + Len(headers)
        /\ \A i \in 1 .. Len(headers) : headers[i] = chain[fs_height + 1 + i]

BehindInv ==
    Up /\ height < db_height =>
        /\ pc \in {"backing", "backed", "unwritten", "flush"}
        /\ PrefixOf(chain, utxo_table)
        /\ headers = <<>>
        /\ fs_height = IF pc = "unwritten" THEN height ELSE db_height

\* The course of a flush ...
FlushInv ==
    /\ pc \in {"flush", "headers", "counts", "files", "history", "flushed"} =>
         \/ next = "blocks" /\ ~caught_up
         \/ flush_utxos
    /\ pc \in {"files", "history", "flushed"} => headers = <<>> /\ fs_height = height
    /\ pc \in {"headers", "counts", "files", "history", "flushed"} => height >= db_height
    /\ pc = "history" => unflushed = {}
    /\ pc = "flushed" /\ flush_utxos => height = db_height
    /\ pc = "idle" /\ caught_up => height = db_height

\* ... and of a reorg.
ReorgInv ==
    /\ pc \in {"flush", "headers", "counts", "files", "history", "flushed"} /\ next = "reorg"
         => todo <= height
    /\ pc \in {"reorg", "backing", "backed", "unwritten"} =>
         todo <= height /\ height <= db_height
    /\ pc = "reorg" => height = db_height
    /\ pc = "backing" =>
         chunk \in 1 .. todo /\ db_height - height + chunk <= ChunkSize
    /\ pc \in {"backed", "unwritten"} =>
         height < db_height /\ db_height - height <= ChunkSize
    /\ pc \in {"backing", "backed"} =>
         \A i \in Len(chain) + 1 .. Len(utxo_table) : Touches(utxo_table[i]) \subseteq touched

\* The files hold the block at position i of chain c.
HeaderOnFile(c, i) == i <= Len(headers_file) /\ headers_file[i] = c[i]
CountOnFile(c, i) == i <= Len(tx_counts_file) /\ tx_counts_file[i] = End(c[i])
HashesOnFile(c, i) ==
    \A n \in FirstTx[c[i]] .. End(c[i]) - 1 :
        /\ n + 1 <= Len(hashes_file)
        /\ hashes_file[n + 1] = <<c[i], n - FirstTx[c[i]] + 1>>

FileInv ==
    /\ \A i \in 1 .. Len(utxo_table) :
         /\ HeaderOnFile(utxo_table, i)
         /\ CountOnFile(utxo_table, i)
         /\ HashesOnFile(utxo_table, i)
    /\ Up => \A i \in 1 .. Len(chain) :
         /\ i <= fs_height + 1 \/ pc \in {"headers", "counts"} => HeaderOnFile(chain, i)
         /\ i <= fs_height + 1 \/ pc = "counts" => CountOnFile(chain, i)
         /\ i <= fs_height + 1 => HashesOnFile(chain, i)

\* Rows of committed flushes are those of committed transactions; tx_nums
\* increase with the flush id.
RowInv ==
    /\ \A r \in hist_rows : r.flush_id <= hist_flush_count
    /\ utxo_state.utxo_flush_count <= hist_flush_count
    /\ \A r \in hist_rows :
         r.flush_id <= utxo_state.utxo_flush_count <=> r.tx_num < utxo_state.tx_count
    /\ \A r, s \in hist_rows : r.flush_id < s.flush_id => r.tx_num < s.tx_num

\* What is not committed is all the history of the blocks since.
PendingInv ==
    Up =>
      /\ {<<r.hashX, r.tx_num>> : r \in {r \in hist_rows :
              r.flush_id > utxo_state.utxo_flush_count}} \cup unflushed
         = {e \in HistoryOf(chain) : e[2] >= utxo_state.tx_count}
      /\ \A r \in hist_rows : \A e \in unflushed : r.tx_num < e[2]

\* The history of a backup that is not committed is lost from disk.
LostInv ==
    /\ \A n \in lost : n < utxo_state.tx_count
    /\ pc = "unwritten" => \A r \in hist_rows : r.tx_num < tx_count

IInv ==
    /\ TypeOK
    /\ TableInv
    /\ ChainInv
    /\ MemoryInv
    /\ AheadInv
    /\ BehindInv
    /\ FlushInv
    /\ ReorgInv
    /\ FileInv
    /\ RowInv
    /\ PendingInv
    /\ LostInv
    /\ HistoryExact

-----------------------------------------------------------------------------
\* A new database.
LEMMA InitIInv == Init => IInv
<1> SUFFICES ASSUME Init PROVE IInv
  OBVIOUS
<1> USE DEF Init
<1>1. /\ \A S : <<>> \in Seq(S)
      /\ Len(<<>>) = 0
  BY EmptySeq
<1>2. KeptRows = {} /\ Recovered = {}
  BY DEF KeptRows, Recovered
<1>3. TypeOK
  <2>1. /\ <<>> \in Seq(Block) /\ <<>> \in Seq(Nat) /\ <<>> \in Seq(Block \X Nat)
        /\ -1 \in Nat \cup {-1} /\ 0 \in Nat /\ 0 \in 0 .. ChunkSize
    BY <1>1, ParameterAssumption
  <2> QED BY <2>1 DEF TypeOK, Phase, Continuation
<1>4. TableInv /\ ChainInv
  BY <1>1, EmptyChain DEF TableInv, ChainInv
<1>5. MemoryInv /\ AheadInv /\ BehindInv /\ FlushInv /\ ReorgInv /\ PendingInv
  BY DEF MemoryInv, AheadInv, BehindInv, FlushInv, ReorgInv, PendingInv, Up
<1>6. FileInv /\ RowInv /\ LostInv
  BY <1>1 DEF FileInv, RowInv, LostInv, Up
<1>7. HistoryExact
  BY <1>2, EmptyChain DEF HistoryExact
<1> QED BY <1>3, <1>4, <1>5, <1>6, <1>7 DEF IInv

-----------------------------------------------------------------------------
(* Steps that end the process *)

\* A process that dies leaves what is on disk.
LEMMA DeathStep ==
    ASSUME IInv, Forgotten, UNCHANGED <<fileVars, utxoVars, rowVars, lost>>
    PROVE  IInv'
<1> USE DEF IInv, Forgotten, fileVars, utxoVars, rowVars
<1>1. /\ \A S : <<>> \in Seq(S)
      /\ Len(<<>>) = 0
  BY EmptySeq
<1>2. TypeOK'
  <2>1. /\ <<>> \in Seq(Block) /\ <<>> \in Seq(Nat) /\ <<>> \in Seq(Block \X Nat)
        /\ -1 \in Nat \cup {-1} /\ 0 \in Nat /\ 0 \in 0 .. ChunkSize
    BY <1>1, ParameterAssumption
  <2> QED BY <2>1 DEF TypeOK, Phase, Continuation
<1>3. TableInv'
  BY DEF TableInv
<1>4. ChainInv'
  BY <1>1, EmptyChain DEF ChainInv
<1>5. MemoryInv' /\ AheadInv' /\ BehindInv' /\ FlushInv' /\ ReorgInv' /\ PendingInv'
  BY DEF MemoryInv, AheadInv, BehindInv, FlushInv, ReorgInv, PendingInv, Up
<1>6. FileInv'
  BY DEF FileInv, HeaderOnFile, CountOnFile, HashesOnFile, Up
<1>7. RowInv' /\ LostInv'
  BY DEF RowInv, LostInv
<1>8. HistoryExact'
  BY DEF HistoryExact, Recovered, KeptRows
<1> QED BY <1>2, <1>3, <1>4, <1>5, <1>6, <1>7, <1>8

-----------------------------------------------------------------------------
(* Steps of control only *)

DataSame ==
    UNCHANGED <<fileVars, utxoVars, rowVars, db_height, db_tx_count, db_tip,
                fs_height, fs_tx_count, tx_counts, utxo_flush_count, histVars,
                height, tip, tx_count, headers, chain, lost>>

\* A step that writes no data and leaves no phase of a flush disturbs only the
\* parts of the invariant that speak of the phase.
LEMMA ControlStep ==
    ASSUME IInv, DataSame, Up, (pc' = pc \/ pc' \notin {"down", "headers", "counts", "unwritten"})
    PROVE  /\ TableInv' /\ ChainInv' /\ MemoryInv' /\ AheadInv' /\ FileInv'
           /\ RowInv' /\ PendingInv' /\ LostInv' /\ HistoryExact'
<1> USE DEF IInv, DataSame, Up, fileVars, utxoVars, rowVars, histVars
<1>1. TableInv'
  BY DEF TableInv
<1>2. ChainInv'
  BY DEF ChainInv
<1>3. MemoryInv'
  BY DEF MemoryInv
<1>4. AheadInv'
  BY DEF AheadInv
<1>5. FileInv'
  BY DEF FileInv, HeaderOnFile, CountOnFile, HashesOnFile
<1>6. RowInv'
  BY DEF RowInv
<1>7. PendingInv'
  BY DEF PendingInv
<1>8. LostInv'
  BY DEF LostInv
<1>9. HistoryExact'
  BY DEF HistoryExact, Recovered, KeptRows
<1> QED BY <1>1, <1>2, <1>3, <1>4, <1>5, <1>6, <1>7, <1>8, <1>9

\* A flush is begun, or the step is over.
LEMMA MaybeFlushStep ==
    ASSUME IInv, MaybeFlush
    PROVE  IInv'
<1> USE DEF MaybeFlush, BeginFlush, fileVars, utxoVars, rowVars, dbVars, histVars, bpVars, reorgVars
<1>1. DataSame /\ Up /\ (pc' = pc \/ pc' \notin {"down", "headers", "counts", "unwritten"})
  BY DEF DataSame, Up, IInv
<1>2. TypeOK'
  <2>1. flush_utxos' \in BOOLEAN /\ next' \in Continuation /\ pc' \in Phase
        /\ touched' \in SUBSET HashX
    BY DEF IInv, TypeOK, Phase, Continuation
  <2> QED BY <2>1 DEF IInv, TypeOK
<1>3. BehindInv'
  BY DEF IInv, BehindInv, Up
<1>4. FlushInv'
  <2>1. pc' = "flush" => next' = "blocks" /\ (~caught_up' \/ flush_utxos')
    <3>1. CASE caught_up
      <4>1. (IF caught_up THEN {TRUE} ELSE BOOLEAN) = {TRUE}
        BY <3>1
      <4>2. pc' = "flush" => \E utxos \in {TRUE} : flush_utxos' = utxos /\ next' = "blocks"
        BY <4>1
      <4> QED BY <4>2
    <3>2. CASE ~caught_up
      BY <3>2
    <3> QED BY <3>1, <3>2
  <2>2. pc' \in {"flush", "idle"} /\ (pc' = "idle" => ~caught_up')
    BY DEF IInv, TypeOK
  <2> QED BY <2>1, <2>2 DEF FlushInv
<1>5. ReorgInv'
  BY DEF IInv, ReorgInv, TypeOK
<1> QED BY <1>1, <1>2, <1>3, <1>4, <1>5, ControlStep DEF IInv

\* The end of a batch that was flushed: a new touched set.
LEMMA BlocksDoneStep ==
    ASSUME IInv, BlocksDone
    PROVE  IInv'
<1> USE DEF BlocksDone, fileVars, utxoVars, rowVars, dbVars, histVars, bpVars, reorgVars
<1>1. DataSame /\ Up /\ (pc' = pc \/ pc' \notin {"down", "headers", "counts", "unwritten"})
  BY DEF DataSame, Up, IInv
<1>2. TypeOK'
  BY ParameterAssumption DEF IInv, TypeOK, Phase, Continuation
<1>3. BehindInv'
  BY DEF IInv, BehindInv, Up
<1>4. FlushInv'
  BY DEF IInv, FlushInv, TypeOK
<1>5. ReorgInv'
  BY DEF IInv, ReorgInv, TypeOK
<1> QED BY <1>1, <1>2, <1>3, <1>4, <1>5, ControlStep DEF IInv

\* The first flush after catching up ends the initial sync.
LEMMA FirstCaughtUpStep ==
    ASSUME IInv, FirstCaughtUp
    PROVE  IInv'
<1> USE DEF FirstCaughtUp, BeginFlush, fileVars, utxoVars, rowVars, dbVars, histVars, bpVars, reorgVars
<1>1. DataSame /\ Up /\ (pc' = pc \/ pc' \notin {"down", "headers", "counts", "unwritten"})
  BY DEF DataSame, Up, IInv
<1>2. TypeOK'
  BY ParameterAssumption DEF IInv, TypeOK, Phase, Continuation
<1>3. BehindInv'
  BY DEF IInv, BehindInv, Up
<1>4. FlushInv'
  BY DEF IInv, FlushInv, TypeOK
<1>5. ReorgInv'
  BY DEF IInv, ReorgInv, TypeOK
<1> QED BY <1>1, <1>2, <1>3, <1>4, <1>5, ControlStep DEF IInv

\* Nothing was indexed since the last flush: assert_flushed.
LEMMA NothingToFlushStep ==
    ASSUME IInv, NothingToFlush
    PROVE  IInv'
<1> USE DEF NothingToFlush, fileVars, utxoVars, rowVars, dbVars, histVars, bpVars, reorgVars
<1>1. DataSame /\ Up /\ (pc' = pc \/ pc' \notin {"down", "headers", "counts", "unwritten"})
  BY DEF DataSame, Up, IInv
<1>2. TypeOK'
  BY ParameterAssumption DEF IInv, TypeOK, Phase, Continuation
<1>3. BehindInv'
  BY DEF IInv, BehindInv, TypeOK, Up
<1>4. FlushInv'
  <2>1. /\ height \in Int /\ db_height \in Int /\ fs_height \in Int
        /\ headers \in Seq(Block) /\ Len(headers) \in Nat
    BY LenProperties DEF IInv, TypeOK
  <2>2. fs_height >= db_height /\ height = fs_height + Len(headers)
    BY <2>1 DEF IInv, AheadInv, Up
  <2>3. fs_height = height /\ headers = <<>>
    BY <2>1, <2>2, EmptySeq
  <2> QED BY <2>1, <2>3 DEF IInv, FlushInv
<1>5. ReorgInv'
  BY DEF IInv, ReorgInv, TypeOK
<1> QED BY <1>1, <1>2, <1>3, <1>4, <1>5, ControlStep DEF IInv

\* A reorg begins with a flush.
LEMMA StartReorgStep ==
    ASSUME NEW n, IInv, StartReorg(n)
    PROVE  IInv'
<1> USE DEF StartReorg, BeginFlush, fileVars, utxoVars, rowVars, dbVars, histVars, bpVars, reorgVars
<1>1. DataSame /\ Up /\ (pc' = pc \/ pc' \notin {"down", "headers", "counts", "unwritten"})
  BY DEF DataSame, Up, IInv
<1>2. TypeOK'
  BY ParameterAssumption DEF IInv, TypeOK, Phase, Continuation
<1>3. BehindInv'
  BY DEF IInv, BehindInv, Up
<1>4. FlushInv'
  BY DEF IInv, FlushInv, TypeOK
<1>5. ReorgInv'
  BY DEF IInv, ReorgInv, TypeOK
<1> QED BY <1>1, <1>2, <1>3, <1>4, <1>5, ControlStep DEF IInv

\* The flush before a reorg is done.
LEMMA ReorgFlushedStep ==
    ASSUME IInv, ReorgFlushed
    PROVE  IInv'
<1> USE DEF ReorgFlushed, fileVars, utxoVars, rowVars, dbVars, histVars, bpVars, reorgVars
<1>1. DataSame /\ Up /\ (pc' = pc \/ pc' \notin {"down", "headers", "counts", "unwritten"})
  BY DEF DataSame, Up, IInv
<1>2. TypeOK'
  BY ParameterAssumption DEF IInv, TypeOK, Phase, Continuation
<1>3. BehindInv'
  BY DEF IInv, BehindInv, Up
<1>4. FlushInv'
  BY DEF IInv, FlushInv, TypeOK
<1>5. ReorgInv'
  BY DEF IInv, FlushInv, ReorgInv, TypeOK
<1> QED BY <1>1, <1>2, <1>3, <1>4, <1>5, ControlStep DEF IInv

\* The next chunk of blocks to undo.
LEMMA StartChunkStep ==
    ASSUME IInv, StartChunk
    PROVE  IInv'
<1> USE DEF StartChunk, fileVars, utxoVars, rowVars, dbVars, histVars, bpVars, reorgVars
<1>1. DataSame /\ Up /\ (pc' = pc \/ pc' \notin {"down", "headers", "counts", "unwritten"})
  BY DEF DataSame, Up, IInv
<1>2. TypeOK'
  BY ParameterAssumption DEF IInv, TypeOK, Phase, Continuation
<1>3. BehindInv'
  BY DEF IInv, BehindInv, Up
<1>4. FlushInv'
  BY DEF IInv, FlushInv, TypeOK
<1>5. ReorgInv'
  <2>1. /\ Len(chain) = Len(utxo_table) /\ Len(chain) \in Nat
        /\ todo <= height /\ height = db_height /\ height \in Int /\ todo \in Nat
        /\ ChunkSize \in Nat \ {0}
    <3>1. Len(chain) \in Nat /\ Len(utxo_table) \in Nat
      BY ChainEnds DEF IInv, TableInv, ChainInv
    <3> QED BY <3>1, ParameterAssumption
            DEF IInv, TypeOK, ReorgInv, TableInv, ChainInv, MemoryInv, Up
  <2>2. chunk' \in 1 .. todo' /\ chunk' <= ChunkSize
    BY <2>1
  <2>3. \A i \in Len(chain) + 1 .. Len(utxo_table) : FALSE
    BY <2>1
  <2> QED BY <2>1, <2>2, <2>3 DEF ReorgInv
<1> QED BY <1>1, <1>2, <1>3, <1>4, <1>5, ControlStep DEF IInv

\* The end of a reorg.
LEMMA ReorgDoneStep ==
    ASSUME IInv, ReorgDone
    PROVE  IInv'
<1> USE DEF ReorgDone, fileVars, utxoVars, rowVars, dbVars, histVars, bpVars, reorgVars
<1>1. DataSame /\ Up /\ (pc' = pc \/ pc' \notin {"down", "headers", "counts", "unwritten"})
  BY DEF DataSame, Up, IInv
<1>2. TypeOK'
  BY ParameterAssumption DEF IInv, TypeOK, Phase, Continuation
<1>3. BehindInv'
  BY DEF IInv, BehindInv, Up
<1>4. FlushInv'
  BY DEF IInv, FlushInv, ReorgInv, TypeOK
<1>5. ReorgInv'
  BY DEF IInv, ReorgInv, TypeOK
<1> QED BY <1>1, <1>2, <1>3, <1>4, <1>5, ControlStep DEF IInv

\* The task is cancelled.
LEMMA CancelStep ==
    ASSUME IInv, Cancel
    PROVE  IInv'
<1> USE DEF Cancel, fileVars, utxoVars, rowVars, dbVars, histVars, bpVars, reorgVars
<1>1. DataSame /\ Up /\ (pc' = pc \/ pc' \notin {"down", "headers", "counts", "unwritten"})
  BY DEF DataSame, Up, IInv
<1>2. TypeOK'
  BY ParameterAssumption DEF IInv, TypeOK, Phase, Continuation
<1>3. BehindInv'
  BY DEF IInv, BehindInv, Up
<1>4. FlushInv'
  BY DEF IInv, FlushInv, TypeOK
<1>5. ReorgInv'
  BY DEF IInv, ReorgInv, TypeOK
<1> QED BY <1>1, <1>2, <1>3, <1>4, <1>5, ControlStep DEF IInv

\* The flush of a shutdown.
LEMMA ShutdownFlushStep ==
    ASSUME IInv, ShutdownFlush
    PROVE  IInv'
<1> USE DEF ShutdownFlush, BeginFlush, fileVars, utxoVars, rowVars, dbVars, histVars, bpVars, reorgVars
<1>1. DataSame /\ Up /\ (pc' = pc \/ pc' \notin {"down", "headers", "counts", "unwritten"})
  BY DEF DataSame, Up, IInv
<1>2. TypeOK'
  BY ParameterAssumption DEF IInv, TypeOK, Phase, Continuation
<1>3. BehindInv'
  BY DEF IInv, BehindInv, Up
<1>4. FlushInv'
  BY DEF IInv, FlushInv, TypeOK
<1>5. ReorgInv'
  BY DEF IInv, ReorgInv, TypeOK
<1> QED BY <1>1, <1>2, <1>3, <1>4, <1>5, ControlStep DEF IInv

-----------------------------------------------------------------------------
(* Facts about the states of IInv *)

\* A number below p lies between q and p or below q.
LEMMA Between ==
    ASSUME NEW p \in Nat, NEW q \in Nat, NEW m \in Nat, m < p
    PROVE  m \in q .. p - 1 <=> ~(m < q)
OBVIOUS

\* The sorts that arithmetic and the sequence operators need to know of.
LEMMA Sorts ==
    ASSUME IInv
    PROVE  /\ height \in Int /\ db_height \in Int /\ fs_height \in Int
           /\ height >= -1 /\ db_height >= -1 /\ fs_height >= -1
           /\ tx_count \in Nat /\ utxo_state.tx_count \in Nat
           /\ utxo_state.utxo_flush_count \in Nat /\ utxo_state.height \in Int
           /\ hist_flush_count \in Nat /\ flush_count \in Nat
           /\ Len(chain) \in Nat /\ Len(utxo_table) \in Nat
           /\ Len(headers) \in Nat /\ headers \in Seq(Block)
           /\ chain \in Seq(Block) /\ utxo_table \in Seq(Block)
           /\ Len(chain) = height + 1
           /\ Len(utxo_table) = utxo_state.height + 1
           /\ \A r \in hist_rows : r.flush_id \in Nat /\ r.tx_num \in Nat /\ r.hashX \in HashX
           /\ Up => db_height = utxo_state.height
<1>1. /\ height \in Nat \cup {-1} /\ db_height \in Nat \cup {-1} /\ fs_height \in Nat \cup {-1}
      /\ tx_count \in Nat /\ hist_flush_count \in Nat /\ flush_count \in Nat
      /\ headers \in Seq(Block) /\ chain \in Seq(Block) /\ utxo_table \in Seq(Block)
      /\ utxo_state \in [height : Nat \cup {-1}, tx_count : Nat,
                         tip : Block \cup {NoTip}, utxo_flush_count : Nat,
                         first_sync : BOOLEAN]
      /\ hist_rows \in SUBSET Row
  BY DEF IInv, TypeOK
<1>2. Len(chain) \in Nat /\ Len(utxo_table) \in Nat /\ Len(headers) \in Nat
  BY <1>1, LenProperties
<1>3. height = Len(chain) - 1 /\ utxo_state.height = Len(utxo_table) - 1
  BY DEF IInv, ChainInv, TableInv
<1>4. Up => db_height = utxo_state.height
  BY DEF IInv, MemoryInv
<1>5. \A r \in hist_rows : r.flush_id \in Nat /\ r.tx_num \in Nat /\ r.hashX \in HashX
  BY <1>1 DEF Row
<1>6. utxo_state.tx_count \in Nat /\ utxo_state.utxo_flush_count \in Nat /\ utxo_state.height \in Int
  BY <1>1
<1> QED BY <1>1, <1>2, <1>3, <1>4, <1>5, <1>6

\* Opening the databases keeps the rows of committed flushes and no others.
LEMMA Kept ==
    ASSUME IInv
    PROVE  /\ KeptRows = {r \in hist_rows : r.flush_id <= utxo_state.utxo_flush_count}
           /\ KeptRows = {r \in hist_rows : r.tx_num < utxo_state.tx_count}
           /\ KeptFlushCount = utxo_state.utxo_flush_count
           /\ \A e : e \in Recovered <=>
                \E r \in hist_rows : /\ r.flush_id <= utxo_state.utxo_flush_count
                                     /\ e = <<r.hashX, r.tx_num>>
<1>1. KeptRows = {r \in hist_rows : r.flush_id <= utxo_state.utxo_flush_count}
  <2>1. CASE hist_flush_count <= utxo_state.utxo_flush_count
    <3>1. \A r \in hist_rows : r.flush_id <= utxo_state.utxo_flush_count
      BY <2>1, Sorts, SMTT(30) DEF IInv, RowInv
    <3> QED BY <2>1, <3>1 DEF KeptRows
  <2>2. CASE ~(hist_flush_count <= utxo_state.utxo_flush_count)
    BY <2>2 DEF KeptRows
  <2> QED BY <2>1, <2>2
<1>2. KeptRows = {r \in hist_rows : r.tx_num < utxo_state.tx_count}
  BY <1>1 DEF IInv, RowInv
<1>3. KeptFlushCount = utxo_state.utxo_flush_count
  BY Sorts, SMTT(30) DEF KeptFlushCount, IInv, RowInv
<1>4. \A e : e \in Recovered <=>
                \E r \in hist_rows : /\ r.flush_id <= utxo_state.utxo_flush_count
                                     /\ e = <<r.hashX, r.tx_num>>
  BY <1>1 DEF Recovered
<1> QED BY <1>1, <1>2, <1>3, <1>4

\* With no blocks ahead of the disk no history is pending.
LEMMA NoPending ==
    ASSUME IInv, Up, height <= db_height
    PROVE  /\ PrefixOf(chain, utxo_table)
           /\ unflushed = {}
           /\ headers = <<>>
           /\ \A r \in hist_rows : /\ r.flush_id <= utxo_state.utxo_flush_count
                                   /\ r.tx_num < utxo_state.tx_count
           /\ height = db_height => chain = utxo_table /\ fs_height = height
<1>1. PrefixOf(chain, utxo_table) /\ headers = <<>>
      /\ (height = db_height => chain = utxo_table /\ fs_height = height)
  <2>1. CASE height = db_height
    <3>1. PrefixOf(utxo_table, chain) /\ fs_height >= db_height
          /\ height = fs_height + Len(headers)
      BY <2>1, Sorts DEF IInv, AheadInv
    <3>2. Len(headers) = 0 /\ fs_height = height
      BY <2>1, <3>1, Sorts
    <3>3. Len(chain) <= Len(utxo_table)
      BY <2>1, Sorts
    <3>4. utxo_table = chain
      BY <3>1, <3>3, Sorts, PrefixEqual
    <3>5. PrefixOf(chain, utxo_table)
      BY <3>4, Sorts DEF PrefixOf
    <3> QED BY <3>2, <3>4, <3>5, Sorts, EmptySeq
  <2>2. CASE height < db_height
    BY <2>2, Sorts DEF IInv, BehindInv
  <2> QED BY <2>1, <2>2, Sorts
<1>2. WellFormed(chain) /\ WellFormed(utxo_table)
      /\ utxo_state.tx_count = TxCountOf(utxo_table)
  BY DEF IInv, ChainInv, TableInv
<1>3. TxCountOf(chain) <= utxo_state.tx_count /\ TxCountOf(chain) \in Nat
  BY <1>1, <1>2, BeyondPrefix, ChainEnds
<1>4. {e \in HistoryOf(chain) : e[2] >= utxo_state.tx_count} = {}
  <2> SUFFICES ASSUME NEW e \in HistoryOf(chain), e[2] >= utxo_state.tx_count
               PROVE  FALSE
    OBVIOUS
  <2>1. e[2] < TxCountOf(chain) /\ e[2] \in Nat
    BY <1>2, HistoryRange
  <2>2. \A k, m, n \in Nat : k < m /\ m <= n => ~(k >= n)
    OBVIOUS
  <2>3. utxo_state.tx_count \in Nat
    BY Sorts
  <2> QED BY <2>1, <2>2, <2>3, <1>3
<1>5. /\ {<<r.hashX, r.tx_num>> : r \in {r \in hist_rows :
              r.flush_id > utxo_state.utxo_flush_count}} = {}
      /\ unflushed = {}
  BY <1>4 DEF IInv, PendingInv
<1>6. \A r \in hist_rows : r.flush_id <= utxo_state.utxo_flush_count
  <2> SUFFICES ASSUME NEW r \in hist_rows, ~(r.flush_id <= utxo_state.utxo_flush_count)
               PROVE  FALSE
    OBVIOUS
  <2>1. r.flush_id > utxo_state.utxo_flush_count
    BY Sorts, SMTT(30)
  <2>2. <<r.hashX, r.tx_num>> \in {<<s.hashX, s.tx_num>> : s \in {s \in hist_rows :
              s.flush_id > utxo_state.utxo_flush_count}}
    BY <2>1
  <2> QED BY <2>2, <1>5
<1>7. \A r \in hist_rows : r.tx_num < utxo_state.tx_count
  BY <1>6 DEF IInv, RowInv
<1> QED BY <1>1, <1>5, <1>6, <1>7

\* Every row on disk belongs to a transaction in memory, if that is not behind.
LEMMA RowsBelow ==
    ASSUME IInv, Up, height >= db_height
    PROVE  /\ utxo_state.tx_count <= tx_count
           /\ \A r \in hist_rows : r.tx_num < tx_count
           /\ \A e \in unflushed : e \in HashX \X Nat /\ e[2] < tx_count
                                   /\ e = <<e[1], e[2]>>
                                   /\ e[2] >= utxo_state.tx_count
<1>1. WellFormed(chain) /\ WellFormed(utxo_table) /\ PrefixOf(utxo_table, chain)
      /\ utxo_state.tx_count = TxCountOf(utxo_table) /\ tx_count = TxCountOf(chain)
  BY DEF IInv, ChainInv, TableInv, AheadInv
<1>2. utxo_state.tx_count <= tx_count
  BY <1>1, BeyondPrefix
<1>3. ASSUME NEW r \in hist_rows PROVE r.tx_num < tx_count
  <2>1. CASE r.flush_id <= utxo_state.utxo_flush_count
    <3>1. r.tx_num < utxo_state.tx_count
      BY <2>1 DEF IInv, RowInv
    <3> QED BY <3>1, <1>2, Sorts, SMTT(30)
  <2>2. CASE r.flush_id > utxo_state.utxo_flush_count
    <3>1. <<r.hashX, r.tx_num>> \in {<<s.hashX, s.tx_num>> : s \in {s \in hist_rows :
              s.flush_id > utxo_state.utxo_flush_count}}
      BY <2>2
    <3>2. <<r.hashX, r.tx_num>> \in HistoryOf(chain)
      BY <3>1 DEF IInv, PendingInv
    <3> QED BY <3>2, <1>1, HistoryRange
  <2> QED BY <2>1, <2>2, Sorts, SMTT(30)
<1>4. ASSUME NEW e \in unflushed
      PROVE  e \in HashX \X Nat /\ e[2] < tx_count /\ e = <<e[1], e[2]>>
             /\ e[2] >= utxo_state.tx_count
  <2>1. e \in HistoryOf(chain) /\ e[2] >= utxo_state.tx_count
    BY DEF IInv, PendingInv
  <2> QED BY <2>1, <1>1, HistoryRange
<1> QED BY <1>2, <1>3, <1>4

-----------------------------------------------------------------------------
(* Opening the databases *)

\* open_db: what is beyond the committed state is deleted.
LEMMA OpenStep ==
    ASSUME IInv, OpenDbs, pc' = "idle",
           height' = utxo_state.height, tip' = utxo_state.tip,
           tx_count' = utxo_state.tx_count, chain' = utxo_table,
           headers' = <<>>, unflushed' = {},
           UNCHANGED <<fileVars, utxoVars, touched, flush_utxos, next,
                       reorgVars, stopping, lost>>,
           caught_up' \in BOOLEAN
    PROVE  IInv'
<1> DEFINE kept == {r \in hist_rows : r.flush_id <= utxo_state.utxo_flush_count}
<1> USE DEF OpenDbs, fileVars, utxoVars, reorgVars
<1>1. /\ hist_rows' = kept
      /\ hist_flush_count' = utxo_state.utxo_flush_count
      /\ flush_count' = utxo_state.utxo_flush_count
      /\ utxo_flush_count' = utxo_state.utxo_flush_count
  BY Kept
<1>2. /\ WellFormed(utxo_table)
      /\ utxo_state.height = Len(utxo_table) - 1
      /\ utxo_state.tip = TipOf(utxo_table)
      /\ utxo_state.tx_count = TxCountOf(utxo_table)
      /\ Len(utxo_table) \in Nat
      /\ \A i \in 1 .. Len(utxo_table) :
            i <= Len(tx_counts_file) /\ tx_counts_file[i] = End(utxo_table[i])
  BY Sorts DEF IInv, TableInv, FileInv, CountOnFile
<1>3. /\ tx_counts' \in Seq(Nat)
      /\ Len(tx_counts') = Len(utxo_table)
      /\ \A i \in 1 .. Len(utxo_table) : tx_counts'[i] = End(utxo_table[i])
  <2>1. tx_counts_file \in Seq(Nat) /\ Len(tx_counts_file) \in Nat
    BY LenProperties DEF IInv, TypeOK
  <2>2. Len(utxo_table) <= Len(tx_counts_file)
    <3>1. CASE Len(utxo_table) = 0
      BY <3>1, <2>1
    <3>2. CASE Len(utxo_table) > 0
      <4>1. Len(utxo_table) \in 1 .. Len(utxo_table)
        BY <3>2, <1>2
      <4> QED BY <4>1, <1>2
    <3> QED BY <3>1, <3>2, <1>2
  <2>3. tx_counts' = SubSeq(tx_counts_file, 1, Len(utxo_table))
    BY <1>2
  <2>4. \A i \in 1 .. Len(utxo_table) : i \in 1 .. Len(tx_counts_file)
    BY <1>2, <2>1, <2>2
  <2>5. \A i \in 1 .. Len(utxo_table) : tx_counts_file[i] \in Nat
    BY <2>1, <2>4, ElementOfSeq
  <2>6. /\ SubSeq(tx_counts_file, 1, Len(utxo_table)) \in Seq(Nat)
        /\ Len(SubSeq(tx_counts_file, 1, Len(utxo_table))) = Len(utxo_table)
        /\ \A i \in 1 .. Len(utxo_table) :
              SubSeq(tx_counts_file, 1, Len(utxo_table))[i] = tx_counts_file[i]
    <3>1. \A i \in 1 .. Len(utxo_table) : SubSeq(tx_counts_file, 1, Len(utxo_table))[i] = tx_counts_file[1 + i - 1]
      BY <1>2, <2>1, <2>2, <2>5, SubSeqProperties
    <3>2. \A i \in 1 .. Len(utxo_table) : 1 + i - 1 = i
      BY <1>2
    <3>3. /\ SubSeq(tx_counts_file, 1, Len(utxo_table)) \in Seq(Nat)
          /\ Len(SubSeq(tx_counts_file, 1, Len(utxo_table))) = Len(utxo_table)
      BY <1>2, <2>1, <2>2, <2>4, <2>5, SubSeqProperties
    <3> QED BY <3>1, <3>2, <3>3
  <2> QED BY <2>3, <2>6, <1>2
<1>4. TypeOK'
  <2>1. hist_rows' \in SUBSET Row
    BY <1>1 DEF IInv, TypeOK
  <2>2. utxo_state.tx_count \in Nat /\ utxo_state.height \in Nat \cup {-1}
        /\ utxo_state.tip \in Block \cup {NoTip} /\ utxo_state.utxo_flush_count \in Nat
        /\ utxo_state.first_sync \in BOOLEAN
    BY DEF IInv, TypeOK
  <2>3. <<>> \in Seq(Block)
    BY EmptySeq
  <2> QED BY <1>1, <1>3, <2>1, <2>2, <2>3 DEF IInv, TypeOK, Phase, Continuation
<1>5. TableInv'
  BY <1>2 DEF TableInv
<1>6. ChainInv'
  BY <1>2, <1>3 DEF ChainInv
<1>7. MemoryInv'
  BY <1>1 DEF MemoryInv, Up
<1>8. AheadInv' /\ BehindInv' /\ FlushInv' /\ ReorgInv'
  <2>1. PrefixOf(utxo_table, utxo_table)
    BY <1>2 DEF PrefixOf
  <2>2. Len(<<>>) = 0 /\ ~(utxo_state.height < utxo_state.height)
        /\ utxo_state.height >= utxo_state.height
        /\ utxo_state.height = utxo_state.height + 0
    <3>1. utxo_state.height \in Int /\ Len(<<>>) = 0
      BY Sorts, EmptySeq
    <3> QED BY <3>1
  <2>3. AheadInv'
    <3>1. \A i \in 1 .. Len(headers') : FALSE
      BY <2>2
    <3> QED BY <2>1, <2>2, <3>1 DEF AheadInv
  <2> QED BY <2>2, <2>3 DEF BehindInv, FlushInv, ReorgInv
<1>9. FileInv'
  BY <1>2 DEF IInv, FileInv, HeaderOnFile, CountOnFile, HashesOnFile
<1>10. RowInv'
  <2>1. utxo_state.utxo_flush_count <= utxo_state.utxo_flush_count
    BY Sorts, SMTT(30)
  <2>2. /\ \A r \in hist_rows :
              r.flush_id <= utxo_state.utxo_flush_count <=> r.tx_num < utxo_state.tx_count
        /\ \A r, s \in hist_rows : r.flush_id < s.flush_id => r.tx_num < s.tx_num
    BY DEF IInv, RowInv
  <2> QED BY <1>1, <2>1, <2>2 DEF RowInv
<1>11. PendingInv'
  <2>1. \A e \in HistoryOf(utxo_table) : ~(e[2] >= utxo_state.tx_count)
    <3> SUFFICES ASSUME NEW e \in HistoryOf(utxo_table) PROVE ~(e[2] >= utxo_state.tx_count)
      OBVIOUS
    <3>1. e[2] < utxo_state.tx_count /\ e[2] \in Nat
      BY <1>2, HistoryRange
    <3>2. \A k, m \in Nat : k < m => ~(k >= m)
      OBVIOUS
    <3> QED BY <3>1, <3>2, Sorts
  <2>2. \A r \in kept : ~(r.flush_id > utxo_state.utxo_flush_count)
    <3>1. \A k, m \in Nat : k <= m => ~(k > m)
      OBVIOUS
    <3>2. utxo_state.utxo_flush_count \in Nat /\ \A r \in hist_rows : r.flush_id \in Nat
      BY Sorts
    <3> QED BY <3>1, <3>2
  <2>3. {<<r.hashX, r.tx_num>> : r \in {r \in hist_rows' :
              r.flush_id > utxo_state'.utxo_flush_count}} = {}
    BY <1>1, <2>2
  <2>4. {e \in HistoryOf(chain') : e[2] >= utxo_state'.tx_count} = {}
    BY <2>1
  <2> QED BY <2>3, <2>4 DEF PendingInv
<1>12. LostInv'
  BY DEF IInv, LostInv
<1>13. HistoryExact'
  <2>1. KeptRows' = kept
    BY <1>1 DEF KeptRows
  <2>2. Recovered' = Recovered
    BY <2>1, Kept DEF Recovered
  <2> QED BY <2>2 DEF IInv, HistoryExact
<1> QED BY <1>4, <1>5, <1>6, <1>7, <1>8, <1>9, <1>10, <1>11, <1>12, <1>13 DEF IInv

\* The process is started again.
LEMMA RestartStep ==
    ASSUME IInv, Restart
    PROVE  IInv'
<1>1. headers' = <<>> /\ unflushed' = {}
  BY DEF Restart, IInv, MemoryInv, Up
<1> QED BY <1>1, OpenStep DEF Restart, IInv, TypeOK

\* open_for_serving: the database is closed and opened.
LEMMA OpenForServingStep ==
    ASSUME IInv, OpenForServing
    PROVE  IInv'
<1> USE DEF OpenForServing
<1>1. Up /\ height = db_height
  BY DEF Up, IInv, FlushInv
<1>2. chain = utxo_table /\ unflushed = {} /\ headers = <<>>
  BY <1>1, NoPending, Sorts
<1>3. /\ height = utxo_state.height /\ tip = utxo_state.tip
      /\ tx_count = utxo_state.tx_count
  BY <1>1, <1>2 DEF IInv, MemoryInv, ChainInv, TableInv
<1> QED BY <1>2, <1>3, OpenStep

-----------------------------------------------------------------------------
(* Advancing *)

\* advance_txs of the next block.
LEMMA AdvanceBlockStep ==
    ASSUME NEW b \in Block, IInv, AdvanceBlock(b)
    PROVE  IInv'
<1> USE DEF AdvanceBlock, fileVars, utxoVars, rowVars, reorgVars
<1>1. Up /\ height >= db_height /\ pc' = "advanced"
  <2>1. pc \in {"idle", "advanced"} /\ pc' = "advanced"
    OBVIOUS
  <2>2. ~(height < db_height)
    BY <2>1 DEF Up, IInv, BehindInv
  <2>3. height \in Int /\ db_height \in Int
    BY Sorts
  <2> HIDE DEF AdvanceBlock
  <2> QED BY <2>1, <2>2, <2>3 DEF Up
<1>2. /\ WellFormed(chain) /\ Prev[b] = TipOf(chain) /\ tx_count = TxCountOf(chain)
      /\ height = Len(chain) - 1
  BY DEF IInv, ChainInv
<1>3. /\ WellFormed(chain')
      /\ Len(chain') = Len(chain) + 1
      /\ PrefixOf(chain, chain')
      /\ chain'[Len(chain) + 1] = b
      /\ TipOf(chain') = b
      /\ FirstTx[b] = tx_count
      /\ TxCountOf(chain') = tx_count + Len(Txs[b])
      /\ TxCountOf(chain') = End(b)
      /\ HistoryOf(chain') = HistoryOf(chain) \cup Entries(b)
  BY <1>2, ChainAppend
<1>4. /\ tx_count' = End(b) /\ tx_count' \in Nat
      /\ unflushed' = unflushed \cup Entries(b)
  <2>1. tx_count + Len(Txs[b]) = End(b) /\ End(b) \in Nat
    BY <1>3, BlockNumbers
  <2>2. Entries(b) =
          {e \in HashX \X (tx_count .. tx_count + Len(Txs[b]) - 1) :
              e[1] \in Txs[b][e[2] - tx_count + 1]}
    <3> HIDE DEF AdvanceBlock
    <3>1. /\ FirstTx[b] = tx_count /\ End(b) = tx_count + Len(Txs[b])
          /\ tx_count \in Int /\ Len(Txs[b]) \in Int /\ End(b) \in Int
      BY <2>1, <1>3, Sorts, BlockNumbers
    <3>2. (FirstTx[b] .. End(b) - 1) = (tx_count .. tx_count + Len(Txs[b]) - 1)
      BY <3>1
    <3>3. \A e : Txs[b][e[2] - FirstTx[b] + 1] = Txs[b][e[2] - tx_count + 1]
      BY <3>1
    <3>4. \A e : e \in Entries(b) <=>
              /\ e \in HashX \X (FirstTx[b] .. End(b) - 1)
              /\ e[1] \in Txs[b][e[2] - FirstTx[b] + 1]
      BY DEF Entries
    <3>5. \A e : e \in Entries(b) <=>
              /\ e \in HashX \X (tx_count .. tx_count + Len(Txs[b]) - 1)
              /\ e[1] \in Txs[b][e[2] - tx_count + 1]
      BY <3>2, <3>3, <3>4, Zenon
    <3> QED BY <3>5, Zenon
  <2> QED BY <2>1, <2>2
<1>5. \A i \in 1 .. Len(chain) : chain'[i] = chain[i]
  BY <1>3 DEF PrefixOf
<1>6. /\ tx_counts' \in Seq(Nat)
      /\ Len(tx_counts') = Len(chain')
      /\ \A i \in 1 .. Len(chain') : tx_counts'[i] = End(chain'[i])
  <2>1. /\ tx_counts \in Seq(Nat) /\ Len(tx_counts) = Len(chain) /\ Len(chain) \in Nat
        /\ \A i \in 1 .. Len(chain) : tx_counts[i] = End(chain[i])
    BY Sorts DEF IInv, TypeOK, ChainInv
  <2>2. /\ tx_counts' \in Seq(Nat) /\ Len(tx_counts') = Len(tx_counts) + 1
        /\ tx_counts'[Len(tx_counts) + 1] = End(b)
        /\ \A i \in 1 .. Len(tx_counts) : tx_counts'[i] = tx_counts[i]
    BY <1>4, <2>1, AppendProperties
  <2>3. \A i \in 1 .. Len(chain) + 1 : i \in 1 .. Len(chain) \/ i = Len(chain) + 1
    BY <2>1
  <2> QED BY <2>1, <2>2, <2>3, <1>3, <1>5
<1>7. /\ headers' \in Seq(Block) /\ Len(headers') = Len(headers) + 1
      /\ headers'[Len(headers) + 1] = b
      /\ \A i \in 1 .. Len(headers) : headers'[i] = headers[i]
  BY Sorts, AppendProperties
<1>8. TypeOK'
  <2>1. Touches(b) \in SUBSET HashX
    <3>1. \A i \in 1 .. Len(Txs[b]) : Txs[b][i] \in SUBSET HashX
      <4>1. Txs[b] \in Seq(SUBSET HashX)
        BY BlockAssumption
      <4> QED BY <4>1, ElementOfSeq
    <3> QED BY <3>1 DEF Touches
  <2>2. Entries(b) \subseteq HashX \X Nat
    BY EntriesOfBlock
  <2>3. height' \in Nat \cup {-1} /\ chain' \in Seq(Block)
    <3>1. height + 1 \in Nat
      BY Sorts
    <3>2. chain' \in Seq(Block)
      BY <1>3 DEF WellFormed
    <3> QED BY <3>1, <3>2
  <2> QED BY <1>1, <1>4, <1>6, <1>7, <2>1, <2>2, <2>3, SMTT(30) DEF IInv, TypeOK, Phase
<1>9. TableInv'
  BY DEF IInv, TableInv
<1>10. ChainInv'
  <2>1. height' = Len(chain') - 1
    BY <1>2, <1>3, Sorts
  <2> QED BY <2>1, <1>3, <1>4, <1>6 DEF ChainInv
<1>11. MemoryInv'
  BY <1>1 DEF IInv, MemoryInv, Up
<1>12. AheadInv'
  <2>1. /\ PrefixOf(utxo_table, chain) /\ fs_height >= db_height
        /\ height = fs_height + Len(headers)
        /\ \A i \in 1 .. Len(headers) : headers[i] = chain[fs_height + 1 + i]
    BY <1>1 DEF IInv, AheadInv
  <2> HIDE DEF AdvanceBlock
  <2>5. Len(chain) \in Nat /\ Len(utxo_table) \in Nat /\ Len(headers) \in Nat
        /\ fs_height \in Int /\ fs_height >= -1
    BY Sorts
  <2>6. Len(chain') = Len(chain) + 1 /\ Len(headers') = Len(headers) + 1
        /\ Len(chain) = fs_height + 1 + Len(headers)
    BY <2>1, <2>5, <1>2, <1>3, <1>7, Sorts
  <2>2. PrefixOf(utxo_table, chain')
    <3>1. Len(utxo_table) <= Len(chain') /\ \A i \in 1 .. Len(utxo_table) : i \in 1 .. Len(chain)
      <4>1. Len(utxo_table) <= Len(chain)
        BY <2>1 DEF PrefixOf
      <4> QED BY <4>1, <2>5, <2>6
    <3> QED BY <3>1, <2>1, <1>5 DEF PrefixOf
  <2>7. height' = height + 1
    BY DEF AdvanceBlock
  <2>3. height' = fs_height + Len(headers')
    BY <2>5, <2>6, <2>7, <1>2, Sorts
  <2>4. \A i \in 1 .. Len(headers') : headers'[i] = chain'[fs_height + 1 + i]
    <3>1. fs_height + 1 + (Len(headers) + 1) = Len(chain) + 1
      BY <2>5, <2>6
    <3>2. \A i \in 1 .. Len(headers') :
             \/ i = Len(headers) + 1
             \/ i \in 1 .. Len(headers) /\ fs_height + 1 + i \in 1 .. Len(chain)
      BY <2>5, <2>6
    <3> QED BY <3>1, <3>2, <2>1, <1>3, <1>5, <1>7
  <2> USE DEF AdvanceBlock
  <2> QED BY <2>1, <2>2, <2>3, <2>4 DEF AheadInv
<1>13. BehindInv'
  <2>1. ~(height' < db_height')
    BY <1>1, Sorts, SMTT(30)
  <2> QED BY <2>1 DEF BehindInv
<1>14. FlushInv' /\ ReorgInv'
  BY <1>1 DEF FlushInv, ReorgInv
<1>15. FileInv'
  <2>1. \A i \in 1 .. Len(chain') : i <= fs_height + 1 => i \in 1 .. Len(chain)
    <3>1. fs_height <= height
      BY <1>1, Sorts DEF IInv, AheadInv
    <3> QED BY <3>1, <1>2, <1>3, Sorts, SMTT(30)
  <2>2. pc' \notin {"headers", "counts"}
    BY <1>1
  <2>3. ASSUME NEW i \in 1 .. Len(chain'), i <= fs_height + 1
        PROVE HeaderOnFile(chain, i)' /\ CountOnFile(chain, i)' /\ HashesOnFile(chain, i)'
    <3>1. i \in 1 .. Len(chain) /\ chain'[i] = chain[i]
      BY <2>1, <2>3, <1>5
    <3>2. HeaderOnFile(chain, i) /\ CountOnFile(chain, i) /\ HashesOnFile(chain, i)
      BY <3>1, <2>3, <1>1 DEF IInv, FileInv
    <3> QED BY <3>1, <3>2 DEF HeaderOnFile, CountOnFile, HashesOnFile
  <2>4. \A i \in 1 .. Len(utxo_table') :
            HeaderOnFile(utxo_table, i)' /\ CountOnFile(utxo_table, i)' /\ HashesOnFile(utxo_table, i)'
    BY DEF IInv, FileInv, HeaderOnFile, CountOnFile, HashesOnFile
  <2> QED BY <2>2, <2>3, <2>4 DEF FileInv
<1>16. RowInv'
  BY DEF IInv, RowInv
<1>17. PendingInv'
  <2>1. ASSUME NEW e \in Entries(b)
        PROVE  /\ e[2] \in Nat /\ e[2] >= tx_count /\ e[2] >= utxo_state.tx_count
    <3>1. e[2] \in Nat /\ FirstTx[b] <= e[2]
      BY EntriesOfBlock
    <3>2. \A k, m, n \in Nat : k <= m /\ m <= n => n >= m /\ n >= k
      OBVIOUS
    <3>3. utxo_state.tx_count <= tx_count /\ utxo_state.tx_count \in Nat /\ tx_count \in Nat
      BY <1>1, RowsBelow, Sorts
    <3> QED BY <3>1, <3>2, <3>3, <1>3
  <2>2. ASSUME NEW r \in hist_rows, NEW e \in Entries(b)
        PROVE  r.tx_num < e[2]
    <3>1. r.tx_num < tx_count /\ tx_count <= e[2]
      BY <2>1, <1>1, RowsBelow, Sorts
    <3>2. \A k, m, n \in Nat : k < m /\ m <= n => k < n
      OBVIOUS
    <3> QED BY <3>1, <3>2, <2>1, Sorts
  <2>3. {e \in HistoryOf(chain') : e[2] >= utxo_state.tx_count}
        = {e \in HistoryOf(chain) : e[2] >= utxo_state.tx_count} \cup Entries(b)
    BY <2>1, <1>3
  <2> QED BY <2>2, <2>3, <1>1, <1>4 DEF IInv, PendingInv
<1>18. LostInv'
  BY <1>1 DEF IInv, LostInv
<1>19. HistoryExact'
  BY DEF IInv, HistoryExact, Recovered, KeptRows
<1> QED BY <1>8, <1>9, <1>10, <1>11, <1>12, <1>13, <1>14, <1>15, <1>16, <1>17, <1>18, <1>19 DEF IInv

-----------------------------------------------------------------------------
(* Writing the metadata files *)

\* A step of flush_fs writes beyond the committed part of the files only.
LEMMA FileStep ==
    ASSUME IInv, height >= db_height,
           pc \in {"flush", "headers", "counts"}, pc' \in {"headers", "counts", "files"},
           UNCHANGED <<utxoVars, rowVars, db_height, db_tx_count, db_tip, tx_counts,
                       utxo_flush_count, first_sync, histVars, height, tip,
                       tx_count, chain, touched, caught_up, flush_utxos, next,
                       reorgVars, stopping, lost>>
    PROVE  /\ TableInv' /\ ChainInv' /\ MemoryInv' /\ BehindInv' /\ ReorgInv'
           /\ RowInv' /\ PendingInv' /\ LostInv' /\ HistoryExact'
<1> USE DEF utxoVars, rowVars, histVars, reorgVars
<1>1. TableInv' /\ ChainInv'
  BY DEF IInv, TableInv, ChainInv
<1>2. MemoryInv'
  BY DEF IInv, MemoryInv, Up
<1>3. BehindInv'
  <2>1. ~(height < db_height)
    BY Sorts
  <2> QED BY <2>1 DEF BehindInv
<1>4. ReorgInv'
  BY DEF IInv, ReorgInv
<1>5. RowInv' /\ LostInv'
  BY DEF IInv, RowInv, LostInv
<1>6. PendingInv'
  BY DEF IInv, PendingInv, Up
<1>7. HistoryExact'
  BY DEF IInv, HistoryExact, Recovered, KeptRows
<1> QED BY <1>1, <1>2, <1>3, <1>4, <1>5, <1>6, <1>7

\* What is on file of the chain up to the flushed height, and where in the
\* chain the pending headers are.
LEMMA Flushing ==
    ASSUME IInv, pc \in {"flush", "headers", "counts"}, height >= db_height
    PROVE  /\ Len(chain) = fs_height + 1 + Len(headers)
           /\ fs_height + 1 \in 0 .. Len(chain)
           /\ \A i \in 1 .. Len(headers) : headers[i] = chain[fs_height + 1 + i]
           /\ \A i \in 1 .. Len(utxo_table) :
                 i \in 1 .. fs_height + 1 /\ i \in 1 .. Len(chain) /\ utxo_table[i] = chain[i]
           /\ \A i \in 1 .. fs_height + 1 :
                 HeaderOnFile(chain, i) /\ CountOnFile(chain, i) /\ HashesOnFile(chain, i)
<1>1. /\ PrefixOf(utxo_table, chain)
      /\ fs_height >= db_height
      /\ height = fs_height + Len(headers)
      /\ \A i \in 1 .. Len(headers) : headers[i] = chain[fs_height + 1 + i]
      /\ Up /\ db_height = utxo_state.height
  BY Sorts DEF IInv, AheadInv, Up
<1>2. Len(chain) = fs_height + 1 + Len(headers) /\ fs_height + 1 \in 0 .. Len(chain)
  BY <1>1, Sorts, SMTT(30)
<1>3. \A i \in 1 .. Len(utxo_table) : i \in 1 .. fs_height + 1 /\ i \in 1 .. Len(chain)
  <2>1. /\ Len(utxo_table) \in Nat /\ Len(chain) \in Nat /\ fs_height \in Int
        /\ Len(utxo_table) = utxo_state.height + 1 /\ utxo_state.height \in Int
    BY Sorts
  <2>2. Len(utxo_table) <= fs_height + 1
    BY <2>1, <1>1
  <2>3. fs_height + 1 <= Len(chain)
    BY <2>1, <1>2
  <2> QED BY <2>1, <2>2, <2>3
<1>4. \A i \in 1 .. fs_height + 1 : i \in 1 .. Len(chain) /\ i <= fs_height + 1
  BY <1>2, Sorts, SMTT(30)
<1>5. \A i \in 1 .. fs_height + 1 :
         HeaderOnFile(chain, i) /\ CountOnFile(chain, i) /\ HashesOnFile(chain, i)
  BY <1>1, <1>4 DEF IInv, FileInv
<1> QED BY <1>1, <1>2, <1>3, <1>5 DEF PrefixOf

\* flush_fs: the headers.
LEMMA FlushHeadersStep ==
    ASSUME IInv, FlushHeaders
    PROVE  IInv'
<1> USE DEF FlushHeaders, utxoVars, rowVars, dbVars, histVars, bpVars, reorgVars
<1>1. height >= db_height
  <2> SUFFICES ASSUME height < db_height PROVE FALSE
    BY Sorts
  <2>1. headers = <<>> /\ fs_height = db_height
    BY DEF IInv, BehindInv, Up
  <2>2. height = fs_height + 0
    BY <2>1, EmptySeq DEF FlushFsAssertions
  <2> QED BY <2>1, <2>2, Sorts
<1>2. /\ TableInv' /\ ChainInv' /\ MemoryInv' /\ BehindInv' /\ ReorgInv'
      /\ RowInv' /\ PendingInv' /\ LostInv' /\ HistoryExact'
  BY <1>1, FileStep
<1>3. /\ headers_file' \in Seq(Block)
      /\ \A i \in 1 .. fs_height + 1 :
            i <= Len(headers_file') /\ headers_file'[i] = headers_file[i]
      /\ \A i \in 1 .. Len(headers) :
            /\ fs_height + 1 + i <= Len(headers_file')
            /\ headers_file'[fs_height + 1 + i] = headers[i]
  <2>1. headers_file \in Seq(Block) /\ Len(headers_file) \in Nat
    BY LenProperties DEF IInv, TypeOK
  <2>2. fs_height + 1 \in 0 .. Len(headers_file)
    <3>1. \A i \in 1 .. fs_height + 1 : i <= Len(headers_file)
      BY <1>1, Flushing DEF HeaderOnFile
    <3> QED BY <3>1, <2>1, Sorts, SMTT(30)
  <2> DEFINE f == Written(headers_file, fs_height + 1, headers)
  <2>3. /\ f \in Seq(Block) /\ Len(f) >= Len(headers_file) /\ Len(f) \in Nat
        /\ Len(f) >= fs_height + 1 + Len(headers)
        /\ \A i \in 1 .. fs_height + 1 : f[i] = headers_file[i]
        /\ \A i \in 1 .. Len(headers) : f[fs_height + 1 + i] = headers[i]
    <3>1. headers \in Seq(Block)
      BY Sorts
    <3>2. /\ f \in Seq(Block) /\ Len(f) >= Len(headers_file)
          /\ Len(f) >= fs_height + 1 + Len(headers)
          /\ \A i \in 1 .. fs_height + 1 : f[i] = headers_file[i]
          /\ \A i \in 1 .. Len(headers) : f[fs_height + 1 + i] = headers[i]
      BY <2>1, <2>2, <3>1, WrittenProperties
    <3> HIDE DEF f
    <3> QED BY <3>2, LenProperties
  <2>4. headers_file' = f
    OBVIOUS
  <2> HIDE DEF f, FlushHeaders
  <2>5. /\ \A i \in 1 .. fs_height + 1 : i <= Len(f)
        /\ \A i \in 1 .. Len(headers) : fs_height + 1 + i <= Len(f)
    <3>1. /\ Len(f) \in Nat /\ Len(headers) \in Nat /\ fs_height \in Int
          /\ Len(headers_file) \in Nat /\ fs_height + 1 <= Len(headers_file)
      BY <2>1, <2>2, <2>3, Sorts
    <3> QED BY <3>1, <2>3
  <2> QED BY <2>3, <2>4, <2>5
<1>4. TypeOK'
  BY <1>3, SMTT(30) DEF IInv, TypeOK, Phase
<1>5. AheadInv'
  BY <1>1 DEF IInv, AheadInv, Up
<1>6. FlushInv'
  BY <1>1 DEF IInv, FlushInv
<1>7. FileInv'
  <2>1. ASSUME NEW i \in 1 .. Len(chain)
        PROVE  HeaderOnFile(chain, i)'
    <3>1. CASE i \in 1 .. fs_height + 1
      BY <3>1, <1>1, <1>3, Flushing DEF HeaderOnFile
    <3>2. CASE i \notin 1 .. fs_height + 1
      <4>1. i - (fs_height + 1) \in 1 .. Len(headers)
            /\ fs_height + 1 + (i - (fs_height + 1)) = i
        <5>0. /\ fs_height \in Int /\ Len(headers) \in Nat /\ Len(chain) \in Nat
              /\ Len(chain) = fs_height + 1 + Len(headers)
          BY <1>1, Flushing, Sorts
        <5>1. /\ i \in Int /\ i >= 1 /\ fs_height \in Int /\ Len(headers) \in Nat
              /\ i <= fs_height + 1 + Len(headers)
          BY <5>0
        <5> HIDE DEF FlushHeaders
        <5>2. i > fs_height + 1
          BY <3>2, <5>1
        <5> QED BY <5>1, <5>2
      <4>2. headers[i - (fs_height + 1)] = chain[i]
        BY <4>1, <1>1, Flushing
      <4>3. /\ i <= Len(headers_file')
            /\ headers_file'[i] = headers[i - (fs_height + 1)]
        BY <4>1, <1>3
      <4> QED BY <4>2, <4>3 DEF HeaderOnFile
    <3> QED BY <3>1, <3>2
  <2>2. \A i \in 1 .. Len(utxo_table) : i \in 1 .. Len(chain) /\ utxo_table[i] = chain[i]
    BY <1>1, Flushing
  <2>3. \A i \in 1 .. Len(utxo_table) :
          HeaderOnFile(utxo_table, i)' /\ CountOnFile(utxo_table, i)' /\ HashesOnFile(utxo_table, i)'
    BY <2>1, <2>2 DEF IInv, FileInv, HeaderOnFile, CountOnFile, HashesOnFile
  <2>4. \A i \in 1 .. Len(chain) : i <= fs_height + 1 =>
          CountOnFile(chain, i)' /\ HashesOnFile(chain, i)'
    BY DEF IInv, FileInv, CountOnFile, HashesOnFile, Up
  <2> QED BY <2>1, <2>3, <2>4 DEF FileInv
<1> QED BY <1>2, <1>4, <1>5, <1>6, <1>7 DEF IInv

\* flush_fs: the transaction counts.
LEMMA FlushTxCountsStep ==
    ASSUME IInv, FlushTxCounts
    PROVE  IInv'
<1> USE DEF FlushTxCounts, utxoVars, rowVars, dbVars, histVars, bpVars, reorgVars
<1> DEFINE k == fs_height + 1
           data == SubSeq(tx_counts, fs_height + 2, Len(tx_counts))
           f == Written(tx_counts_file, k, data)
<1>1. height >= db_height
  BY DEF IInv, FlushInv
<1>2. /\ TableInv' /\ ChainInv' /\ MemoryInv' /\ BehindInv' /\ ReorgInv'
      /\ RowInv' /\ PendingInv' /\ LostInv' /\ HistoryExact'
  BY <1>1, FileStep
<1>3. /\ Len(chain) \in Nat /\ k \in 0 .. Len(chain) /\ k \in Nat
      /\ fs_height + 2 = k + 1
      /\ tx_counts \in Seq(Nat) /\ Len(tx_counts) = Len(chain)
      /\ \A i \in 1 .. Len(chain) : tx_counts[i] = End(chain[i])
  <2>1. /\ tx_counts \in Seq(Nat) /\ Len(tx_counts) = Len(chain)
        /\ \A i \in 1 .. Len(chain) : tx_counts[i] = End(chain[i])
    BY DEF IInv, TypeOK, ChainInv
  <2>2. fs_height + 1 \in 0 .. Len(chain) /\ Len(chain) \in Nat /\ fs_height \in Int
    BY <1>1, Flushing, Sorts
  <2> HIDE DEF FlushTxCounts
  <2> QED BY <2>1, <2>2
<1>4. /\ data \in Seq(Nat) /\ Len(data) = Len(chain) - k
      /\ \A i \in 1 .. Len(chain) - k : data[i] = End(chain[k + i])
  <2> HIDE DEF k, FlushTxCounts
  <2>1. \A i \in k + 1 .. Len(tx_counts) : i \in 1 .. Len(tx_counts) /\ tx_counts[i] \in Nat
    BY <1>3, ElementOfSeq
  <2>2. /\ SubSeq(tx_counts, k + 1, Len(tx_counts)) \in Seq(Nat)
        /\ Len(SubSeq(tx_counts, k + 1, Len(tx_counts))) =
             IF k + 1 <= Len(tx_counts) THEN Len(tx_counts) - (k + 1) + 1 ELSE 0
        /\ \A i \in 1 .. Len(tx_counts) - (k + 1) + 1 :
             SubSeq(tx_counts, k + 1, Len(tx_counts))[i] = tx_counts[k + 1 + i - 1]
    BY <1>3, <2>1, SubSeqProperties
  <2>3. /\ Len(tx_counts) - (k + 1) + 1 = Len(chain) - k
        /\ ~(k + 1 <= Len(tx_counts)) => Len(chain) - k = 0
        /\ \A i \in 1 .. Len(chain) - k : k + 1 + i - 1 = k + i /\ k + i \in 1 .. Len(chain)
    BY <1>3
  <2>4. data = SubSeq(tx_counts, k + 1, Len(tx_counts))
    BY <1>3
  <2> HIDE DEF data
  <2> QED BY <1>3, <2>2, <2>3, <2>4
<1>5. /\ f \in Seq(Nat) /\ Len(f) \in Nat
      /\ \A i \in 1 .. k : i <= Len(f) /\ f[i] = tx_counts_file[i]
      /\ \A i \in 1 .. Len(chain) - k : k + i <= Len(f) /\ f[k + i] = data[i]
  <2> HIDE DEF k, data, FlushTxCounts
  <2>1. tx_counts_file \in Seq(Nat) /\ Len(tx_counts_file) \in Nat
    BY LenProperties DEF IInv, TypeOK
  <2>2. \A i \in 1 .. k : i <= Len(tx_counts_file)
    BY <1>1, Flushing DEF CountOnFile, FlushTxCounts, k
  <2>3. k \in 0 .. Len(tx_counts_file)
    BY <2>1, <2>2, <1>3
  <2>4. /\ f \in Seq(Nat) /\ Len(f) >= k + Len(data)
        /\ Len(f) >= Len(tx_counts_file)
        /\ \A i \in 1 .. k : f[i] = tx_counts_file[i]
        /\ \A i \in 1 .. Len(data) : f[k + i] = data[i]
    BY <2>1, <2>3, <1>4, WrittenNumbers
  <2> HIDE DEF f
  <2>5. Len(f) \in Nat
    BY <2>4, LenProperties
  <2>6. \A i \in 1 .. k : i <= Len(f)
    BY <2>1, <2>2, <2>4, <2>5, <1>3
  <2>7. \A i \in 1 .. Len(chain) - k : k + i <= Len(f)
    BY <2>4, <2>5, <1>3, <1>4
  <2> QED BY <2>4, <2>5, <2>6, <2>7, <1>4
<1>6. tx_counts_file' = f
  OBVIOUS
<1>7. TypeOK'
  <2> HIDE DEF f
  <2>1. tx_counts_file' \in Seq(Nat)
    BY <1>5, <1>6
  <2> QED BY <2>1, SMTT(30) DEF IInv, TypeOK, Phase
<1>8. AheadInv'
  BY <1>1 DEF IInv, AheadInv, Up
<1>9. FlushInv'
  BY <1>1 DEF IInv, FlushInv
<1>10. FileInv'
  <2>1. ASSUME NEW i \in 1 .. Len(chain)
        PROVE  CountOnFile(chain, i)'
    <3>1. CASE i \in 1 .. k
      <4>1. tx_counts_file[i] = End(chain[i])
        BY <3>1, <1>1, Flushing DEF CountOnFile
      <4> QED BY <3>1, <4>1, <1>5, <1>6 DEF CountOnFile
    <3>2. CASE i \notin 1 .. k
      <4> HIDE DEF k, data, f, FlushTxCounts
      <4>1. i - k \in 1 .. Len(chain) - k /\ k + (i - k) = i
        BY <3>2, <1>3
      <4>2. i <= Len(f) /\ f[i] = End(chain[i])
        BY <4>1, <1>4, <1>5
      <4>3. chain' = chain
        BY DEF FlushTxCounts
      <4> QED BY <4>2, <4>3, <1>6 DEF CountOnFile
    <3> QED BY <3>1, <3>2
  <2>2. \A i \in 1 .. Len(utxo_table) : i \in 1 .. Len(chain) /\ utxo_table[i] = chain[i]
    BY <1>1, Flushing
  <2>3. \A i \in 1 .. Len(utxo_table) :
          HeaderOnFile(utxo_table, i)' /\ CountOnFile(utxo_table, i)' /\ HashesOnFile(utxo_table, i)'
    BY <2>1, <2>2 DEF IInv, FileInv, HeaderOnFile, CountOnFile, HashesOnFile
  <2>4. \A i \in 1 .. Len(chain) : HeaderOnFile(chain, i)' /\
          (i <= fs_height + 1 => HashesOnFile(chain, i)')
    BY DEF IInv, FileInv, HeaderOnFile, HashesOnFile, Up
  <2> HIDE DEF k, data, f
  <2> QED BY <2>1, <2>3, <2>4 DEF FileInv
<1> QED BY <1>2, <1>7, <1>8, <1>9, <1>10 DEF IInv

\* flush_fs: the transaction hashes.
LEMMA FlushHashesStep ==
    ASSUME IInv, FlushHashes
    PROVE  IInv'
<1> DEFINE k == fs_height + 1
           prior == IF fs_height >= 0 THEN tx_counts[fs_height + 1] ELSE 0
           n == tx_count - prior
           data == [i \in 1 .. n |-> TxNumbered(headers, prior + i - 1)]
           f == Written(hashes_file, prior, data)
<1>0. /\ pc = "counts" /\ pc' = "files" /\ hashes_file' = f /\ headers' = <<>>
      /\ fs_height' = height /\ fs_tx_count' = tx_count
      /\ UNCHANGED <<headers_file, tx_counts_file, utxoVars, rowVars,
                       db_height, db_tx_count, db_tip, tx_counts,
                       utxo_flush_count, first_sync, histVars, height, tip,
                       tx_count, chain, touched, caught_up, flush_utxos, next,
                       reorgVars, stopping, lost>>
  BY DEF FlushHashes
<1> HIDE DEF k, prior, n, data, f
<1>1. height >= db_height
  BY <1>0 DEF IInv, FlushInv
<1>2. /\ TableInv' /\ ChainInv' /\ MemoryInv' /\ BehindInv' /\ ReorgInv'
      /\ RowInv' /\ PendingInv' /\ LostInv' /\ HistoryExact'
  BY <1>0, <1>1, FileStep
<1>3. /\ Len(chain) \in Nat /\ k \in 0 .. Len(chain) /\ k \in Nat
      /\ Len(chain) = k + Len(headers)
      /\ \A i \in 1 .. Len(headers) : headers[i] = chain[k + i]
  <2>1. /\ Len(chain) = fs_height + 1 + Len(headers)
        /\ fs_height + 1 \in 0 .. Len(chain)
        /\ \A i \in 1 .. Len(headers) : headers[i] = chain[fs_height + 1 + i]
    BY <1>0, <1>1, Flushing
  <2>2. Len(chain) \in Nat
    BY Sorts
  <2> QED BY <2>1, <2>2 DEF k
<1>4. /\ WellFormed(chain) /\ tx_count = TxCountOf(chain) /\ tx_count \in Nat
      /\ \A i \in 1 .. Len(chain) : tx_counts[i] = End(chain[i])
  BY Sorts DEF IInv, ChainInv
<1>5. prior = IF k = 0 THEN 0 ELSE End(chain[k])
  <2>1. fs_height \in Int /\ fs_height >= -1
    BY Sorts
  <2>2. fs_height >= 0 <=> k # 0
    BY <2>1 DEF k
  <2>3. k # 0 => k \in 1 .. Len(chain)
    BY <1>3
  <2> QED BY <2>2, <2>3, <1>4 DEF prior, k
<1>6. prior \in Nat /\ prior <= tx_count /\ n \in Nat
  <2>1. prior \in Nat /\ prior <= tx_count
    <3>1. CASE k = 0
      BY <3>1, <1>4, <1>5
    <3>2. CASE k # 0
      <4>1. k \in 1 .. Len(chain)
        BY <3>2, <1>3
      <4>2. chain[k] \in Block /\ End(chain[k]) <= TxCountOf(chain)
        BY <4>1, <1>4, ChainEnds
      <4> QED BY <3>2, <4>2, <1>4, <1>5, BlockNumbers
    <3> QED BY <3>1, <3>2
  <2> QED BY <2>1, <1>4 DEF n
<1>7. /\ \A j \in k + 1 .. Len(chain) : \A m \in FirstTx[chain[j]] .. End(chain[j]) - 1 :
            TxNumbered(headers, m) = <<chain[j], m - FirstTx[chain[j]] + 1>>
      /\ \A m \in prior .. tx_count - 1 : TxNumbered(headers, m) \in Block \X Nat
  <2>1. headers \in Seq(Block) /\ Len(headers) = Len(chain) - k
    BY <1>3, Sorts
  <2> QED BY <2>1, <1>3, <1>4, <1>5, TxNumberedInTail
<1>8. /\ data \in Seq(Block \X Nat) /\ Len(data) = n
      /\ \A m \in prior .. tx_count - 1 : data[m - prior + 1] = TxNumbered(headers, m)
  <2>1. \A i \in 1 .. n : prior + i - 1 \in prior .. tx_count - 1
    BY <1>4, <1>6 DEF n
  <2>2. \A i \in 1 .. n : TxNumbered(headers, prior + i - 1) \in Block \X Nat
    BY <2>1, <1>7
  <2>3. data \in Seq(Block \X Nat)
    <3> DEFINE e(i) == TxNumbered(headers, prior + i - 1)
    <3>1. \A i \in 1 .. n : e(i) \in Block \X Nat
      BY <2>2
    <3>2. data = [i \in 1 .. n |-> e(i)]
      BY DEF data
    <3> HIDE DEF e
    <3> QED BY <3>1, <3>2, <1>6, IsASeq
  <2>4. DOMAIN data = 1 .. n
    BY DEF data
  <2>5. Len(data) = n
    BY <2>3, <2>4, <1>6, LenProperties
  <2>6. ASSUME NEW m \in prior .. tx_count - 1
        PROVE  data[m - prior + 1] = TxNumbered(headers, m)
    <3>1. m - prior + 1 \in 1 .. n /\ prior + (m - prior + 1) - 1 = m
      BY <1>4, <1>6 DEF n
    <3> QED BY <3>1 DEF data
  <2> QED BY <2>3, <2>5, <2>6
<1>9. hashes_file \in Seq(Block \X Nat) /\ Len(hashes_file) \in Nat
  BY LenProperties DEF IInv, TypeOK
<1>10. prior <= Len(hashes_file)
  <2>1. CASE k = 0
    BY <2>1, <1>5, <1>9
  <2>2. CASE k # 0
    <3>1. k \in 1 .. fs_height + 1 /\ k \in 1 .. Len(chain)
      BY <2>2, <1>3 DEF k
    <3>2. HashesOnFile(chain, k) /\ chain[k] \in Block
      BY <3>1, <1>0, <1>1, <1>4, Flushing, ChainEnds
    <3>3. End(chain[k]) - 1 \in FirstTx[chain[k]] .. End(chain[k]) - 1
          /\ End(chain[k]) \in Nat
      BY <3>2, BlockNumbers
    <3>4. End(chain[k]) - 1 + 1 <= Len(hashes_file)
      BY <3>2, <3>3 DEF HashesOnFile
    <3> QED BY <2>2, <3>3, <3>4, <1>5, <1>9
  <2> QED BY <2>1, <2>2
<1>11. /\ f \in Seq(Block \X Nat) /\ Len(f) \in Nat
       /\ \A m \in 1 .. prior : m <= Len(f) /\ f[m] = hashes_file[m]
       /\ \A m \in prior .. tx_count - 1 :
             m + 1 <= Len(f) /\ f[m + 1] = TxNumbered(headers, m)
  <2>1. prior \in 0 .. Len(hashes_file)
    BY <1>6, <1>9, <1>10
  <2>2. /\ f \in Seq(Block \X Nat) /\ Len(f) >= prior + n
        /\ Len(f) >= Len(hashes_file)
        /\ \A i \in 1 .. prior : f[i] = hashes_file[i]
        /\ \A i \in 1 .. n : f[prior + i] = data[i]
    <3>1. /\ f \in Seq(Block \X Nat) /\ Len(f) >= prior + Len(data)
          /\ Len(f) >= Len(hashes_file)
          /\ \A i \in 1 .. prior : f[i] = hashes_file[i]
          /\ \A i \in 1 .. Len(data) : f[prior + i] = data[i]
      BY <1>8, <1>9, <2>1, WrittenProperties, SMTT(30) DEF f
    <3> QED BY <3>1, <1>8
  <2>3. Len(f) \in Nat
    BY <2>2, LenProperties
  <2>4. \A m \in 1 .. prior : m <= Len(f)
    BY <1>6, <1>9, <1>10, <2>2, <2>3
  <2>5. ASSUME NEW m \in prior .. tx_count - 1
        PROVE  m + 1 <= Len(f) /\ f[m + 1] = TxNumbered(headers, m)
    <3>1. m - prior + 1 \in 1 .. n /\ prior + (m - prior + 1) = m + 1
          /\ m + 1 <= prior + n
      BY <1>4, <1>6 DEF n
    <3>2. f[m + 1] = data[m - prior + 1]
      BY <2>2, <3>1
    <3> QED BY <3>1, <3>2, <2>2, <2>3, <1>6, <1>8
  <2> QED BY <2>2, <2>3, <2>4, <2>5
<1>12. TypeOK'
  <2>1. <<>> \in Seq(Block)
    BY EmptySeq
  <2> QED BY <2>1, <1>0, <1>11, SMTT(30)
          DEF IInv, TypeOK, Phase, utxoVars, rowVars, histVars, reorgVars
<1>13. AheadInv'
  <2>1. /\ PrefixOf(utxo_table, chain) /\ height >= db_height /\ height \in Int
    BY <1>0, <1>1, Sorts DEF IInv, AheadInv, Up
  <2>2. Len(headers') = 0 /\ height = height + 0
    BY <1>0, <2>1, EmptySeq
  <2>3. \A i \in 1 .. Len(headers') : FALSE
    BY <2>2
  <2> QED BY <1>0, <2>1, <2>2, <2>3 DEF AheadInv, utxoVars
<1>14. FlushInv'
  BY <1>0, <1>1 DEF IInv, FlushInv
<1>15. FileInv'
  <2>1. ASSUME NEW i \in 1 .. Len(chain)
        PROVE  HashesOnFile(chain, i)'
    <3> SUFFICES ASSUME NEW m \in FirstTx[chain[i]] .. End(chain[i]) - 1
                 PROVE  m + 1 <= Len(f) /\ f[m + 1] = <<chain[i], m - FirstTx[chain[i]] + 1>>
      BY <1>0 DEF HashesOnFile
    <3>1. chain[i] \in Block /\ End(chain[i]) <= tx_count /\ m \in Nat
          /\ End(chain[i]) \in Nat /\ FirstTx[chain[i]] \in Nat
      BY <1>4, ChainEnds, BlockNumbers
    <3>2. CASE i \in 1 .. k
      <4>1. k # 0 /\ k \in 1 .. Len(chain) /\ chain[k] \in Block
        BY <3>2, <1>3, <1>4, ChainEnds
      <4>2. End(chain[i]) <= prior
        <5>1. CASE i = k
          BY <5>1, <4>1, <1>5, <3>1
        <5>2. CASE i < k
          <6>1. End(chain[i]) <= FirstTx[chain[k]]
            BY <5>2, <4>1, <1>4 DEF WellFormed, Ordered
          <6> QED BY <6>1, <4>1, <1>5, <3>1, BlockNumbers
        <5> QED BY <5>1, <5>2, <3>2, <1>3
      <4>3. m + 1 \in 1 .. prior
        BY <4>2, <3>1, <1>6
      <4>4. hashes_file[m + 1] = <<chain[i], m - FirstTx[chain[i]] + 1>>
        BY <3>2, <1>0, <1>1, Flushing DEF HashesOnFile, k
      <4> QED BY <4>3, <4>4, <1>11
    <3>3. CASE i \notin 1 .. k
      <4>1. i \in k + 1 .. Len(chain)
        BY <3>3, <1>3
      <4>2. prior <= FirstTx[chain[i]]
        <5>1. CASE k = 0
          BY <5>1, <1>5, <3>1
        <5>2. CASE k # 0
          <6>1. k \in 1 .. Len(chain) /\ k < i
            BY <5>2, <4>1, <1>3
          <6> QED BY <6>1, <5>2, <1>4, <1>5 DEF WellFormed, Ordered
        <5> QED BY <5>1, <5>2
      <4>3. m \in prior .. tx_count - 1
        BY <4>2, <3>1, <1>4, <1>6
      <4> QED BY <4>1, <4>3, <1>7, <1>11
    <3> QED BY <3>2, <3>3
  <2>2. \A i \in 1 .. Len(utxo_table) : i \in 1 .. Len(chain) /\ utxo_table[i] = chain[i]
    BY <1>0, <1>1, Flushing
  <2>3. \A i \in 1 .. Len(utxo_table) :
          HeaderOnFile(utxo_table, i)' /\ CountOnFile(utxo_table, i)' /\ HashesOnFile(utxo_table, i)'
    BY <2>1, <2>2, <1>0 DEF IInv, FileInv, HeaderOnFile, CountOnFile, HashesOnFile, utxoVars
  <2>4. \A i \in 1 .. Len(chain) : HeaderOnFile(chain, i)' /\ CountOnFile(chain, i)'
    BY <1>0 DEF IInv, FileInv, HeaderOnFile, CountOnFile, Up
  <2> QED BY <1>0, <2>1, <2>3, <2>4 DEF FileInv, utxoVars
<1> QED BY <1>2, <1>12, <1>13, <1>14, <1>15 DEF IInv

-----------------------------------------------------------------------------
(* Committing to the history DB and to the UTXO DB *)

\* flush_history, with the state of the history database.
LEMMA FlushHistoryStep ==
    ASSUME IInv, FlushHistory
    PROVE  IInv'
<1> DEFINE id == hist_flush_count + 1
           new == {[hashX |-> e[1], flush_id |-> id, tx_num |-> e[2]] : e \in unflushed}
           ufc == utxo_state.utxo_flush_count
<1>1. /\ pc = "files" /\ Up /\ headers = <<>> /\ fs_height = height /\ height >= db_height
      /\ flush_count = hist_flush_count
  BY DEF FlushHistory, IInv, FlushInv, MemoryInv, Up
<1>2. /\ ufc \in Nat /\ id \in Nat /\ ufc <= hist_flush_count
      /\ hist_flush_count \in Nat /\ utxo_state.tx_count \in Nat
      /\ \A r \in hist_rows : /\ r.flush_id \in Nat /\ r.tx_num \in Nat
                              /\ r.hashX \in HashX /\ r.flush_id <= hist_flush_count
  BY Sorts, SMTT(30) DEF IInv, RowInv
<1>3. hist_rows' = hist_rows \cup new
  <2>1. \A r \in hist_rows : r.flush_id # id
    BY <1>2
  <2> QED BY <2>1, <1>1 DEF FlushHistory
<1>4. /\ flush_count' = id /\ hist_flush_count' = id
      /\ unflushed' = {} /\ pc' = "history"
      /\ UNCHANGED <<fileVars, utxoVars, dbVars, bpVars, flush_utxos, next,
                     reorgVars, stopping, lost>>
  BY <1>1 DEF FlushHistory
<1>5. ASSUME NEW r \in new
      PROVE  /\ r.flush_id = id /\ r.tx_num \in Nat /\ r \in Row
             /\ <<r.hashX, r.tx_num>> \in unflushed
             /\ r.tx_num >= utxo_state.tx_count
  <2>1. PICK e \in unflushed : r = [hashX |-> e[1], flush_id |-> id, tx_num |-> e[2]]
    OBVIOUS
  <2>2. e \in HashX \X Nat /\ e = <<e[1], e[2]>> /\ e[2] >= utxo_state.tx_count
    BY <1>1, RowsBelow
  <2> HIDE DEF id
  <2> QED BY <2>1, <2>2, <1>2 DEF Row
<1>6. \A e \in unflushed : \E r \in new : e = <<r.hashX, r.tx_num>>
  <2> TAKE e \in unflushed
  <2>1. e = <<e[1], e[2]>>
    BY <1>1, RowsBelow
  <2> DEFINE q == [hashX |-> e[1], flush_id |-> id, tx_num |-> e[2]]
  <2>2. q \in new /\ q.hashX = e[1] /\ q.tx_num = e[2]
    OBVIOUS
  <2> HIDE DEF new, q
  <2> QED BY <2>1, <2>2
<1> HIDE DEF new, id
<1>7. /\ id > hist_flush_count /\ id > ufc /\ ~(id <= ufc)
  BY <1>2 DEF id
<1>8. \A r \in new : ~(r.tx_num < utxo_state.tx_count)
  <2>1. \A k, m \in Nat : k >= m => ~(k < m)
    OBVIOUS
  <2> QED BY <2>1, <1>2, <1>5
<1>9. TypeOK'
  <2>1. hist_rows' \in SUBSET Row
    BY <1>3, <1>5 DEF IInv, TypeOK
  <2> QED BY <2>1, <1>2, <1>4
          DEF IInv, TypeOK, Phase, fileVars, utxoVars, dbVars, bpVars, reorgVars
<1>10. TableInv' /\ ChainInv'
  BY <1>4 DEF IInv, TableInv, ChainInv, utxoVars, bpVars, dbVars
<1>11. MemoryInv'
  BY <1>1, <1>4 DEF IInv, MemoryInv, Up, utxoVars, dbVars, bpVars
<1>12. AheadInv'
  BY <1>1, <1>4 DEF IInv, AheadInv, Up, utxoVars, dbVars, bpVars
<1>13. BehindInv'
  <2>1. ~(height < db_height)
    BY <1>1, Sorts
  <2> QED BY <2>1, <1>4 DEF BehindInv, dbVars, bpVars
<1>14. FlushInv' /\ ReorgInv'
  BY <1>1, <1>4 DEF IInv, FlushInv, ReorgInv, dbVars, bpVars, reorgVars
<1>15. FileInv'
  BY <1>1, <1>4 DEF IInv, FileInv, HeaderOnFile, CountOnFile, HashesOnFile, Up,
                    fileVars, utxoVars, dbVars, bpVars
<1>16. RowInv'
  <2>1. \A r \in hist_rows' : r.flush_id <= id
    <3>1. \A r \in hist_rows : r.flush_id <= id
      BY <1>2, <1>7
    <3>2. \A r \in new : r.flush_id <= id
      <4>1. id <= id
        BY <1>2
      <4> QED BY <4>1, <1>5
    <3> QED BY <3>1, <3>2, <1>3
  <2>2. ASSUME NEW r \in hist_rows'
        PROVE  r.flush_id <= ufc <=> r.tx_num < utxo_state.tx_count
    <3>1. CASE r \in hist_rows
      BY <3>1 DEF IInv, RowInv
    <3>2. CASE r \in new
      BY <3>2, <1>5, <1>7, <1>8
    <3> QED BY <3>1, <3>2, <1>3
  <2>3. ASSUME NEW r \in hist_rows', NEW s \in hist_rows', r.flush_id < s.flush_id
        PROVE  r.tx_num < s.tx_num
    <3>1. CASE r \in hist_rows /\ s \in hist_rows
      BY <2>3, <3>1 DEF IInv, RowInv
    <3>2. CASE r \in hist_rows /\ s \in new
      <4>1. <<s.hashX, s.tx_num>> \in unflushed
        BY <3>2, <1>5
      <4>2. \A e \in unflushed : r.tx_num < e[2]
        BY <3>2, <1>1 DEF IInv, PendingInv
      <4> QED BY <4>1, <4>2
    <3>3. CASE r \in new
      <4>1. r.flush_id = id /\ s.flush_id <= id /\ s.flush_id \in Nat
        BY <3>3, <2>1, <1>2, <1>3, <1>5
      <4> QED BY <4>1, <2>3, <1>2
    <3> QED BY <3>1, <3>2, <3>3, <1>3
  <2>4. ufc <= id
    BY <1>2, <1>7
  <2> QED BY <2>1, <2>2, <2>3, <2>4, <1>4 DEF RowInv, utxoVars
<1>17. PendingInv'
  <2> DEFINE old == {<<r.hashX, r.tx_num>> : r \in {r \in hist_rows : r.flush_id > ufc}}
             now == {<<r.hashX, r.tx_num>> : r \in {r \in hist_rows' : r.flush_id > ufc}}
  <2>1. \A e : e \in now <=> e \in old \/ e \in unflushed
    <3> TAKE e
    <3>1. e \in now <=> \E r \in hist_rows' : r.flush_id > ufc /\ e = <<r.hashX, r.tx_num>>
      OBVIOUS
    <3>2. e \in old <=> \E r \in hist_rows : r.flush_id > ufc /\ e = <<r.hashX, r.tx_num>>
      OBVIOUS
    <3>3. e \in unflushed <=> \E r \in new : r.flush_id > ufc /\ e = <<r.hashX, r.tx_num>>
      BY <1>5, <1>6, <1>7
    <3> HIDE DEF old, now
    <3> QED BY <3>1, <3>2, <3>3, <1>3
  <2>2. now = old \cup unflushed
    BY <2>1
  <2>3. old \cup unflushed = {e \in HistoryOf(chain) : e[2] >= utxo_state.tx_count}
    BY <1>1 DEF IInv, PendingInv
  <2>4. now \cup {} = {e \in HistoryOf(chain) : e[2] >= utxo_state.tx_count}
    BY <2>2, <2>3
  <2> HIDE DEF old
  <2> QED BY <2>4, <1>4 DEF PendingInv, utxoVars, bpVars
<1>18. LostInv'
  BY <1>4 DEF IInv, LostInv, utxoVars
<1>19. HistoryExact'
  <2>1. KeptRows' = {r \in hist_rows : r.flush_id <= ufc}
    <3>1. KeptRows' = {r \in hist_rows' : r.flush_id <= ufc}
      BY <1>4, <1>7 DEF KeptRows, utxoVars
    <3> QED BY <3>1, <1>3, <1>5, <1>7
  <2>2. Recovered' = Recovered
    BY <2>1, Kept DEF Recovered
  <2> QED BY <2>2, <1>4 DEF IInv, HistoryExact, utxoVars
<1> QED BY <1>9, <1>10, <1>11, <1>12, <1>13, <1>14, <1>15, <1>16, <1>17, <1>18, <1>19 DEF IInv

\* flush_utxo_db and flush_state in one batch: the commit.
LEMMA FlushUtxosStep ==
    ASSUME IInv, FlushUtxos
    PROVE  IInv'
<1>1. /\ pc = "history" /\ Up /\ headers = <<>> /\ fs_height = height
      /\ height >= db_height /\ flush_count = hist_flush_count /\ unflushed = {}
  BY DEF FlushUtxos, IInv, FlushInv, MemoryInv, Up
<1>2. /\ utxo_flush_count' = hist_flush_count /\ db_height' = height
      /\ db_tx_count' = tx_count /\ db_tip' = tip /\ utxo_table' = chain
      /\ utxo_state' = [height |-> height, tx_count |-> tx_count, tip |-> tip,
                        utxo_flush_count |-> hist_flush_count,
                        first_sync |-> first_sync]
      /\ pc' = "flushed"
      /\ UNCHANGED <<fileVars, rowVars, fs_height, fs_tx_count, tx_counts,
                     first_sync, histVars, bpVars, flush_utxos, next, reorgVars,
                     stopping, lost>>
  BY <1>1 DEF FlushUtxos, FlushUtxoDb, UtxoState
<1> USE DEF fileVars, rowVars, histVars, bpVars, reorgVars
<1>3. /\ utxo_state'.height = height /\ utxo_state'.tx_count = tx_count
      /\ utxo_state'.tip = tip /\ utxo_state'.utxo_flush_count = hist_flush_count
  BY <1>2
<1>4. /\ WellFormed(chain) /\ WellFormed(utxo_table) /\ PrefixOf(utxo_table, chain)
      /\ tx_count = TxCountOf(chain) /\ utxo_state.tx_count = TxCountOf(utxo_table)
      /\ height = Len(chain) - 1 /\ tip = TipOf(chain)
  BY <1>1 DEF IInv, ChainInv, TableInv, AheadInv
<1>5. /\ \A r \in hist_rows : r.tx_num < tx_count /\ r.flush_id <= hist_flush_count
      /\ utxo_state.tx_count <= tx_count
  BY <1>1, RowsBelow DEF IInv, RowInv
<1>6. TypeOK'
  <2>1. /\ height \in Nat \cup {-1} /\ tx_count \in Nat /\ tip \in Block \cup {NoTip}
        /\ hist_flush_count \in Nat /\ first_sync \in BOOLEAN /\ chain \in Seq(Block)
    BY DEF IInv, TypeOK
  <2> QED BY <1>2, <2>1 DEF IInv, TypeOK, Phase
<1>7. TableInv' /\ ChainInv'
  BY <1>2, <1>3, <1>4 DEF IInv, TableInv, ChainInv
<1>8. MemoryInv'
  BY <1>1, <1>2, <1>3 DEF MemoryInv, Up
<1>9. AheadInv'
  <2>1. PrefixOf(chain, chain)
    BY Sorts DEF PrefixOf
  <2>2. Len(headers) = 0 /\ height = height + 0 /\ height >= height
    BY <1>1, Sorts, EmptySeq
  <2>3. \A i \in 1 .. Len(headers) : FALSE
    BY <2>2
  <2> QED BY <1>1, <1>2, <2>1, <2>2, <2>3 DEF AheadInv
<1>10. BehindInv'
  <2>1. ~(height < height)
    BY Sorts
  <2> QED BY <1>2, <2>1 DEF BehindInv
<1>11. FlushInv' /\ ReorgInv'
  <2>1. height >= height
    BY Sorts
  <2> QED BY <1>1, <1>2, <2>1 DEF IInv, FlushInv, ReorgInv
<1>12. FileInv'
  <2>1. \A i \in 1 .. Len(chain) :
           HeaderOnFile(chain, i) /\ CountOnFile(chain, i) /\ HashesOnFile(chain, i)
    <3>1. \A i \in 1 .. Len(chain) : i <= fs_height + 1
      BY <1>1, <1>4, Sorts
    <3> QED BY <1>1, <3>1 DEF IInv, FileInv
  <2> QED BY <1>2, <2>1 DEF FileInv, HeaderOnFile, CountOnFile, HashesOnFile
<1>13. RowInv'
  <2>1. hist_flush_count <= hist_flush_count
    BY Sorts
  <2> QED BY <1>2, <1>3, <1>5, <2>1 DEF IInv, RowInv
<1>14. \A e \in HistoryOf(chain) : e[2] \in Nat /\ e[2] < tx_count
  BY <1>4, HistoryRange
<1>15. PendingInv'
  <2>1. {e \in HistoryOf(chain) : e[2] >= tx_count} = {}
    <3>1. \A k, m \in Nat : k < m => ~(k >= m)
      OBVIOUS
    <3> QED BY <3>1, <1>14, Sorts
  <2>2. \A r \in hist_rows : ~(r.flush_id > hist_flush_count)
    <3>1. \A k, m \in Nat : k <= m => ~(k > m)
      OBVIOUS
    <3> QED BY <3>1, <1>5, Sorts
  <2>3. {<<r.hashX, r.tx_num>> : r \in {r \in hist_rows :
              r.flush_id > hist_flush_count}} = {}
    BY <2>2
  <2> QED BY <1>1, <1>2, <1>3, <2>1, <2>3 DEF PendingInv
<1>16. LostInv'
  <2>1. \A k, m, n \in Nat : k < m /\ m <= n => k < n
    OBVIOUS
  <2>2. \A n \in lost : n < utxo_state.tx_count /\ n \in Nat
    BY DEF IInv, LostInv, TypeOK
  <2> QED BY <1>2, <1>3, <1>5, <2>1, <2>2, Sorts DEF LostInv
<1>17. HistoryExact'
  <2>1. Recovered' = {<<r.hashX, r.tx_num>> : r \in hist_rows}
    <3>1. KeptRows' = hist_rows
      <4>1. \A r \in hist_rows : r.flush_id <= hist_flush_count
        BY <1>5
      <4> QED BY <4>1, <1>2, <1>3 DEF KeptRows
    <3> QED BY <3>1 DEF Recovered
  <2>2. \A e : e \in Recovered' <=>
            e \in Recovered \/ e \in {x \in HistoryOf(chain) : x[2] >= utxo_state.tx_count}
    <3> DEFINE ufc == utxo_state.utxo_flush_count
               pending == {<<r.hashX, r.tx_num>> : r \in {r \in hist_rows : r.flush_id > ufc}}
    <3>1. pending = {x \in HistoryOf(chain) : x[2] >= utxo_state.tx_count}
      BY <1>1 DEF IInv, PendingInv
    <3>2. \A e : e \in pending <=>
             \E r \in hist_rows : r.flush_id > ufc /\ e = <<r.hashX, r.tx_num>>
      OBVIOUS
    <3>3. \A r \in hist_rows : r.flush_id > ufc \/ r.flush_id <= ufc
      BY Sorts, SMTT(30)
    <3>4. \A e : e \in Recovered <=>
             \E r \in hist_rows : r.flush_id <= ufc /\ e = <<r.hashX, r.tx_num>>
      BY Kept
    <3>5. \A e : e \in Recovered' <=> \E r \in hist_rows : e = <<r.hashX, r.tx_num>>
      BY <2>1
    <3>6. \A e : e \in Recovered' <=> e \in Recovered \/ e \in pending
      <4> HIDE DEF ufc, pending
      <4> QED BY <3>2, <3>3, <3>4, <3>5
    <3> HIDE DEF pending
    <3> QED BY <3>1, <3>6
  <2>3. \A e : e \in Recovered <=>
            e \in HistoryOf(chain) /\ e[2] < utxo_state.tx_count /\ e[2] \notin lost
    <3>1. HistoryOf(utxo_table) = {e \in HistoryOf(chain) : e[2] < utxo_state.tx_count}
      BY <1>4, HistoryOfPrefix
    <3>2. Recovered = {e \in HistoryOf(utxo_table) : e[2] \notin lost}
      BY DEF IInv, HistoryExact
    <3> QED BY <3>1, <3>2
  <2>4. \A e \in HistoryOf(chain) :
           /\ ~(e[2] < utxo_state.tx_count) <=> e[2] >= utxo_state.tx_count
           /\ e[2] \in lost => e[2] < utxo_state.tx_count
    <3>1. \A k, m \in Nat : ~(k < m) <=> k >= m
      OBVIOUS
    <3> QED BY <3>1, <1>14, Sorts DEF IInv, LostInv
  <2>5. \A e : e \in Recovered' <=> e \in HistoryOf(chain) /\ e[2] \notin lost
    BY <2>2, <2>3, <2>4
  <2>6. Recovered' = {e \in HistoryOf(chain) : e[2] \notin lost}
    BY <2>5
  <2> QED BY <2>6, <1>2 DEF HistoryExact
<1> QED BY <1>6, <1>7, <1>8, <1>9, <1>10, <1>11, <1>12, <1>13, <1>15, <1>16, <1>17 DEF IInv

\* flush_state without the UTXOs.
LEMMA FlushStateOnlyStep ==
    ASSUME IInv, FlushStateOnly
    PROVE  IInv'
<1>1. /\ pc = "history" /\ pc' = "flushed" /\ Up /\ height >= db_height
      /\ headers = <<>> /\ fs_height = height /\ next = "blocks" /\ ~caught_up
      /\ ~flush_utxos
  BY DEF FlushStateOnly, IInv, FlushInv, Up
<1>2. UNCHANGED <<fileVars, utxo_table, rowVars, dbVars, histVars, bpVars,
                   flush_utxos, next, reorgVars, stopping, lost>>
  BY DEF FlushStateOnly
<1>3. utxo_state' = [height |-> utxo_state.height, tx_count |-> utxo_state.tx_count,
                     tip |-> utxo_state.tip,
                     utxo_flush_count |-> utxo_state.utxo_flush_count,
                     first_sync |-> first_sync]
  BY <1>1 DEF FlushStateOnly, UtxoState, IInv, MemoryInv
<1>4. /\ utxo_state'.height = utxo_state.height
      /\ utxo_state'.tx_count = utxo_state.tx_count
      /\ utxo_state'.tip = utxo_state.tip
      /\ utxo_state'.utxo_flush_count = utxo_state.utxo_flush_count
  BY <1>3
<1> USE DEF fileVars, rowVars, dbVars, histVars, bpVars, reorgVars
<1>5. TypeOK'
  <2>1. utxo_state' \in [height : Nat \cup {-1}, tx_count : Nat,
                         tip : Block \cup {NoTip}, utxo_flush_count : Nat,
                         first_sync : BOOLEAN]
    BY <1>3 DEF IInv, TypeOK
  <2> QED BY <2>1, <1>1, <1>2 DEF IInv, TypeOK, Phase
<1>6. TableInv' /\ ChainInv'
  BY <1>2, <1>4 DEF IInv, TableInv, ChainInv
<1>7. MemoryInv'
  BY <1>1, <1>2, <1>4 DEF IInv, MemoryInv, Up
<1>8. AheadInv'
  BY <1>1, <1>2 DEF IInv, AheadInv, Up
<1>9. BehindInv'
  <2>1. ~(height < db_height)
    BY <1>1, Sorts
  <2> QED BY <1>2, <2>1 DEF BehindInv
<1>10. FlushInv' /\ ReorgInv'
  BY <1>1, <1>2 DEF IInv, FlushInv, ReorgInv
<1>11. FileInv'
  BY <1>1, <1>2 DEF IInv, FileInv, HeaderOnFile, CountOnFile, HashesOnFile, Up
<1>12. RowInv' /\ LostInv'
  BY <1>1, <1>2, <1>4 DEF IInv, RowInv, LostInv
<1>13. PendingInv'
  BY <1>1, <1>2, <1>4 DEF IInv, PendingInv, Up
<1>14. HistoryExact'
  <2>1. Recovered' = Recovered
    BY <1>2, <1>4 DEF Recovered, KeptRows
  <2> QED BY <1>2, <2>1 DEF IInv, HistoryExact
<1> QED BY <1>5, <1>6, <1>7, <1>8, <1>9, <1>10, <1>11, <1>12, <1>13, <1>14 DEF IInv

-----------------------------------------------------------------------------
(* Backing up *)

\* backup_block of the tip.
LEMMA BackupBlockStep ==
    ASSUME IInv, BackupBlock
    PROVE  IInv'
<1> DEFINE b == chain[Len(chain)]
<1>1. /\ pc = "backing" /\ Up /\ pc' \in {"backed", "backing"}
      /\ pc' = IF chunk = 1 THEN "backed" ELSE "backing"
      /\ tip' = Prev[b] /\ touched' = touched \cup Touches(b)
      /\ chain' = SubSeq(chain, 1, Len(chain) - 1)
      /\ tx_count' = tx_count - Len(Txs[b]) /\ height' = height - 1
      /\ tx_counts' = SubSeq(tx_counts, 1, Len(tx_counts) - 1)
      /\ chunk' = chunk - 1 /\ todo' = todo - 1
      /\ UNCHANGED <<fileVars, utxoVars, rowVars, db_height, db_tx_count,
                       db_tip, fs_height, fs_tx_count, utxo_flush_count,
                       first_sync, histVars, headers, caught_up, flush_utxos,
                       next, stopping, lost>>
  BY DEF BackupBlock, Up
<1> HIDE DEF b
<1> USE DEF fileVars, utxoVars, rowVars, histVars
<1>2. /\ todo <= height /\ height <= db_height /\ chunk \in 1 .. todo
      /\ db_height - height + chunk <= ChunkSize
      /\ todo \in Nat /\ chunk \in Nat /\ chunk >= 1 /\ ChunkSize \in Nat
      /\ height \in Int /\ db_height \in Int /\ height >= 1
  <2>1. /\ todo <= height /\ height <= db_height /\ chunk \in 1 .. todo
        /\ db_height - height + chunk <= ChunkSize
    BY <1>1 DEF IInv, ReorgInv
  <2>2. todo \in Nat /\ height \in Int /\ db_height \in Int /\ ChunkSize \in Nat
    BY Sorts, ParameterAssumption DEF IInv, TypeOK
  <2> QED BY <2>1, <2>2
<1>3. /\ PrefixOf(chain, utxo_table) /\ unflushed = {} /\ headers = <<>>
      /\ fs_height = db_height
      /\ \A r \in hist_rows : r.flush_id <= utxo_state.utxo_flush_count
  <2>1. /\ PrefixOf(chain, utxo_table) /\ unflushed = {} /\ headers = <<>>
        /\ \A r \in hist_rows : r.flush_id <= utxo_state.utxo_flush_count
        /\ height = db_height => fs_height = height
    BY <1>1, <1>2, NoPending
  <2>2. height < db_height => fs_height = db_height
    BY <1>1 DEF IInv, BehindInv
  <2> QED BY <2>1, <2>2, <1>2
<1>4. /\ WellFormed(chain) /\ WellFormed(utxo_table)
      /\ height = Len(chain) - 1 /\ tx_count = TxCountOf(chain)
      /\ utxo_state.tx_count = TxCountOf(utxo_table)
      /\ Len(chain) \in Nat /\ Len(chain) > 1 /\ Len(utxo_table) \in Nat
      /\ Len(chain) <= Len(utxo_table) /\ Len(utxo_table) = db_height + 1
      /\ Len(tx_counts) = Len(chain) /\ tx_counts \in Seq(Nat)
      /\ \A i \in 1 .. Len(chain) : tx_counts[i] = End(chain[i])
  <2>1. /\ WellFormed(chain) /\ WellFormed(utxo_table)
        /\ height = Len(chain) - 1 /\ tx_count = TxCountOf(chain)
        /\ utxo_state.tx_count = TxCountOf(utxo_table)
        /\ Len(tx_counts) = Len(chain) /\ tx_counts \in Seq(Nat)
        /\ \A i \in 1 .. Len(chain) : tx_counts[i] = End(chain[i])
    BY DEF IInv, ChainInv, TableInv, TypeOK
  <2>2. Len(chain) \in Nat /\ Len(utxo_table) \in Nat /\ Len(utxo_table) = db_height + 1
    BY <1>1, Sorts
  <2>3. Len(chain) <= Len(utxo_table)
    BY <1>3 DEF PrefixOf
  <2> QED BY <2>1, <2>2, <2>3, <1>2
<1>5. /\ WellFormed(chain') /\ Len(chain') = Len(chain) - 1
      /\ PrefixOf(chain', chain) /\ tip' = TipOf(chain')
      /\ tx_count' = TxCountOf(chain') /\ b \in Block
      /\ TxCountOf(chain') \in Nat /\ chain' \in Seq(Block)
  <2>1. /\ WellFormed(chain') /\ Len(chain') = Len(chain) - 1
        /\ PrefixOf(chain', chain) /\ TipOf(chain') = Prev[b]
        /\ TxCountOf(chain') = TxCountOf(chain) - Len(Txs[b])
    BY <1>1, <1>4, ChainPop, SMTT(30) DEF b
  <2>2. b \in Block
    BY <1>4, ChainEnds DEF b
  <2>3. TxCountOf(chain') \in Nat /\ chain' \in Seq(Block)
    BY <2>1, ChainEnds
  <2> QED BY <1>1, <1>4, <2>1, <2>2, <2>3
<1>6. \A i \in 1 .. Len(chain') : i \in 1 .. Len(chain) /\ chain'[i] = chain[i]
  <2>1. \A i \in 1 .. Len(chain') : i \in 1 .. Len(chain)
    BY <1>4, <1>5
  <2> QED BY <2>1, <1>5 DEF PrefixOf
<1>7. PrefixOf(chain', utxo_table)
  <2>1. Len(chain') <= Len(utxo_table)
    BY <1>4, <1>5
  <2> QED BY <2>1, <1>3, <1>6 DEF PrefixOf
<1>8. /\ tx_counts' \in Seq(Nat) /\ Len(tx_counts') = Len(chain')
      /\ \A i \in 1 .. Len(chain') : tx_counts'[i] = End(chain'[i])
  <2> DEFINE n == Len(tx_counts) - 1
  <2>1. n \in Nat /\ n <= Len(tx_counts) /\ n = Len(chain') /\ Len(tx_counts) \in Nat
    BY <1>4, <1>5
  <2>2. tx_counts' = SubSeq(tx_counts, 1, n)
    BY <1>1
  <2> HIDE DEF n
  <2>3. \A i \in 1 .. n : i \in 1 .. Len(tx_counts) /\ 1 + i - 1 = i
    BY <2>1
  <2>4. \A i \in 1 .. n : tx_counts[i] \in Nat
    BY <2>3, <1>4, ElementOfSeq
  <2>5. /\ SubSeq(tx_counts, 1, n) \in Seq(Nat)
        /\ Len(SubSeq(tx_counts, 1, n)) = IF 1 <= n THEN n - 1 + 1 ELSE 0
        /\ \A i \in 1 .. n - 1 + 1 : SubSeq(tx_counts, 1, n)[i] = tx_counts[1 + i - 1]
    BY <2>1, <2>4, <1>4, SubSeqProperties
  <2>6. n - 1 + 1 = n /\ (~(1 <= n) => n = 0)
    BY <2>1
  <2>7. Len(SubSeq(tx_counts, 1, n)) = n
    BY <2>5, <2>6
  <2>8. \A i \in 1 .. n : SubSeq(tx_counts, 1, n)[i] = tx_counts[i]
    BY <2>3, <2>5, <2>6
  <2> QED BY <2>1, <2>2, <2>5, <2>7, <2>8, <1>4, <1>6
<1>9. TypeOK'
  <2>1. Touches(b) \in SUBSET HashX
    <3>1. Txs[b] \in Seq(SUBSET HashX)
      BY <1>5, BlockAssumption
    <3>2. \A i \in 1 .. Len(Txs[b]) : Txs[b][i] \in SUBSET HashX
      BY <3>1, ElementOfSeq
    <3> QED BY <3>2 DEF Touches
  <2>2. height' \in Nat \cup {-1} /\ tx_count' \in Nat /\ todo' \in Nat
        /\ chunk' \in 0 .. ChunkSize
    <3>1. chunk \in 0 .. ChunkSize
      BY DEF IInv, TypeOK
    <3> QED BY <3>1, <1>1, <1>2, <1>5
  <2>3. tip' \in Block \cup {NoTip}
    BY <1>5, ChainEnds
  <2>4. touched' \in SUBSET HashX /\ pc' \in Phase
    BY <2>1, <1>1 DEF IInv, TypeOK, Phase
  <2>5. chain' \in Seq(Block) /\ tx_counts' \in Seq(Nat)
    BY <1>5, <1>8
  <2>6. UNCHANGED <<fileVars, utxoVars, rowVars, db_height, db_tx_count,
                       db_tip, fs_height, fs_tx_count, utxo_flush_count,
                       first_sync, histVars, headers, caught_up, flush_utxos,
                       next, stopping, lost>>
    BY <1>1
  <2> QED BY <2>2, <2>3, <2>4, <2>5, <2>6, SMTT(30) DEF IInv, TypeOK
<1>10. TableInv'
  BY <1>1 DEF IInv, TableInv
<1>11. ChainInv'
  <2>1. height' = Len(chain') - 1
    BY <1>1, <1>2, <1>4, <1>5
  <2> QED BY <2>1, <1>5, <1>8 DEF ChainInv
<1>12. MemoryInv'
  BY <1>1 DEF IInv, MemoryInv, Up
<1>13. /\ height' < db_height' /\ ~(height' >= db_height') /\ height' <= db_height'
       /\ todo' <= height' /\ db_height' - height' + chunk' <= ChunkSize
       /\ (chunk # 1 => chunk' \in 1 .. todo')
       /\ (chunk = 1 => db_height' - height' <= ChunkSize)
  BY <1>1, <1>2
<1>14. AheadInv' /\ BehindInv'
  <2>1. pc' # "unwritten"
    BY <1>1
  <2> QED BY <2>1, <1>1, <1>3, <1>7, <1>13 DEF AheadInv, BehindInv
<1>15. FlushInv'
  BY <1>1 DEF FlushInv
<1>16. ReorgInv'
  <2>1. ASSUME NEW i \in Len(chain') + 1 .. Len(utxo_table)
        PROVE  Touches(utxo_table[i]) \subseteq touched'
    <3>1. CASE i = Len(chain)
      <4>1. utxo_table[i] = b
        BY <3>1, <1>3, <1>4 DEF PrefixOf, b
      <4> QED BY <4>1, <1>1
    <3>2. CASE i # Len(chain)
      <4>1. i \in Len(chain) + 1 .. Len(utxo_table)
        BY <3>2, <1>4, <1>5
      <4>2. Touches(utxo_table[i]) \subseteq touched
        BY <4>1, <1>1 DEF IInv, ReorgInv
      <4> QED BY <4>2, <1>1
    <3> QED BY <3>1, <3>2
  <2>2. \A i \in Len(chain') + 1 .. Len(utxo_table') : Touches(utxo_table'[i]) \subseteq touched'
    BY <2>1, <1>1
  <2> QED BY <2>2, <1>1, <1>13 DEF ReorgInv
<1>17. FileInv'
  <2>1. \A i \in 1 .. Len(chain) : i <= fs_height + 1
    BY <1>3, <1>4, <1>2
  <2>2. \A i \in 1 .. Len(chain) :
           HeaderOnFile(chain, i) /\ CountOnFile(chain, i) /\ HashesOnFile(chain, i)
    BY <2>1, <1>1 DEF IInv, FileInv
  <2>3. \A i \in 1 .. Len(chain') :
           HeaderOnFile(chain, i)' /\ CountOnFile(chain, i)' /\ HashesOnFile(chain, i)'
    BY <2>2, <1>1, <1>6, SMTT(30) DEF HeaderOnFile, CountOnFile, HashesOnFile
  <2>4. \A i \in 1 .. Len(utxo_table') :
          HeaderOnFile(utxo_table, i)' /\ CountOnFile(utxo_table, i)' /\ HashesOnFile(utxo_table, i)'
    BY <1>1 DEF IInv, FileInv, HeaderOnFile, CountOnFile, HashesOnFile
  <2> QED BY <2>3, <2>4 DEF FileInv
<1>18. RowInv'
  BY <1>1 DEF IInv, RowInv
<1>19. PendingInv'
  <2>1. {e \in HistoryOf(chain') : e[2] >= utxo_state.tx_count} = {}
    <3>1. TxCountOf(chain') <= utxo_state.tx_count
      BY <1>4, <1>5, <1>7, BeyondPrefix
    <3>2. \A e \in HistoryOf(chain') : e[2] \in Nat /\ e[2] < TxCountOf(chain')
      BY <1>5, HistoryRange
    <3>3. \A k, m, n \in Nat : k < m /\ m <= n => ~(k >= n)
      OBVIOUS
    <3> QED BY <3>1, <3>2, <3>3, <1>5, Sorts
  <2>2. \A r \in hist_rows : ~(r.flush_id > utxo_state.utxo_flush_count)
    <3>1. \A k, m \in Nat : k <= m => ~(k > m)
      OBVIOUS
    <3> QED BY <3>1, <1>3, Sorts
  <2>3. {<<r.hashX, r.tx_num>> : r \in {r \in hist_rows :
              r.flush_id > utxo_state.utxo_flush_count}} = {}
    BY <2>2
  <2> QED BY <1>1, <1>3, <2>1, <2>3 DEF PendingInv
<1>20. LostInv'
  BY <1>1 DEF IInv, LostInv
<1>21. HistoryExact'
  BY <1>1 DEF IInv, HistoryExact, Recovered, KeptRows
<1> QED BY <1>9, <1>10, <1>11, <1>12, <1>14, <1>15, <1>16, <1>17, <1>18, <1>19, <1>20, <1>21 DEF IInv

\* flush_backup: the history first.
LEMMA BackupHistoryStep ==
    ASSUME IInv, BackupHistory
    PROVE  IInv'
<1> DEFINE kept == {r \in hist_rows : r.tx_num < tx_count}
           ufc == utxo_state.utxo_flush_count
<1>1. /\ pc = "backed" /\ Up /\ pc' = "unwritten"
      /\ fs_height' = height /\ fs_tx_count' = tx_count
      /\ flush_count' = flush_count + 1 /\ hist_flush_count' = flush_count + 1
      /\ hist_rows' = RowsBackedUp(touched, tx_count)
      /\ lost' = lost \cup (tx_count .. utxo_state.tx_count - 1)
      /\ UNCHANGED <<fileVars, utxoVars, db_height, db_tx_count, db_tip,
                     tx_counts, utxo_flush_count, first_sync, unflushed, bpVars,
                     flush_utxos, next, reorgVars, stopping>>
  BY DEF BackupHistory, Up
<1> USE DEF fileVars, utxoVars, bpVars, reorgVars
<1>2. /\ height < db_height /\ ~(height >= db_height) /\ height <= db_height
      /\ flush_count = hist_flush_count
      /\ \A i \in Len(chain) + 1 .. Len(utxo_table) : Touches(utxo_table[i]) \subseteq touched
  <2>1. height < db_height
        /\ \A i \in Len(chain) + 1 .. Len(utxo_table) : Touches(utxo_table[i]) \subseteq touched
    BY <1>1 DEF IInv, ReorgInv
  <2>2. flush_count = hist_flush_count
    BY <1>1 DEF IInv, MemoryInv
  <2> QED BY <2>1, <2>2, Sorts, SMTT(30)
<1>3. /\ PrefixOf(chain, utxo_table) /\ unflushed = {} /\ headers = <<>>
      /\ \A r \in hist_rows : r.flush_id <= ufc /\ r.tx_num < utxo_state.tx_count
  BY <1>1, <1>2, NoPending
<1>4. /\ WellFormed(chain) /\ WellFormed(utxo_table)
      /\ tx_count = TxCountOf(chain) /\ utxo_state.tx_count = TxCountOf(utxo_table)
  BY DEF IInv, ChainInv, TableInv
<1>5. /\ \A e : e \in Recovered <=> \E r \in hist_rows : e = <<r.hashX, r.tx_num>>
      /\ \A e : e \in Recovered <=> e \in HistoryOf(utxo_table) /\ e[2] \notin lost
  <2>1. \A e : e \in Recovered <=> \E r \in hist_rows : e = <<r.hashX, r.tx_num>>
    BY <1>3, Kept
  <2>2. Recovered = {e \in HistoryOf(utxo_table) : e[2] \notin lost}
    BY DEF IInv, HistoryExact
  <2> QED BY <2>1, <2>2
<1>6. HistoryOf(chain) = {e \in HistoryOf(utxo_table) : e[2] < tx_count}
  BY <1>3, <1>4, HistoryOfPrefix
<1>7. ASSUME NEW r \in hist_rows, ~(r.tx_num < tx_count)
      PROVE  r.hashX \in touched
  <2> DEFINE e == <<r.hashX, r.tx_num>>
  <2>1. e \in HistoryOf(utxo_table) /\ e \notin HistoryOf(chain)
    BY <1>5, <1>6, <1>7
  <2>2. PICK i \in 1 .. Len(utxo_table) : e \in Entries(utxo_table[i])
    BY <2>1, HistoryMember
  <2>3. i \notin 1 .. Len(chain)
    <3> SUFFICES ASSUME i \in 1 .. Len(chain) PROVE FALSE
      OBVIOUS
    <3>1. chain[i] = utxo_table[i]
      BY <1>3 DEF PrefixOf
    <3> HIDE DEF e
    <3>2. e \in HistoryOf(chain)
      BY <2>2, <3>1, HistoryMember
    <3> QED BY <2>1, <3>2
  <2>4. i \in Len(chain) + 1 .. Len(utxo_table)
    BY <2>3, Sorts
  <2>5. utxo_table[i] \in Block
    BY <1>4, ChainEnds
  <2>6. e[1] \in Touches(utxo_table[i])
    BY <2>2, <2>5, EntriesOfBlock
  <2> QED BY <2>4, <2>6, <1>2
<1>8. hist_rows' = kept
  <2>1. \A r \in hist_rows : r \in RowsBackedUp(touched, tx_count) <=> r.tx_num < tx_count
    <3> SUFFICES ASSUME NEW r \in hist_rows, r \in RowsBackedUp(touched, tx_count),
                        ~(r.tx_num < tx_count)
                 PROVE  FALSE
      BY DEF RowsBackedUp
    <3>1. PICK s \in hist_rows : s.flush_id > r.flush_id /\ s.tx_num < tx_count
      BY <1>7 DEF RowsBackedUp
    <3>2. r.tx_num < s.tx_num
      <4>1. r.flush_id < s.flush_id
        BY <3>1, Sorts
      <4> QED BY <4>1 DEF IInv, RowInv
    <3> QED BY <3>1, <3>2, Sorts, SMTT(30)
  <2>2. RowsBackedUp(touched, tx_count) \subseteq hist_rows
    BY DEF RowsBackedUp
  <2>3. RowsBackedUp(touched, tx_count) = kept
    BY <2>1, <2>2
  <2> QED BY <2>3, <1>1
<1> HIDE DEF ufc
<1>9. TypeOK'
  <2>1. hist_rows' \in SUBSET Row
    BY <1>8 DEF IInv, TypeOK
  <2>2. lost' \in SUBSET Nat
    <3>1. lost \in SUBSET Nat
      BY DEF IInv, TypeOK
    <3>2. (tx_count .. utxo_state.tx_count - 1) \in SUBSET Nat
      BY Sorts
    <3> QED BY <1>1, <3>1, <3>2
  <2>3. flush_count' \in Nat /\ hist_flush_count' \in Nat
    BY <1>1, Sorts, SMTT(30)
  <2> QED BY <1>1, <2>1, <2>2, <2>3, SMTT(30) DEF IInv, TypeOK, Phase
<1>10. TableInv' /\ ChainInv'
  BY <1>1 DEF IInv, TableInv, ChainInv
<1>11. MemoryInv'
  BY <1>1 DEF IInv, MemoryInv, Up
<1>12. AheadInv' /\ BehindInv'
  BY <1>1, <1>2, <1>3 DEF AheadInv, BehindInv
<1>13. FlushInv' /\ ReorgInv'
  BY <1>1 DEF IInv, FlushInv, ReorgInv
<1>14. FileInv'
  <2>1. fs_height = db_height
    BY <1>1, <1>2 DEF IInv, BehindInv
  <2>2. \A i \in 1 .. Len(chain) : i <= fs_height + 1
    BY <2>1, <1>2, Sorts
  <2>3. \A i \in 1 .. Len(chain) :
           HeaderOnFile(chain, i) /\ CountOnFile(chain, i) /\ HashesOnFile(chain, i)
    BY <2>2, <1>1 DEF IInv, FileInv
  <2> QED BY <2>3, <1>1 DEF IInv, FileInv, HeaderOnFile, CountOnFile, HashesOnFile
<1>15. RowInv'
  <2>1. ufc <= hist_flush_count /\ ufc <= hist_flush_count + 1
    BY Sorts, SMTT(30) DEF IInv, RowInv, ufc
  <2>2. \A r \in kept : r.flush_id <= hist_flush_count + 1
    <3>1. \A r \in hist_rows : r.flush_id <= hist_flush_count
      BY DEF IInv, RowInv
    <3>2. \A k, m \in Nat : k <= m => k <= m + 1
      OBVIOUS
    <3>3. hist_flush_count \in Nat /\ \A r \in hist_rows : r.flush_id \in Nat
      BY Sorts
    <3> QED BY <3>1, <3>2, <3>3
  <2> QED BY <2>1, <2>2, <1>1, <1>2, <1>8 DEF IInv, RowInv, ufc
<1>16. PendingInv'
  <2>1. \A r \in kept : ~(r.flush_id > ufc)
    <3>1. \A k, m \in Nat : k <= m => ~(k > m)
      OBVIOUS
    <3> QED BY <3>1, <1>3, Sorts DEF ufc
  <2>2. {<<r.hashX, r.tx_num>> : r \in {r \in hist_rows' : r.flush_id > ufc}} = {}
    BY <2>1, <1>8
  <2>3. {e \in HistoryOf(chain) : e[2] >= utxo_state.tx_count} = {}
    <3>1. {<<r.hashX, r.tx_num>> : r \in {r \in hist_rows : r.flush_id > ufc}} = {}
      <4>1. \A r \in hist_rows : ~(r.flush_id > ufc)
        <5>1. \A k, m \in Nat : k <= m => ~(k > m)
          OBVIOUS
        <5> QED BY <5>1, <1>3, Sorts DEF ufc
      <4> QED BY <4>1
    <3> QED BY <3>1, <1>1, <1>3 DEF IInv, PendingInv, ufc
  <2> QED BY <2>2, <2>3, <1>1, <1>3 DEF PendingInv, ufc
<1>17. LostInv'
  <2>1. \A n \in lost' : n < utxo_state.tx_count
    <3>1. \A n \in lost : n < utxo_state.tx_count
      BY DEF IInv, LostInv
    <3>2. \A n \in tx_count .. utxo_state.tx_count - 1 : n < utxo_state.tx_count
      BY Sorts
    <3> QED BY <3>1, <3>2, <1>1
  <2> QED BY <2>1, <1>1, <1>8 DEF LostInv
<1>18. HistoryExact'
  <2>1. KeptRows' = kept
    <3>1. \A r \in kept : r.flush_id <= ufc
      BY <1>3 DEF ufc
    <3> QED BY <3>1, <1>1, <1>8 DEF KeptRows, ufc
  <2>2. \A e : e \in Recovered' <=> \E r \in kept : e = <<r.hashX, r.tx_num>>
    BY <2>1 DEF Recovered
  <2>3. \A e : e \in Recovered' <=> e \in Recovered /\ e[2] < tx_count
    BY <2>2, <1>5
  <2>4. \A e \in HistoryOf(utxo_table) :
           e[2] \notin lost' <=> e[2] \notin lost /\ e[2] < tx_count
    <3>1. \A e \in HistoryOf(utxo_table) : e[2] \in Nat /\ e[2] < utxo_state.tx_count
      BY <1>4, HistoryRange
    <3>2. \A m \in Nat : m < utxo_state.tx_count =>
             (m \in tx_count .. utxo_state.tx_count - 1 <=> ~(m < tx_count))
      <4>1. tx_count \in Nat /\ utxo_state.tx_count \in Nat
        BY Sorts
      <4> QED BY <4>1, Between
    <3> QED BY <3>1, <3>2, <1>1
  <2>5. Recovered' = {e \in HistoryOf(utxo_table) : e[2] \notin lost'}
    BY <2>3, <2>4, <1>5
  <2> QED BY <2>5, <1>1 DEF HistoryExact
<1> QED BY <1>9, <1>10, <1>11, <1>12, <1>13, <1>14, <1>15, <1>16, <1>17, <1>18 DEF IInv

\* flush_backup: then the UTXOs with the state.
LEMMA BackupUtxosStep ==
    ASSUME IInv, BackupUtxos
    PROVE  IInv'
<1>1. /\ pc = "unwritten" /\ pc' = "reorg" /\ Up
      /\ utxo_flush_count' = flush_count /\ db_height' = height
      /\ db_tx_count' = tx_count /\ db_tip' = tip /\ utxo_table' = chain
      /\ utxo_state' = [height |-> height, tx_count |-> tx_count, tip |-> tip,
                        utxo_flush_count |-> flush_count,
                        first_sync |-> first_sync]
      /\ lost' = {n \in lost : n < tx_count}
      /\ UNCHANGED <<fileVars, rowVars, fs_height, fs_tx_count, tx_counts,
                     first_sync, histVars, bpVars, flush_utxos, next, reorgVars,
                     stopping>>
  BY DEF BackupUtxos, FlushUtxoDb, UtxoState, Up
<1> USE DEF fileVars, rowVars, histVars, bpVars, reorgVars
<1>2. /\ utxo_state'.height = height /\ utxo_state'.tx_count = tx_count
      /\ utxo_state'.tip = tip /\ utxo_state'.utxo_flush_count = flush_count
      /\ utxo_state'.first_sync = first_sync
  BY <1>1
<1>3. /\ height < db_height /\ height <= db_height /\ todo <= height
      /\ flush_count = hist_flush_count /\ fs_height = height
  <2>1. height < db_height /\ todo <= height /\ flush_count = hist_flush_count
    BY <1>1 DEF IInv, ReorgInv, MemoryInv
  <2>2. fs_height = height
    BY <1>1, <2>1 DEF IInv, BehindInv
  <2> QED BY <2>1, <2>2, Sorts
<1>4. /\ PrefixOf(chain, utxo_table) /\ unflushed = {} /\ headers = <<>>
      /\ \A r \in hist_rows : r.flush_id <= utxo_state.utxo_flush_count
      /\ \A r \in hist_rows : r.flush_id <= flush_count /\ r.tx_num < tx_count
  <2>1. /\ PrefixOf(chain, utxo_table) /\ unflushed = {} /\ headers = <<>>
        /\ \A r \in hist_rows : r.flush_id <= utxo_state.utxo_flush_count
    BY <1>1, <1>3, NoPending
  <2>2. \A r \in hist_rows : r.flush_id <= flush_count /\ r.tx_num < tx_count
    BY <1>1, <1>3 DEF IInv, RowInv, LostInv
  <2> QED BY <2>1, <2>2
<1>5. /\ WellFormed(chain) /\ WellFormed(utxo_table)
      /\ tx_count = TxCountOf(chain) /\ tip = TipOf(chain)
      /\ height = Len(chain) - 1
  BY DEF IInv, ChainInv, TableInv
<1>6. TypeOK'
  <2>1. /\ height \in Nat \cup {-1} /\ tx_count \in Nat /\ tip \in Block \cup {NoTip}
        /\ flush_count \in Nat /\ first_sync \in BOOLEAN /\ chain \in Seq(Block)
        /\ lost' \in SUBSET Nat
    BY <1>1 DEF IInv, TypeOK
  <2> QED BY <1>1, <2>1 DEF IInv, TypeOK, Phase
<1>7. TableInv' /\ ChainInv'
  BY <1>1, <1>2, <1>5 DEF IInv, TableInv, ChainInv
<1>8. MemoryInv'
  BY <1>1, <1>2, <1>3 DEF MemoryInv, Up
<1>9. AheadInv' /\ BehindInv'
  <2>1. PrefixOf(chain, chain)
    BY Sorts DEF PrefixOf
  <2>2. Len(headers) = 0 /\ height = height + 0 /\ height >= height /\ ~(height < height)
    <3>1. height \in Int
      BY Sorts
    <3> QED BY <3>1, <1>4, EmptySeq
  <2>3. \A i \in 1 .. Len(headers) : FALSE
    BY <2>2
  <2> QED BY <1>1, <1>3, <2>1, <2>2, <2>3 DEF AheadInv, BehindInv
<1>10. FlushInv' /\ ReorgInv'
  <2>1. height <= height
    BY Sorts
  <2> QED BY <1>1, <1>3, <2>1 DEF IInv, FlushInv, ReorgInv
<1>11. FileInv'
  <2>1. \A i \in 1 .. Len(chain) : i <= fs_height + 1
    BY <1>3, <1>5, Sorts
  <2>2. \A i \in 1 .. Len(chain) :
           HeaderOnFile(chain, i) /\ CountOnFile(chain, i) /\ HashesOnFile(chain, i)
    BY <2>1, <1>1 DEF IInv, FileInv
  <2> QED BY <1>1, <2>2 DEF FileInv, HeaderOnFile, CountOnFile, HashesOnFile
<1>12. RowInv'
  <2>1. flush_count <= flush_count
    BY Sorts
  <2> QED BY <1>1, <1>2, <1>3, <1>4, <2>1 DEF IInv, RowInv
<1>13. PendingInv'
  <2>1. {e \in HistoryOf(chain) : e[2] >= tx_count} = {}
    <3>1. \A e \in HistoryOf(chain) : e[2] \in Nat /\ e[2] < tx_count
      BY <1>5, HistoryRange
    <3>2. \A k, m \in Nat : k < m => ~(k >= m)
      OBVIOUS
    <3> QED BY <3>1, <3>2, Sorts
  <2>2. \A r \in hist_rows : ~(r.flush_id > flush_count)
    <3>1. \A k, m \in Nat : k <= m => ~(k > m)
      OBVIOUS
    <3> QED BY <3>1, <1>4, Sorts
  <2>3. {<<r.hashX, r.tx_num>> : r \in {r \in hist_rows : r.flush_id > flush_count}} = {}
    BY <2>2
  <2> QED BY <1>1, <1>2, <1>4, <2>1, <2>3 DEF PendingInv
<1>14. LostInv'
  BY <1>1, <1>2 DEF LostInv
<1>15. HistoryExact'
  <2>1. KeptRows = hist_rows /\ KeptRows' = hist_rows
    <3>1. KeptRows = hist_rows
      BY <1>4, Kept
    <3>2. KeptRows' = hist_rows
      BY <1>1, <1>2, <1>4 DEF KeptRows
    <3> QED BY <3>1, <3>2
  <2>2. Recovered' = Recovered
    BY <2>1 DEF Recovered
  <2>3. \A e \in Recovered : e[2] < tx_count
    BY <2>1, <1>4 DEF Recovered
  <2>4. HistoryOf(chain) = {e \in HistoryOf(utxo_table) : e[2] < tx_count}
    BY <1>4, <1>5, HistoryOfPrefix
  <2>5. Recovered = {e \in HistoryOf(utxo_table) : e[2] \notin lost}
    BY DEF IInv, HistoryExact
  <2>6. Recovered = {e \in HistoryOf(chain) : e[2] \notin lost'}
    BY <2>3, <2>4, <2>5, <1>1
  <2> QED BY <2>2, <2>6, <1>1 DEF HistoryExact
<1> QED BY <1>6, <1>7, <1>8, <1>9, <1>10, <1>11, <1>12, <1>13, <1>14, <1>15 DEF IInv

-----------------------------------------------------------------------------
\* Every step preserves the invariant.
LEMMA NextIInv ==
    ASSUME IInv, [Next]_vars
    PROVE  IInv'
<1>1. CASE Restart
  BY <1>1, RestartStep
<1>2. CASE Crash
  BY <1>2, DeathStep DEF Crash
<1>3. CASE Cancel
  BY <1>3, CancelStep
<1>4. ASSUME NEW b \in Block, AdvanceBlock(b) PROVE IInv'
  BY <1>4, AdvanceBlockStep
<1>5. CASE FirstCaughtUp
  BY <1>5, FirstCaughtUpStep
<1>6. ASSUME NEW n \in 1 .. height, StartReorg(n) PROVE IInv'
  BY <1>6, StartReorgStep
<1>7. CASE MaybeFlush \/ BlocksDone \/ OpenForServing
  BY <1>7, MaybeFlushStep, BlocksDoneStep, OpenForServingStep
<1>8. CASE Flush
  <2>1. CASE NothingToFlush \/ FlushHeaders \/ FlushTxCounts \/ FlushHashes
    BY <2>1, NothingToFlushStep, FlushHeadersStep, FlushTxCountsStep, FlushHashesStep
  <2>2. CASE FlushHistory \/ FlushUtxos \/ FlushStateOnly
    BY <2>2, FlushHistoryStep, FlushUtxosStep, FlushStateOnlyStep
  <2>3. CASE FlushFails
    BY <2>3, DeathStep DEF FlushFails
  <2> QED BY <1>8, <2>1, <2>2, <2>3 DEF Flush
<1>9. CASE Reorg
  <2>1. CASE ReorgFlushed \/ StartChunk \/ ReorgDone
    BY <2>1, ReorgFlushedStep, StartChunkStep, ReorgDoneStep
  <2>2. CASE BackupBlock \/ BackupHistory \/ BackupUtxos
    BY <2>2, BackupBlockStep, BackupHistoryStep, BackupUtxosStep
  <2> QED BY <1>9, <2>1, <2>2 DEF Reorg
<1>10. CASE ShutdownFlush \/ Exit
  BY <1>10, ShutdownFlushStep, DeathStep DEF Exit
<1>11. CASE UNCHANGED vars
  <2> USE <1>11 DEF vars, fileVars, utxoVars, rowVars, dbVars, histVars, bpVars, ctlVars, IInv
  <2>1. TypeOK' /\ TableInv' /\ ChainInv' /\ MemoryInv' /\ AheadInv' /\ BehindInv'
    <3>1. TypeOK'
      BY DEF TypeOK
    <3>2. TableInv' /\ ChainInv'
      BY DEF TableInv, ChainInv
    <3>3. MemoryInv' /\ AheadInv' /\ BehindInv'
      BY DEF MemoryInv, AheadInv, BehindInv, Up
    <3> QED BY <3>1, <3>2, <3>3
  <2>2. FlushInv' /\ ReorgInv' /\ RowInv' /\ LostInv'
    BY DEF FlushInv, ReorgInv, RowInv, LostInv
  <2>3. FileInv'
    BY DEF FileInv, HeaderOnFile, CountOnFile, HashesOnFile, Up
  <2>4. PendingInv'
    BY DEF PendingInv, Up
  <2>5. HistoryExact'
    BY DEF HistoryExact, Recovered, KeptRows
  <2> QED BY <2>1, <2>2, <2>3, <2>4, <2>5
<1> QED BY <1>1, <1>2, <1>3, <1>4, <1>5, <1>6, <1>7, <1>8, <1>9, <1>10, <1>11
        DEF Next, Proceed

\* The invariant holds of every behaviour.
LEMMA Inductive == Spec => []IInv
<1>1. Init => IInv
  BY InitIInv
<1>2. IInv /\ [Next]_vars => IInv'
  BY NextIInv
<1> QED BY <1>1, <1>2, PTL DEF Spec

-----------------------------------------------------------------------------
(* The theorems *)

\* Every variable keeps its type: pointers never fall below -1, a chunk never
\* exceeds its limit, a reorg never has more blocks to undo than there are.
THEOREM TypeCorrect == Spec => []TypeOK
<1>1. IInv => TypeOK
  BY DEF IInv
<1> QED BY <1>1, Inductive, PTL

\* For every tree of blocks, every interleaving of flushes, reorgs, crashes and
\* restarts: what a restart recovers is the history of the chain on disk, but
\* for the transactions of one cut-off backup (clear_excess, flush_backup).
THEOREM HistoryIsExact == Spec => []HistoryExact
<1>1. IInv => HistoryExact
  BY DEF IInv
<1> QED BY <1>1, Inductive, PTL

\* The metadata files always hold every block that the UTXO state record
\* counts, whatever write was cut off (flush_fs, backup_fs, _read_tx_counts).
THEOREM FilesCover == Spec => []FilesCoverState
<1>1. IInv => FilesCoverState
  <2> SUFFICES ASSUME IInv PROVE FilesCoverState
    OBVIOUS
  <2> DEFINE n == Len(utxo_table)
  <2>1. /\ WellFormed(utxo_table) /\ n \in Nat
        /\ utxo_state.height = n - 1
        /\ utxo_state.tip = TipOf(utxo_table)
        /\ utxo_state.tx_count = TxCountOf(utxo_table)
    BY Sorts DEF IInv, TableInv
  <2>2. \A i \in 1 .. n :
           /\ HeaderOnFile(utxo_table, i)
           /\ CountOnFile(utxo_table, i)
           /\ HashesOnFile(utxo_table, i)
    BY DEF IInv, FileInv
  <2>3. /\ Len(headers_file) \in Nat /\ Len(tx_counts_file) \in Nat
        /\ Len(hashes_file) \in Nat
    BY LenProperties DEF IInv, TypeOK
  <2>4. /\ Len(headers_file) >= n /\ Len(tx_counts_file) >= n
        /\ Len(hashes_file) >= TxCountOf(utxo_table)
    <3>1. CASE n = 0
      BY <3>1, <2>1, <2>3, ChainEnds
    <3>2. CASE n > 0
      <4>1. n \in 1 .. n
        BY <3>2, <2>1
      <4>2. Len(headers_file) >= n /\ Len(tx_counts_file) >= n
        <5>1. n <= Len(headers_file) /\ n <= Len(tx_counts_file)
          BY <4>1, <2>2 DEF HeaderOnFile, CountOnFile
        <5> HIDE DEF n
        <5> QED BY <5>1, <2>1, <2>3
      <4>3. TxCountOf(utxo_table) = End(utxo_table[n]) /\ utxo_table[n] \in Block
        BY <3>2, <2>1, ChainEnds
      <4>4. /\ End(utxo_table[n]) \in Nat
            /\ End(utxo_table[n]) - 1 \in FirstTx[utxo_table[n]] .. End(utxo_table[n]) - 1
        BY <4>3, BlockNumbers
      <4>5. End(utxo_table[n]) - 1 + 1 <= Len(hashes_file)
        BY <4>1, <4>4, <2>2 DEF HashesOnFile
      <4> HIDE DEF n
      <4> QED BY <4>2, <4>3, <4>4, <4>5, <2>3
    <3> QED BY <3>1, <3>2, <2>1
  <2> HIDE DEF n
  <2> QED BY <2>1, <2>2, <2>4
          DEF FilesCoverState, WellFormed, HeaderOnFile, CountOnFile, HashesOnFile, n
<1> QED BY <1>1, Inductive, PTL

\* Once caught up, the block processor is never back waiting for blocks with
\* anything it told clients of not yet on disk (_maybe_flush).
THEOREM Notified == Spec => []NotifiedIsDurable
<1>1. IInv => NotifiedIsDurable
  <2> SUFFICES ASSUME IInv, pc = "idle", caught_up
               PROVE  /\ utxo_table = chain /\ utxo_state.tip = tip /\ unflushed = {}
                      /\ Recovered = {<<r.hashX, r.tx_num>> : r \in hist_rows}
    BY DEF NotifiedIsDurable
  <2>1. Up /\ height = db_height
    BY DEF Up, IInv, FlushInv
  <2>2. /\ chain = utxo_table /\ unflushed = {}
        /\ \A r \in hist_rows : r.flush_id <= utxo_state.utxo_flush_count
    BY <2>1, NoPending, Sorts
  <2>3. utxo_state.tip = tip
    BY <2>2 DEF IInv, ChainInv, TableInv
  <2>4. KeptRows = hist_rows
    BY <2>2, Kept
  <2> QED BY <2>2, <2>3, <2>4 DEF Recovered
<1> QED BY <1>1, Inductive, PTL

\* Every row of the history DB is of a transaction of the chain in memory or,
\* while that is behind, of the chain on disk.
LEMMA RowsIndexed ==
    ASSUME IInv, Up, NEW r \in hist_rows
    PROVE  \/ <<r.hashX, r.tx_num>> \in HistoryOf(utxo_table)
           \/ height >= db_height /\ <<r.hashX, r.tx_num>> \in HistoryOf(chain)
<1> DEFINE e == <<r.hashX, r.tx_num>>
           ufc == utxo_state.utxo_flush_count
<1>1. CASE r.flush_id <= ufc
  <2>1. e \in Recovered
    BY <1>1, Kept
  <2> QED BY <2>1 DEF IInv, HistoryExact
<1>2. CASE ~(r.flush_id <= ufc)
  <2>1. height >= db_height
    BY <1>2, NoPending, Sorts
  <2>2. r.flush_id > ufc
    BY <1>2, Sorts, SMTT(30)
  <2>3. e \in {<<s.hashX, s.tx_num>> : s \in {s \in hist_rows : s.flush_id > ufc}}
    BY <2>2
  <2>4. e \in HistoryOf(chain)
    BY <2>3 DEF IInv, PendingInv
  <2> QED BY <2>1, <2>4
<1> QED BY <1>1, <1>2

\* bisect_right finds the block of a transaction of the chain in memory.
LEMMA HeightOfTx ==
    ASSUME IInv, NEW i \in 1 .. Len(chain),
           NEW n \in FirstTx[chain[i]] .. End(chain[i]) - 1
    PROVE  TxHeight(n) = i - 1
<1> DEFINE Found(h) == /\ \A j \in 1 .. h : tx_counts[j] <= n
                       /\ h < Len(tx_counts) => tx_counts[h + 1] > n
<1>1. /\ WellFormed(chain) /\ Len(tx_counts) = Len(chain) /\ Len(chain) \in Nat
      /\ \A j \in 1 .. Len(chain) : tx_counts[j] = End(chain[j]) /\ tx_counts[j] \in Nat
  <2>1. /\ WellFormed(chain) /\ Len(tx_counts) = Len(chain) /\ Len(chain) \in Nat
        /\ \A j \in 1 .. Len(chain) : tx_counts[j] = End(chain[j])
    BY Sorts DEF IInv, ChainInv
  <2>2. \A j \in 1 .. Len(chain) : End(chain[j]) \in Nat
    BY <2>1, ChainEnds, BlockNumbers
  <2> QED BY <2>1, <2>2
<1>2. /\ FirstTx[chain[i]] \in Nat /\ End(chain[i]) \in Nat
      /\ n \in Nat /\ FirstTx[chain[i]] <= n /\ n < End(chain[i])
  BY <1>1, ChainEnds, BlockNumbers
<1>3. \A j \in 1 .. Len(chain) : j < i => tx_counts[j] <= n
  <2> SUFFICES ASSUME NEW j \in 1 .. Len(chain), j < i PROVE tx_counts[j] <= n
    OBVIOUS
  <2>1. tx_counts[j] <= FirstTx[chain[i]] /\ tx_counts[j] \in Nat
    BY <1>1 DEF WellFormed, Ordered
  <2> QED BY <2>1, <1>2
<1>4. tx_counts[i] > n /\ ~(tx_counts[i] <= n)
  BY <1>1, <1>2
<1>5. i - 1 \in 0 .. Len(tx_counts) /\ Found(i - 1)
  <2>1. i - 1 \in 0 .. Len(tx_counts) /\ i - 1 + 1 = i
    BY <1>1
  <2>2. \A j \in 1 .. i - 1 : j \in 1 .. Len(chain) /\ j < i
    BY <1>1
  <2> QED BY <2>1, <2>2, <1>3, <1>4
<1>6. \A h \in 0 .. Len(tx_counts) : Found(h) => h = i - 1
  <2> SUFFICES ASSUME NEW h \in 0 .. Len(chain), Found(h), h # i - 1 PROVE FALSE
    BY <1>1
  <2>1. CASE h < i - 1
    <3>1. h + 1 \in 1 .. Len(chain) /\ h + 1 < i /\ h < Len(chain)
      BY <2>1, <1>1
    <3>2. tx_counts[h + 1] <= n /\ tx_counts[h + 1] > n /\ tx_counts[h + 1] \in Nat
      BY <3>1, <1>1, <1>3
    <3> QED BY <3>2, <1>2
  <2>2. CASE h > i - 1
    <3>1. i \in 1 .. h
      BY <2>2, <1>1
    <3> QED BY <3>1, <1>4
  <2> QED BY <2>1, <2>2, <1>1
<1> HIDE DEF Found
<1>7. (CHOOSE h \in 0 .. Len(tx_counts) : Found(h)) = i - 1
  BY <1>5, <1>6
<1> QED BY <1>7 DEF TxHeight, Found

\* A reader between any two steps is never given a transaction of another
\* address, nor a wrong height unless blocks are being backed up (fs_tx_hash).
THEOREM Served == Spec => []ServedSound
<1>1. IInv => ServedSound
  <2> SUFFICES ASSUME IInv, Up, NEW r \in hist_rows, FsTxHash(r.tx_num) # <<>>
               PROVE  LET tx == FsTxHash(r.tx_num)
                      IN  /\ r.hashX \in Txs[tx[1]][tx[2]]
                          /\ height >= db_height =>
                                headers_file[TxHeight(r.tx_num) + 1] = tx[1]
    BY DEF ServedSound, Up
  <2> DEFINE n == r.tx_num
             e == <<r.hashX, r.tx_num>>
  <2>1. ~(TxHeight(n) > db_height) /\ FsTxHash(n) = hashes_file[n + 1]
    BY DEF FsTxHash
  <2>2. WellFormed(chain) /\ WellFormed(utxo_table)
    BY DEF IInv, ChainInv, TableInv
  <2>3. ASSUME NEW c, WellFormed(c), NEW i \in 1 .. Len(c), e \in Entries(c[i]),
               HashesOnFile(c, i)
        PROVE  /\ n \in FirstTx[c[i]] .. End(c[i]) - 1
               /\ FsTxHash(n)[1] = c[i]
               /\ r.hashX \in Txs[FsTxHash(n)[1]][FsTxHash(n)[2]]
    <3>1. /\ n \in FirstTx[c[i]] .. End(c[i]) - 1
          /\ r.hashX \in Txs[c[i]][n - FirstTx[c[i]] + 1]
      BY <2>3 DEF Entries
    <3>2. FsTxHash(n) = <<c[i], n - FirstTx[c[i]] + 1>>
      BY <3>1, <2>1, <2>3 DEF HashesOnFile
    <3> HIDE DEF n
    <3> QED BY <3>1, <3>2
  <2>4. CASE height >= db_height
    <3>1. PrefixOf(utxo_table, chain)
      BY <2>4 DEF IInv, AheadInv
    <3>2. e \in HistoryOf(chain)
      <4>1. HistoryOf(utxo_table) \subseteq HistoryOf(chain)
        BY <2>2, <3>1, HistoryOfPrefix
      <4> QED BY <4>1, RowsIndexed
    <3>3. PICK i \in 1 .. Len(chain) : e \in Entries(chain[i])
      BY <3>2, HistoryMember
    <3>4. n \in FirstTx[chain[i]] .. End(chain[i]) - 1
      BY <3>3 DEF Entries
    <3>5. TxHeight(n) = i - 1
      BY <3>4, HeightOfTx
    <3>6. i \in 1 .. Len(utxo_table)
      BY <3>5, <2>1, Sorts, SMTT(30)
    <3>7. utxo_table[i] = chain[i]
      BY <3>1, <3>6 DEF PrefixOf
    <3>8. HashesOnFile(chain, i) /\ HeaderOnFile(chain, i)
      BY <3>6, <3>7 DEF IInv, FileInv, HashesOnFile, HeaderOnFile
    <3>9. FsTxHash(n)[1] = chain[i] /\ r.hashX \in Txs[FsTxHash(n)[1]][FsTxHash(n)[2]]
      BY <2>2, <2>3, <3>3, <3>8
    <3>10. TxHeight(n) + 1 = i
      BY <3>5
    <3> HIDE DEF n
    <3>11. headers_file[TxHeight(n) + 1] = FsTxHash(n)[1]
      BY <3>8, <3>9, <3>10 DEF HeaderOnFile
    <3> QED BY <3>9, <3>11 DEF n
  <2>5. CASE ~(height >= db_height)
    <3>1. e \in HistoryOf(utxo_table)
      BY <2>5, RowsIndexed
    <3>2. PICK i \in 1 .. Len(utxo_table) : e \in Entries(utxo_table[i])
      BY <3>1, HistoryMember
    <3>3. HashesOnFile(utxo_table, i)
      BY DEF IInv, FileInv
    <3>4. r.hashX \in Txs[FsTxHash(n)[1]][FsTxHash(n)[2]]
      BY <2>2, <2>3, <3>2, <3>3
    <3> QED BY <2>5, <3>4
  <2> QED BY <2>4, <2>5
<1> QED BY <1>1, Inductive, PTL

-----------------------------------------------------------------------------
(* The index implements the ledger.  The invariant determines what a       *)
(* restart recovers from the table on disk and the history variable lost,  *)
(* so only the three steps that change one of these can be other than a    *)
(* stutter of the ledger.                                                  *)

\* A prefix is what the subsequence of its length is.
LEMMA PrefixSubSeq ==
    ASSUME NEW c, NEW d, WellFormed(c), WellFormed(d), PrefixOf(c, d)
    PROVE  SubSeq(d, 1, Len(c)) = c
<1> DEFINE n == Len(c)
           p == SubSeq(d, 1, n)
<1>1. /\ c \in Seq(Block) /\ d \in Seq(Block) /\ n \in Nat /\ Len(d) \in Nat
      /\ n <= Len(d) /\ \A i \in 1 .. n : c[i] = d[i]
  BY ChainEnds DEF PrefixOf
<1> HIDE DEF n
<1>2. \A i \in 1 .. n : d[i] \in Block /\ 1 + i - 1 = i
  BY <1>1, ElementOfSeq
<1>3. /\ p \in Seq(Block)
      /\ Len(p) = IF 1 <= n THEN n - 1 + 1 ELSE 0
      /\ \A i \in 1 .. n - 1 + 1 : p[i] = d[1 + i - 1]
  BY <1>1, <1>2, SubSeqProperties
<1>4. n - 1 + 1 = n /\ (~(1 <= n) => n = 0)
  BY <1>1
<1> HIDE DEF p
<1>5. Len(p) = n /\ \A i \in 1 .. n : p[i] = d[i]
  BY <1>2, <1>3, <1>4
<1>6. n <= n
  BY <1>1
<1>7. PrefixOf(c, p) /\ Len(p) <= Len(c)
  BY <1>1, <1>5, <1>6 DEF PrefixOf, n
<1>8. c = p
  BY <1>1, <1>3, <1>7, PrefixEqual
<1> QED BY <1>8 DEF p, n

\* The ledger speaks of the same chains.
LEMMA SameChains ==
    /\ \A c : L!Linked(c) <=> Linked(c)
    /\ \A b : L!Entries(b) = Entries(b)
    /\ \A c : L!HistoryOf(c) = HistoryOf(c)
<1>1. \A b : L!Entries(b) = Entries(b)
  BY DEF L!Entries, Entries, L!End, End
<1>2. \A c : L!HistoryOf(c) = HistoryOf(c)
  BY <1>1 DEF L!HistoryOf, HistoryOf
<1>3. \A c : L!Linked(c) <=> Linked(c)
  BY DEF L!Linked, Linked
<1> QED BY <1>1, <1>2, <1>3

\* What is recovered is a function of the table and of lost.
LEMMA Quiet ==
    ASSUME IInv, IInv', UNCHANGED <<utxo_table, lost>>
    PROVE  UNCHANGED <<utxo_table, Recovered>>
BY DEF IInv, HistoryExact

\* The commit of the UTXO batch is the ledger's commit.
LEMMA CommitStep ==
    ASSUME IInv, FlushUtxos
    PROVE  L!Commit \/ UNCHANGED <<utxo_table, Recovered>>
<1>1. /\ IInv' /\ utxo_table' = chain /\ lost' = lost /\ pc = "history" /\ Up
  BY FlushUtxosStep DEF FlushUtxos, FlushUtxoDb, Up
<1>2. /\ WellFormed(chain) /\ WellFormed(utxo_table) /\ PrefixOf(utxo_table, chain)
      /\ utxo_state.tx_count = TxCountOf(utxo_table)
      /\ Len(chain) \in Nat /\ Len(utxo_table) \in Nat
  BY <1>1, Sorts DEF IInv, ChainInv, TableInv, AheadInv, FlushInv
<1>3. CASE Len(chain) <= Len(utxo_table)
  <2>1. chain = utxo_table
    BY <1>2, <1>3, PrefixEqual DEF WellFormed
  <2> QED BY <2>1, <1>1, Quiet
<1>4. CASE ~(Len(chain) <= Len(utxo_table))
  <2>1. Len(utxo_table') > Len(utxo_table)
    BY <1>1, <1>2, <1>4
  <2>2. SubSeq(utxo_table', 1, Len(utxo_table)) = utxo_table
    BY <1>1, <1>2, PrefixSubSeq
  <2>3. Linked(utxo_table')
    BY <1>1, <1>2 DEF WellFormed
  <2> DEFINE tail == UNION {Entries(chain[i]) : i \in Len(utxo_table) + 1 .. Len(chain)}
  <2>4. \A e : e \in HistoryOf(chain) <=> e \in HistoryOf(utxo_table) \/ e \in tail
    <3>1. \A e : e \in tail <=>
             \E i \in Len(utxo_table) + 1 .. Len(chain) : e \in Entries(chain[i])
      OBVIOUS
    <3>2. \A e : e \in HistoryOf(chain) <=> \E i \in 1 .. Len(chain) : e \in Entries(chain[i])
      BY HistoryMember
    <3>3. \A e : e \in HistoryOf(utxo_table) <=>
             \E i \in 1 .. Len(utxo_table) : e \in Entries(chain[i])
      <4>1. \A i \in 1 .. Len(utxo_table) : utxo_table[i] = chain[i]
        BY <1>2 DEF PrefixOf
      <4> QED BY <4>1, HistoryMember
    <3>4. \A i : i \in 1 .. Len(chain) <=>
             i \in 1 .. Len(utxo_table) \/ i \in Len(utxo_table) + 1 .. Len(chain)
      BY <1>2, <1>4
    <3> HIDE DEF tail
    <3> QED BY <3>1, <3>2, <3>3, <3>4
  <2>5. \A e \in tail : e[2] \notin lost
    <3> SUFFICES ASSUME NEW i \in Len(utxo_table) + 1 .. Len(chain),
                        NEW e \in Entries(chain[i]), e[2] \in lost
                 PROVE  FALSE
      OBVIOUS
    <3>1. i \in 1 .. Len(chain)
      BY <1>2
    <3>2. chain[i] \in Block /\ FirstTx[chain[i]] \in Nat
      BY <3>1, <1>2, ChainEnds
    <3>3. FirstTx[chain[i]] <= e[2] /\ e[2] \in Nat
      BY <3>2, EntriesOfBlock
    <3>4. utxo_state.tx_count <= FirstTx[chain[i]]
      BY <1>2, BeyondPrefix
    <3>5. e[2] < utxo_state.tx_count
      BY DEF IInv, LostInv
    <3>6. \A k, m, n \in Nat : k <= m /\ m <= n => ~(n < k)
      OBVIOUS
    <3> QED BY <3>2, <3>3, <3>4, <3>5, <3>6, Sorts
  <2>6. /\ Recovered = {e \in HistoryOf(utxo_table) : e[2] \notin lost}
        /\ Recovered' = {e \in HistoryOf(chain) : e[2] \notin lost}
    BY <1>1 DEF IInv, HistoryExact
  <2> HIDE DEF tail
  <2>7. Recovered' = Recovered \cup tail
    BY <2>4, <2>5, <2>6
  <2>8. Recovered' = Recovered \cup
           UNION {Entries(utxo_table'[i]) : i \in Len(utxo_table) + 1 .. Len(utxo_table')}
    BY <2>7, <1>1 DEF tail
  <2> QED BY <2>1, <2>2, <2>3, <2>8, SameChains DEF L!Commit
<1> QED BY <1>3, <1>4

\* While a chunk is undone the chain in memory is a proper part of the table.
LEMMA BackedUp ==
    ASSUME IInv, pc \in {"backed", "unwritten"}
    PROVE  /\ WellFormed(chain) /\ WellFormed(utxo_table) /\ PrefixOf(chain, utxo_table)
           /\ SubSeq(utxo_table, 1, Len(chain)) = chain
           /\ Len(chain) \in 1 .. Len(utxo_table) - 1
           /\ Len(chain) >= Len(utxo_table) - ChunkSize
           /\ HistoryOf(chain) = {e \in HistoryOf(utxo_table) : e[2] < tx_count}
<1>1. /\ height < db_height /\ db_height - height <= ChunkSize /\ todo <= height
      /\ todo \in Nat /\ Up
  BY DEF IInv, ReorgInv, TypeOK, Up
<1>2. /\ WellFormed(chain) /\ WellFormed(utxo_table) /\ PrefixOf(chain, utxo_table)
      /\ tx_count = TxCountOf(chain)
  BY <1>1 DEF IInv, ChainInv, TableInv, BehindInv
<1>3. /\ Len(chain) \in 1 .. Len(utxo_table) - 1
      /\ Len(chain) >= Len(utxo_table) - ChunkSize
  <2>1. /\ Len(chain) = height + 1 /\ Len(utxo_table) = db_height + 1
        /\ height \in Int /\ db_height \in Int /\ ChunkSize \in Nat
    BY <1>1, Sorts, ParameterAssumption
  <2> QED BY <2>1, <1>1
<1> QED BY <1>2, <1>3, PrefixSubSeq, HistoryOfPrefix

\* History.backup takes the history of those blocks away ...
LEMMA UnindexStep ==
    ASSUME IInv, BackupHistory
    PROVE  L!Unindex
<1>1. /\ IInv' /\ utxo_table' = utxo_table /\ pc = "backed"
      /\ lost' = lost \cup (tx_count .. utxo_state.tx_count - 1)
  BY BackupHistoryStep DEF BackupHistory, utxoVars
<1>2. /\ Recovered = {e \in HistoryOf(utxo_table) : e[2] \notin lost}
      /\ Recovered' = {e \in HistoryOf(utxo_table) : e[2] \notin lost'}
  BY <1>1 DEF IInv, HistoryExact
<1>3. \A e \in HistoryOf(utxo_table) :
         e[2] \notin lost' <=> e[2] \notin lost /\ e[2] < tx_count
  <2>1. \A e \in HistoryOf(utxo_table) : e[2] \in Nat /\ e[2] < utxo_state.tx_count
    BY HistoryRange DEF IInv, TableInv
  <2>2. \A m \in Nat : m < utxo_state.tx_count =>
           (m \in tx_count .. utxo_state.tx_count - 1 <=> ~(m < tx_count))
    <3>1. tx_count \in Nat /\ utxo_state.tx_count \in Nat
      BY Sorts
    <3> QED BY <3>1, Between
  <2> QED BY <2>1, <2>2, <1>1
<1>4. HistoryOf(chain) = {e \in HistoryOf(utxo_table) : e[2] < tx_count}
  BY <1>1, BackedUp
<1>5. Recovered' = Recovered \cap HistoryOf(chain)
  BY <1>2, <1>3, <1>4
<1>6. /\ Len(chain) \in 1 .. Len(utxo_table) - 1
      /\ Len(chain) >= Len(utxo_table) - ChunkSize
      /\ SubSeq(utxo_table, 1, Len(chain)) = chain
  BY <1>1, BackedUp
<1>7. Len(chain) \in 1 .. Len(utxo_table)
  <2>1. Len(utxo_table) \in Nat
    BY Sorts
  <2> QED BY <2>1, <1>6
<1> QED BY <1>1, <1>5, <1>6, <1>7, SameChains DEF L!Unindex

\* ... and the batch of the UTXO DB the blocks.
LEMMA RetractStep ==
    ASSUME IInv, BackupUtxos
    PROVE  L!Retract
<1>1. /\ IInv' /\ utxo_table' = chain /\ pc = "unwritten"
      /\ lost' = {n \in lost : n < tx_count}
  BY BackupUtxosStep DEF BackupUtxos, FlushUtxoDb
<1>2. /\ Recovered = {e \in HistoryOf(utxo_table) : e[2] \notin lost}
      /\ Recovered' = {e \in HistoryOf(chain) : e[2] \notin lost'}
  BY <1>1 DEF IInv, HistoryExact
<1>3. HistoryOf(chain) = {e \in HistoryOf(utxo_table) : e[2] < tx_count}
  BY <1>1, BackedUp
<1>4. \A e \in Recovered : e[2] < tx_count
  <2>1. \A r \in hist_rows : r.tx_num < tx_count
    BY <1>1 DEF IInv, LostInv
  <2> QED BY <2>1, Kept
<1>5. Recovered' = Recovered /\ Recovered \subseteq HistoryOf(chain)
  BY <1>1, <1>2, <1>3, <1>4
<1>6. /\ Len(chain) \in 1 .. Len(utxo_table) - 1
      /\ Len(chain) >= Len(utxo_table) - ChunkSize
      /\ SubSeq(utxo_table, 1, Len(chain)) = chain
  BY <1>1, BackedUp
<1> QED BY <1>1, <1>5, <1>6, SameChains DEF L!Retract

\* Every step is one of the ledger, or a stutter.
LEMMA LedgerStep ==
    ASSUME IInv, [Next]_vars
    PROVE  [L!Next]_<<utxo_table, Recovered>>
<1>1. IInv'
  BY NextIInv
<1>2. CASE FlushUtxos
  BY <1>2, CommitStep DEF L!Next
<1>3. CASE BackupHistory
  BY <1>3, UnindexStep DEF L!Next
<1>4. CASE BackupUtxos
  BY <1>4, RetractStep DEF L!Next
<1>5. CASE ~FlushUtxos /\ ~BackupHistory /\ ~BackupUtxos
  <2>1. UNCHANGED <<utxo_table, lost>>
    <3> USE DEF utxoVars
    <3>1. CASE Restart \/ Crash \/ Cancel \/ FirstCaughtUp
      BY <3>1 DEF Restart, Crash, Cancel, FirstCaughtUp
    <3>2. ASSUME NEW b \in Block, AdvanceBlock(b) PROVE UNCHANGED <<utxo_table, lost>>
      BY <3>2 DEF AdvanceBlock
    <3>3. ASSUME NEW n \in 1 .. height, StartReorg(n) PROVE UNCHANGED <<utxo_table, lost>>
      BY <3>3 DEF StartReorg
    <3>4. CASE MaybeFlush \/ BlocksDone \/ OpenForServing \/ ShutdownFlush \/ Exit
      BY <3>4 DEF MaybeFlush, BlocksDone, OpenForServing, ShutdownFlush, Exit
    <3>5. CASE Flush
      BY <3>5, <1>5 DEF Flush, NothingToFlush, FlushHeaders, FlushTxCounts,
                        FlushHashes, FlushHistory, FlushStateOnly, FlushFails
    <3>6. CASE Reorg
      BY <3>6, <1>5 DEF Reorg, ReorgFlushed, StartChunk, BackupBlock, ReorgDone
    <3>7. CASE UNCHANGED vars
      BY <3>7 DEF vars
    <3> QED BY <3>1, <3>2, <3>3, <3>4, <3>5, <3>6, <3>7 DEF Next, Proceed
  <2> QED BY <2>1, <1>1, Quiet
<1> QED BY <1>2, <1>3, <1>4, <1>5

\* The index implements the ledger: seen from the chain on disk and the
\* history a restart recovers, every step - a write that is cut off and the
\* restart after it included - commits blocks with all their history, or is
\* one of the two halves of a backup of a chunk at most (flush_dbs,
\* flush_backup).
THEOREM ImplementsLedger == Spec => LedgerSpec
<1>1. Init => L!Init
  <2> SUFFICES ASSUME Init PROVE L!Init
    OBVIOUS
  <2>1. KeptRows = {}
    BY DEF Init, KeptRows
  <2> QED BY <2>1 DEF Init, L!Init, Recovered
<1>2. IInv /\ [Next]_vars => [L!Next]_(L!ledger)
  BY LedgerStep DEF L!ledger
<1> QED BY <1>1, <1>2, Inductive, PTL DEF Spec, LedgerSpec, L!Spec
=============================================================================
