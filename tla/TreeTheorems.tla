----------------------------- MODULE TreeTheorems -----------------------------
(***************************************************************************)
(* Lemmas about BlockTree.  ChainOf is defined by recursion along Prev.    *)
(* That it has the chains it should have is shown first, from the          *)
(* assumption that no set of blocks has all their predecessors in it.      *)
(***************************************************************************)
EXTENDS BlockTree, FiniteSetsExt, SequenceTheorems, WellFoundedInduction, TLAPS

-----------------------------------------------------------------------------
(* Induction, and least elements *)

\* A set of numbers that is not empty has a least element.
LEMMA NatLeast ==
    ASSUME NEW T \in SUBSET Nat, T # {}
    PROVE  \E x \in T : \A y \in T : x <= y
<1> DEFINE R == OpToRel(<, Nat)
<1>1. IsWellFoundedOn(R, Nat)
  BY NatLessThanWellFounded
<1>2. \A x, y \in Nat : <<y, x>> \in R <=> y < x
  BY DEF OpToRel
<1> HIDE DEF R
<1>3. PICK x \in T : \A y \in T : ~ (<<y, x>> \in R)
  BY <1>1, WFMin
<1>4. ASSUME NEW y \in T
      PROVE  x <= y
  <2>1. x \in Nat /\ y \in Nat
    OBVIOUS
  <2>2. ~ (y < x)
    BY <1>2, <1>3, <2>1
  <2> QED BY <2>1, <2>2
<1> QED BY <1>4

\* A set that has 0, and with a number the next one, has them all.
LEMMA NatInductive ==
    ASSUME NEW S, 0 \in S, \A n \in Nat : n \in S => n + 1 \in S
    PROVE  Nat \subseteq S
<1> SUFFICES ASSUME ~ (Nat \subseteq S)
             PROVE  FALSE
  OBVIOUS
<1>1. PICK x \in Nat \ S : \A y \in Nat \ S : x <= y
  <2>1. Nat \ S \in SUBSET Nat /\ Nat \ S # {}
    OBVIOUS
  <2> QED BY <2>1, NatLeast
<1>2. x - 1 \in Nat /\ x - 1 \in S
  BY <1>1
<1> QED BY <1>1, <1>2

\* The least element of a set of integers that are not below some bound.
LEMMA IntLeast ==
    ASSUME NEW T \in SUBSET Int, T # {}, NEW low \in Int, \A t \in T : t >= low
    PROVE  \E x \in T : \A y \in T : x <= y
<1> DEFINE U == {n \in Nat : n + low \in T}
<1>1. PICK t \in T : TRUE
  OBVIOUS
<1>2. t - low \in U
  BY <1>1
<1>3. PICK m \in U : \A n \in U : m <= n
  BY <1>2, NatLeast
<1>4. ASSUME NEW y \in T
      PROVE  m + low <= y
  <2>1. y - low \in U
    OBVIOUS
  <2>2. m <= y - low
    BY <1>3, <2>1
  <2> QED BY <2>2
<1> QED BY <1>4

\* Min and Max of a set of integers that is bounded.
LEMMA MinIsLeast ==
    ASSUME NEW T \in SUBSET Int, T # {}, NEW low \in Int, \A t \in T : t >= low
    PROVE  Min(T) \in T /\ \A t \in T : Min(T) <= t
<1>1. \E x \in T : \A y \in T : x <= y
  BY IntLeast
<1> QED BY <1>1 DEF Min

\* A set of integers with a bound has a greatest element.
LEMMA MaxIsGreatest ==
    ASSUME NEW T \in SUBSET Int, T # {}, NEW high \in Int, \A t \in T : t <= high
    PROVE  Max(T) \in T /\ \A t \in T : Max(T) >= t
<1> DEFINE U == {n \in Int : 0 - n \in T}
<1>1. PICK t \in T : TRUE
  OBVIOUS
<1>2. 0 - t \in U /\ 0 - high \in Int /\ \A u \in U : u >= 0 - high
  BY <1>1
<1>3. PICK u \in U : \A v \in U : u <= v
  BY <1>2, IntLeast
<1>4. ASSUME NEW y \in T
      PROVE  0 - u >= y
  <2>1. 0 - y \in U
    OBVIOUS
  <2> QED BY <1>3, <2>1
<1>5. \E z \in T : \A y \in T : z >= y
  BY <1>3, <1>4
<1> QED BY <1>5 DEF Max

\* Of two numbers.
LEMMA MinOfTwo ==
    ASSUME NEW m \in Int, NEW n \in Int
    PROVE  Min({m, n}) = IF m <= n THEN m ELSE n
<1>1. \E x \in {m, n} : \A y \in {m, n} : x <= y
  OBVIOUS
<1>2. Min({m, n}) \in {m, n} /\ \A y \in {m, n} : Min({m, n}) <= y
  BY <1>1 DEF Min
<1> QED BY <1>2

\* The greater of two numbers.
LEMMA MaxOfTwo ==
    ASSUME NEW m \in Int, NEW n \in Int
    PROVE  Max({m, n}) = IF m >= n THEN m ELSE n
<1>1. \E x \in {m, n} : \A y \in {m, n} : x >= y
  OBVIOUS
<1>2. Max({m, n}) \in {m, n} /\ \A y \in {m, n} : Max({m, n}) >= y
  BY <1>1 DEF Max
<1> QED BY <1>2
-----------------------------------------------------------------------------

Branch == Block \cup {NoTip}

\* c leads from genesis to b.
LeadsTo(c, b) ==
    /\ c \in Seq(Block)
    /\ IF b = NoTip THEN c = <<>> ELSE c # <<>> /\ c[Len(c)] = b
    /\ \A i \in 1 .. Len(c) : Prev[c[i]] = IF i = 1 THEN NoTip ELSE c[i - 1]

-----------------------------------------------------------------------------
(* Chains *)

\* A chain goes on with the blocks that name its tip.
LEMMA LeadsOn ==
    ASSUME NEW b \in Block, NEW c, LeadsTo(c, Prev[b])
    PROVE  LeadsTo(Append(c, b), b)
<1> DEFINE d == Append(c, b)
<1>1. c \in Seq(Block) /\ Prev[b] \in Branch /\ b # NoTip
  BY TreeAssumption DEF LeadsTo, Branch
<1>2. /\ d \in Seq(Block) /\ d # <<>> /\ Len(d) = Len(c) + 1 /\ d[Len(d)] = b
      /\ \A i \in 1 .. Len(c) : d[i] = c[i]
  BY <1>1, AppendProperties
<1>3. Len(c) \in Nat
  BY <1>1, LenProperties
<1>4. ASSUME NEW i \in 1 .. Len(d)
      PROVE  Prev[d[i]] = IF i = 1 THEN NoTip ELSE d[i - 1]
  <2>1. CASE i \in 1 .. Len(c)
    BY <1>2, <1>3, <2>1 DEF LeadsTo
  <2>2. CASE i = Len(c) + 1 /\ Prev[b] = NoTip
    <3>1. Len(c) = 0
      BY <1>1, <2>2, EmptySeq DEF LeadsTo
    <3> QED BY <1>2, <2>2, <3>1
  <2>3. CASE i = Len(c) + 1 /\ Prev[b] # NoTip
    <3>1. c # <<>> /\ c[Len(c)] = Prev[b]
      BY <2>3 DEF LeadsTo
    <3>2. Len(c) # 0
      BY <1>1, <3>1, EmptySeq
    <3> QED BY <1>2, <1>3, <2>3, <3>1, <3>2
  <2> QED BY <1>2, <1>3, <2>1, <2>2, <2>3
<1> QED BY <1>1, <1>2, <1>4 DEF LeadsTo

\* Where a chain is cut off, it leads to the block that is last then.
LEMMA LeadsToEach ==
    ASSUME NEW b \in Branch, NEW c, LeadsTo(c, b), NEW i \in 0 .. Len(c)
    PROVE  /\ SubSeq(c, 1, i) \in Seq(Block) /\ Len(SubSeq(c, 1, i)) = i
           /\ \A j \in 1 .. i : SubSeq(c, 1, i)[j] = c[j]
           /\ LeadsTo(SubSeq(c, 1, i), IF i = 0 THEN NoTip ELSE c[i])
<1> DEFINE d == SubSeq(c, 1, i)
<1>1. c \in Seq(Block) /\ Len(c) \in Nat
  BY LenProperties DEF LeadsTo
<1>2. \A j \in 1 .. i : c[j] \in Block
  BY <1>1, ElementOfSeq
<1>3. /\ d \in Seq(Block)
      /\ Len(d) = IF 1 <= i THEN i - 1 + 1 ELSE 0
      /\ \A j \in 1 .. i - 1 + 1 : d[j] = c[1 + j - 1]
  BY <1>1, <1>2, SubSeqProperties
<1>4. Len(d) = i /\ \A j \in 1 .. i : d[j] = c[j]
  BY <1>1, <1>3
<1>5. \A j \in 1 .. i : Prev[c[j]] = IF j = 1 THEN NoTip ELSE c[j - 1]
  BY <1>1 DEF LeadsTo
<1>6. \A j \in 1 .. Len(d) : Prev[d[j]] = IF j = 1 THEN NoTip ELSE d[j - 1]
  BY <1>1, <1>4, <1>5
<1>7. IF i = 0 THEN d = <<>> ELSE d # <<>> /\ d[Len(d)] = c[i] /\ c[i] # NoTip
  BY <1>1, <1>2, <1>3, <1>4, EmptySeq, TreeAssumption
<1> HIDE DEF d
<1>8. LeadsTo(d, IF i = 0 THEN NoTip ELSE c[i])
  BY <1>3, <1>6, <1>7 DEF LeadsTo
<1> QED BY <1>3, <1>4, <1>8 DEF d

\* Without its last block it leads to the predecessor.
LEMMA LeadsBack ==
    ASSUME NEW b \in Block, NEW c, LeadsTo(c, b)
    PROVE  /\ c \in Seq(Block) /\ Len(c) \in Nat \ {0} /\ c[Len(c)] = b
           /\ SubSeq(c, 1, Len(c) - 1) \in Seq(Block)
           /\ Len(SubSeq(c, 1, Len(c) - 1)) = Len(c) - 1
           /\ \A j \in 1 .. Len(c) - 1 : SubSeq(c, 1, Len(c) - 1)[j] = c[j]
           /\ LeadsTo(SubSeq(c, 1, Len(c) - 1), Prev[b])
<1>1. c \in Seq(Block) /\ b # NoTip /\ b \in Branch
  BY TreeAssumption DEF LeadsTo, Branch
<1>2. c # <<>> /\ c[Len(c)] = b
  BY <1>1 DEF LeadsTo
<1>3. Len(c) \in Nat \ {0}
  BY <1>1, <1>2, EmptySeq
<1>4. PICK n \in 0 .. Len(c) : n = Len(c) - 1
  <2>1. Len(c) - 1 \in 0 .. Len(c)
    BY <1>3
  <2> QED BY <2>1, Zenon
<1>5. \A i \in 1 .. Len(c) : Prev[c[i]] = IF i = 1 THEN NoTip ELSE c[i - 1]
  BY DEF LeadsTo
<1>6. Prev[b] = IF n = 0 THEN NoTip ELSE c[n]
  <2>1. Len(c) \in 1 .. Len(c) /\ (Len(c) = 1 <=> n = 0)
    BY <1>3, <1>4
  <2>2. Prev[c[Len(c)]] = IF Len(c) = 1 THEN NoTip ELSE c[Len(c) - 1]
    BY <1>5, <2>1
  <2> QED BY <1>2, <1>4, <2>1, <2>2
<1>7. /\ SubSeq(c, 1, n) \in Seq(Block) /\ Len(SubSeq(c, 1, n)) = n
      /\ \A j \in 1 .. n : SubSeq(c, 1, n)[j] = c[j]
      /\ LeadsTo(SubSeq(c, 1, n), IF n = 0 THEN NoTip ELSE c[n])
  BY <1>1, LeadsToEach
<1>8. LeadsTo(SubSeq(c, 1, n), Prev[b])
  BY <1>6, <1>7
<1> QED BY <1>1, <1>2, <1>3, <1>4, <1>7, <1>8

\* Only one chain leads to a block.
LEMMA LeadsUniquely ==
    ASSUME NEW b \in Branch, NEW c, NEW d, LeadsTo(c, b), LeadsTo(d, b)
    PROVE  c = d
<1> DEFINE S == {n \in Nat : \A a \in Branch : \A e, f \in Seq(Block) :
                    LeadsTo(e, a) /\ LeadsTo(f, a) /\ Len(e) = n => e = f}
<1>1. 0 \in S
  <2> SUFFICES ASSUME NEW a \in Branch, NEW e \in Seq(Block), NEW f \in Seq(Block),
                      LeadsTo(e, a), LeadsTo(f, a), Len(e) = 0
               PROVE  e = f
    OBVIOUS
  <2>1. e = <<>> /\ a = NoTip
    BY EmptySeq DEF LeadsTo
  <2> QED BY <2>1 DEF LeadsTo
<1>2. ASSUME NEW n \in Nat, n \in S
      PROVE  n + 1 \in S
  <2> SUFFICES ASSUME NEW a \in Branch, NEW e \in Seq(Block), NEW f \in Seq(Block),
                      LeadsTo(e, a), LeadsTo(f, a), Len(e) = n + 1
               PROVE  e = f
    OBVIOUS
  <2> DEFINE e1 == SubSeq(e, 1, Len(e) - 1)
             f1 == SubSeq(f, 1, Len(f) - 1)
  <2>1. a \in Block
    BY EmptySeq DEF LeadsTo, Branch
  <2>2. /\ e[Len(e)] = a /\ e1 \in Seq(Block) /\ Len(e1) = Len(e) - 1
        /\ \A j \in 1 .. Len(e) - 1 : e1[j] = e[j]
        /\ LeadsTo(e1, Prev[a])
    BY <2>1, LeadsBack
  <2>3. /\ f[Len(f)] = a /\ f1 \in Seq(Block) /\ Len(f1) = Len(f) - 1
        /\ \A j \in 1 .. Len(f) - 1 : f1[j] = f[j]
        /\ LeadsTo(f1, Prev[a])
    BY <2>1, LeadsBack
  <2>4. Len(f) \in Nat /\ Prev[a] \in Branch
    BY <2>1, LenProperties, TreeAssumption DEF Branch
  <2> HIDE DEF e1, f1
  <2>5. e1 = f1
    BY <1>2, <2>2, <2>3, <2>4
  <2>6. Len(f) = n + 1
    BY <2>2, <2>3, <2>4, <2>5
  <2>7. \A j \in 1 .. Len(e) : e[j] = f[j]
    BY <2>2, <2>3, <2>5, <2>6
  <2> QED BY <2>6, <2>7, SeqEqual
<1> HIDE DEF S
<1>3. Nat \subseteq S
  BY <1>1, <1>2, NatInductive
<1>4. c \in Seq(Block) /\ d \in Seq(Block) /\ Len(c) \in Nat
  BY LenProperties DEF LeadsTo
<1>5. Len(c) \in S
  BY <1>3, <1>4
<1> QED BY <1>4, <1>5 DEF S

\* One does.
LEMMA LeadsSomehow ==
    ASSUME NEW b \in Branch
    PROVE  \E c : LeadsTo(c, b)
<1>1. LeadsTo(<<>>, NoTip)
  BY EmptySeq, TreeAssumption DEF LeadsTo
<1> DEFINE bs == {a \in Block : ~ \E c : LeadsTo(c, a)}
<1>2. bs = {}
  <2> SUFFICES ASSUME bs # {}
               PROVE  FALSE
    OBVIOUS
  <2>1. PICK a \in bs : Prev[a] \notin bs
    BY TreeAssumption
  <2>2. Prev[a] \in Branch
    BY TreeAssumption DEF Branch
  <2>3. PICK c : LeadsTo(c, Prev[a])
    BY <1>1, <2>1, <2>2 DEF Branch
  <2> QED BY <2>1, <2>3, LeadsOn
<1> QED BY <1>1, <1>2 DEF Branch

\* The recursive definition of ChainOf has a solution: the chains that lead to
\* the blocks.
LEMMA ChainOfEquation ==
    ChainOf = [b \in Branch |-> IF b = NoTip THEN <<>> ELSE Append(ChainOf[Prev[b]], b)]
<1> DEFINE Solves(f) ==
               f = [b \in Branch |-> IF b = NoTip THEN <<>> ELSE Append(f[Prev[b]], b)]
           f == [b \in Branch |-> CHOOSE c : LeadsTo(c, b)]
<1>1. \A b \in Branch : LeadsTo(f[b], b)
  BY LeadsSomehow
<1>2. ASSUME NEW b \in Branch
      PROVE  f[b] = IF b = NoTip THEN <<>> ELSE Append(f[Prev[b]], b)
  <2>1. CASE b = NoTip
    BY <1>1, <2>1 DEF LeadsTo
  <2>2. CASE b # NoTip
    <3>1. b \in Block /\ Prev[b] \in Branch
      BY <2>2, TreeAssumption DEF Branch
    <3>2. LeadsTo(Append(f[Prev[b]], b), b)
      BY <1>1, <3>1, LeadsOn
    <3> QED BY <1>1, <2>2, <3>2, LeadsUniquely
  <2> QED BY <2>1, <2>2
<1>3. f = [b \in Branch |-> f[b]]
  OBVIOUS
<1> HIDE DEF f
<1>4. Solves(f)
  BY <1>2, <1>3
<1>5. ChainOf = CHOOSE g : Solves(g)
  BY DEF ChainOf, Branch
<1> HIDE DEF Solves
<1>6. Solves(ChainOf)
  BY <1>4, <1>5
<1> QED BY <1>6 DEF Solves

\* ChainOf leads from genesis to the block.
LEMMA ChainOfLeads ==
    ASSUME NEW b \in Branch
    PROVE  LeadsTo(ChainOf[b], b)
<1> DEFINE bs == {a \in Block : ~ LeadsTo(ChainOf[a], a)}
<1>1. LeadsTo(ChainOf[NoTip], NoTip)
  BY ChainOfEquation, EmptySeq, TreeAssumption DEF LeadsTo, Branch
<1>2. bs = {}
  <2> SUFFICES ASSUME bs # {}
               PROVE  FALSE
    OBVIOUS
  <2>1. PICK a \in bs : Prev[a] \notin bs
    BY TreeAssumption
  <2>2. Prev[a] \in Branch /\ a \in Branch /\ a # NoTip
    BY TreeAssumption DEF Branch
  <2>3. LeadsTo(ChainOf[Prev[a]], Prev[a])
    BY <1>1, <2>1, <2>2 DEF Branch
  <2>4. ChainOf[a] = Append(ChainOf[Prev[a]], a)
    BY <2>2, ChainOfEquation
  <2> QED BY <2>1, <2>3, <2>4, LeadsOn
<1> QED BY <1>1, <1>2 DEF Branch

\* What the proofs below use of chains: each block of one is preceded by its
\* own chain.
LEMMA ChainFacts ==
    ASSUME NEW b \in Branch
    PROVE  /\ ChainOf[b] \in Seq(Block)
           /\ Len(ChainOf[b]) = Height(b) + 1 /\ Height(b) \in Int /\ Height(b) >= -1
           /\ b \in Block <=> Height(b) >= 0
           /\ b \in Block => ChainOf[b][Height(b) + 1] = b
           /\ \A i \in 1 .. Height(b) + 1 :
                /\ ChainOf[b][i] \in Block
                /\ Height(ChainOf[b][i]) = i - 1
                /\ \A j \in 1 .. i : ChainOf[ChainOf[b][i]][j] = ChainOf[b][j]
<1> DEFINE c == ChainOf[b]
<1>1. LeadsTo(c, b)
  BY ChainOfLeads
<1>2. c \in Seq(Block) /\ Len(c) \in Nat
  BY <1>1, LenProperties DEF LeadsTo
<1>3. Len(c) = Height(b) + 1 /\ Height(b) \in Int /\ Height(b) >= -1
  BY <1>2 DEF Height
<1>4. b \in Block => c # <<>> /\ c[Len(c)] = b
  BY <1>1, TreeAssumption DEF LeadsTo
<1>5. b \notin Block => c = <<>>
  BY <1>1 DEF LeadsTo, Branch
<1>6. b \in Block <=> Height(b) >= 0
  <2>1. b \in Block => Len(c) # 0
    BY <1>2, <1>4, EmptySeq
  <2>2. b \notin Block => Len(c) = 0
    BY <1>5, EmptySeq
  <2> HIDE DEF c
  <2> QED BY <1>2, <1>3, <2>1, <2>2 DEF Height
<1>7. ASSUME NEW i \in 1 .. Len(c)
      PROVE  /\ c[i] \in Block
             /\ Height(c[i]) = i - 1
             /\ \A j \in 1 .. i : ChainOf[c[i]][j] = c[j]
  <2>1. c[i] \in Block /\ c[i] \in Branch /\ i \in 0 .. Len(c) /\ i # 0
    BY <1>2, ElementOfSeq DEF Branch
  <2>2. /\ Len(SubSeq(c, 1, i)) = i
        /\ \A j \in 1 .. i : SubSeq(c, 1, i)[j] = c[j]
        /\ LeadsTo(SubSeq(c, 1, i), IF i = 0 THEN NoTip ELSE c[i])
    BY <1>1, <2>1, LeadsToEach
  <2>3. LeadsTo(SubSeq(c, 1, i), c[i])
    BY <2>1, <2>2
  <2>4. ChainOf[c[i]] = SubSeq(c, 1, i)
    BY <2>1, <2>3, ChainOfLeads, LeadsUniquely
  <2> QED BY <2>1, <2>2, <2>4 DEF Height
<1> QED BY <1>2, <1>3, <1>4, <1>6, <1>7

\* A block is one higher than the one it names.
LEMMA PrevHeight ==
    ASSUME NEW b \in Block
    PROVE  Prev[b] \in Branch /\ Height(b) = Height(Prev[b]) + 1
<1>1. Prev[b] \in Branch /\ b \in Branch /\ b # NoTip
  BY TreeAssumption DEF Branch
<1>2. ChainOf[b] = Append(ChainOf[Prev[b]], b)
  BY <1>1, ChainOfEquation
<1>3. ChainOf[Prev[b]] \in Seq(Block) /\ Len(ChainOf[Prev[b]]) \in Nat
  BY <1>1, ChainFacts, LenProperties
<1>4. Len(ChainOf[b]) = Len(ChainOf[Prev[b]]) + 1
  BY <1>2, <1>3, AppendProperties
<1> QED BY <1>1, <1>3, <1>4 DEF Height

\* Before genesis the height is -1.
LEMMA NoTipHeight == NoTip \in Branch /\ Height(NoTip) = -1
<1>1. NoTip \in Branch /\ NoTip \notin Block
  BY TreeAssumption DEF Branch
<1> QED BY <1>1, ChainFacts

\* Where two chains have the same block they have the same blocks below it.
LEMMA CommonBelow ==
    ASSUME NEW a \in Branch, NEW b \in Branch,
           NEW i \in 1 .. Height(a) + 1, i <= Height(b) + 1,
           ChainOf[a][i] = ChainOf[b][i], NEW j \in 1 .. i
    PROVE  ChainOf[a][j] = ChainOf[b][j]
<1>1. Height(a) \in Int /\ Height(b) \in Int
  BY ChainFacts
<1>2. i \in 1 .. Height(b) + 1
  BY <1>1
<1>3. ChainOf[ChainOf[a][i]][j] = ChainOf[a][j]
  BY ChainFacts
<1>4. ChainOf[ChainOf[b][i]][j] = ChainOf[b][j]
  BY <1>2, ChainFacts
<1> QED BY <1>3, <1>4

-----------------------------------------------------------------------------
(* Blocks on chains *)

\* A block is on a chain exactly if the chain has it at its height.
LEMMA OnChainIs ==
    ASSUME NEW a \in Block, NEW b \in Block
    PROVE  OnChain(a, b) <=> Height(a) <= Height(b) /\ ChainOf[b][Height(a) + 1] = a
<1>1. a \in Branch /\ b \in Branch
  BY DEF Branch
<1>2. /\ ChainOf[b] \in Seq(Block) /\ Len(ChainOf[b]) = Height(b) + 1
      /\ Height(b) \in Int /\ Height(a) \in Int /\ Height(a) >= 0 /\ Height(b) >= 0
      /\ \A i \in 1 .. Height(b) + 1 : ChainOf[b][i] \in Block /\ Height(ChainOf[b][i]) = i - 1
  BY <1>1, ChainFacts
<1>3. DOMAIN ChainOf[b] = 1 .. Height(b) + 1
  BY <1>2
<1>4. ASSUME OnChain(a, b)
      PROVE  Height(a) <= Height(b) /\ ChainOf[b][Height(a) + 1] = a
  <2>1. PICK i \in 1 .. Height(b) + 1 : ChainOf[b][i] = a
    BY <1>3, <1>4 DEF OnChain
  <2>2. Height(a) = i - 1
    BY <1>2, <2>1
  <2>3. Height(a) + 1 = i /\ Height(a) <= Height(b)
    BY <1>2, <2>2
  <2> QED BY <2>1, <2>3
<1>5. ASSUME Height(a) <= Height(b), ChainOf[b][Height(a) + 1] = a
      PROVE  OnChain(a, b)
  <2>1. Height(a) + 1 \in DOMAIN ChainOf[b]
    BY <1>2, <1>3, <1>5
  <2> QED BY <1>5, <2>1 DEF OnChain
<1> QED BY <1>4, <1>5

\* Blocks have heights.
LEMMA HeightNat ==
    ASSUME NEW b \in Block
    PROVE  Height(b) \in Nat
BY ChainFacts DEF Branch

\* A block is on its own chain.
LEMMA OnChainSelf ==
    ASSUME NEW b \in Block
    PROVE  OnChain(b, b)
<1>1. Height(b) \in Nat /\ ChainOf[b][Height(b) + 1] = b
  BY ChainFacts DEF Branch
<1> QED BY <1>1, OnChainIs

\* The chain of a block on a chain is part of it.
LEMMA OnChainTrans ==
    ASSUME NEW a \in Block, NEW b \in Block, NEW c \in Block, OnChain(a, b), OnChain(b, c)
    PROVE  OnChain(a, c)
<1>1. /\ Height(a) <= Height(b) /\ ChainOf[b][Height(a) + 1] = a
      /\ Height(b) <= Height(c) /\ ChainOf[c][Height(b) + 1] = b
  BY OnChainIs
<1>2. Height(a) \in Nat /\ Height(b) \in Nat /\ Height(c) \in Nat
  BY HeightNat
<1>3. Height(b) + 1 \in 1 .. Height(c) + 1 /\ Height(a) + 1 \in 1 .. Height(b) + 1
  BY <1>1, <1>2
<1>4. \A j \in 1 .. Height(b) + 1 : ChainOf[ChainOf[c][Height(b) + 1]][j] = ChainOf[c][j]
  BY <1>3, ChainFacts DEF Branch
<1>5. ChainOf[c][Height(a) + 1] = a /\ Height(a) <= Height(c)
  BY <1>1, <1>2, <1>3, <1>4
<1> QED BY <1>5, OnChainIs

\* Of two blocks of one chain the lower one is on the chain of the other.
LEMMA SameChain ==
    ASSUME NEW a \in Block, NEW b \in Block, NEW c \in Block, OnChain(a, c), OnChain(b, c),
           Height(a) <= Height(b)
    PROVE  OnChain(a, b)
<1>1. /\ ChainOf[c][Height(a) + 1] = a
      /\ Height(b) <= Height(c) /\ ChainOf[c][Height(b) + 1] = b
  BY OnChainIs
<1>2. Height(a) \in Nat /\ Height(b) \in Nat /\ Height(c) \in Nat
  BY HeightNat
<1>3. Height(b) + 1 \in 1 .. Height(c) + 1 /\ Height(a) + 1 \in 1 .. Height(b) + 1
  BY <1>1, <1>2
<1>4. \A j \in 1 .. Height(b) + 1 : ChainOf[ChainOf[c][Height(b) + 1]][j] = ChainOf[c][j]
  BY <1>3, ChainFacts DEF Branch
<1>5. ChainOf[b][Height(a) + 1] = a
  BY <1>1, <1>3, <1>4
<1> QED BY <1>5, OnChainIs

\* A chain is its last block and the chain below it.
LEMMA OnChainStep ==
    ASSUME NEW a \in Block, NEW b \in Block
    PROVE  OnChain(a, b) <=> a = b \/ (Prev[b] # NoTip /\ OnChain(a, Prev[b]))
<1>1. Prev[b] \in Branch /\ Height(b) = Height(Prev[b]) + 1
  BY PrevHeight
<1>2. Height(a) \in Nat /\ Height(b) \in Nat /\ Height(Prev[b]) \in Int
  BY <1>1, HeightNat, ChainFacts
<1>3. ChainOf[b][Height(b) + 1] = b
  BY ChainFacts DEF Branch
<1>4. CASE Prev[b] = NoTip
  <2>1. Height(b) = 0
    BY <1>1, <1>4, NoTipHeight
  <2>2. OnChain(a, b) => Height(a) = Height(b)
    BY <1>2, <2>1, OnChainIs
  <2> QED BY <1>3, <1>4, <2>2, OnChainIs, OnChainSelf
<1>5. CASE Prev[b] # NoTip
  <2>1. Prev[b] \in Block /\ b \in Branch /\ b # NoTip
    BY <1>5, TreeAssumption DEF Branch
  <2>2. ChainOf[b] = Append(ChainOf[Prev[b]], b)
    BY <2>1, ChainOfEquation
  <2>3. ChainOf[Prev[b]] \in Seq(Block) /\ Len(ChainOf[Prev[b]]) = Height(Prev[b]) + 1
    BY <1>1, ChainFacts
  <2>4. \A i \in 1 .. Height(Prev[b]) + 1 : ChainOf[b][i] = ChainOf[Prev[b]][i]
    BY <2>1, <2>2, <2>3, AppendProperties
  <2>5. CASE Height(a) <= Height(Prev[b])
    <3>1. Height(a) + 1 \in 1 .. Height(Prev[b]) + 1 /\ Height(a) <= Height(b)
      BY <1>1, <1>2, <2>5
    <3>2. ChainOf[b][Height(a) + 1] = ChainOf[Prev[b]][Height(a) + 1]
      BY <2>4, <3>1
    <3>3. OnChain(a, b) <=> OnChain(a, Prev[b])
      BY <2>1, <2>5, <3>1, <3>2, OnChainIs
    <3>4. a # b
      BY <1>1, <1>2, <2>5
    <3> QED BY <1>5, <3>3, <3>4
  <2>6. CASE ~ (Height(a) <= Height(Prev[b]))
    <3>1. ~ OnChain(a, Prev[b])
      BY <2>1, <2>6, OnChainIs
    <3>2. OnChain(a, b) => Height(a) = Height(b)
      BY <1>1, <1>2, <2>6, OnChainIs
    <3> QED BY <1>3, <1>5, <3>1, <3>2, OnChainIs, OnChainSelf
  <2> QED BY <2>5, <2>6
<1> QED BY <1>4, <1>5
=============================================================================
