--------------------------- MODULE Services_proofs ---------------------------
(***************************************************************************)
(* What holds of the parts of the server that share no state, for any      *)
(* number of clients, requests, fee keys and headers: fee estimates, the   *)
(* merkle cache of the headers, and the costs of sessions and groups.      *)
(***************************************************************************)
EXTENDS Services, FiniteSetsExt, SequenceTheorems, FiniteSetTheorems, WellFoundedInduction, TLAPS

-----------------------------------------------------------------------------
(* Induction, and least elements *)

\* A set of numbers that is not empty has a least element.
LEMMA NatLeast ==
    ASSUME NEW T \in SUBSET Nat, T # {}
    PROVE  \E x \in T : \A y \in T : x <= y
<1> DEFINE R == OpToRel(<, Nat)
<1>1. IsWellFoundedOn(R, Nat)
  BY NatLessThanWellFounded
<1>2. \A x, y \in Nat : <<y, x>> \in R <=> y < x
  BY DEF OpToRel
<1> HIDE DEF R
<1>3. PICK x \in T : \A y \in T : ~ (<<y, x>> \in R)
  BY <1>1, WFMin
<1>4. ASSUME NEW y \in T
      PROVE  x <= y
  <2>1. x \in Nat /\ y \in Nat
    OBVIOUS
  <2>2. ~ (y < x)
    BY <1>2, <1>3, <2>1
  <2> QED BY <2>1, <2>2
<1> QED BY <1>4

\* A set that has 0, and with a number the next one, has them all.
LEMMA NatInductive ==
    ASSUME NEW S, 0 \in S, \A n \in Nat : n \in S => n + 1 \in S
    PROVE  Nat \subseteq S
<1> SUFFICES ASSUME ~ (Nat \subseteq S)
             PROVE  FALSE
  OBVIOUS
<1>1. PICK x \in Nat \ S : \A y \in Nat \ S : x <= y
  <2>1. Nat \ S \in SUBSET Nat /\ Nat \ S # {}
    OBVIOUS
  <2> QED BY <2>1, NatLeast
<1>2. x - 1 \in Nat /\ x - 1 \in S
  BY <1>1
<1> QED BY <1>1, <1>2

\* The least element of a set of integers that are not below some bound.
LEMMA IntLeast ==
    ASSUME NEW T \in SUBSET Int, T # {}, NEW low \in Int, \A t \in T : t >= low
    PROVE  \E x \in T : \A y \in T : x <= y
<1> DEFINE U == {n \in Nat : n + low \in T}
<1>1. PICK t \in T : TRUE
  OBVIOUS
<1>2. t - low \in U
  BY <1>1
<1>3. PICK m \in U : \A n \in U : m <= n
  BY <1>2, NatLeast
<1>4. ASSUME NEW y \in T
      PROVE  m + low <= y
  <2>1. y - low \in U
    OBVIOUS
  <2>2. m <= y - low
    BY <1>3, <2>1
  <2> QED BY <2>2
<1> QED BY <1>4

\* Min and Max of a set of integers that is bounded.
LEMMA MinIsLeast ==
    ASSUME NEW T \in SUBSET Int, T # {}, NEW low \in Int, \A t \in T : t >= low
    PROVE  Min(T) \in T /\ \A t \in T : Min(T) <= t
<1>1. \E x \in T : \A y \in T : x <= y
  BY IntLeast
<1> QED BY <1>1 DEF Min

\* Of two numbers.
LEMMA MinOfTwo ==
    ASSUME NEW m \in Int, NEW n \in Int
    PROVE  Min({m, n}) = IF m <= n THEN m ELSE n
<1>1. \E x \in {m, n} : \A y \in {m, n} : x <= y
  OBVIOUS
<1>2. Min({m, n}) \in {m, n} /\ \A y \in {m, n} : Min({m, n}) <= y
  BY <1>1 DEF Min
<1> QED BY <1>2

\* The greater of two numbers.
LEMMA MaxOfTwo ==
    ASSUME NEW m \in Int, NEW n \in Int
    PROVE  Max({m, n}) = IF m >= n THEN m ELSE n
<1>1. \E x \in {m, n} : \A y \in {m, n} : x >= y
  OBVIOUS
<1>2. Max({m, n}) \in {m, n} /\ \A y \in {m, n} : Max({m, n}) >= y
  BY <1>1 DEF Max
<1> QED BY <1>2

-----------------------------------------------------------------------------
(* Fee estimates *)

FeeTypes ==
    /\ tip \in Nat
    /\ cache \in [Key -> [tip : Int, fee : Int]]
    /\ fee_req \in [FeeRequest -> [at : {"idle", "waiting", "asking", "answered"}, key : Key \cup {"none"},
                                   since : Int, tip : Int, fee : Int]]
    /\ \A r \in FeeRequest : fee_req[r].at \in {"waiting", "asking"} => fee_req[r].key \in Key

\* What is cached for a tip was estimated at it or later.
CachedLater == \A k \in Key : cache[k].tip <= tip /\ cache[k].tip <= cache[k].fee

\* A request is for a tip that is not before the one at which its client asked,
\* and the rate that it got was estimated no earlier.
LaterThanAsked(q) ==
    /\ q.at = "waiting" => q.since <= tip
    /\ q.at = "asking" => q.since <= q.tip /\ q.tip <= tip
    /\ q.at = "answered" => q.since <= q.fee

AskedLater == \A r \in FeeRequest : LaterThanAsked(fee_req[r])

\* No two requests ask the daemon for the same key.
OneEach ==
    \A r, s \in FeeRequest :
        fee_req[r].at = "asking" /\ fee_req[s].at = "asking" /\ fee_req[r].key = fee_req[s].key => r = s

FeeInv == FeeTypes /\ CachedLater /\ AskedLater /\ OneEach

\* The invariant holds of an empty cache.
LEMMA FeeInit == Fees!Init => FeeInv
  BY DEF Fees!Init, Fees!NoFee, Fees!Idle, Fees!Doing, FeeInv, FeeTypes, CachedLater, AskedLater, LaterThanAsked, OneEach

\* What one request becomes keeps it, if it keeps to the rules.
LEMMA FeeRequestStep ==
    ASSUME FeeInv, NEW r \in FeeRequest,
           NEW at \in {"idle", "waiting", "asking", "answered"}, NEW k \in Key \cup {"none"},
           NEW since \in Int, NEW t \in Int, NEW fee \in Int,
           fee_req' = [fee_req EXCEPT ![r] = Fees!Doing(at, k, since, t, fee)], UNCHANGED tip,
           cache' \in [Key -> [tip : Int, fee : Int]], CachedLater',
           at \in {"waiting", "asking"} => k \in Key,
           at = "waiting" => since <= tip,
           at = "asking" => since <= t /\ t <= tip,
           at = "answered" => since <= fee,
           at = "asking" => \A s \in FeeRequest \ {r} : ~ (fee_req[s].at = "asking" /\ fee_req[s].key = k)
    PROVE  FeeInv'
<1> DEFINE q == Fees!Doing(at, k, since, t, fee)
<1>1. /\ q \in [at : {"idle", "waiting", "asking", "answered"}, key : Key \cup {"none"},
                since : Int, tip : Int, fee : Int]
      /\ q.at = at /\ q.key = k /\ q.since = since /\ q.tip = t /\ q.fee = fee
  BY DEF Fees!Doing
<1>2. fee_req' = [fee_req EXCEPT ![r] = q]
  OBVIOUS
<1> HIDE DEF q
<1>3. /\ fee_req'[r] = q /\ \A s \in FeeRequest \ {r} : fee_req'[s] = fee_req[s]
      /\ fee_req' \in [FeeRequest -> [at : {"idle", "waiting", "asking", "answered"}, key : Key \cup {"none"},
                                      since : Int, tip : Int, fee : Int]]
  BY <1>1, <1>2 DEF FeeInv, FeeTypes
<1>4. OneEach'
  BY <1>1, <1>3 DEF FeeInv, OneEach
<1>5. AskedLater'
  BY <1>1, <1>3 DEF FeeInv, AskedLater, LaterThanAsked
<1>6. FeeTypes'
  BY <1>1, <1>3 DEF FeeInv, FeeTypes
<1> QED BY <1>4, <1>5, <1>6 DEF FeeInv

\* A request, its lock, an answer, a refusal and a new tip keep it.
LEMMA FeeStep ==
    ASSUME FeeInv, Fees!Next
    PROVE  FeeInv'
<1>a. /\ {"idle", "waiting", "asking", "answered"} = {"answered", "asking", "waiting", "idle"} /\ -1 \in Int
      /\ "waiting" # "asking" /\ "waiting" # "answered" /\ "asking" # "answered"
      /\ "idle" \notin {"waiting", "asking", "answered"}
      /\ \A i \in Int : i <= i
  OBVIOUS
<1>1. CASE Fees!NewTip
  BY <1>1 DEF Fees!NewTip, FeeInv, FeeTypes, CachedLater, AskedLater, LaterThanAsked, OneEach
<1>2. ASSUME NEW r \in FeeRequest, NEW k \in Key, Fees!Ask(r, k)
      PROVE  FeeInv'
  <2>1. /\ UNCHANGED <<tip, cache>> /\ tip \in Int /\ k \in Key \cup {"none"} /\ cache[k].tip \in Int /\ cache[k].fee \in Int
        /\ cache' \in [Key -> [tip : Int, fee : Int]] /\ CachedLater'
    BY <1>2 DEF Fees!Ask, FeeInv, FeeTypes, CachedLater
  <2>2. CASE cache[k].tip = tip
    <3>1. fee_req' = [fee_req EXCEPT ![r] = Fees!Doing("answered", k, tip, -1, cache[k].fee)]
      BY <1>2, <2>2 DEF Fees!Ask
    <3>2. tip <= cache[k].fee
      BY <2>2 DEF FeeInv, CachedLater
    <3> QED BY <2>1, <3>1, <3>2, <1>a, FeeRequestStep
  <2>3. CASE cache[k].tip # tip
    <3>1. fee_req' = [fee_req EXCEPT ![r] = Fees!Doing("waiting", k, tip, -1, -1)]
      BY <1>2, <2>3 DEF Fees!Ask
    <3> QED BY <2>1, <3>1, <1>a, FeeRequestStep
  <2> QED BY <2>2, <2>3
<1>3. ASSUME NEW r \in FeeRequest, Fees!Acquire(r)
      PROVE  FeeInv'
  <2> DEFINE k == fee_req[r].key
             since == fee_req[r].since
  <2>1. /\ UNCHANGED <<tip, cache>> /\ tip \in Int /\ k \in Key /\ k \in Key \cup {"none"} /\ cache[k].tip \in Int /\ cache[k].fee \in Int
        /\ cache' \in [Key -> [tip : Int, fee : Int]] /\ CachedLater'
        /\ since \in Int /\ since <= tip
    BY <1>3 DEF Fees!Acquire, FeeInv, FeeTypes, CachedLater, AskedLater, LaterThanAsked
  <2>2. CASE cache[k].tip = tip
    <3>1. fee_req' = [fee_req EXCEPT ![r] = Fees!Doing("answered", k, since, -1, cache[k].fee)]
      BY <1>3, <2>2 DEF Fees!Acquire, Fees!Answered
    <3>2. since <= cache[k].fee
      BY <2>1, <2>2 DEF FeeInv, CachedLater
    <3> HIDE DEF k, since
    <3> QED BY <2>1, <3>1, <3>2, <1>a, FeeRequestStep
  <2>3. CASE cache[k].tip # tip
    <3>1. fee_req' = [fee_req EXCEPT ![r] = Fees!Doing("asking", k, since, tip, -1)]
      BY <1>3, <2>3 DEF Fees!Acquire
    <3>2. \A s \in FeeRequest \ {r} : ~ (fee_req[s].at = "asking" /\ fee_req[s].key = k)
      BY <1>3 DEF Fees!Acquire, Fees!Locked
    <3> HIDE DEF k, since
    <3> QED BY <2>1, <3>1, <3>2, <1>a, FeeRequestStep
  <2> QED BY <2>2, <2>3
<1>4. ASSUME NEW r \in FeeRequest, Fees!Reply(r)
      PROVE  FeeInv'
  <2> DEFINE k == fee_req[r].key
             t == fee_req[r].tip
  <2>1. /\ k \in Key /\ k \in Key \cup {"none"} /\ t \in Int /\ fee_req[r].since \in Int /\ tip \in Nat
        /\ fee_req[r].since <= t /\ t <= tip
    BY <1>4 DEF Fees!Reply, FeeInv, FeeTypes, AskedLater, LaterThanAsked
  <2>2. PICK fee \in t .. tip :
            /\ cache' = [cache EXCEPT ![k] = [tip |-> t, fee |-> fee]]
            /\ fee_req' = [fee_req EXCEPT ![r] = Fees!Doing("answered", k, fee_req[r].since, -1, fee)]
    BY <1>4 DEF Fees!Reply, Fees!KeptFor, Fees!Answered
  <2>3. cache' \in [Key -> [tip : Int, fee : Int]] /\ UNCHANGED tip
    BY <1>4, <2>1, <2>2 DEF Fees!Reply, FeeInv, FeeTypes
  <2>4. CachedLater'
    BY <2>1, <2>2, <2>3 DEF FeeInv, FeeTypes, CachedLater
  <2>5. fee \in Int /\ fee_req[r].since <= fee
    BY <2>1
  <2> QED BY <2>1, <2>2, <2>3, <2>4, <2>5, <1>a, FeeRequestStep
<1>5. ASSUME NEW r \in FeeRequest, Fees!Fail(r)
      PROVE  FeeInv'
  <2>0. Fees!Idle = Fees!Doing("idle", "none", -1, -1, -1) /\ "none" \in Key \cup {"none"}
    BY DEF Fees!Idle
  <2>1. /\ UNCHANGED <<tip, cache>> /\ fee_req' = [fee_req EXCEPT ![r] = Fees!Doing("idle", "none", -1, -1, -1)]
        /\ cache' \in [Key -> [tip : Int, fee : Int]] /\ CachedLater'
    BY <1>5, <2>0 DEF Fees!Fail, FeeInv, FeeTypes, CachedLater
  <2> QED BY <2>0, <2>1, <1>a, FeeRequestStep
<1> QED BY <1>1, <1>2, <1>3, <1>4, <1>5 DEF Fees!Next

-----------------------------------------------------------------------------
(* Powers of two *)

IsPower(f) == f = [d \in Nat |-> IF d = 0 THEN 1 ELSE 2 * f[d - 1]]

\* There is a function that doubles: one up to each number, and any two agree.
LEMMA PowerExists == \E f : IsPower(f)
<1> DEFINE Upto(f, n) == /\ f \in [0 .. n -> Nat]
                         /\ \A d \in 0 .. n : f[d] = IF d = 0 THEN 1 ELSE 2 * f[d - 1]
           S == {n \in Nat : \E f : Upto(f, n)}
<1>1. 0 \in S
  <2>1. Upto([d \in 0 .. 0 |-> 1], 0)
    OBVIOUS
  <2> HIDE DEF Upto
  <2> QED BY <2>1
<1>2. ASSUME NEW n \in Nat, n \in S
      PROVE  n + 1 \in S
  <2>1. PICK f : Upto(f, n)
    BY <1>2
  <2> DEFINE g == [d \in 0 .. n + 1 |-> IF d = n + 1 THEN 2 * f[n] ELSE f[d]]
  <2>2. g \in [0 .. n + 1 -> Nat]
    <3>1. f[n] \in Nat /\ \A d \in 0 .. n + 1 : d # n + 1 => d \in 0 .. n /\ f[d] \in Nat
      BY <2>1
    <3> QED BY <3>1
  <2>3. ASSUME NEW d \in 0 .. n + 1
        PROVE  g[d] = IF d = 0 THEN 1 ELSE 2 * g[d - 1]
    <3>1. CASE d = n + 1
      <4>1. d # 0 /\ d - 1 = n /\ n \in 0 .. n + 1 /\ n # n + 1
        BY <3>1
      <4>2. g[d] = 2 * f[n] /\ g[n] = f[n]
        BY <3>1, <4>1
      <4> QED BY <4>1, <4>2
    <3>2. CASE d # n + 1 /\ d # 0
      <4>1. d \in 0 .. n /\ d - 1 \in 0 .. n + 1 /\ d - 1 # n + 1
        BY <3>2
      <4>2. g[d] = f[d] /\ g[d - 1] = f[d - 1] /\ f[d] = 2 * f[d - 1]
        BY <2>1, <3>2, <4>1
      <4> QED BY <4>2, <3>2
    <3>3. CASE d = 0
      <4>1. d \in 0 .. n /\ d # n + 1
        BY <3>3
      <4> QED BY <2>1, <3>3, <4>1
    <3> QED BY <3>1, <3>2, <3>3
  <2>4. Upto(g, n + 1)
    BY <2>2, <2>3
  <2> HIDE DEF Upto, g
  <2> QED BY <2>4
<1> HIDE DEF S
<1>3. Nat \subseteq S
  BY <1>1, <1>2, NatInductive
<1> DEFINE F(n) == CHOOSE f : Upto(f, n)
<1>4. ASSUME NEW n \in Nat
      PROVE  Upto(F(n), n)
  <2>1. \E f : Upto(f, n)
    BY <1>3 DEF S
  <2> HIDE DEF Upto
  <2> QED BY <2>1
<1> HIDE DEF F
<1> DEFINE A == {d \in Nat : \A n \in Nat : d <= n => F(n)[d] = F(d)[d]}
<1>5. 0 \in A
  <2>1. ASSUME NEW n \in Nat
        PROVE  F(n)[0] = 1
    <3>1. \A d \in 0 .. n : F(n)[d] = IF d = 0 THEN 1 ELSE 2 * F(n)[d - 1]
      BY <1>4
    <3>2. 0 \in 0 .. n
      OBVIOUS
    <3> QED BY <3>1, <3>2
  <2> QED BY <2>1
<1>6. ASSUME NEW d \in Nat, d \in A
      PROVE  d + 1 \in A
  <2>1. ASSUME NEW n \in Nat, d + 1 <= n
        PROVE  F(n)[d + 1] = 2 * F(d)[d]
    <3>1. d + 1 \in 0 .. n /\ d + 1 # 0 /\ (d + 1) - 1 = d /\ d <= n
      BY <2>1
    <3>2. F(n)[d + 1] = 2 * F(n)[d]
      BY <1>4, <3>1
    <3>3. F(n)[d] = F(d)[d]
      BY <1>6, <3>1
    <3> QED BY <3>2, <3>3
  <2>2. F(d + 1)[d + 1] = 2 * F(d)[d]
    BY <2>1
  <2> QED BY <2>1, <2>2
<1> HIDE DEF A
<1>7. Nat \subseteq A
  BY <1>5, <1>6, NatInductive
<1> DEFINE p == [d \in Nat |-> F(d)[d]]
<1>8. ASSUME NEW d \in Nat
      PROVE  p[d] = IF d = 0 THEN 1 ELSE 2 * p[d - 1]
  <2>1. CASE d = 0
    BY <1>4, <2>1
  <2>2. CASE d # 0
    <3>1. d - 1 \in Nat /\ d - 1 <= d /\ d \in 0 .. d
      BY <2>2
    <3>2. F(d)[d] = 2 * F(d)[d - 1]
      BY <1>4, <2>2, <3>1
    <3>3. F(d)[d - 1] = F(d - 1)[d - 1]
      BY <1>7, <3>1 DEF A
    <3> QED BY <2>2, <3>1, <3>2, <3>3
  <2> QED BY <2>1, <2>2
<1>9. p = [d \in Nat |-> p[d]]
  OBVIOUS
<1> HIDE DEF p
<1>10. IsPower(p)
  BY <1>8, <1>9 DEF IsPower
<1> QED BY <1>10

\* The length of a segment is positive, and deep enough trees have as many leaves
\* as one likes; that is all their use relies on.
LEMMA PowerPositive == \A d \in Nat : Proofs!PowerOfTwo[d] \in Nat \ {0} /\ Proofs!PowerOfTwo[d] > d
<1>1. IsPower(Proofs!PowerOfTwo)
  <2>1. Proofs!PowerOfTwo = CHOOSE f : IsPower(f)
    BY DEF Proofs!PowerOfTwo, IsPower
  <2> QED BY <2>1, PowerExists
<1> DEFINE S == {d \in Nat : Proofs!PowerOfTwo[d] \in Nat \ {0} /\ Proofs!PowerOfTwo[d] > d}
<1>2. /\ Proofs!PowerOfTwo[0] = 1
      /\ \A d \in Nat : Proofs!PowerOfTwo[d + 1] = 2 * Proofs!PowerOfTwo[d]
  <2> DEFINE f == Proofs!PowerOfTwo
  <2> HIDE DEF f
  <2>1. IsPower(f)
    BY <1>1 DEF f
  <2>2. f[0] = 1 /\ \A d \in Nat : d + 1 \in Nat /\ d + 1 # 0 /\ (d + 1) - 1 = d /\ f[d + 1] = 2 * f[(d + 1) - 1]
    BY <2>1 DEF IsPower
  <2> QED BY <2>2 DEF f
<1>3. 0 \in S /\ \A d \in Nat : d \in S => d + 1 \in S
  BY <1>2
<1> HIDE DEF S
<1>4. Nat \subseteq S
  BY <1>3, NatInductive
<1> QED BY <1>4 DEF S

-----------------------------------------------------------------------------
(* Division *)

\* Multiples of a positive number.
LEMMA Multiples ==
    ASSUME NEW size \in Nat \ {0}, NEW a \in Nat, NEW b \in Nat
    PROVE  /\ a * size \in Nat /\ (a + 1) * size = a * size + size
           /\ a <= b => a * size <= b * size
           /\ a < b => a * size + size <= b * size
<1>1. a * size \in Nat /\ (a + 1) * size = a * size + size
  OBVIOUS
<1>2. ASSUME a <= b
      PROVE  a * size <= b * size
  <2> DEFINE d == b - a
  <2>1. d \in Nat /\ b = a + d
    BY <1>2
  <2> HIDE DEF d
  <2>2. d * size \in Nat /\ (a + d) * size = a * size + d * size
    BY <2>1
  <2> QED BY <1>1, <2>1, <2>2
<1>3. ASSUME a < b
      PROVE  a * size + size <= b * size
  <2> DEFINE d == b - (a + 1)
  <2>1. d \in Nat /\ b = (a + 1) + d
    BY <1>3
  <2> HIDE DEF d
  <2>2. d * size \in Nat /\ ((a + 1) + d) * size = (a + 1) * size + d * size
    BY <2>1
  <2> QED BY <1>1, <2>1, <2>2
<1> QED BY <1>1, <1>2, <1>3

\* Division rounds down.
LEMMA Division ==
    ASSUME NEW size \in Nat \ {0}, NEW n \in Nat
    PROVE  /\ n \div size \in Nat
           /\ (n \div size) * size <= n /\ n < (n \div size) * size + size
  OBVIOUS

\* What it rounds to is determined.
LEMMA DivisionIs ==
    ASSUME NEW size \in Nat \ {0}, NEW n \in Nat, NEW c \in Nat, c * size <= n, n < c * size + size
    PROVE  n \div size = c
<1> DEFINE q == n \div size
<1>1. q \in Nat /\ q * size <= n /\ n < q * size + size
  BY Division
<1> HIDE DEF q
<1>2. q * size \in Nat /\ c * size \in Nat
  BY <1>1, Multiples
<1>3. q < c => q * size + size <= c * size
  BY <1>1, Multiples
<1>4. c < q => c * size + size <= q * size
  BY <1>1, Multiples
<1>5. q = c
  BY <1>1, <1>2, <1>3, <1>4
<1> QED BY <1>5 DEF q

-----------------------------------------------------------------------------
(* The segments of a level *)

\* What a part of a sequence is.
LEMMA Part ==
    ASSUME NEW S, NEW s \in Seq(S), NEW a \in Nat, NEW b \in Nat, a <= b, b <= Len(s)
    PROVE  /\ SubSeq(s, a + 1, b) \in Seq(S) /\ Len(SubSeq(s, a + 1, b)) = b - a
           /\ \A i \in 1 .. b - a : SubSeq(s, a + 1, b)[i] = s[a + i]
<1>1. Len(s) \in Nat /\ \A i \in 1 .. Len(s) : s[i] \in S
  OBVIOUS
<1>2. /\ Len(SubSeq(s, a + 1, b)) = b - a
      /\ \A i \in 1 .. b - a : SubSeq(s, a + 1, b)[i] = s[a + i]
  BY <1>1, SubSeqProperties
<1>3. SubSeq(s, a + 1, b) \in Seq(S)
  BY <1>1, SubSeqProperties
<1> QED BY <1>2, <1>3

\* Sequences with the same items are equal.
LEMMA SameItems ==
    ASSUME NEW S, NEW s \in Seq(S), NEW t \in Seq(S), Len(s) = Len(t), \A i \in 1 .. Len(s) : s[i] = t[i]
    PROVE  s = t
  BY SeqEqual

\* Two sequences, one after the other.
LEMMA Joined ==
    ASSUME NEW S, NEW s \in Seq(S), NEW t \in Seq(S)
    PROVE  /\ s \o t \in Seq(S) /\ Len(s \o t) = Len(s) + Len(t)
           /\ \A i \in 1 .. Len(s) + Len(t) : (s \o t)[i] = IF i <= Len(s) THEN s[i] ELSE t[i - Len(s)]
  OBVIOUS

\* A part of a part.
LEMMA PartOfPart ==
    ASSUME NEW S, NEW s \in Seq(S), NEW a \in Nat, NEW b \in Nat, a <= b, b <= Len(s),
           NEW c \in Nat, NEW d \in Nat, c <= d, d <= b - a
    PROVE  SubSeq(SubSeq(s, a + 1, b), c + 1, d) = SubSeq(s, (a + c) + 1, a + d)
<1> DEFINE t == SubSeq(s, a + 1, b)
           u == SubSeq(t, c + 1, d)
           v == SubSeq(s, (a + c) + 1, a + d)
<1>1. Len(s) \in Nat
  OBVIOUS
<1>2. /\ t \in Seq(S) /\ Len(t) = b - a
      /\ \A i \in 1 .. b - a : t[i] = s[a + i]
  BY <1>1, Part
<1>3. /\ a + c \in Nat /\ a + d \in Nat /\ a + c <= a + d /\ a + d <= Len(s)
      /\ (a + d) - (a + c) = d - c
  BY <1>1
<1>4. /\ v \in Seq(S) /\ Len(v) = d - c
      /\ \A i \in 1 .. d - c : v[i] = s[(a + c) + i]
  <2> HIDE DEF t, u
  <2>1. /\ v \in Seq(S) /\ Len(v) = (a + d) - (a + c)
        /\ \A i \in 1 .. (a + d) - (a + c) : v[i] = s[(a + c) + i]
    BY <1>3, Part
  <2> HIDE DEF v
  <2> QED BY <1>3, <2>1
<1> HIDE DEF t, v
<1>5. /\ u \in Seq(S) /\ Len(u) = d - c
      /\ \A i \in 1 .. d - c : u[i] = t[c + i]
  BY <1>2, Part
<1> HIDE DEF u
<1>6. ASSUME NEW i \in 1 .. d - c
      PROVE  u[i] = v[i]
  <2>1. c + i \in 1 .. b - a /\ a + (c + i) = (a + c) + i
    OBVIOUS
  <2> QED BY <1>2, <1>4, <1>5, <2>1
<1>7. u = v
  BY <1>4, <1>5, <1>6, SameItems
<1> QED BY <1>7 DEF u, v, t

SegmentsOf(s, size) ==
    [i \in 1 .. (Len(s) + size - 1) \div size |-> SubSeq(s, (i - 1) * size + 1, Min({i * size, Len(s)}))]

\* How many segments there are.
LEMMA SegmentCount ==
    ASSUME NEW size \in Nat \ {0}, NEW n \in Nat
    PROVE  /\ (n + size - 1) \div size \in Nat
           /\ \A i \in Nat : i < (n + size - 1) \div size <=> i * size < n
<1> DEFINE a == n + size - 1
           k == a \div size
<1>1. a \in Nat
  OBVIOUS
<1> HIDE DEF a
<1>2. k \in Nat /\ k * size <= a /\ a < k * size + size
  BY <1>1, Division
<1> HIDE DEF k
<1>3. ASSUME NEW i \in Nat
      PROVE  i < k <=> i * size < n
  <2>1. i * size \in Nat /\ k * size \in Nat
    BY <1>2, Multiples
  <2>2. i < k => i * size + size <= k * size
    BY <1>2, Multiples
  <2>3. k <= i => k * size <= i * size
    BY <1>2, Multiples
  <2> QED BY <1>2, <2>1, <2>2, <2>3 DEF a
<1> QED BY <1>2, <1>3 DEF k, a

\* The segments of a sequence are its parts; only the last may be short.
LEMMA SegmentsFacts ==
    ASSUME NEW S, NEW s \in Seq(S), NEW size \in Nat \ {0}
    PROVE  /\ SegmentsOf(s, size) \in Seq(Seq(S))
           /\ \A i \in Nat : i < Len(SegmentsOf(s, size)) <=> i * size < Len(s)
           /\ \A i \in 1 .. Len(SegmentsOf(s, size)) :
                 SegmentsOf(s, size)[i]
                 = SubSeq(s, (i - 1) * size + 1, IF i * size <= Len(s) THEN i * size ELSE Len(s))
<1> DEFINE n == Len(s)
           k == (n + size - 1) \div size
           L == SegmentsOf(s, size)
           e(i) == IF i * size <= n THEN i * size ELSE n
<1>1. n \in Nat
  OBVIOUS
<1>2. k \in Nat /\ \A i \in Nat : i < k <=> i * size < n
  BY <1>1, SegmentCount
<1>3. L = [i \in 1 .. k |-> SubSeq(s, (i - 1) * size + 1, Min({i * size, n}))]
  BY DEF SegmentsOf
<1>4. ASSUME NEW i \in 1 .. k
      PROVE  SubSeq(s, (i - 1) * size + 1, Min({i * size, n})) = SubSeq(s, (i - 1) * size + 1, e(i))
             /\ SubSeq(s, (i - 1) * size + 1, e(i)) \in Seq(S)
  <2> HIDE DEF n, k, L
  <2>1. i - 1 \in Nat /\ i \in Nat /\ i - 1 < k
    BY <1>2
  <2>2. (i - 1) * size < n /\ (i - 1) * size \in Nat /\ i * size \in Nat
    BY <1>2, <2>1, Multiples
  <2>3. (i - 1) * size <= i * size
    BY <2>1, Multiples
  <2>4. Min({i * size, n}) = e(i)
    BY <1>1, <2>2, MinOfTwo
  <2>5. e(i) \in Nat /\ (i - 1) * size <= e(i) /\ e(i) <= n
    BY <1>1, <2>2, <2>3
  <2> HIDE DEF e
  <2>6. SubSeq(s, (i - 1) * size + 1, e(i)) \in Seq(S)
    BY <2>2, <2>5, Part DEF n
  <2> QED BY <2>4, <2>6
<1> HIDE DEF n, k, L
<1>5. L \in Seq(Seq(S)) /\ Len(L) = k
  <2> DEFINE g(i) == SubSeq(s, (i - 1) * size + 1, Min({i * size, n}))
             T == Seq(S)
  <2>1. \A i \in 1 .. k : g(i) \in T
    BY <1>4
  <2>2. L = [i \in 1 .. k |-> g(i)]
    BY <1>3
  <2> HIDE DEF g, T
  <2>3. L \in Seq(T) /\ Len(L) = k
    BY <1>2, <2>1, <2>2
  <2> QED BY <2>3 DEF T
<1>6. \A i \in 1 .. k : L[i] = SubSeq(s, (i - 1) * size + 1, e(i))
  BY <1>3, <1>4
<1> QED BY <1>2, <1>5, <1>6 DEF L, n

\* _extend_to, _level_for and truncate: the first c segments of a level, and those
\* of the hashes that come after them, are the level of all.
LEMMA Rebuilt ==
    ASSUME NEW S, NEW s \in Seq(S), NEW size \in Nat \ {0}, NEW m \in 0 .. Len(s), NEW n \in 0 .. Len(s),
           NEW c \in Nat, c * size <= m, c * size <= n
    PROVE  /\ c <= Len(SegmentsOf(SubSeq(s, 1, m), size))
           /\ SubSeq(SegmentsOf(SubSeq(s, 1, m), size), 1, c) \o SegmentsOf(SubSeq(s, c * size + 1, n), size)
              = SegmentsOf(SubSeq(s, 1, n), size)
<1> DEFINE b == c * size
           p == SubSeq(s, 1, m)
           q == SubSeq(s, b + 1, n)
           r == SubSeq(s, 1, n)
           LP == SegmentsOf(p, size)
           LQ == SegmentsOf(q, size)
           LR == SegmentsOf(r, size)
           T == Seq(S)
           end(i, len) == IF i * size <= len THEN i * size ELSE len
<1>1. b \in Nat /\ m \in Nat /\ n \in Nat /\ Len(s) \in Nat /\ m <= Len(s) /\ n <= Len(s) /\ b <= m /\ b <= n
  BY Multiples
<1>2. /\ p \in Seq(S) /\ Len(p) = m
      /\ r \in Seq(S) /\ Len(r) = n
  <2>1. \A l \in 0 .. Len(s) : SubSeq(s, 0 + 1, l) \in Seq(S) /\ Len(SubSeq(s, 0 + 1, l)) = l - 0
    BY <1>1, Part
  <2>2. 0 + 1 = 1 /\ m - 0 = m /\ n - 0 = n
    BY <1>1
  <2> QED BY <2>1, <2>2
<1>3. q \in Seq(S) /\ Len(q) = n - b
  <2> HIDE DEF b
  <2> QED BY <1>1, Part
<1> HIDE DEF p, q, r
<1>4. /\ LP \in Seq(T)
      /\ \A i \in Nat : i < Len(LP) <=> i * size < m
      /\ \A i \in 1 .. Len(LP) : LP[i] = SubSeq(p, (i - 1) * size + 1, end(i, m))
  BY <1>2, SegmentsFacts
<1>5. /\ LQ \in Seq(T)
      /\ \A i \in Nat : i < Len(LQ) <=> i * size < n - b
      /\ \A i \in 1 .. Len(LQ) : LQ[i] = SubSeq(q, (i - 1) * size + 1, end(i, n - b))
  BY <1>3, SegmentsFacts
<1>6. /\ LR \in Seq(T)
      /\ \A i \in Nat : i < Len(LR) <=> i * size < n
      /\ \A i \in 1 .. Len(LR) : LR[i] = SubSeq(r, (i - 1) * size + 1, end(i, n))
  BY <1>2, SegmentsFacts
<1> HIDE DEF LP, LQ, LR
<1>7. Len(LP) \in Nat /\ Len(LQ) \in Nat /\ Len(LR) \in Nat
  <2> HIDE DEF T
  <2> QED BY <1>4, <1>5, <1>6
<1>8. \A j \in Nat : j * size \in Nat /\ (c + j) * size = b + j * size /\ (j + 1) * size = j * size + size
  <2> TAKE j \in Nat
  <2> QED OBVIOUS
<1>9. c > 0 => c - 1 \in Nat /\ (c - 1) * size < b
  <2> SUFFICES ASSUME c > 0
               PROVE  c - 1 \in Nat /\ (c - 1) * size < b
    OBVIOUS
  <2> DEFINE d == c - 1
  <2>1. d \in Nat /\ c = d + 1
    OBVIOUS
  <2> HIDE DEF d
  <2>2. d * size \in Nat /\ (d + 1) * size = d * size + size
    BY <2>1, <1>8
  <2> QED BY <2>1, <2>2 DEF d
<1>10. c <= Len(LP) /\ c <= Len(LR)
  <2>1. CASE c = 0
    BY <2>1, <1>7
  <2>2. CASE c > 0
    <3> DEFINE d == c - 1
    <3>1. d \in Nat /\ d * size < m /\ d * size < n /\ c = d + 1
      BY <2>2, <1>1, <1>8, <1>9
    <3> HIDE DEF d, b
    <3>2. d < Len(LP) /\ d < Len(LR)
      BY <1>4, <1>6, <3>1
    <3> QED BY <1>7, <3>1, <3>2
  <2> QED BY <2>1, <2>2
<1> HIDE DEF b
<1>11. \A j \in Nat : j < Len(LQ) <=> c + j < Len(LR)
  <2> TAKE j \in Nat
  <2>1. j * size \in Nat /\ c + j \in Nat /\ (c + j) * size = b + j * size
    BY <1>8
  <2> QED BY <1>1, <1>5, <1>6, <2>1
<1>12. Len(LR) = c + Len(LQ)
  <2>1. Len(LQ) < Len(LQ) <=> c + Len(LQ) < Len(LR)
    BY <1>7, <1>11
  <2>2. Len(LR) - c \in Nat /\ (Len(LR) - c < Len(LQ) <=> c + (Len(LR) - c) < Len(LR))
    <3>1. Len(LR) - c \in Nat
      BY <1>7, <1>10
    <3> QED BY <3>1, <1>11
  <2> QED BY <1>7, <1>10, <2>1, <2>2
\* The segments that are kept.
<1>13. ASSUME NEW i \in 1 .. c
       PROVE  LP[i] = LR[i]
  <2> DEFINE h == i - 1
  <2>1. h \in Nat /\ i \in Nat /\ i = h + 1 /\ i <= c /\ i \in 1 .. Len(LP) /\ i \in 1 .. Len(LR)
    BY <1>7, <1>10
  <2> HIDE DEF h
  <2>2. h * size \in Nat /\ i * size \in Nat /\ i * size = h * size + size /\ i * size <= b
    <3>1. h * size \in Nat /\ i * size \in Nat /\ (h + 1) * size = h * size + size
      BY <1>8, <2>1
    <3>2. i * size <= c * size
      BY <2>1, Multiples
    <3> QED BY <2>1, <3>1, <3>2 DEF b
  <2>3. LP[i] = SubSeq(p, h * size + 1, i * size) /\ LR[i] = SubSeq(r, h * size + 1, i * size)
    <3>1. end(i, m) = i * size /\ end(i, n) = i * size
      BY <1>1, <2>2
    <3>2. LP[i] = SubSeq(p, (i - 1) * size + 1, end(i, m)) /\ LR[i] = SubSeq(r, (i - 1) * size + 1, end(i, n))
      BY <1>4, <1>6, <2>1
    <3> HIDE DEF end
    <3> QED BY <3>1, <3>2 DEF h
  <2> DEFINE x == h * size
             y == i * size
  <2>4. x \in Nat /\ y \in Nat /\ x <= y /\ y <= m /\ y <= n
    BY <1>1, <2>2
  <2> HIDE DEF x, y
  <2>5. \A l \in 0 .. Len(s) : y <= l => SubSeq(SubSeq(s, 0 + 1, l), x + 1, y) = SubSeq(s, (0 + x) + 1, 0 + y)
    <3> TAKE l \in 0 .. Len(s)
    <3>1. l \in Nat /\ 0 <= l /\ l <= Len(s) /\ l - 0 = l
      BY <1>1
    <3>2. y <= l => y <= l - 0
      BY <3>1
    <3> QED BY <2>4, <3>1, <3>2, PartOfPart
  <2>6. 0 + 1 = 1
    OBVIOUS
  <2>7. SubSeq(p, x + 1, y) = SubSeq(r, x + 1, y)
    BY <1>1, <2>4, <2>5, <2>6 DEF p, r
  <2> QED BY <2>3, <2>7 DEF x, y
\* Those that are new.
<1>14. ASSUME NEW j \in 1 .. Len(LQ)
       PROVE  LQ[j] = LR[c + j]
  <2> DEFINE h == j - 1
  <2>1. h \in Nat /\ j \in Nat /\ j = h + 1 /\ h < Len(LQ) /\ c + j \in 1 .. Len(LR) /\ (c + j) - 1 = c + h
    BY <1>7, <1>12
  <2> HIDE DEF h
  <2> DEFINE x == h * size
             y == end(j, n - b)
  <2>2. /\ x \in Nat /\ x < n - b /\ (c + h) * size = b + x
        /\ j * size \in Nat /\ j * size = x + size /\ (c + j) * size = b + j * size
    BY <1>5, <1>8, <2>1
  <2>3. y \in Nat /\ x <= y /\ y <= n - b /\ end(c + j, n) = b + y
    <3> DEFINE z == j * size
    <3>1. z \in Nat /\ z = x + size /\ (c + j) * size = b + z
      BY <2>2
    <3> HIDE DEF x, z
    <3> QED BY <1>1, <2>2, <3>1 DEF z
  <2>4. LQ[j] = SubSeq(q, x + 1, y)
    BY <1>5, <2>1
  <2>5. LR[c + j] = SubSeq(r, (b + x) + 1, b + y)
    <3>1. LR[c + j] = SubSeq(r, ((c + j) - 1) * size + 1, end(c + j, n))
      BY <1>6, <2>1
    <3> HIDE DEF end, x, y
    <3> QED BY <2>1, <2>2, <2>3, <3>1
  <2> HIDE DEF x, y
  <2>6. SubSeq(q, x + 1, y) = SubSeq(s, (b + x) + 1, b + y)
    BY <1>1, <2>2, <2>3, PartOfPart DEF q
  <2>7. SubSeq(r, (b + x) + 1, b + y) = SubSeq(s, (b + x) + 1, b + y)
    <3> DEFINE u == b + x
               v == b + y
    <3>1. u \in Nat /\ v \in Nat /\ u <= v /\ v <= n - 0 /\ 0 <= n /\ 0 + 1 = 1 /\ 0 + u = u /\ 0 + v = v
      BY <1>1, <2>2, <2>3
    <3> HIDE DEF u, v
    <3>2. SubSeq(SubSeq(s, 0 + 1, n), u + 1, v) = SubSeq(s, (0 + u) + 1, 0 + v)
      BY <1>1, <3>1, PartOfPart
    <3>3. SubSeq(r, u + 1, v) = SubSeq(s, u + 1, v)
      BY <3>1, <3>2 DEF r
    <3> QED BY <3>3 DEF u, v
  <2> QED BY <2>4, <2>5, <2>6, <2>7
<1> DEFINE K == SubSeq(LP, 1, c)
           N == K \o LQ
<1> HIDE DEF T
<1>15. K \in Seq(T) /\ Len(K) = c /\ \A i \in 1 .. c : K[i] = LP[i]
  <2>1. 0 \in Nat /\ 0 <= c /\ 0 + 1 = 1 /\ c - 0 = c /\ \A i \in 1 .. c : 0 + i = i
    OBVIOUS
  <2>2. SubSeq(LP, 0 + 1, c) \in Seq(T) /\ Len(SubSeq(LP, 0 + 1, c)) = c - 0
        /\ \A i \in 1 .. c - 0 : SubSeq(LP, 0 + 1, c)[i] = LP[0 + i]
    BY <1>4, <1>10, <2>1, Part
  <2> QED BY <2>1, <2>2
<1> HIDE DEF K
<1>16. N \in Seq(T) /\ Len(N) = c + Len(LQ)
       /\ \A i \in 1 .. c + Len(LQ) : N[i] = IF i <= c THEN K[i] ELSE LQ[i - c]
  BY <1>5, <1>15, Joined
<1> HIDE DEF N
<1>17. ASSUME NEW i \in 1 .. Len(LR)
       PROVE  N[i] = LR[i]
  <2>1. i \in 1 .. c + Len(LQ)
    BY <1>12
  <2>2. CASE i <= c
    BY <1>13, <1>15, <1>16, <2>1, <2>2
  <2>3. CASE i > c
    <3>1. i - c \in 1 .. Len(LQ) /\ c + (i - c) = i
      BY <1>7, <2>1, <2>3
    <3>2. N[i] = LQ[i - c]
      BY <1>16, <2>1, <2>3
    <3> QED BY <1>14, <3>1, <3>2
  <2> QED BY <2>2, <2>3
<1>18. N = LR
  BY <1>6, <1>12, <1>16, <1>17, SameItems
<1> QED BY <1>10, <1>18 DEF N, K, LP, LQ, LR, p, q, r, b

-----------------------------------------------------------------------------
(* The cache of the header merkle tree: the inductive invariant *)

Size == Proofs!SegmentLength
LevelOf(n) == SegmentsOf(SubSeq(chain, 1, n), Size)

\* The part of the chain that a backup under way leaves.
Lasting == IF backing > 0 THEN backing ELSE Len(chain)

ProofStates == {"idle", "extend", "leaves", "last", "answered", "failed"}
ProofRequests ==
    [at : ProofStates, length : Nat, index : Nat, start : Nat, end : Nat,
     hashes : Seq(Proofs!Header), leaves : Seq(Proofs!Header), result : Seq(Seq(Proofs!Header)),
     undisturbed : BOOLEAN]

ProofTypes ==
    /\ chain \in Seq(Proofs!Header) /\ Len(chain) > 0
    /\ backing \in 0 .. Len(chain) - 1
    /\ initialized \in BOOLEAN /\ length \in Nat /\ depth_higher \in Nat
    /\ proof_req \in [ProofRequest -> ProofRequests]

\* The cache never has more headers than there are, and is the level of those.
CacheLevel == initialized => length <= Lasting /\ level = LevelOf(length)

\* Nothing is asked for before the cache is populated, nor during a backup.
Alone ==
    /\ backing > 0 => initialized
    /\ ~ initialized => \A r \in ProofRequest : proof_req[r].at = "idle"
    /\ \A r \in ProofRequest : Proofs!Active(r) =>
           backing = 0 /\ \A s \in ProofRequest : Proofs!Active(s) => s = r

\* The headers between two heights are those that are read, once they are.
ReadOrNot(q, start, end) ==
    /\ q.start = start /\ q.end = end
    /\ q.hashes \in {<<>>, SubSeq(chain, start + 1, end)}

Start(i) == (i \div Size) * Size
LeafEndOf(i, n) == IF Start(i) + Size <= n THEN Start(i) + Size ELSE n

\* What a request that is under way has, and what one that is answered got.
RightSoFar(q) ==
    /\ q.at \in {"extend", "leaves", "last"} => q.index < q.length /\ q.length <= Len(chain)
    /\ q.at = "extend" => q.length > length /\ ReadOrNot(q, Start(length), q.length)
    /\ q.at = "leaves" => q.length <= length /\ ReadOrNot(q, Start(q.index), LeafEndOf(q.index, q.length))
    /\ q.at = "last" =>
        /\ q.length < length /\ Size <= q.length
        /\ ReadOrNot(q, Start(q.length), q.length)
        /\ q.leaves = SubSeq(chain, Start(q.index) + 1, LeafEndOf(q.index, q.length))
        /\ q.result = SubSeq(level, 1, q.length \div Size)
    /\ q.at = "answered" => q.length <= Len(chain) /\ q.result = LevelOf(q.length)
    /\ q.at # "failed"

ProofInv == ProofTypes /\ CacheLevel /\ Alone /\ \A r \in ProofRequest : RightSoFar(proof_req[r])

\* The size of a segment is positive while the depth has its type.
LEMMA SizeFacts ==
    ASSUME ProofTypes
    PROVE  Size \in Nat \ {0} /\ Size = Proofs!PowerOfTwo[depth_higher]
  BY PowerPositive DEF ProofTypes, Size, Proofs!SegmentLength

\* The operators of the module in terms of the ones here.
LEMMA ProofOperators ==
    ASSUME ProofTypes
    PROVE  /\ \A s, a, b : Proofs!Slice(s, a, b) = SubSeq(s, a + 1, b)
           /\ \A s : Proofs!Segments(s, depth_higher) = SegmentsOf(s, Size)
           /\ \A i : Proofs!Segment(i) = i \div Size /\ Proofs!LeafStart(i) = Start(i)
           /\ \A i, n \in Nat : Start(i) \in Nat /\ Start(i) <= i /\ i < Start(i) + Size
                                /\ Proofs!LeafEnd(Start(i), n) = LeafEndOf(i, n) /\ LeafEndOf(i, n) \in Nat
<1>1. Size \in Nat \ {0}
  BY SizeFacts
<1>2. \A s, a, b : Proofs!Slice(s, a, b) = SubSeq(s, a + 1, b)
  BY DEF Proofs!Slice
<1>3. ASSUME NEW s
      PROVE  Proofs!Segments(s, depth_higher) = SegmentsOf(s, Size)
  <2>1. Proofs!Segments(s, depth_higher) = SegmentsOf(s, Proofs!PowerOfTwo[depth_higher])
    BY DEF Proofs!Segments, Proofs!Slice, SegmentsOf, Proofs!Min, Min
  <2> QED BY <2>1, SizeFacts
<1>4. \A i : Proofs!Segment(i) = i \div Size /\ Proofs!LeafStart(i) = Start(i)
  BY DEF Proofs!Segment, Proofs!LeafStart, Start, Size
<1>5. ASSUME NEW i \in Nat, NEW n \in Nat
      PROVE  Start(i) \in Nat /\ Start(i) <= i /\ i < Start(i) + Size
             /\ Proofs!LeafEnd(Start(i), n) = LeafEndOf(i, n) /\ LeafEndOf(i, n) \in Nat
  <2>1. i \div Size \in Nat /\ Start(i) <= i /\ i < Start(i) + Size
    BY <1>1, Division DEF Start
  <2>2. Start(i) \in Nat
    BY <1>1, <2>1, Multiples DEF Start
  <2>3. Min({Start(i) + Size, n}) = LeafEndOf(i, n)
    <3>1. Start(i) + Size \in Int /\ n \in Int
      BY <1>1, <2>2
    <3> QED BY <3>1, MinOfTwo DEF LeafEndOf
  <2>4. LeafEndOf(i, n) \in Nat
    BY <1>1, <2>2 DEF LeafEndOf
  <2>5. Proofs!LeafEnd(Start(i), n) = Min({Start(i) + Size, n})
    BY DEF Proofs!LeafEnd, Size, Proofs!Min, Min
  <2> QED BY <2>1, <2>2, <2>3, <2>4, <2>5
<1> QED BY <1>2, <1>3, <1>4, <1>5

\* Parts of two sequences that begin in the same way.
LEMMA SameParts ==
    ASSUME NEW S, NEW s \in Seq(S), NEW t \in Seq(S), NEW n \in Nat, n <= Len(s), n <= Len(t),
           \A k \in 1 .. n : s[k] = t[k],
           NEW a \in Nat, NEW b \in Nat, a <= b, b <= n
    PROVE  SubSeq(s, a + 1, b) = SubSeq(t, a + 1, b)
<1> DEFINE p == SubSeq(s, a + 1, b)
           q == SubSeq(t, a + 1, b)
<1>1. b <= Len(s) /\ b <= Len(t) /\ Len(s) \in Nat /\ Len(t) \in Nat
  OBVIOUS
<1>2. p \in Seq(S) /\ Len(p) = b - a /\ \A i \in 1 .. b - a : p[i] = s[a + i]
  BY <1>1, Part
<1>3. q \in Seq(S) /\ Len(q) = b - a /\ \A i \in 1 .. b - a : q[i] = t[a + i]
  BY <1>1, Part
<1> HIDE DEF p, q
<1>4. \A i \in 1 .. b - a : a + i \in 1 .. n
  OBVIOUS
<1>5. p = q
  BY <1>2, <1>3, <1>4, SameItems
<1> QED BY <1>5 DEF p, q

\* Fields of a new request.
LEMMA IdleFacts ==
    /\ Proofs!Idle \in ProofRequests
    /\ Proofs!Idle.at = "idle" /\ Proofs!Idle.hashes = <<>>
  BY DEF Proofs!Idle, ProofRequests, ProofStates

\* A request that is not under way and was not answered has nothing.
LEMMA IdleIsRight ==
    /\ RightSoFar(Proofs!Idle) /\ RightSoFar(Proofs!Idle)'
    /\ Proofs!Idle' = Proofs!Idle
  BY DEF Proofs!Idle, RightSoFar

\* The invariant holds before the cache is populated.
LEMMA ProofInit == Proofs!Init => ProofInv
<1> SUFFICES ASSUME Proofs!Init
             PROVE  ProofInv
  OBVIOUS
<1>0. PICK c \in Chains : \E n \in 1 .. Len(c) : chain = SubSeq(c, 1, n)
  BY DEF Proofs!Init
<1>1. PICK n \in 1 .. Len(c) : chain = SubSeq(c, 1, n)
  BY <1>0
<1>2. c \in Seq(Proofs!Header)
  BY ServicesAssumption DEF Proofs!HeaderMerkleAssumption
<1>3. SubSeq(c, 0 + 1, n) \in Seq(Proofs!Header) /\ Len(SubSeq(c, 0 + 1, n)) = n - 0
  <2>1. n \in Nat /\ 0 <= n /\ n <= Len(c)
    BY <1>2
  <2> QED BY <1>2, <2>1, Part
<1>4. chain \in Seq(Proofs!Header) /\ Len(chain) \in Nat /\ Len(chain) > 0
  BY <1>1, <1>3
<1>5. /\ backing = 0 /\ initialized = FALSE /\ length = 0 /\ depth_higher = 0
      /\ \A r \in ProofRequest : proof_req[r] = Proofs!Idle
      /\ proof_req = [r \in ProofRequest |-> Proofs!Idle]
  BY DEF Proofs!Init
<1>6. ProofTypes
  <2>1. proof_req \in [ProofRequest -> ProofRequests]
    BY <1>5, IdleFacts
  <2>2. backing \in 0 .. Len(chain) - 1
    BY <1>4, <1>5
  <2> QED BY <1>4, <1>5, <2>1, <2>2 DEF ProofTypes
<1>7. Alone
  BY <1>5, IdleFacts DEF Alone, Proofs!Active
<1>8. \A r \in ProofRequest : RightSoFar(proof_req[r])
  BY <1>5, IdleIsRight
<1> QED BY <1>5, <1>6, <1>7, <1>8 DEF ProofInv, CacheLevel

\* populate_header_merkle_cache reads the level from the disk.
LEMMA PopulateStep ==
    ASSUME ProofInv, Proofs!Populate
    PROVE  ProofInv'
<1>1. /\ ~ initialized /\ initialized' = TRUE
      /\ length' = Proofs!Max({1, Len(chain) - 1 - ReorgLimit})
      /\ depth_higher' = Proofs!TreeDepth(length') \div 2
      /\ level' = Proofs!Segments(Proofs!Slice(chain, 0, length'), depth_higher')
      /\ chain' = chain /\ backing' = backing /\ proof_req' = proof_req
  BY DEF Proofs!Populate
<1>2. /\ chain \in Seq(Proofs!Header) /\ Len(chain) \in Nat /\ Len(chain) > 0
      /\ proof_req \in [ProofRequest -> ProofRequests]
      /\ backing = 0 /\ \A r \in ProofRequest : proof_req[r].at = "idle"
  BY <1>1 DEF ProofInv, ProofTypes, Alone
<1>3. length' \in Nat /\ 1 <= length' /\ length' <= Len(chain)
  <2> DEFINE k == Len(chain) - 1 - ReorgLimit
  <2>1. k \in Int /\ k <= Len(chain)
    BY <1>2, ServicesAssumption DEF Proofs!HeaderMerkleAssumption
  <2> HIDE DEF k
  <2>2. Proofs!Max({1, k}) = IF 1 >= k THEN 1 ELSE k
    <3>1. Max({1, k}) = IF 1 >= k THEN 1 ELSE k
      BY <2>1, MaxOfTwo
    <3> QED BY <3>1 DEF Proofs!Max, Max
  <2>3. length' = IF 1 >= k THEN 1 ELSE k
    BY <1>1, <2>2 DEF k
  <2> QED BY <1>2, <2>1, <2>3
<1>4. depth_higher' \in Nat
  <2> DEFINE n == length'
             B == Proofs!BranchLength(n)
             D == {d \in 0 .. n : Proofs!PowerOfTwo[d] >= n}
  <2>1. n \in D
    BY <1>3, PowerPositive
  <2>2. D \in SUBSET Int /\ D # {} /\ 0 \in Int /\ \A d \in D : d >= 0
    BY <2>1
  <2>3. Min(D) \in D
    <3> HIDE DEF D
    <3> QED BY <2>2, MinIsLeast
  <2>4. B = Min(D)
    BY DEF Proofs!BranchLength, Proofs!Min, Min
  <2>5. B \in Nat
    BY <1>3, <2>3, <2>4
  <2> HIDE DEF B
  <2>6. depth_higher' = (B + 1) \div 2
    BY <1>1 DEF Proofs!TreeDepth, B
  <2> QED BY <2>5, <2>6
<1>5. ProofTypes'
  BY <1>1, <1>2, <1>3, <1>4 DEF ProofInv, ProofTypes
<1>6. level' = LevelOf(length)'
  <2>1. Proofs!Segments(Proofs!Slice(chain, 0, length'), depth_higher') = SegmentsOf(SubSeq(chain, 1, length'), Size')
    <3>1. Size' = Proofs!PowerOfTwo[depth_higher']
      BY DEF Size, Proofs!SegmentLength
    <3>2. Proofs!Slice(chain, 0, length') = SubSeq(chain, 1, length')
      BY DEF Proofs!Slice
    <3>3. \A s : Proofs!Segments(s, depth_higher') = SegmentsOf(s, Proofs!PowerOfTwo[depth_higher'])
      BY DEF Proofs!Segments, Proofs!Slice, SegmentsOf, Proofs!Min, Min
    <3> QED BY <3>1, <3>2, <3>3
  <2> QED BY <1>1, <2>1 DEF LevelOf
<1>7. CacheLevel'
  BY <1>1, <1>2, <1>3, <1>6 DEF CacheLevel, Lasting
<1>8. Alone'
  BY <1>1, <1>2 DEF Alone, Proofs!Active
<1>9. \A r \in ProofRequest : RightSoFar(proof_req[r])'
  BY <1>1, <1>2 DEF RightSoFar
<1> QED BY <1>5, <1>7, <1>8, <1>9 DEF ProofInv

\* The level of headers that stay where they are.
LEMMA LevelKept ==
    ASSUME ProofTypes, UNCHANGED depth_higher, chain' \in Seq(Proofs!Header), NEW n \in Nat,
           n <= Len(chain), n <= Len(chain'), \A k \in 1 .. n : chain'[k] = chain[k]
    PROVE  /\ Size' = Size
           /\ \A a, b \in Nat : a <= b /\ b <= n => SubSeq(chain', a + 1, b) = SubSeq(chain, a + 1, b)
           /\ \A m \in 0 .. n : SegmentsOf(SubSeq(chain', 1, m), Size') = LevelOf(m)
<1>1. Size' = Size
  BY DEF Size, Proofs!SegmentLength
<1>2. ASSUME NEW a \in Nat, NEW b \in Nat, a <= b, b <= n
      PROVE  SubSeq(chain', a + 1, b) = SubSeq(chain, a + 1, b)
  <2>1. chain \in Seq(Proofs!Header)
    BY DEF ProofTypes
  <2> DEFINE c == chain'
  <2>2. c \in Seq(Proofs!Header) /\ n <= Len(c) /\ \A k \in 1 .. n : c[k] = chain[k]
    OBVIOUS
  <2> HIDE DEF c
  <2>3. SubSeq(c, a + 1, b) = SubSeq(chain, a + 1, b)
    BY <1>2, <2>1, <2>2, SameParts
  <2> QED BY <2>3 DEF c
<1>3. ASSUME NEW m \in 0 .. n
      PROVE  SegmentsOf(SubSeq(chain', 1, m), Size') = LevelOf(m)
  <2>1. m \in Nat /\ 0 <= m /\ m <= n /\ 0 + 1 = 1
    OBVIOUS
  <2>2. SubSeq(chain', 0 + 1, m) = SubSeq(chain, 0 + 1, m)
    BY <1>2, <2>1
  <2> QED BY <1>1, <2>1, <2>2 DEF LevelOf
<1> QED BY <1>1, <1>2, <1>3

\* A new header leaves all as it is.
LEMMA FlushStep ==
    ASSUME ProofInv, Proofs!Flush
    PROVE  ProofInv'
<1>1. PICK c \in Chains : /\ Proofs!IsPrefix(chain, c) /\ Len(chain) < Len(c)
                          /\ chain' = SubSeq(c, 1, Len(chain) + 1)
  BY DEF Proofs!Flush
<1>2. /\ backing = 0 /\ backing' = 0
      /\ initialized' = initialized /\ length' = length /\ level' = level /\ depth_higher' = depth_higher
      /\ proof_req' = proof_req
  BY DEF Proofs!Flush, Proofs!cache
<1>3. /\ ProofTypes /\ CacheLevel /\ Alone /\ \A r \in ProofRequest : RightSoFar(proof_req[r])
      /\ chain \in Seq(Proofs!Header) /\ Len(chain) \in Nat /\ Len(chain) > 0
      /\ length \in Nat /\ depth_higher \in Nat /\ proof_req \in [ProofRequest -> ProofRequests]
  BY DEF ProofInv, ProofTypes
<1> DEFINE l == Len(chain)
<1>4. /\ chain' \in Seq(Proofs!Header) /\ Len(chain') = l + 1
      /\ \A k \in 1 .. l : chain'[k] = chain[k]
  <2>1. c \in Seq(Proofs!Header) /\ Len(c) \in Nat
    BY ServicesAssumption DEF Proofs!HeaderMerkleAssumption
  <2>2. \A m \in Nat : m <= Len(c) => /\ SubSeq(c, 0 + 1, m) \in Seq(Proofs!Header)
                                      /\ Len(SubSeq(c, 0 + 1, m)) = m - 0
                                      /\ \A i \in 1 .. m - 0 : SubSeq(c, 0 + 1, m)[i] = c[0 + i]
    BY <2>1, Part
  <2>3. \A m \in Nat : m <= Len(c) => /\ SubSeq(c, 1, m) \in Seq(Proofs!Header)
                                      /\ Len(SubSeq(c, 1, m)) = m
                                      /\ \A i \in 1 .. m : SubSeq(c, 1, m)[i] = c[i]
    <3> SUFFICES ASSUME NEW m \in Nat, m <= Len(c)
                 PROVE  /\ SubSeq(c, 1, m) \in Seq(Proofs!Header)
                        /\ Len(SubSeq(c, 1, m)) = m
                        /\ \A i \in 1 .. m : SubSeq(c, 1, m)[i] = c[i]
      OBVIOUS
    <3>1. 0 + 1 = 1 /\ m - 0 = m /\ \A i \in 1 .. m : 0 + i = i
      OBVIOUS
    <3> QED BY <2>2, <3>1
  <2>4. chain' \in Seq(Proofs!Header) /\ Len(chain') = l + 1 /\ \A k \in 1 .. l + 1 : chain'[k] = c[k]
    <3>1. l + 1 \in Nat /\ l + 1 <= Len(c)
      BY <1>1, <1>3, <2>1
    <3> QED BY <1>1, <2>3, <3>1
  <2>5. SubSeq(chain, 1, l) = SubSeq(c, 1, l)
    BY <1>1 DEF Proofs!IsPrefix
  <2>6. \A k \in 1 .. l : chain[k] = c[k]
    <3>1. \A k \in 1 .. l : SubSeq(c, 1, l)[k] = c[k]
      BY <1>1, <1>3, <2>1, <2>3
    <3>2. SubSeq(chain, 1, l) = chain
      BY <1>3
    <3> QED BY <2>5, <3>1, <3>2
  <2> QED BY <1>3, <2>4, <2>6
<1>5. /\ Size' = Size
      /\ \A a, b \in Nat : a <= b /\ b <= l => SubSeq(chain', a + 1, b) = SubSeq(chain, a + 1, b)
      /\ \A m \in 0 .. l : SegmentsOf(SubSeq(chain', 1, m), Size') = LevelOf(m)
  BY <1>2, <1>3, <1>4, LevelKept
<1>6. ProofTypes'
  BY <1>2, <1>3, <1>4 DEF ProofTypes
<1>7. CacheLevel'
  <2> SUFFICES ASSUME initialized
               PROVE  length <= Lasting' /\ level = LevelOf(length)'
    BY <1>2 DEF CacheLevel
  <2>1. length <= l /\ level = LevelOf(length)
    BY <1>2, <1>3 DEF CacheLevel, Lasting
  <2>2. length <= Lasting'
    BY <1>2, <1>3, <1>4, <2>1 DEF Lasting
  <2>3. LevelOf(length)' = SegmentsOf(SubSeq(chain', 1, length), Size')
    BY <1>2 DEF LevelOf
  <2>4. length \in 0 .. l
    BY <1>3, <2>1
  <2> QED BY <1>5, <2>1, <2>2, <2>3, <2>4
<1>8. Alone'
  BY <1>2, <1>3 DEF Alone, Proofs!Active
<1>9. ASSUME NEW r \in ProofRequest
      PROVE  RightSoFar(proof_req[r])'
  <2> DEFINE q == proof_req[r]
  <2>1. RightSoFar(q) /\ q \in ProofRequests /\ q' = q
    BY <1>2, <1>3
  <2>2. q.length \in Nat /\ q.index \in Nat
    BY <2>1 DEF ProofRequests
  <2> HIDE DEF q
  <2>3. \A i \in Nat : Start(i)' = Start(i) /\ \A n \in Nat : LeafEndOf(i, n)' = LeafEndOf(i, n)
    BY <1>5 DEF Start, LeafEndOf
  <2>4. \A i, n \in Nat : i < n /\ n <= l =>
            /\ SubSeq(chain', Start(i) + 1, LeafEndOf(i, n)) = SubSeq(chain, Start(i) + 1, LeafEndOf(i, n))
            /\ SubSeq(chain', Start(i) + 1, n) = SubSeq(chain, Start(i) + 1, n)
    <3> SUFFICES ASSUME NEW i \in Nat, NEW n \in Nat, i < n, n <= l
                 PROVE  /\ SubSeq(chain', Start(i) + 1, LeafEndOf(i, n)) = SubSeq(chain, Start(i) + 1, LeafEndOf(i, n))
                        /\ SubSeq(chain', Start(i) + 1, n) = SubSeq(chain, Start(i) + 1, n)
      OBVIOUS
    <3>1. Start(i) \in Nat /\ Start(i) <= i /\ LeafEndOf(i, n) \in Nat /\ Size \in Nat
      BY <1>3, ProofOperators, SizeFacts
    <3>2. Start(i) <= LeafEndOf(i, n) /\ LeafEndOf(i, n) <= l
      BY <1>3, <3>1 DEF LeafEndOf
    <3>3. Start(i) <= n
      BY <3>1
    <3> QED BY <1>3, <1>5, <3>1, <3>2, <3>3
  <2> SUFFICES RightSoFar(q)'
    BY DEF q
  <2>5. CASE q.at \in {"extend", "leaves", "last"}
    <3>1. q.index < q.length /\ q.length <= l /\ Len(chain') = l + 1
      BY <1>4, <2>1, <2>5 DEF RightSoFar
    <3>2. /\ SubSeq(chain', Start(q.index) + 1, LeafEndOf(q.index, q.length))
             = SubSeq(chain, Start(q.index) + 1, LeafEndOf(q.index, q.length))
          /\ length < q.length => SubSeq(chain', Start(length) + 1, q.length) = SubSeq(chain, Start(length) + 1, q.length)
      BY <1>3, <2>2, <2>4, <3>1
    <3>3. SubSeq(chain', Start(q.length) + 1, q.length) = SubSeq(chain, Start(q.length) + 1, q.length)
      <4>1. Start(q.length) \in Nat /\ Start(q.length) <= q.length
        BY <1>3, <2>2, ProofOperators
      <4> QED BY <1>5, <2>2, <3>1, <4>1
    <3>4. CASE q.at = "extend"
      <4>1. length < q.length /\ ReadOrNot(q, Start(length), q.length)
        BY <2>1, <3>4 DEF RightSoFar
      <4>2. ReadOrNot(q, Start(length), q.length)'
        BY <1>2, <1>3, <2>1, <2>2, <2>3, <3>2, <4>1 DEF ReadOrNot
      <4> QED BY <1>2, <1>3, <2>1, <2>2, <3>1, <3>4, <4>1, <4>2 DEF RightSoFar
    <3>5. CASE q.at = "leaves"
      <4>1. q.length <= length /\ ReadOrNot(q, Start(q.index), LeafEndOf(q.index, q.length))
        BY <2>1, <3>5 DEF RightSoFar
      <4>2. ReadOrNot(q, Start(q.index), LeafEndOf(q.index, q.length))'
        BY <2>1, <2>2, <2>3, <3>2, <4>1 DEF ReadOrNot
      <4> QED BY <1>2, <1>3, <2>1, <2>2, <3>1, <3>5, <4>1, <4>2 DEF RightSoFar
    <3>6. CASE q.at = "last"
      <4>1. /\ q.length < length /\ Size <= q.length
            /\ ReadOrNot(q, Start(q.length), q.length)
            /\ q.leaves = SubSeq(chain, Start(q.index) + 1, LeafEndOf(q.index, q.length))
            /\ q.result = SubSeq(level, 1, q.length \div Size)
        BY <2>1, <3>6 DEF RightSoFar
      <4>2. ReadOrNot(q, Start(q.length), q.length)'
        BY <2>1, <2>2, <2>3, <3>3, <4>1 DEF ReadOrNot
      <4>3. q.leaves' = SubSeq(chain', Start(q.index)' + 1, LeafEndOf(q.index, q.length)')
        <5>1. Start(q.index)' = Start(q.index) /\ LeafEndOf(q.index, q.length)' = LeafEndOf(q.index, q.length)
          BY <2>1, <2>2, <2>3
        <5> QED BY <2>1, <3>2, <4>1, <5>1
      <4>4. q.result' = SubSeq(level', 1, q.length' \div Size')
        BY <1>2, <1>5, <2>1, <4>1
      <4>5. /\ q'.index < q'.length /\ q'.length <= Len(chain') /\ q'.length < length' /\ Size' <= q'.length
            /\ q'.at = "last"
        BY <1>2, <1>3, <1>5, <2>1, <2>2, <3>1, <3>6, <4>1
      <4> QED BY <4>2, <4>3, <4>4, <4>5 DEF RightSoFar
    <3> QED BY <2>5, <3>4, <3>5, <3>6
  <2>6. CASE q.at = "answered"
    <3>1. q.length <= l /\ q.result = LevelOf(q.length) /\ q.length \in 0 .. l /\ Len(chain') = l + 1
      BY <1>4, <2>1, <2>2, <2>6 DEF RightSoFar
    <3>2. LevelOf(q.length)' = LevelOf(q.length)
      BY <1>5, <2>1, <3>1 DEF LevelOf
    <3> QED BY <1>3, <2>1, <2>2, <2>6, <3>1, <3>2 DEF RightSoFar
  <2>7. CASE q.at \notin {"extend", "leaves", "last", "answered"}
    BY <2>1, <2>7 DEF RightSoFar
  <2> QED BY <2>5, <2>6, <2>7
<1> QED BY <1>6, <1>7, <1>8, <1>9 DEF ProofInv

\* truncate: the first segments of a level are the level of the first hashes.
LEMMA Truncation ==
    ASSUME NEW S, NEW s \in Seq(S), NEW size \in Nat \ {0}, NEW m \in 0 .. Len(s), NEW c \in Nat, c * size <= m
    PROVE  SubSeq(SegmentsOf(SubSeq(s, 1, m), size), 1, c) = SegmentsOf(SubSeq(s, 1, c * size), size)
<1> DEFINE n == c * size
           q == SubSeq(s, n + 1, n)
           L == SegmentsOf(q, size)
           K == SubSeq(SegmentsOf(SubSeq(s, 1, m), size), 1, c)
           T == Seq(S)
<1>1. n \in Nat /\ n <= m /\ m \in Nat /\ m <= Len(s) /\ n \in 0 .. Len(s) /\ Len(s) \in Nat
  BY Multiples
<1>2. c <= Len(SegmentsOf(SubSeq(s, 1, m), size)) /\ K \o L = SegmentsOf(SubSeq(s, 1, n), size)
  <2>1. c * size <= n
    BY <1>1
  <2> QED BY <1>1, <2>1, Rebuilt
<1>3. q \in Seq(S) /\ Len(q) = 0
  <2> HIDE DEF n
  <2>1. n <= n /\ n <= Len(s) /\ n - n = 0
    BY <1>1
  <2> QED BY <1>1, <2>1, Part
<1>4. L \in Seq(T) /\ Len(L) = 0
  <2> HIDE DEF q, n
  <2>1. L \in Seq(T) /\ \A i \in Nat : i < Len(L) <=> i * size < Len(q)
    BY <1>3, SegmentsFacts
  <2> HIDE DEF L, T
  <2>2. 0 < Len(L) <=> 0 * size < Len(q)
    BY <2>1
  <2>3. Len(L) \in Nat /\ 0 * size = 0
    BY <2>1
  <2> QED BY <1>3, <2>1, <2>2, <2>3
<1>5. K \in Seq(T)
  <2> DEFINE p == SubSeq(s, 0 + 1, m)
             LP == SegmentsOf(p, size)
  <2>1. p \in Seq(S)
    BY <1>1, Part
  <2>2. LP \in Seq(T)
    <3> HIDE DEF p
    <3> QED BY <2>1, SegmentsFacts
  <2>3. SegmentsOf(SubSeq(s, 1, m), size) = LP
    OBVIOUS
  <2> HIDE DEF LP, T, n
  <2>4. c <= Len(LP) /\ 0 <= c /\ 0 \in Nat
    BY <1>2, <2>3
  <2>5. SubSeq(LP, 0 + 1, c) \in Seq(T)
    BY <2>2, <2>4, Part
  <2> QED BY <2>3, <2>5
<1> HIDE DEF K, L, T
<1>6. K \o L = K
  BY <1>4, <1>5
<1> QED BY <1>2, <1>6 DEF K, n

\* branch_and_root_from_level: the segment of a level that a leaf is in.
LEMMA LevelItem ==
    ASSUME ProofTypes, NEW n \in Nat, n <= Len(chain), NEW index \in Nat, index < n
    PROVE  /\ LevelOf(n) \in Seq(Seq(Proofs!Header))
           /\ index \div Size + 1 <= Len(LevelOf(n))
           /\ LevelOf(n)[index \div Size + 1] = SubSeq(chain, Start(index) + 1, LeafEndOf(index, n))
           /\ n < Size => LevelOf(n) = <<SubSeq(chain, Start(index) + 1, LeafEndOf(index, n))>>
<1> DEFINE size == Size
           r == SubSeq(chain, 1, n)
           L == SegmentsOf(r, size)
           j == index \div size
           x == j * size
           y == LeafEndOf(index, n)
           T == Seq(Proofs!Header)
           end(i) == IF i * size <= n THEN i * size ELSE n
<1>1. size \in Nat \ {0} /\ chain \in Seq(Proofs!Header) /\ Len(chain) \in Nat
  BY SizeFacts DEF ProofTypes
<1>2. r \in Seq(Proofs!Header) /\ Len(r) = n
  <2>1. 0 \in Nat /\ 0 <= n /\ 0 + 1 = 1 /\ n - 0 = n
    OBVIOUS
  <2>2. SubSeq(chain, 0 + 1, n) \in Seq(Proofs!Header) /\ Len(SubSeq(chain, 0 + 1, n)) = n - 0
    BY <1>1, <2>1, Part
  <2> QED BY <2>1, <2>2
<1>3. j \in Nat /\ x <= index /\ index < x + size
  <2> HIDE DEF size
  <2> QED BY <1>1, Division
<1>4. Start(index) = x /\ y = IF x + size <= n THEN x + size ELSE n
  BY DEF Start, LeafEndOf
<1> HIDE DEF j
<1>5. x \in Nat /\ (j + 1) * size = x + size
  <2> HIDE DEF size
  <2> QED BY <1>1, <1>3, Multiples
<1> HIDE DEF r, y
<1>6. /\ L \in Seq(T)
      /\ \A i \in Nat : i < Len(L) <=> i * size < n
      /\ \A i \in 1 .. Len(L) : L[i] = SubSeq(r, (i - 1) * size + 1, end(i))
  <2> HIDE DEF size
  <2> QED BY <1>1, <1>2, SegmentsFacts
<1> HIDE DEF L, T
<1>7. Len(L) \in Nat
  BY <1>6
<1>8. j < Len(L) /\ j + 1 \in 1 .. Len(L) /\ (j + 1) - 1 = j
  <2>1. x < n
    BY <1>3, <1>5
  <2>2. j < Len(L)
    <3> HIDE DEF size
    <3> QED BY <1>3, <1>6, <2>1
  <2> QED BY <1>3, <1>7, <2>2
<1>9. end(j + 1) = y
  <2> HIDE DEF size, x
  <2> QED BY <1>4, <1>5
<1>10. L[j + 1] = SubSeq(r, x + 1, y)
  <2>1. L[j + 1] = SubSeq(r, ((j + 1) - 1) * size + 1, end(j + 1))
    BY <1>6, <1>8
  <2> HIDE DEF end, size
  <2> QED BY <1>8, <1>9, <2>1
<1> HIDE DEF size, x
<1>11. y \in Nat /\ x <= y /\ y <= n
  BY <1>1, <1>3, <1>4, <1>5
<1>12. SubSeq(r, x + 1, y) = SubSeq(chain, x + 1, y)
  <2>1. 0 \in Nat /\ 0 <= n /\ 0 + 1 = 1 /\ n - 0 = n /\ 0 + x = x /\ 0 + y = y
    BY <1>5, <1>11
  <2>2. SubSeq(SubSeq(chain, 0 + 1, n), x + 1, y) = SubSeq(chain, (0 + x) + 1, 0 + y)
    BY <1>1, <1>5, <1>11, <2>1, PartOfPart
  <2> QED BY <2>1, <2>2 DEF r
<1>13. ASSUME n < size
       PROVE  L = <<L[j + 1]>>
  <2>1. ~ (1 < Len(L))
    <3>1. 1 * size = size
      BY <1>1
    <3> QED BY <1>1, <1>6, <1>13, <3>1
  <2>2. Len(L) = 1 /\ j + 1 = 1
    <3> DEFINE l == Len(L)
    <3>1. l \in Nat /\ j \in Nat /\ j < l /\ ~ (1 < l)
      BY <1>3, <1>7, <1>8, <2>1
    <3> HIDE DEF l
    <3>2. l = 1 /\ j + 1 = 1
      BY <3>1
    <3> QED BY <3>2 DEF l
  <2> QED BY <1>6, <2>2
<1>14. L = LevelOf(n)
  BY DEF L, r, size, LevelOf
<1>15. L[j + 1] = SubSeq(chain, Start(index) + 1, y)
  BY <1>4, <1>10, <1>12
<1>16. L \in Seq(T) /\ j + 1 <= Len(L)
  BY <1>6, <1>7, <1>8
<1> HIDE DEF L
<1> QED BY <1>13, <1>14, <1>15, <1>16 DEF j, size, y, T

\* A backup waits for the requests, and their answers are of no use to anyone.
LEMMA Undone ==
    ASSUME ProofTypes, \A r \in ProofRequest : ~ Proofs!Active(r), proof_req' = Proofs!Disturbed
    PROVE  /\ proof_req' \in [ProofRequest -> ProofRequests]
           /\ \A r \in ProofRequest : proof_req'[r].at = "idle" /\ RightSoFar(proof_req[r])'
<1>1. proof_req' = [r \in ProofRequest |-> Proofs!Idle]
  BY DEF Proofs!Disturbed
<1>2. \A r \in ProofRequest : proof_req'[r] = Proofs!Idle
  BY <1>1
<1>3. ASSUME NEW r \in ProofRequest
      PROVE  RightSoFar(proof_req[r])'
  BY <1>2 DEF RightSoFar, Proofs!Idle
<1> QED BY <1>1, <1>2, <1>3, IdleFacts

\* backup_fs truncates the cache to the segments that stay.
LEMMA BackupFsStep ==
    ASSUME ProofInv, Proofs!BackupFs
    PROVE  ProofInv'
<1>1. /\ backing = 0 /\ initialized /\ \A r \in ProofRequest : ~ Proofs!Active(r)
      /\ proof_req' = Proofs!Disturbed
      /\ chain' = chain /\ initialized' = initialized /\ depth_higher' = depth_higher
  BY DEF Proofs!BackupFs
<1>2. PICK n \in 1 .. Len(chain) - 1 :
          backing' = n /\ length' = Proofs!Truncated(n)[1] /\ level' = Proofs!Truncated(n)[2]
  BY DEF Proofs!BackupFs
<1>3. /\ ProofTypes /\ chain \in Seq(Proofs!Header) /\ Len(chain) \in Nat /\ length \in Nat
      /\ length <= Len(chain) /\ level = LevelOf(length) /\ Size \in Nat \ {0}
  BY <1>1, SizeFacts DEF ProofInv, ProofTypes, CacheLevel, Lasting
<1>4. Size' = Size /\ \A m : LevelOf(m)' = SegmentsOf(SubSeq(chain, 1, m'), Size)
  BY <1>1 DEF Size, Proofs!SegmentLength, LevelOf
<1>5. length' \in Nat /\ length' <= n /\ level' = SegmentsOf(SubSeq(chain, 1, length'), Size)
  <2>1. CASE n >= length
    <3>1. length' = length /\ level' = level
      BY <1>2, <2>1 DEF Proofs!Truncated
    <3> QED BY <1>3, <2>1, <3>1 DEF LevelOf
  <2>2. CASE n < length
    <3>1. Proofs!Truncated(n) = <<Proofs!LeafStart(n), SubSeq(level, 1, Proofs!Segment(n))>>
      BY <1>3, <2>2 DEF Proofs!Truncated
    <3>a. n \in Nat
      BY <1>3
    <3>b. /\ Proofs!LeafStart(n) = Start(n) /\ Proofs!Segment(n) = n \div Size
      BY <1>3, ProofOperators
    <3>2. length' = Start(n) /\ level' = SubSeq(level, 1, n \div Size)
      <4>1. /\ <<Start(n), SubSeq(level, 1, n \div Size)>>[1] = Start(n)
            /\ <<Start(n), SubSeq(level, 1, n \div Size)>>[2] = SubSeq(level, 1, n \div Size)
        OBVIOUS
      <4>2. Proofs!Truncated(n) = <<Start(n), SubSeq(level, 1, n \div Size)>>
        BY <3>1, <3>b
      <4> QED BY <1>2, <4>1, <4>2
    <3>3. Start(n) \in Nat /\ Start(n) <= n
      BY <1>3, <3>a, ProofOperators
    <3> DEFINE c == n \div Size
    <3>4. c \in Nat /\ c * Size = Start(n) /\ length \in 0 .. Len(chain) /\ c * Size <= length
      BY <1>3, <2>2, <3>3, Division DEF Start
    <3> HIDE DEF c
    <3>5. SubSeq(SegmentsOf(SubSeq(chain, 1, length), Size), 1, c) = SegmentsOf(SubSeq(chain, 1, c * Size), Size)
      BY <1>3, <3>4, Truncation
    <3>6. level' = SegmentsOf(SubSeq(chain, 1, Start(n)), Size)
      BY <1>3, <3>2, <3>4, <3>5 DEF c, LevelOf
    <3> QED BY <3>2, <3>3, <3>6
  <2> QED BY <1>3, <2>1, <2>2
<1>6. /\ proof_req' \in [ProofRequest -> ProofRequests]
      /\ \A r \in ProofRequest : proof_req'[r].at = "idle" /\ RightSoFar(proof_req[r])'
  BY <1>1, <1>3, Undone
<1>7. ProofTypes'
  <2>1. backing' \in 0 .. Len(chain) - 1
    BY <1>2
  <2> QED BY <1>1, <1>3, <1>5, <1>6, <2>1 DEF ProofTypes
<1>8. CacheLevel'
  <2>1. Lasting' = n
    BY <1>2 DEF Lasting
  <2>2. LevelOf(length)' = SegmentsOf(SubSeq(chain, 1, length'), Size)
    BY <1>1, <1>4 DEF LevelOf
  <2> QED BY <1>5, <2>1, <2>2 DEF CacheLevel
<1>9. Alone'
  BY <1>1, <1>6 DEF Alone, Proofs!Active
<1> QED BY <1>6, <1>7, <1>8, <1>9 DEF ProofInv

\* The flush that lowers db_height finds the cache where backup_fs left it.
LEMMA BackupStateStep ==
    ASSUME ProofInv, Proofs!BackupState
    PROVE  ProofInv'
<1>1. /\ backing > 0 /\ backing' = 0 /\ chain' = SubSeq(chain, 1, backing)
      /\ proof_req' = Proofs!Disturbed
      /\ length' = length /\ level' = level /\ initialized' = initialized /\ depth_higher' = depth_higher
  BY DEF Proofs!BackupState, Proofs!cache
<1>2. /\ ProofTypes /\ chain \in Seq(Proofs!Header) /\ Len(chain) \in Nat /\ length \in Nat /\ depth_higher \in Nat
      /\ backing \in Nat /\ backing < Len(chain) /\ initialized
      /\ length <= backing /\ level = LevelOf(length)
  BY <1>1 DEF ProofInv, ProofTypes, CacheLevel, Lasting, Alone
<1>3. \A r \in ProofRequest : ~ Proofs!Active(r)
  BY <1>1 DEF ProofInv, Alone
<1>4. /\ chain' \in Seq(Proofs!Header) /\ Len(chain') = backing
      /\ \A k \in 1 .. backing : chain'[k] = chain[k]
  <2>1. 0 \in Nat /\ 0 + 1 = 1 /\ 0 <= backing /\ backing <= Len(chain) /\ backing - 0 = backing
        /\ \A k \in 1 .. backing : 0 + k = k
    BY <1>2
  <2>2. /\ SubSeq(chain, 0 + 1, backing) \in Seq(Proofs!Header)
        /\ Len(SubSeq(chain, 0 + 1, backing)) = backing - 0
        /\ \A k \in 1 .. backing - 0 : SubSeq(chain, 0 + 1, backing)[k] = chain[0 + k]
    BY <1>2, <2>1, Part
  <2> QED BY <1>1, <2>1, <2>2
<1>5. \A m \in 0 .. backing : SegmentsOf(SubSeq(chain', 1, m), Size') = LevelOf(m)
  <2>1. backing <= Len(chain) /\ backing <= Len(chain')
    BY <1>2, <1>4
  <2> QED BY <1>1, <1>2, <1>4, <2>1, LevelKept
<1>6. /\ proof_req' \in [ProofRequest -> ProofRequests]
      /\ \A r \in ProofRequest : proof_req'[r].at = "idle" /\ RightSoFar(proof_req[r])'
  BY <1>1, <1>2, <1>3, Undone
<1>7. ProofTypes'
  BY <1>1, <1>2, <1>4, <1>6 DEF ProofTypes
<1>8. CacheLevel'
  <2>1. Lasting' = backing
    BY <1>1, <1>4 DEF Lasting
  <2>2. LevelOf(length)' = SegmentsOf(SubSeq(chain', 1, length), Size')
    BY <1>1 DEF LevelOf
  <2>3. length \in 0 .. backing
    BY <1>2
  <2> QED BY <1>1, <1>2, <1>5, <2>1, <2>2, <2>3 DEF CacheLevel
<1>9. Alone'
  BY <1>1, <1>6 DEF Alone, Proofs!Active
<1> QED BY <1>6, <1>7, <1>8, <1>9 DEF ProofInv

\* What one request becomes keeps it, if it is the only one under way and right.
LEMMA ProofRequestStep ==
    ASSUME ProofInv, NEW r \in ProofRequest, NEW q \in ProofRequests,
           proof_req' = [proof_req EXCEPT ![r] = q], UNCHANGED <<chain, backing, Proofs!cache>>,
           initialized, backing = 0, \A s \in ProofRequest \ {r} : ~ Proofs!Active(s),
           RightSoFar(q)
    PROVE  ProofInv'
<1>1. /\ chain' = chain /\ backing' = backing /\ initialized' = initialized /\ length' = length
      /\ level' = level /\ depth_higher' = depth_higher
  BY DEF Proofs!cache
<1>2. /\ ProofTypes /\ CacheLevel /\ proof_req \in [ProofRequest -> ProofRequests]
  BY DEF ProofInv, ProofTypes
<1>3. /\ proof_req'[r] = q /\ proof_req' \in [ProofRequest -> ProofRequests]
      /\ \A s \in ProofRequest \ {r} : proof_req'[s] = proof_req[s]
  BY <1>2
<1>4. Size' = Size
  BY <1>1 DEF Size, Proofs!SegmentLength
<1>5. ASSUME NEW s \in ProofRequest
      PROVE  RightSoFar(proof_req[s])'
  <2> DEFINE now == proof_req'[s]
  <2>1. RightSoFar(now)
    BY <1>3 DEF ProofInv
  <2> HIDE DEF now
  <2>2. RightSoFar(proof_req[s])'
        <=> /\ now.at \in {"extend", "leaves", "last"} => now.index < now.length /\ now.length <= Len(chain)
            /\ now.at = "extend" => now.length > length /\ ReadOrNot(now, Start(length), now.length)
            /\ now.at = "leaves" =>
                  now.length <= length /\ ReadOrNot(now, Start(now.index), LeafEndOf(now.index, now.length))
            /\ now.at = "last" =>
                  /\ now.length < length /\ Size <= now.length
                  /\ ReadOrNot(now, Start(now.length), now.length)
                  /\ now.leaves = SubSeq(chain, Start(now.index) + 1, LeafEndOf(now.index, now.length))
                  /\ now.result = SubSeq(level, 1, now.length \div Size)
            /\ now.at = "answered" => now.length <= Len(chain) /\ now.result = LevelOf(now.length)
            /\ now.at # "failed"
    BY <1>1, <1>4 DEF RightSoFar, ReadOrNot, Start, LeafEndOf, LevelOf, now
  <2> QED BY <2>1, <2>2 DEF RightSoFar
<1>6. ProofTypes'
  BY <1>1, <1>2, <1>3 DEF ProofTypes
<1>7. CacheLevel'
  BY <1>1, <1>2, <1>4 DEF CacheLevel, Lasting, LevelOf
<1>8. Alone'
  BY <1>1, <1>3 DEF Alone, Proofs!Active
<1> QED BY <1>5, <1>6, <1>7, <1>8 DEF ProofInv

\* What a request has that waits for a read of the disk.
Awaits(p, q, at, start, end) ==
    /\ p \in ProofRequests
    /\ p.at = at /\ p.start = start /\ p.end = end /\ p.hashes = <<>>
    /\ p.length = q.length /\ p.index = q.index /\ p.leaves = q.leaves /\ p.result = q.result

\* fs_block_hashes is called.
LEMMA AwaitingFacts ==
    ASSUME NEW q \in ProofRequests, NEW at \in ProofStates, NEW start \in Nat, NEW end \in Nat
    PROVE  Awaits(Proofs!Awaiting(q, at, start, end), q, at, start, end)
<1> DEFINE p == Proofs!Awaiting(q, at, start, end)
<1>1. <<>> \in Seq(Proofs!Header)
  OBVIOUS
<1>2. p \in ProofRequests
  BY <1>1 DEF Proofs!Awaiting, ProofRequests
<1>3. p.at = at /\ p.start = start
  BY DEF Proofs!Awaiting, ProofRequests
<1>4. p.end = end /\ p.hashes = <<>>
  BY DEF Proofs!Awaiting, ProofRequests
<1>5. p.length = q.length /\ p.index = q.index
  BY DEF Proofs!Awaiting, ProofRequests
<1>6. p.leaves = q.leaves /\ p.result = q.result
  BY DEF Proofs!Awaiting, ProofRequests
<1> HIDE DEF p
<1>7. Awaits(p, q, at, start, end)
  BY <1>2, <1>3, <1>4, <1>5, <1>6 DEF Awaits
<1> QED BY <1>7 DEF p

\* What is under way, as far as its next step goes.
LEMMA UnderWay ==
    ASSUME ProofInv, NEW r \in ProofRequest, Proofs!Active(r)
    PROVE  /\ initialized /\ backing = 0 /\ \A s \in ProofRequest \ {r} : ~ Proofs!Active(s)
           /\ RightSoFar(proof_req[r]) /\ proof_req[r] \in ProofRequests
           /\ ProofTypes /\ chain \in Seq(Proofs!Header) /\ Len(chain) \in Nat
           /\ length \in Nat /\ length <= Len(chain) /\ level = LevelOf(length)
           /\ Size \in Nat \ {0}
           /\ proof_req[r].index \in Nat /\ proof_req[r].length \in Nat
           /\ proof_req[r].start \in Nat /\ proof_req[r].end \in Nat
           /\ proof_req[r].index < proof_req[r].length /\ proof_req[r].length <= Len(chain)
<1>1. /\ ProofTypes /\ Alone /\ CacheLevel /\ RightSoFar(proof_req[r])
      /\ chain \in Seq(Proofs!Header) /\ Len(chain) \in Nat /\ length \in Nat
      /\ proof_req[r] \in ProofRequests
  BY DEF ProofInv, ProofTypes
<1>2. proof_req[r].at \in {"extend", "leaves", "last"}
  BY <1>1 DEF Proofs!Active, ProofRequests, ProofStates, RightSoFar
<1>3. initialized /\ backing = 0 /\ \A s \in ProofRequest \ {r} : ~ Proofs!Active(s)
  BY <1>1, <1>2 DEF Alone
<1>4. length <= Len(chain) /\ level = LevelOf(length)
  BY <1>1, <1>3 DEF CacheLevel, Lasting
<1>5. proof_req[r].index < proof_req[r].length /\ proof_req[r].length <= Len(chain)
  BY <1>1, <1>2 DEF RightSoFar
<1>6. /\ proof_req[r].index \in Nat /\ proof_req[r].length \in Nat
      /\ proof_req[r].start \in Nat /\ proof_req[r].end \in Nat
  BY <1>1 DEF ProofRequests
<1> QED BY <1>1, <1>3, <1>4, <1>5, <1>6, SizeFacts

\* A request of a height below a length that the chain has.
LEMMA ProofAskStep ==
    ASSUME ProofInv, NEW r \in ProofRequest, Proofs!Ask(r)
    PROVE  ProofInv'
<1>1. /\ initialized /\ backing = 0 /\ \A s \in ProofRequest : ~ Proofs!Active(s)
      /\ UNCHANGED <<chain, backing, Proofs!cache>>
  BY DEF Proofs!Ask
<1>2. PICK n \in 1 .. Len(chain), index \in 0 .. Len(chain) - 1 :
          /\ index < n
          /\ LET begun == [Proofs!Idle EXCEPT !.length = n, !.index = index, !.undisturbed = (backing = 0)]
             IN  Proofs!Becomes(r, IF n <= length THEN Proofs!AwaitingLeaves(begun)
                                   ELSE Proofs!Awaiting(begun, "extend", Proofs!ExtendsFrom, n))
  BY DEF Proofs!Ask
<1>3. ProofTypes /\ Len(chain) \in Nat /\ length \in Nat /\ n \in Nat /\ index \in Nat /\ n <= Len(chain) /\ index < n
  BY <1>2 DEF ProofInv, ProofTypes
<1> DEFINE begun == [Proofs!Idle EXCEPT !.length = n, !.index = index, !.undisturbed = (backing = 0)]
           q == IF n <= length THEN Proofs!AwaitingLeaves(begun)
                ELSE Proofs!Awaiting(begun, "extend", Proofs!ExtendsFrom, n)
<1>4. begun \in ProofRequests /\ begun.length = n /\ begun.index = index
  <2> DEFINE i == Proofs!Idle
  <2>1. i \in ProofRequests /\ (backing = 0) \in BOOLEAN
    BY IdleFacts
  <2> HIDE DEF i
  <2>2. /\ [i EXCEPT !.length = n, !.index = index, !.undisturbed = (backing = 0)] \in ProofRequests
        /\ [i EXCEPT !.length = n, !.index = index, !.undisturbed = (backing = 0)].length = n
        /\ [i EXCEPT !.length = n, !.index = index, !.undisturbed = (backing = 0)].index = index
    BY <1>3, <2>1 DEF ProofRequests
  <2> QED BY <2>2 DEF i
<1> HIDE DEF begun
<1>5. proof_req' = [proof_req EXCEPT ![r] = q]
  BY <1>2 DEF Proofs!Becomes, begun
<1>6. q \in ProofRequests /\ RightSoFar(q)
  <2>1. CASE n <= length
    <3>1. /\ Proofs!LeafStart(index) = Start(index) /\ Start(index) \in Nat
          /\ Proofs!LeafEnd(Start(index), n) = LeafEndOf(index, n) /\ LeafEndOf(index, n) \in Nat
      BY <1>3, ProofOperators
    <3>2. q = Proofs!Awaiting(begun, "leaves", Start(index), LeafEndOf(index, n))
      BY <1>4, <2>1, <3>1 DEF Proofs!AwaitingLeaves
    <3> HIDE DEF q
    <3>3. "leaves" \in ProofStates
      BY DEF ProofStates
    <3>4. /\ q \in ProofRequests /\ q.at = "leaves" /\ q.length = n /\ q.index = index
          /\ q.start = Start(index) /\ q.end = LeafEndOf(index, n) /\ q.hashes = <<>>
      <4>1. Awaits(q, begun, "leaves", Start(index), LeafEndOf(index, n))
        BY <1>3, <1>4, <3>1, <3>2, <3>3, AwaitingFacts
      <4> QED BY <1>4, <4>1 DEF Awaits
    <3> QED BY <1>3, <2>1, <3>4 DEF RightSoFar, ReadOrNot
  <2>2. CASE ~ (n <= length)
    <3>1. Proofs!ExtendsFrom = Start(length) /\ Start(length) \in Nat
      BY <1>3, ProofOperators DEF Proofs!ExtendsFrom
    <3>2. q = Proofs!Awaiting(begun, "extend", Start(length), n)
      BY <2>2, <3>1
    <3> HIDE DEF q
    <3>3. "extend" \in ProofStates
      BY DEF ProofStates
    <3>4. /\ q \in ProofRequests /\ q.at = "extend" /\ q.length = n /\ q.index = index
          /\ q.start = Start(length) /\ q.end = n /\ q.hashes = <<>>
      <4>1. Awaits(q, begun, "extend", Start(length), n)
        BY <1>3, <1>4, <3>1, <3>2, <3>3, AwaitingFacts
      <4> QED BY <1>4, <4>1 DEF Awaits
    <3> QED BY <1>3, <2>2, <3>4 DEF RightSoFar, ReadOrNot
  <2> QED BY <2>1, <2>2
<1> HIDE DEF q
<1> QED BY <1>1, <1>5, <1>6, ProofRequestStep

\* A read of the disk finds the headers, and those of the chain of the moment.
LEMMA ReadStep ==
    ASSUME ProofInv, NEW r \in ProofRequest, Proofs!Read(r)
    PROVE  ProofInv'
<1> DEFINE p == proof_req[r]
           q == [p EXCEPT !.hashes = SubSeq(chain, p.start + 1, p.end)]
<1>1. p.at \in {"extend", "leaves", "last"} /\ Proofs!Active(r) /\ UNCHANGED <<chain, backing, Proofs!cache>>
  BY DEF Proofs!Read, Proofs!Active
<1>2. /\ initialized /\ backing = 0 /\ \A s \in ProofRequest \ {r} : ~ Proofs!Active(s)
      /\ RightSoFar(p) /\ p \in ProofRequests
      /\ ProofTypes /\ chain \in Seq(Proofs!Header) /\ Len(chain) \in Nat
      /\ length \in Nat /\ Size \in Nat \ {0}
      /\ p.index \in Nat /\ p.length \in Nat /\ p.start \in Nat /\ p.end \in Nat
      /\ p.index < p.length /\ p.length <= Len(chain)
  BY <1>1, UnderWay
<1>3. proof_req' = [proof_req EXCEPT ![r] = IF p.end <= Len(chain) THEN q ELSE [p EXCEPT !.at = "failed"]]
  BY DEF Proofs!Read, Proofs!Becomes, Proofs!Slice
<1> HIDE DEF p
<1>4. p.start <= p.end /\ p.end <= Len(chain)
  <2>1. \A i \in Nat : Start(i) \in Nat /\ Start(i) <= i
    BY <1>2, ProofOperators
  <2>2. CASE p.at = "extend"
    <3>1. p.start = Start(length) /\ p.end = p.length /\ length < p.length
      BY <1>2, <2>2 DEF RightSoFar, ReadOrNot
    <3> QED BY <1>2, <2>1, <3>1
  <2>3. CASE p.at = "leaves"
    <3>1. p.start = Start(p.index) /\ p.end = LeafEndOf(p.index, p.length)
      BY <1>2, <2>3 DEF RightSoFar, ReadOrNot
    <3>2. Start(p.index) \in Nat /\ Start(p.index) <= p.index
      BY <1>2, <2>1
    <3> QED BY <1>2, <3>1, <3>2 DEF LeafEndOf
  <2>4. CASE p.at = "last"
    <3>1. p.start = Start(p.length) /\ p.end = p.length
      BY <1>2, <2>4 DEF RightSoFar, ReadOrNot
    <3> QED BY <1>2, <2>1, <3>1
  <2> QED BY <1>1, <2>2, <2>3, <2>4
<1>5. SubSeq(chain, p.start + 1, p.end) \in Seq(Proofs!Header)
  BY <1>2, <1>4, Part
<1>6. /\ q \in ProofRequests
      /\ q.at = p.at /\ q.length = p.length /\ q.index = p.index /\ q.start = p.start /\ q.end = p.end
      /\ q.leaves = p.leaves /\ q.result = p.result /\ q.hashes = SubSeq(chain, p.start + 1, p.end)
  BY <1>2, <1>5 DEF ProofRequests
<1>7. proof_req' = [proof_req EXCEPT ![r] = q]
  BY <1>3, <1>4
<1> HIDE DEF q
<1>8. \A start, end : ReadOrNot(p, start, end) => ReadOrNot(q, start, end)
  BY <1>6 DEF ReadOrNot
<1>9. RightSoFar(q)
  BY <1>2, <1>6, <1>8 DEF RightSoFar
<1> QED BY <1>1, <1>2, <1>6, <1>7, <1>9, ProofRequestStep

\* _extend_to keeps the full segments and appends those of what was read.
LEMMA ExtendStep ==
    ASSUME ProofInv, NEW r \in ProofRequest, Proofs!Extend(r)
    PROVE  ProofInv'
<1> DEFINE p == proof_req[r]
           n == p.length
           c == length \div Size
           q == Proofs!Awaiting(p, "leaves", Start(p.index), LeafEndOf(p.index, n))
<1>1. /\ p.at = "extend" /\ p.hashes # <<>> /\ Proofs!Active(r)
      /\ chain' = chain /\ backing' = backing /\ initialized' = initialized /\ depth_higher' = depth_higher
      /\ length' = n
      /\ level' = SubSeq(level, 1, Proofs!Min({Proofs!Segment(p.start), Len(level)}))
                  \o Proofs!Segments(p.hashes, depth_higher)
      /\ proof_req' = [proof_req EXCEPT ![r] = Proofs!AwaitingLeaves(p)]
  BY DEF Proofs!Extend, Proofs!Has, Proofs!Active, Proofs!Becomes
<1>2. /\ initialized /\ backing = 0 /\ \A s \in ProofRequest \ {r} : ~ Proofs!Active(s)
      /\ RightSoFar(p) /\ p \in ProofRequests
      /\ ProofTypes /\ chain \in Seq(Proofs!Header) /\ Len(chain) \in Nat
      /\ length \in Nat /\ length <= Len(chain) /\ level = LevelOf(length) /\ Size \in Nat \ {0}
      /\ p.index \in Nat /\ n \in Nat /\ p.index < n /\ n <= Len(chain)
  BY <1>1, UnderWay
<1> HIDE DEF p
<1>3. n > length /\ p.start = Start(length) /\ p.hashes = SubSeq(chain, Start(length) + 1, n)
  BY <1>1, <1>2 DEF RightSoFar, ReadOrNot
<1>4. c \in Nat /\ c * Size = Start(length) /\ c * Size <= length
  BY <1>2, Division DEF Start
<1>5. Start(length) \div Size = c
  <2> HIDE DEF c
  <2>1. c * Size \in Nat /\ c * Size <= Start(length) /\ Start(length) < c * Size + Size /\ Start(length) \in Nat
    BY <1>2, <1>4, Multiples
  <2> QED BY <1>2, <1>4, <2>1, DivisionIs
<1> HIDE DEF c
<1>6. /\ c <= Len(level)
      /\ SubSeq(level, 1, c) \o SegmentsOf(p.hashes, Size) = LevelOf(n)
  <2>1. length \in 0 .. Len(chain) /\ n \in 0 .. Len(chain) /\ c * Size <= n
    BY <1>2, <1>3, <1>4
  <2> HIDE DEF n
  <2>2. /\ c <= Len(SegmentsOf(SubSeq(chain, 1, length), Size))
        /\ SubSeq(SegmentsOf(SubSeq(chain, 1, length), Size), 1, c) \o SegmentsOf(SubSeq(chain, c * Size + 1, n), Size)
           = SegmentsOf(SubSeq(chain, 1, n), Size)
    BY <1>2, <1>4, <2>1, Rebuilt
  <2> QED BY <1>2, <1>3, <1>4, <2>2 DEF LevelOf
<1>7. Proofs!Min({Proofs!Segment(p.start), Len(level)}) = c
  <2>1. Proofs!Segment(p.start) = c
    BY <1>2, <1>3, <1>5, ProofOperators
  <2>2. level \in Seq(Seq(Proofs!Header)) /\ Len(level) \in Nat
    <3>1. SubSeq(chain, 0 + 1, length) \in Seq(Proofs!Header) /\ 0 + 1 = 1
      BY <1>2, Part
    <3> DEFINE s == SubSeq(chain, 1, length)
               T == Seq(Proofs!Header)
    <3>2. s \in Seq(Proofs!Header)
      BY <3>1
    <3> HIDE DEF s
    <3>3. SegmentsOf(s, Size) \in Seq(T)
      BY <1>2, <3>2, SegmentsFacts
    <3> HIDE DEF T
    <3>4. level \in Seq(T)
      BY <1>2, <3>3 DEF LevelOf, s
    <3>5. Len(level) \in Nat
      BY <3>4
    <3> QED BY <3>4, <3>5 DEF T
  <2>3. Min({c, Len(level)}) = c
    <3> DEFINE k == Len(level)
    <3>1. c \in Int /\ k \in Int /\ c <= k
      BY <1>4, <1>6, <2>2
    <3> HIDE DEF k
    <3>2. Min({c, k}) = c
      BY <3>1, MinOfTwo
    <3> QED BY <3>2 DEF k
  <2> QED BY <2>1, <2>3 DEF Proofs!Min, Min
<1>8. level' = LevelOf(n)
  BY <1>1, <1>2, <1>6, <1>7, ProofOperators
<1>9. Proofs!AwaitingLeaves(p) = q /\ Start(p.index) \in Nat /\ LeafEndOf(p.index, n) \in Nat
  BY <1>2, ProofOperators DEF Proofs!AwaitingLeaves
<1>10. /\ q \in ProofRequests /\ q.at = "leaves" /\ q.length = n /\ q.index = p.index
       /\ q.start = Start(p.index) /\ q.end = LeafEndOf(p.index, n) /\ q.hashes = <<>>
  <2>1. "leaves" \in ProofStates
    BY DEF ProofStates
  <2> HIDE DEF q
  <2>2. Awaits(q, p, "leaves", Start(p.index), LeafEndOf(p.index, n))
    BY <1>2, <1>9, <2>1, AwaitingFacts DEF q
  <2> QED BY <2>2 DEF Awaits
<1> HIDE DEF q
<1>11. /\ proof_req' = [proof_req EXCEPT ![r] = q] /\ proof_req'[r] = q
       /\ proof_req' \in [ProofRequest -> ProofRequests]
       /\ \A s \in ProofRequest \ {r} : proof_req'[s] = proof_req[s]
  BY <1>1, <1>2, <1>9, <1>10 DEF ProofTypes
<1>12. Size' = Size
  BY <1>1 DEF Size, Proofs!SegmentLength
<1>13. RightSoFar(proof_req[r])'
  <2> DEFINE now == proof_req'[r]
  <2>1. /\ now.at = "leaves" /\ now.length = n /\ now.index = p.index
        /\ now.start = Start(p.index) /\ now.end = LeafEndOf(p.index, n) /\ now.hashes = <<>>
    BY <1>10, <1>11
  <2>2. RightSoFar(proof_req[r])'
        <=> /\ now.at \in {"extend", "leaves", "last"} => now.index < now.length /\ now.length <= Len(chain)
            /\ now.at = "extend" => now.length > length' /\ ReadOrNot(now, Start(length'), now.length)
            /\ now.at = "leaves" =>
                  now.length <= length' /\ ReadOrNot(now, Start(now.index), LeafEndOf(now.index, now.length))
            /\ now.at = "last" =>
                  /\ now.length < length' /\ Size <= now.length
                  /\ ReadOrNot(now, Start(now.length), now.length)
                  /\ now.leaves = SubSeq(chain, Start(now.index) + 1, LeafEndOf(now.index, now.length))
                  /\ now.result = SubSeq(level', 1, now.length \div Size)
            /\ now.at = "answered" => now.length <= Len(chain) /\ now.result = LevelOf(now.length)
            /\ now.at # "failed"
    BY <1>1, <1>12 DEF RightSoFar, ReadOrNot, Start, LeafEndOf, LevelOf, now
  <2> HIDE DEF now
  <2>3. ReadOrNot(now, Start(now.index), LeafEndOf(now.index, now.length))
    BY <2>1 DEF ReadOrNot
  <2>4. now.length <= length'
    BY <1>1, <1>2, <2>1
  <2> HIDE DEF n
  <2> QED BY <1>2, <2>1, <2>2, <2>3, <2>4
<1>14. ASSUME NEW s \in ProofRequest \ {r}
       PROVE  RightSoFar(proof_req[s])'
  <2> DEFINE o == proof_req[s]
  <2>1. RightSoFar(o) /\ o \in ProofRequests /\ o' = o /\ o.at \in {"idle", "answered", "failed"}
    BY <1>2, <1>11 DEF ProofInv, ProofTypes, Proofs!Active
  <2>2. Len(chain') = Len(chain)
    BY <1>1
  <2>3. SUFFICES RightSoFar(o)'
    BY DEF o
  <2> HIDE DEF o
  <2>4. LevelOf(o.length)' = LevelOf(o.length)
    BY <1>1, <1>12, <2>1 DEF LevelOf
  <2> QED BY <2>1, <2>2, <2>4 DEF RightSoFar
<1>15. ProofTypes'
  BY <1>1, <1>2, <1>11 DEF ProofTypes
<1>16. CacheLevel'
  <2>1. LevelOf(length)' = LevelOf(n)
    BY <1>1, <1>12 DEF LevelOf
  <2>2. Lasting' = Len(chain)
    BY <1>1, <1>2 DEF Lasting
  <2> HIDE DEF n
  <2>3. length' <= Lasting' /\ level' = LevelOf(length)'
    BY <1>1, <1>2, <1>8, <2>1, <2>2
  <2> QED BY <2>3 DEF CacheLevel
<1>17. Alone'
  BY <1>1, <1>2, <1>11 DEF Alone, Proofs!Active
<1> QED BY <1>13, <1>14, <1>15, <1>16, <1>17 DEF ProofInv

\* A request that is answered from the level of its length is answered right.
LEMMA AnsweredStep ==
    ASSUME ProofInv, NEW r \in ProofRequest, Proofs!Active(r), UNCHANGED <<chain, backing, Proofs!cache>>,
           NEW lvl, lvl = LevelOf(proof_req[r].length),
           proof_req' = [proof_req EXCEPT ![r] = [proof_req[r] EXCEPT !.at = "answered", !.result = lvl]]
    PROVE  ProofInv'
<1> DEFINE p == proof_req[r]
           q == [p EXCEPT !.at = "answered", !.result = lvl]
<1>1. /\ initialized /\ backing = 0 /\ \A s \in ProofRequest \ {r} : ~ Proofs!Active(s)
      /\ p \in ProofRequests /\ ProofTypes
      /\ p.index \in Nat /\ p.length \in Nat /\ p.index < p.length /\ p.length <= Len(chain)
  BY UnderWay
<1> HIDE DEF p
<1>2. lvl \in Seq(Seq(Proofs!Header)) /\ lvl = LevelOf(p.length)
  BY <1>1, LevelItem DEF p
<1>3. q \in ProofRequests
  BY <1>1, <1>2 DEF ProofRequests, ProofStates
<1>4. q.at = "answered" /\ q.length = p.length /\ q.result = lvl
  BY <1>1 DEF ProofRequests
<1>5. proof_req' = [proof_req EXCEPT ![r] = q]
  BY DEF p
<1> HIDE DEF q
<1>6. RightSoFar(q)
  BY <1>1, <1>2, <1>4 DEF RightSoFar
<1> QED BY <1>1, <1>3, <1>5, <1>6, ProofRequestStep

\* branch_and_root_from_level finds the leaves in the level.
LEMMA ConcludeStep ==
    ASSUME ProofInv, NEW r \in ProofRequest, Proofs!Active(r), UNCHANGED <<chain, backing, Proofs!cache>>,
           NEW lvl, lvl = LevelOf(proof_req[r].length),
           NEW leaves,
           leaves = SubSeq(chain, Start(proof_req[r].index) + 1, LeafEndOf(proof_req[r].index, proof_req[r].length)),
           Proofs!Conclude(r, lvl, leaves)
    PROVE  ProofInv'
<1> DEFINE p == proof_req[r]
           i == p.index \div Size + 1
<1>1. /\ ProofTypes /\ p.index \in Nat /\ p.length \in Nat /\ p.index < p.length /\ p.length <= Len(chain)
  BY UnderWay
<1>2. i <= Len(lvl) /\ lvl[i] = leaves
  <2> HIDE DEF p
  <2> QED BY <1>1, LevelItem DEF p
<1>3. Proofs!Segment(p.index) + 1 = i
  BY <1>1, ProofOperators
<1>4. proof_req' = [proof_req EXCEPT ![r] = IF i <= Len(lvl) /\ lvl[i] = leaves
                                             THEN [p EXCEPT !.at = "answered", !.result = lvl]
                                             ELSE [p EXCEPT !.at = "failed"]]
  BY <1>3 DEF Proofs!Conclude, Proofs!Becomes
<1>5. proof_req' = [proof_req EXCEPT ![r] = [p EXCEPT !.at = "answered", !.result = lvl]]
  BY <1>2, <1>4
<1> QED BY <1>5, AnsweredStep

\* The leaves of a request, and what is done with them.
LEMMA CombineStep ==
    ASSUME ProofInv, NEW r \in ProofRequest, Proofs!Combine(r)
    PROVE  ProofInv'
<1> DEFINE p == proof_req[r]
           n == p.length
           leaves == p.hashes
<1>1. /\ p.at = "leaves" /\ p.hashes # <<>> /\ Proofs!Active(r) /\ UNCHANGED <<chain, backing, Proofs!cache>>
  BY DEF Proofs!Combine, Proofs!Has, Proofs!Active
<1>2. IF n < Size THEN Proofs!Becomes(r, [p EXCEPT !.at = "answered", !.result = <<leaves>>])
      ELSE IF n = length THEN Proofs!Conclude(r, level, leaves)
      ELSE Proofs!Becomes(r, [Proofs!Awaiting(p, "last", Proofs!LeafStart(n), Proofs!LeafEnd(Proofs!LeafStart(n), n)) EXCEPT
                                 !.leaves = leaves,
                                 !.result = SubSeq(level, 1, Proofs!Min({Proofs!Segment(n), Len(level)}))])
  BY DEF Proofs!Combine, Size
<1>3. /\ initialized /\ backing = 0 /\ \A s \in ProofRequest \ {r} : ~ Proofs!Active(s)
      /\ RightSoFar(p) /\ p \in ProofRequests
      /\ ProofTypes /\ chain \in Seq(Proofs!Header) /\ Len(chain) \in Nat
      /\ length \in Nat /\ length <= Len(chain) /\ level = LevelOf(length) /\ Size \in Nat \ {0}
      /\ p.index \in Nat /\ n \in Nat /\ p.index < n /\ n <= Len(chain)
  BY <1>1, UnderWay
<1>4. n <= length /\ leaves = SubSeq(chain, Start(p.index) + 1, LeafEndOf(p.index, n))
  BY <1>1, <1>3 DEF RightSoFar, ReadOrNot
<1>5. CASE n < Size
  <2>1. LevelOf(n) = <<leaves>>
    BY <1>3, <1>4, <1>5, LevelItem
  <2>2. proof_req' = [proof_req EXCEPT ![r] = [p EXCEPT !.at = "answered", !.result = <<leaves>>]]
    BY <1>2, <1>5 DEF Proofs!Becomes
  <2> HIDE DEF leaves
  <2> QED BY <1>1, <2>1, <2>2, AnsweredStep
<1>6. CASE ~ (n < Size) /\ n = length
  <2>1. Proofs!Conclude(r, level, leaves)
    BY <1>2, <1>6
  <2>2. level = LevelOf(n)
    BY <1>3, <1>6
  <2> HIDE DEF leaves
  <2> QED BY <1>1, <1>4, <2>1, <2>2, ConcludeStep
<1>7. CASE ~ (n < Size) /\ n # length
  <2> DEFINE c == n \div Size
             a == Proofs!Awaiting(p, "last", Start(n), n)
             q == [a EXCEPT !.leaves = leaves, !.result = SubSeq(level, 1, c)]
  <2>1. c \in Nat /\ c * Size = Start(n) /\ c * Size <= n
    BY <1>3, Division DEF Start
  <2> HIDE DEF c
  <2>2. c <= Len(level) /\ level \in Seq(Seq(Proofs!Header))
    <3>1. length \in 0 .. Len(chain) /\ n \in 0 .. Len(chain) /\ c * Size <= length
      BY <1>3, <1>4, <2>1
    <3> HIDE DEF n
    <3>2. c <= Len(SegmentsOf(SubSeq(chain, 1, length), Size))
      BY <1>3, <2>1, <3>1, Rebuilt
    <3>3. level \in Seq(Seq(Proofs!Header))
      <4>1. p.index < length
        BY <1>3, <1>4
      <4> QED BY <1>3, <4>1, LevelItem
    <3> QED BY <1>3, <3>2, <3>3 DEF LevelOf
  <2>3. SubSeq(level, 1, c) \in Seq(Seq(Proofs!Header))
    <3> DEFINE T == Seq(Proofs!Header)
    <3>1. level \in Seq(T)
      BY <2>2
    <3> HIDE DEF T
    <3>2. 0 \in Nat /\ 0 <= c /\ 0 + 1 = 1
      BY <2>1
    <3>3. SubSeq(level, 0 + 1, c) \in Seq(T)
      BY <2>1, <2>2, <3>1, <3>2, Part
    <3> QED BY <3>2, <3>3 DEF T
  <2>4. Proofs!Min({Proofs!Segment(n), Len(level)}) = c
    <3> DEFINE k == Len(level)
    <3>1. c \in Int /\ k \in Int /\ c <= k
      BY <2>1, <2>2
    <3> HIDE DEF k
    <3>2. Min({c, k}) = c
      BY <3>1, MinOfTwo
    <3>3. Proofs!Segment(n) = c
      BY <1>3, ProofOperators DEF c
    <3> QED BY <3>2, <3>3 DEF k, Proofs!Min, Min
  <2>5. Proofs!LeafStart(n) = Start(n) /\ Start(n) \in Nat /\ Proofs!LeafEnd(Start(n), n) = n
    <3>1. /\ Proofs!LeafStart(n) = Start(n) /\ Start(n) \in Nat /\ n < Start(n) + Size
          /\ Proofs!LeafEnd(Start(n), n) = LeafEndOf(n, n)
      BY <1>3, ProofOperators
    <3> QED BY <1>3, <3>1 DEF LeafEndOf
  <2>6. proof_req' = [proof_req EXCEPT ![r] = q]
    BY <1>2, <1>7, <2>4, <2>5 DEF Proofs!Becomes
  <2>7. Awaits(a, p, "last", Start(n), n)
    <3>1. "last" \in ProofStates
      BY DEF ProofStates
    <3> QED BY <1>3, <2>5, <3>1, AwaitingFacts
  <2> HIDE DEF a
  <2>8. /\ a \in ProofRequests /\ a.at = "last" /\ a.start = Start(n) /\ a.end = n /\ a.hashes = <<>>
        /\ a.length = n /\ a.index = p.index
    BY <2>7 DEF Awaits
  <2>9. leaves \in Seq(Proofs!Header)
    BY <1>3 DEF ProofRequests
  <2> HIDE DEF leaves
  <2>10. q \in ProofRequests
    BY <2>3, <2>8, <2>9 DEF ProofRequests
  <2>11. /\ q.at = "last" /\ q.start = Start(n) /\ q.end = n /\ q.hashes = <<>>
         /\ q.length = n /\ q.index = p.index /\ q.leaves = leaves /\ q.result = SubSeq(level, 1, c)
    BY <2>8 DEF ProofRequests
  <2> HIDE DEF q
  <2>12. n < length /\ Size <= n
    BY <1>3, <1>4, <1>7
  <2>13. RightSoFar(q)
    BY <1>3, <1>4, <2>11, <2>12 DEF RightSoFar, ReadOrNot, c
  <2> QED BY <1>1, <1>3, <2>6, <2>10, <2>13, ProofRequestStep
<1> QED BY <1>5, <1>6, <1>7

\* _level_for: the level of a shorter length, of what is kept and what was read.
LEMMA FinishLevelStep ==
    ASSUME ProofInv, NEW r \in ProofRequest, Proofs!FinishLevel(r)
    PROVE  ProofInv'
<1> DEFINE p == proof_req[r]
           n == p.length
           c == n \div Size
           lvl == p.result \o SegmentsOf(p.hashes, Size)
<1>1. /\ p.at = "last" /\ (p.hashes # <<>> \/ p.start = p.end)
      /\ Proofs!Active(r) /\ UNCHANGED <<chain, backing, Proofs!cache>>
      /\ Proofs!Conclude(r, p.result \o Proofs!Segments(p.hashes, depth_higher), p.leaves)
  BY DEF Proofs!FinishLevel, Proofs!Has, Proofs!NothingLast, Proofs!Active
<1>2. /\ RightSoFar(p) /\ p \in ProofRequests
      /\ ProofTypes /\ chain \in Seq(Proofs!Header) /\ Len(chain) \in Nat
      /\ length \in Nat /\ length <= Len(chain) /\ level = LevelOf(length) /\ Size \in Nat \ {0}
      /\ p.index \in Nat /\ n \in Nat /\ p.index < n /\ n <= Len(chain)
  BY <1>1, UnderWay
<1>3. /\ n < length /\ Size <= n
      /\ p.start = Start(n) /\ p.end = n
      /\ p.hashes \in {<<>>, SubSeq(chain, Start(n) + 1, n)}
      /\ p.leaves = SubSeq(chain, Start(p.index) + 1, LeafEndOf(p.index, n))
      /\ p.result = SubSeq(level, 1, c)
  BY <1>1, <1>2 DEF RightSoFar, ReadOrNot
<1>4. c \in Nat /\ c * Size = Start(n) /\ c * Size <= n
  BY <1>2, Division DEF Start
<1> HIDE DEF c
<1>5. p.hashes = SubSeq(chain, Start(n) + 1, n)
  <2>1. ASSUME p.start = p.end
        PROVE  SubSeq(chain, Start(n) + 1, n) = <<>>
    <3>1. Start(n) = n
      BY <1>3, <2>1
    <3> HIDE DEF n
    <3>2. SubSeq(chain, n + 1, n) \in Seq(Proofs!Header) /\ Len(SubSeq(chain, n + 1, n)) = n - n /\ n - n = 0
      BY <1>2, Part
    <3> QED BY <3>1, <3>2
  <2> QED BY <1>1, <1>3, <2>1
<1>6. lvl = LevelOf(n)
  <2>1. length \in 0 .. Len(chain) /\ n \in 0 .. Len(chain) /\ c * Size <= length
    BY <1>2, <1>3, <1>4
  <2> HIDE DEF n
  <2>2. SubSeq(SegmentsOf(SubSeq(chain, 1, length), Size), 1, c) \o SegmentsOf(SubSeq(chain, c * Size + 1, n), Size)
        = SegmentsOf(SubSeq(chain, 1, n), Size)
    BY <1>2, <1>4, <2>1, Rebuilt
  <2> QED BY <1>2, <1>3, <1>4, <1>5, <2>2 DEF LevelOf
<1>7. Proofs!Conclude(r, lvl, p.leaves)
  BY <1>1, <1>2, ProofOperators
<1> HIDE DEF lvl
<1> QED BY <1>1, <1>3, <1>6, <1>7, ConcludeStep

\* Every step of the cache keeps the invariant.
LEMMA ProofStep ==
    ASSUME ProofInv, Proofs!Next
    PROVE  ProofInv'
<1>1. CASE \E r \in ProofRequest : \/ Proofs!Ask(r) \/ Proofs!Read(r) \/ Proofs!Extend(r)
                                   \/ Proofs!Combine(r) \/ Proofs!FinishLevel(r)
  BY <1>1, ProofAskStep, ReadStep, ExtendStep, CombineStep, FinishLevelStep
<1> QED BY <1>1, PopulateStep, FlushStep, BackupFsStep, BackupStateStep DEF Proofs!Next

-----------------------------------------------------------------------------
(* Sums *)

\* The item of a set that its sum takes first.
First(s) == CHOOSE x \in s : TRUE

IsSum(it, f, S) == it = [s \in SUBSET S |-> IF s = {} THEN 0 ELSE f[First(s)] + it[s \ {First(s)}]]

\* Removing the first item of a finite set leaves one item fewer.
LEMMA WithoutFirst ==
    ASSUME NEW S, IsFiniteSet(S), NEW s \in SUBSET S, s # {}
    PROVE  /\ First(s) \in s /\ s \ {First(s)} \in SUBSET S
           /\ Cardinality(s) \in Nat /\ Cardinality(s) # 0 /\ Cardinality(s \ {First(s)}) = Cardinality(s) - 1
<1>1. First(s) \in s
  BY DEF First
<1>2. IsFiniteSet(s)
  BY FS_Subset
<1> QED BY <1>1, <1>2, FS_CardinalityType, FS_EmptySet, FS_RemoveElement

\* There is a function that sums: one for the sets up to each size, and any two agree.
LEMMA SumExists ==
    ASSUME NEW S, IsFiniteSet(S), NEW f
    PROVE  \E it : IsSum(it, f, S)
<1> DEFINE D(n) == {s \in SUBSET S : Cardinality(s) <= n}
           Sums(g, s) == IF s = {} THEN 0 ELSE f[First(s)] + g[s \ {First(s)}]
           Upto(g, n) == \A s \in D(n) : g[s] = Sums(g, s)
           I == {n \in Nat : \E g : Upto(g, n)}
<1>0. \A s \in SUBSET S : Cardinality(s) \in Nat /\ (s = {} <=> Cardinality(s) = 0)
  BY FS_Subset, FS_CardinalityType, FS_EmptySet
<1>1. 0 \in I
  <2>1. Upto([s \in SUBSET S |-> 0], 0)
    <3>1. \A s \in D(0) : s \in SUBSET S /\ s = {}
      BY <1>0
    <3> QED BY <3>1
  <2> HIDE DEF Upto
  <2> QED BY <2>1
<1>2. ASSUME NEW n \in Nat, n \in I
      PROVE  n + 1 \in I
  <2>1. PICK g : Upto(g, n)
    BY <1>2
  <2> DEFINE h == [s \in SUBSET S |-> IF Cardinality(s) = n + 1 THEN Sums(g, s) ELSE g[s]]
  <2>2. ASSUME NEW s \in D(n + 1)
        PROVE  h[s] = Sums(h, s)
    <3>1. s \in SUBSET S /\ Cardinality(s) <= n + 1 /\ Cardinality(s) \in Nat
      BY <1>0
    <3>2. h[s] = Sums(g, s)
      <4>1. CASE Cardinality(s) = n + 1
        BY <3>1, <4>1
      <4>2. CASE Cardinality(s) # n + 1
        <5>1. s \in D(n)
          BY <3>1, <4>2
        <5>2. h[s] = g[s]
          BY <3>1, <4>2
        <5> HIDE DEF h, Sums, D
        <5> QED BY <2>1, <5>1, <5>2
      <4> QED BY <4>1, <4>2
    <3>3. CASE s = {}
      BY <3>2, <3>3
    <3>4. CASE s # {}
      <4> DEFINE t == s \ {First(s)}
      <4>1. t \in SUBSET S /\ Cardinality(t) = Cardinality(s) - 1
        BY <3>1, <3>4, WithoutFirst
      <4> HIDE DEF t
      <4>2. Cardinality(t) # n + 1
        BY <3>1, <4>1
      <4>3. h[t] = g[t]
        BY <4>1, <4>2
      <4> HIDE DEF h
      <4> QED BY <3>2, <3>4, <4>3 DEF t
    <3> QED BY <3>3, <3>4
  <2>3. Upto(h, n + 1)
    BY <2>2
  <2> HIDE DEF Upto, h
  <2> QED BY <2>3
<1> HIDE DEF I
<1>3. Nat \subseteq I
  BY <1>1, <1>2, NatInductive
<1> DEFINE F(n) == CHOOSE g : Upto(g, n)
<1>4. ASSUME NEW n \in Nat
      PROVE  Upto(F(n), n)
  <2>1. \E g : Upto(g, n)
    BY <1>3 DEF I
  <2> HIDE DEF Upto
  <2> QED BY <2>1
<1> HIDE DEF F
<1> DEFINE A == {d \in Nat : \A s \in SUBSET S : Cardinality(s) = d => \A n \in Nat : d <= n => F(n)[s] = F(d)[s]}
<1>5. 0 \in A
  <2>1. ASSUME NEW s \in SUBSET S, Cardinality(s) = 0, NEW n \in Nat
        PROVE  F(n)[s] = 0
    <3>1. s \in D(n) /\ s = {}
      BY <1>0, <2>1
    <3> QED BY <1>4, <3>1
  <2> QED BY <2>1
<1>6. ASSUME NEW d \in Nat, d \in A
      PROVE  d + 1 \in A
  <2>1. ASSUME NEW s \in SUBSET S, Cardinality(s) = d + 1, NEW n \in Nat, d + 1 <= n
        PROVE  F(n)[s] = f[First(s)] + F(d)[s \ {First(s)}]
    <3> DEFINE t == s \ {First(s)}
    <3>1. s # {} /\ s \in D(n)
      BY <1>0, <2>1
    <3>2. t \in SUBSET S /\ Cardinality(t) = d
      <4>1. t \in SUBSET S /\ Cardinality(t) = Cardinality(s) - 1
        BY <3>1, WithoutFirst
      <4> QED BY <2>1, <4>1
    <3>3. F(n)[s] = f[First(s)] + F(n)[t]
      BY <1>4, <3>1
    <3> HIDE DEF t
    <3>4. d <= n
      BY <2>1
    <3>5. F(n)[t] = F(d)[t]
      BY <1>6, <3>2, <3>4
    <3> QED BY <3>3, <3>5 DEF t
  <2>2. ASSUME NEW s \in SUBSET S, Cardinality(s) = d + 1, NEW n \in Nat, d + 1 <= n
        PROVE  F(n)[s] = F(d + 1)[s]
    <3>a. d + 1 \in Nat /\ d + 1 <= d + 1
      OBVIOUS
    <3>1. F(d + 1)[s] = f[First(s)] + F(d)[s \ {First(s)}]
      BY <2>1, <2>2, <3>a
    <3> QED BY <2>1, <2>2, <3>1
  <2> QED BY <2>2
<1> HIDE DEF A
<1>7. Nat \subseteq A
  BY <1>5, <1>6, NatInductive
<1> DEFINE p == [s \in SUBSET S |-> F(Cardinality(s))[s]]
<1>8. ASSUME NEW s \in SUBSET S
      PROVE  p[s] = Sums(p, s)
  <2> DEFINE n == Cardinality(s)
             t == s \ {First(s)}
  <2>1. n \in Nat /\ s \in D(n)
    BY <1>0
  <2>2. p[s] = Sums(F(n), s)
    BY <1>4, <2>1
  <2>3. CASE s = {}
    BY <2>2, <2>3
  <2>4. CASE s # {}
    <3>1. t \in SUBSET S /\ Cardinality(t) = n - 1 /\ Cardinality(t) \in Nat /\ Cardinality(t) <= n
      <4>1. t \in SUBSET S /\ Cardinality(t) = n - 1 /\ n # 0
        BY <2>4, WithoutFirst
      <4> HIDE DEF t, n
      <4> QED BY <2>1, <4>1
    <3> HIDE DEF t, n
    <3>2. F(n)[t] = F(Cardinality(t))[t]
      BY <1>7, <2>1, <3>1 DEF A
    <3>3. p[t] = F(n)[t]
      BY <3>1, <3>2
    <3> HIDE DEF p
    <3> QED BY <2>2, <2>4, <3>3 DEF t
  <2> QED BY <2>3, <2>4
<1>9. p = [s \in SUBSET S |-> p[s]]
  OBVIOUS
<1> HIDE DEF p
<1>10. IsSum(p, f, S)
  BY <1>8, <1>9 DEF IsSum
<1> QED BY <1>10

\* What it is for a set is the same whatever set it is asked for within.
LEMMA SumUnique ==
    ASSUME NEW S, IsFiniteSet(S), NEW f, NEW T \in SUBSET S, NEW a, NEW b, IsSum(a, f, T), IsSum(b, f, S)
    PROVE  \A s \in SUBSET T : a[s] = b[s]
<1> DEFINE Sums(g, s) == IF s = {} THEN 0 ELSE f[First(s)] + g[s \ {First(s)}]
           I == {d \in Nat : \A s \in SUBSET T : Cardinality(s) = d => a[s] = b[s]}
<1>0. \A s \in SUBSET S : Cardinality(s) \in Nat /\ (s = {} <=> Cardinality(s) = 0)
  BY FS_Subset, FS_CardinalityType, FS_EmptySet
<1>1. \A s \in SUBSET T : s \in SUBSET S /\ a[s] = Sums(a, s) /\ b[s] = Sums(b, s)
  <2>1. \A s \in SUBSET T : a[s] = Sums(a, s)
    BY DEF IsSum
  <2>2. \A s \in SUBSET S : b[s] = Sums(b, s)
    BY DEF IsSum
  <2> HIDE DEF Sums
  <2> QED BY <2>1, <2>2
<1>2. 0 \in I
  BY <1>0, <1>1
<1>3. ASSUME NEW d \in Nat, d \in I
      PROVE  d + 1 \in I
  <2>1. ASSUME NEW s \in SUBSET T, Cardinality(s) = d + 1
        PROVE  a[s] = b[s]
    <3>1. s \in SUBSET S /\ s # {}
      BY <1>0, <1>1, <2>1
    <3> DEFINE t == s \ {First(s)}
    <3>2. t \in SUBSET T /\ Cardinality(t) = d
      <4>1. t \in SUBSET S /\ Cardinality(t) = Cardinality(s) - 1
        BY <3>1, WithoutFirst
      <4> QED BY <2>1, <4>1
    <3> HIDE DEF t
    <3>3. a[t] = b[t]
      BY <1>3, <3>2
    <3> QED BY <1>1, <3>1, <3>3 DEF t
  <2> QED BY <2>1
<1> HIDE DEF I
<1>4. Nat \subseteq I
  BY <1>2, <1>3, NatInductive
<1>5. ASSUME NEW s \in SUBSET T
      PROVE  a[s] = b[s]
  <2>1. Cardinality(s) \in Nat
    BY <1>0
  <2> QED BY <1>4, <2>1 DEF I
<1> QED BY <1>5

Total(f, s) == Manager!SumFunctionOnSet(f, s)

\* A sum takes its first item, and then sums the rest.
LEMMA TotalFirst ==
    ASSUME NEW S, IsFiniteSet(S), NEW f, NEW s \in SUBSET S
    PROVE  Total(f, s) = IF s = {} THEN 0 ELSE f[First(s)] + Total(f, s \ {First(s)})
<1>1. PICK it : IsSum(it, f, S)
  BY SumExists
<1>2. ASSUME NEW t \in SUBSET S
      PROVE  Total(f, t) = it[t]
  <2> DEFINE a == CHOOSE a : IsSum(a, f, t)
  <2>1. Total(f, t) = a[t]
    BY DEF Total, IsSum, First, Manager!SumFunctionOnSet, Manager!FoldFunctionOnSet, Manager!MapThenFoldSet
  <2>2. IsFiniteSet(t)
    BY FS_Subset
  <2>3. IsSum(a, f, t)
    BY <2>2, SumExists
  <2> HIDE DEF a
  <2>4. a[t] = it[t]
    BY <1>1, <2>3, SumUnique
  <2> QED BY <2>1, <2>4
<1>3. it[s] = IF s = {} THEN 0 ELSE f[First(s)] + it[s \ {First(s)}]
  BY <1>1 DEF IsSum
<1>4. s \ {First(s)} \in SUBSET S
  OBVIOUS
<1> QED BY <1>2, <1>3, <1>4

\* A sum of integers is one, and any item may be taken first.
LEMMA TotalAny ==
    ASSUME NEW S, IsFiniteSet(S), NEW f, \A x \in S : f[x] \in Int
    PROVE  /\ Total(f, {}) = 0
           /\ \A s \in SUBSET S : Total(f, s) \in Int /\ \A x \in s : Total(f, s) = f[x] + Total(f, s \ {x})
<1> DEFINE OK(s) == Total(f, s) \in Int /\ \A x \in s : Total(f, s) = f[x] + Total(f, s \ {x})
           I == {d \in Nat : \A s \in SUBSET S : Cardinality(s) <= d => OK(s)}
<1>0. \A s \in SUBSET S : Cardinality(s) \in Nat /\ (s = {} <=> Cardinality(s) = 0)
  BY FS_Subset, FS_CardinalityType, FS_EmptySet
<1>1. Total(f, {}) = 0
  BY TotalFirst
<1>2. 0 \in I
  <2>1. \A s \in SUBSET S : Cardinality(s) <= 0 => s = {}
    BY <1>0
  <2>2. OK({})
    BY <1>1
  <2> HIDE DEF OK
  <2> QED BY <2>1, <2>2
<1>3. ASSUME NEW d \in Nat, d \in I
      PROVE  d + 1 \in I
  <2>1. ASSUME NEW s \in SUBSET S, Cardinality(s) = d + 1
        PROVE  OK(s)
    <3> DEFINE y == First(s)
               t == s \ {y}
    <3>1. s # {}
      BY <1>0, <2>1
    <3>2. y \in s /\ y \in S /\ t \in SUBSET S /\ Cardinality(t) = d
      <4>1. y \in s /\ t \in SUBSET S /\ Cardinality(t) = Cardinality(s) - 1
        BY <3>1, WithoutFirst
      <4> QED BY <2>1, <4>1
    <3>3. Total(f, s) = f[y] + Total(f, t)
      BY <3>1, TotalFirst
    <3> HIDE DEF y
    <3>4. OK(t)
      <4>1. Cardinality(t) <= d
        BY <3>2
      <4> HIDE DEF OK, t
      <4> QED BY <1>3, <3>2, <4>1
    <3>5. ASSUME NEW x \in s, x # y
          PROVE  Total(f, s) = f[x] + Total(f, s \ {x})
      <4> DEFINE u == s \ {x}
                 v == t \ {x}
      <4>1. v = u \ {y} /\ y \in u /\ x \in t /\ u \in SUBSET S /\ v \in SUBSET S /\ x \in S
        BY <3>2, <3>5
      <4>2. Cardinality(u) = d
        <5>1. IsFiniteSet(s)
          BY FS_Subset
        <5>2. Cardinality(u) = Cardinality(s) - 1
          BY <5>1, FS_RemoveElement
        <5> HIDE DEF u
        <5> QED BY <2>1, <5>2
      <4> HIDE DEF u
      <4>3. OK(u)
        <5>1. Cardinality(u) <= d
          BY <4>2
        <5> HIDE DEF OK
        <5> QED BY <1>3, <4>1, <5>1
      <4>4. Total(f, t) = f[x] + Total(f, v)
        BY <3>4, <4>1
      <4>5. Total(f, u) = f[y] + Total(f, u \ {y})
        BY <4>1, <4>3
      <4> HIDE DEF v, t
      <4>6. Total(f, u) = f[y] + Total(f, v)
        BY <4>1, <4>5
      <4>7. Total(f, v) \in Int
        <5>1. IsFiniteSet(u) /\ v \in SUBSET u
          BY <4>1, FS_Subset
        <5>2. Cardinality(v) <= d
          BY <4>2, <5>1, FS_Subset
        <5>3. OK(v)
          BY <1>3, <4>1, <5>2
        <5> QED BY <5>3
      <4>8. f[x] \in Int /\ f[y] \in Int
        BY <3>2, <4>1
      <4>9. Total(f, s) = f[x] + Total(f, u)
        BY <3>3, <4>4, <4>6, <4>7, <4>8
      <4> QED BY <4>9 DEF u
    <3>6. Total(f, s) \in Int
      BY <3>2, <3>3, <3>4
    <3> QED BY <3>3, <3>5, <3>6
  <2>2. \A s \in SUBSET S : Cardinality(s) <= d + 1 => Cardinality(s) <= d \/ Cardinality(s) = d + 1
    BY <1>0
  <2> HIDE DEF OK
  <2> QED BY <1>3, <2>1, <2>2
<1> HIDE DEF I
<1>4. Nat \subseteq I
  BY <1>2, <1>3, NatInductive
<1>5. ASSUME NEW s \in SUBSET S
      PROVE  OK(s)
  <2>1. Cardinality(s) \in Nat /\ Cardinality(s) <= Cardinality(s)
    BY <1>0
  <2> HIDE DEF OK
  <2> QED BY <1>4, <2>1 DEF I
<1> QED BY <1>1, <1>5

\* Sums of the same items are equal.
LEMMA TotalSame ==
    ASSUME NEW S, IsFiniteSet(S), NEW f, NEW g, NEW s \in SUBSET S, \A x \in s : f[x] = g[x]
    PROVE  Total(f, s) = Total(g, s)
<1> DEFINE I == {d \in Nat : \A t \in SUBSET s : Cardinality(t) = d => Total(f, t) = Total(g, t)}
<1>0. \A t \in SUBSET S : Cardinality(t) \in Nat /\ (t = {} <=> Cardinality(t) = 0)
  BY FS_Subset, FS_CardinalityType, FS_EmptySet
<1>a. \A t \in SUBSET s : t \in SUBSET S
  OBVIOUS
<1>1. 0 \in I
  <2>1. Total(f, {}) = 0 /\ Total(g, {}) = 0
    BY TotalFirst
  <2> QED BY <1>0, <1>a, <2>1
<1>2. ASSUME NEW d \in Nat, d \in I
      PROVE  d + 1 \in I
  <2>1. ASSUME NEW t \in SUBSET s, Cardinality(t) = d + 1
        PROVE  Total(f, t) = Total(g, t)
    <3> DEFINE y == First(t)
               u == t \ {y}
    <3>1. t # {} /\ t \in SUBSET S
      BY <1>0, <2>1
    <3>2. y \in t /\ u \in SUBSET s /\ Cardinality(u) = d
      <4>1. y \in t /\ u \in SUBSET S /\ Cardinality(u) = Cardinality(t) - 1
        BY <3>1, WithoutFirst
      <4> QED BY <2>1, <4>1
    <3>3. Total(f, t) = f[y] + Total(f, u) /\ Total(g, t) = g[y] + Total(g, u)
      BY <3>1, TotalFirst
    <3> HIDE DEF y, u
    <3>4. Total(f, u) = Total(g, u)
      BY <1>2, <3>2
    <3>5. f[y] = g[y]
      BY <3>2
    <3> QED BY <3>3, <3>4, <3>5
  <2> QED BY <2>1
<1> HIDE DEF I
<1>3. Nat \subseteq I
  BY <1>1, <1>2, NatInductive
<1> QED BY <1>0, <1>3 DEF I

-----------------------------------------------------------------------------
(* The costs of sessions and groups *)

ManagerTypes ==
    /\ conn \in [Client -> {"off", "handshake", "open", "closing", "refused"}]
    /\ cost \in [Client -> Nat]
    /\ retained \in [DOMAIN retained -> Nat] /\ NoGroup \notin DOMAIN retained

\* What a client's session counts for in its group.
Share(c, g) == IF c \in Manager!Sessions /\ GroupOf[c] = g THEN cost[c] ELSE 0

\* Only the session of one client changes: the cost of the group does as it does.
LEMMA OneSession ==
    ASSUME IsFiniteSet(Client), ManagerTypes, ManagerTypes', NEW g, NEW c \in Client,
           \A d \in Client \ {c} : cost'[d] = cost[d] /\ (d \in Manager!Sessions' <=> d \in Manager!Sessions)
    PROVE  /\ Manager!SessionCost(g) \in Int /\ Manager!SessionCost(g)' \in Int
           /\ Share(c, g) \in Nat /\ Share(c, g)' \in Nat
           /\ Manager!SessionCost(g)' = Manager!SessionCost(g) - Share(c, g) + Share(c, g)'
<1> DEFINE M == {d \in Manager!Sessions : GroupOf[d] = g}
           N == {d \in Manager!Sessions' : GroupOf[d] = g}
           R == M \ {c}
           f == cost
           h == cost'
<1>1. /\ Manager!SessionCost(g) = Total(f, M) /\ Manager!SessionCost(g)' = Total(h, N)
  BY DEF Manager!SessionCost, Total
<1>2. M \in SUBSET Client /\ N \in SUBSET Client /\ R = N \ {c} /\ R \in SUBSET Client
  BY DEF Manager!Sessions
<1>3. \A d \in Client : f[d] \in Int /\ h[d] \in Int /\ f[d] \in Nat /\ h[d] \in Nat
  BY DEF ManagerTypes
<1>4. \A d \in R : f[d] = h[d]
  BY <1>2
<1>5. Share(c, g) = (IF c \in M THEN f[c] ELSE 0) /\ Share(c, g)' = (IF c \in N THEN h[c] ELSE 0)
  BY DEF Share
<1> HIDE DEF f, h, M, N
<1>6. /\ \A s \in SUBSET Client : Total(f, s) \in Int /\ \A x \in s : Total(f, s) = f[x] + Total(f, s \ {x})
      /\ \A s \in SUBSET Client : Total(h, s) \in Int /\ \A x \in s : Total(h, s) = h[x] + Total(h, s \ {x})
  <2>1. \A d \in Client : f[d] \in Int
    BY <1>3
  <2>2. \A d \in Client : h[d] \in Int
    BY <1>3
  <2>3. \A s \in SUBSET Client : Total(f, s) \in Int /\ \A x \in s : Total(f, s) = f[x] + Total(f, s \ {x})
    BY <2>1, TotalAny
  <2>4. \A s \in SUBSET Client : Total(h, s) \in Int /\ \A x \in s : Total(h, s) = h[x] + Total(h, s \ {x})
    BY <2>2, TotalAny
  <2> QED BY <2>3, <2>4
<1>7. Total(f, R) = Total(h, R)
  <2> HIDE DEF R
  <2> QED BY <1>2, <1>4, TotalSame
<1>8. Total(f, M) = (IF c \in M THEN f[c] ELSE 0) + Total(f, R)
  <2>1. CASE c \in M
    BY <1>2, <1>6, <2>1
  <2>2. CASE c \notin M
    <3>1. R = M
      BY <2>2
    <3> HIDE DEF R
    <3>2. Total(f, R) \in Int
      BY <1>2, <1>6
    <3> QED BY <2>2, <3>1, <3>2
  <2> QED BY <2>1, <2>2
<1>9. Total(h, N) = (IF c \in N THEN h[c] ELSE 0) + Total(h, R)
  <2>1. CASE c \in N
    BY <1>2, <1>6, <2>1
  <2>2. CASE c \notin N
    <3>1. R = N
      BY <1>2, <2>2
    <3> HIDE DEF R
    <3>2. Total(h, R) \in Int
      BY <1>2, <1>6
    <3> QED BY <2>2, <3>1, <3>2
  <2> QED BY <2>1, <2>2
<1> HIDE DEF R
<1>10. Total(f, R) \in Int /\ Total(f, M) \in Int /\ Total(h, N) \in Int
  BY <1>2, <1>6
<1> QED BY <1>1, <1>3, <1>5, <1>7, <1>8, <1>9, <1>10

\* A step that neither adds a session, nor removes one, nor changes a cost.
Quiet ==
    /\ conn' \in [Client -> {"off", "handshake", "open", "closing", "refused"}]
    /\ Manager!Sessions' = Manager!Sessions /\ cost' = cost /\ retained' = retained

\* A decay of the cost of some session.
Decays == \E c \in Client : conn[c] = "open" /\ cost'[c] = cost[c] - 1

\* The cost of a group falls only when that of a session decays.
CostKept == \A g \in DOMAIN retained : Manager!GroupCost(g)' < Manager!GroupCost(g) => Decays

\* Sessions that are closed are sessions until their connections are lost.
LEMMA ClosedIsQuiet ==
    ASSUME ManagerTypes, NEW cs, Manager!Closed(cs), UNCHANGED <<cost, retained>>
    PROVE  Quiet
<1>1. \A c \in Client : conn'[c] = IF c \in cs /\ conn[c] = "open" THEN "closing" ELSE conn[c]
  BY DEF Manager!Closed
<1>2. \A c \in Client : conn'[c] \in {"open", "closing", "refused"} <=> conn[c] \in {"open", "closing", "refused"}
  BY <1>1
<1>3. conn' \in [Client -> {"off", "handshake", "open", "closing", "refused"}]
  BY DEF Manager!Closed, ManagerTypes
<1> QED BY <1>2, <1>3 DEF Quiet, Manager!Sessions

\* A quiet step leaves the costs of the groups as they are.
LEMMA QuietStep ==
    ASSUME IsFiniteSet(Client), ManagerTypes, Quiet
    PROVE  ManagerTypes' /\ CostKept
<1>1. ManagerTypes'
  BY DEF ManagerTypes, Quiet
<1>2. ASSUME NEW g \in DOMAIN retained
      PROVE  Manager!GroupCost(g) \in Int /\ Manager!GroupCost(g)' = Manager!GroupCost(g)
  <2> DEFINE M == {d \in Manager!Sessions : GroupOf[d] = g}
  <2>1. Manager!SessionCost(g) = Total(cost, M) /\ Manager!SessionCost(g)' = Total(cost, M)
    BY DEF Manager!SessionCost, Total, Quiet
  <2>2. M \in SUBSET Client /\ \A x \in Client : cost[x] \in Int
    BY DEF Manager!Sessions, ManagerTypes
  <2> HIDE DEF M
  <2>3. Total(cost, M) \in Int
    BY <2>2, TotalAny
  <2>4. retained[g] \in Nat /\ retained' = retained
    BY DEF ManagerTypes, Quiet
  <2> QED BY <2>1, <2>3, <2>4 DEF Manager!GroupCost
<1> QED BY <1>1, <1>2 DEF CostKept

\* One session changes: its share of its group falls by no more than the group
\* retains, but for a decay.
LEMMA SessionStep ==
    ASSUME IsFiniteSet(Client), ManagerTypes, ManagerTypes', NEW c \in Client,
           \A d \in Client \ {c} : cost'[d] = cost[d] /\ (d \in Manager!Sessions' <=> d \in Manager!Sessions),
           DOMAIN retained \subseteq DOMAIN retained',
           \A g \in DOMAIN retained : Decays \/ Share(c, g)' + retained'[g] >= Share(c, g) + retained[g]
    PROVE  CostKept
<1> SUFFICES ASSUME NEW g \in DOMAIN retained, ~ Decays
             PROVE  ~ (Manager!GroupCost(g)' < Manager!GroupCost(g))
  BY DEF CostKept
<1>1. /\ Manager!SessionCost(g) \in Int /\ Manager!SessionCost(g)' \in Int
      /\ Share(c, g) \in Nat /\ Share(c, g)' \in Nat
      /\ Manager!SessionCost(g)' = Manager!SessionCost(g) - Share(c, g) + Share(c, g)'
  BY OneSession
<1>2. retained[g] \in Nat /\ retained'[g] \in Nat
  BY DEF ManagerTypes
<1>3. Manager!GroupCost(g) = retained[g] + Manager!SessionCost(g)
  BY DEF Manager!GroupCost
<1>4. Manager!GroupCost(g)' = retained'[g] + Manager!SessionCost(g)'
  BY DEF Manager!GroupCost
<1> QED BY <1>1, <1>2, <1>3, <1>4

\* No operation of the manager or its sessions sheds the cost of a group.
LEMMA ManagerStep ==
    ASSUME IsFiniteSet(Client), ManagerTypes, Manager!Next
    PROVE  ManagerTypes' /\ CostKept
<1>1. ASSUME NEW s \in Service, Manager!OpenService(s)
      PROVE  Quiet
  BY <1>1 DEF Manager!OpenService, Manager!connVars, Quiet, ManagerTypes, Manager!Sessions
<1>2. CASE Manager!Serve \/ Manager!DiscoverEnds \/ Manager!StopServers \/ Manager!Stop \/ Manager!StartNotify
  <2>1. UNCHANGED <<conn, cost, retained>>
    BY <1>2 DEF Manager!Serve, Manager!DiscoverEnds, Manager!StopServers, Manager!Stop, Manager!StartNotify, Manager!connVars
  <2>2. Quiet
    BY <2>1 DEF Quiet, ManagerTypes, Manager!Sessions
  <2> QED BY <2>2, QuietStep
<1>3. CASE Manager!Cancel \/ Manager!ClearStale
  <2>1. \E cs : Manager!Closed(cs) /\ UNCHANGED <<cost, retained>>
    BY <1>3 DEF Manager!Cancel, Manager!ClearStale
  <2>2. Quiet
    BY <2>1, ClosedIsQuiet
  <2> QED BY <2>2, QuietStep
<1>4. ASSUME NEW cs \in SUBSET Client, Manager!RpcDisconnect(cs)
      PROVE  ManagerTypes' /\ CostKept
  <2>1. Quiet
    BY <1>4, ClosedIsQuiet DEF Manager!RpcDisconnect
  <2> QED BY <2>1, QuietStep
<1>5. ASSUME NEW c \in Client,
             Manager!Accept(c) \/ Manager!GiveUp(c) \/ Manager!GoStale(c) \/ Manager!NotifyNext(c) \/ Manager!NotifyDone(c)
      PROVE  ManagerTypes' /\ CostKept
  <2>1. UNCHANGED <<cost, retained>>
    BY <1>5 DEF Manager!Accept, Manager!GiveUp, Manager!GoStale, Manager!NotifyNext, Manager!NotifyDone, Manager!connVars
  <2>2. \/ conn' = conn
        \/ conn[c] = "off" /\ conn' = [conn EXCEPT ![c] = "handshake"]
        \/ conn[c] = "handshake" /\ conn' = [conn EXCEPT ![c] = "off"]
    BY <1>5 DEF Manager!Accept, Manager!GiveUp, Manager!GoStale, Manager!NotifyNext, Manager!NotifyDone, Manager!connVars
  <2>3. Quiet
    BY <2>1, <2>2 DEF Quiet, ManagerTypes, Manager!Sessions
  <2> QED BY <2>3, QuietStep
<1>6. ASSUME NEW c \in Client, Manager!Negotiate(c) \/ Manager!NotifyTimeout(c)
      PROVE  ManagerTypes' /\ CostKept
  <2>1. UNCHANGED <<cost, retained>> /\ (conn' = conn \/ Manager!Closed({c}))
    BY <1>6 DEF Manager!Negotiate, Manager!NotifyTimeout
  <2>2. CASE conn' = conn
    BY <2>1, <2>2, QuietStep DEF Quiet, ManagerTypes, Manager!Sessions
  <2>3. CASE Manager!Closed({c})
    BY <2>1, <2>3, ClosedIsQuiet, QuietStep
  <2> QED BY <2>1, <2>2, <2>3
<1>7. ASSUME NEW c \in Client, Manager!AddSession(c)
      PROVE  ManagerTypes' /\ CostKept
  <2>1. /\ conn[c] = "handshake" /\ \E a \in {"open", "refused"} : conn' = [conn EXCEPT ![c] = a]
        /\ cost' = [cost EXCEPT ![c] = 1]
        /\ retained' = IF GroupOf[c] = NoGroup \/ GroupOf[c] \in DOMAIN retained THEN retained
                       ELSE [g \in DOMAIN retained \cup {GroupOf[c]} |-> IF g = GroupOf[c] THEN 0 ELSE retained[g]]
    BY <1>7 DEF Manager!AddSession
  <2>2. /\ retained' \in [DOMAIN retained' -> Nat] /\ DOMAIN retained \subseteq DOMAIN retained'
        /\ \A g \in DOMAIN retained : retained'[g] = retained[g]
    BY <2>1 DEF ManagerTypes
  <2>3. ManagerTypes'
    BY <2>1, <2>2 DEF ManagerTypes
  <2>4. \A d \in Client \ {c} : cost'[d] = cost[d] /\ (d \in Manager!Sessions' <=> d \in Manager!Sessions)
    BY <2>1 DEF ManagerTypes, Manager!Sessions
  <2>5. \A g \in DOMAIN retained : Share(c, g)' + retained'[g] >= Share(c, g) + retained[g]
    BY <2>1, <2>2 DEF Share, Manager!Sessions, ManagerTypes
  <2> QED BY <2>2, <2>3, <2>4, <2>5, SessionStep
<1>8. ASSUME NEW c \in Client, Manager!Request(c)
      PROVE  ManagerTypes' /\ CostKept
  <2>1. CASE Manager!Closed({c}) /\ cost' = cost
    <3>1. retained' = retained
      BY <1>8 DEF Manager!Request
    <3> QED BY <2>1, <3>1, ClosedIsQuiet, QuietStep
  <2>2. CASE cost' = [cost EXCEPT ![c] = @ + 1] /\ conn' = conn
    <3>1. retained' = retained
      BY <1>8 DEF Manager!Request
    <3>2. ManagerTypes'
      BY <2>2, <3>1 DEF ManagerTypes
    <3>3. \A d \in Client \ {c} : cost'[d] = cost[d] /\ (d \in Manager!Sessions' <=> d \in Manager!Sessions)
      BY <2>2 DEF ManagerTypes, Manager!Sessions
    <3>4. \A g \in DOMAIN retained : Share(c, g)' + retained'[g] >= Share(c, g) + retained[g]
      BY <2>2, <3>1 DEF Share, Manager!Sessions, ManagerTypes
    <3> QED BY <3>1, <3>2, <3>3, <3>4, SessionStep
  <2> QED BY <1>8, <2>1, <2>2 DEF Manager!Request
<1>9. ASSUME NEW c \in Client, Manager!Decay(c)
      PROVE  ManagerTypes' /\ CostKept
  <2>1. conn[c] = "open" /\ cost[c] > 0 /\ cost' = [cost EXCEPT ![c] = @ - 1] /\ UNCHANGED <<conn, retained>>
    BY <1>9 DEF Manager!Decay, Manager!connVars
  <2>2. Decays
    BY <2>1 DEF Decays, ManagerTypes
  <2> QED BY <2>1, <2>2 DEF CostKept, ManagerTypes
<1>10. ASSUME NEW c \in Client, Manager!ConnectionLost(c)
       PROVE  ManagerTypes' /\ CostKept
  <2>1. /\ c \in Manager!Sessions /\ conn' = [conn EXCEPT ![c] = "off"] /\ cost' = [cost EXCEPT ![c] = 0]
        /\ retained' = IF GroupOf[c] = NoGroup THEN retained ELSE [retained EXCEPT ![GroupOf[c]] = @ + cost[c]]
    BY <1>10 DEF Manager!ConnectionLost, Manager!RetainedAfter
  <2>2. /\ retained' \in [DOMAIN retained' -> Nat] /\ DOMAIN retained = DOMAIN retained'
        /\ \A g \in DOMAIN retained : retained'[g] = IF g = GroupOf[c] THEN retained[g] + cost[c] ELSE retained[g]
    <3>1. CASE GroupOf[c] \in DOMAIN retained
      <4>1. retained' = [g \in DOMAIN retained |-> IF g = GroupOf[c] THEN retained[g] + cost[c] ELSE retained[g]]
        BY <2>1, <3>1 DEF ManagerTypes
      <4>2. cost[c] \in Nat /\ \A g \in DOMAIN retained : retained[g] \in Nat
        BY <2>1 DEF ManagerTypes, Manager!Sessions
      <4> QED BY <4>1, <4>2
    <3>2. CASE GroupOf[c] \notin DOMAIN retained
      <4>1. retained' = retained
        BY <2>1, <3>2 DEF ManagerTypes
      <4> QED BY <3>2, <4>1 DEF ManagerTypes
    <3> QED BY <3>1, <3>2
  <2>3. ManagerTypes'
    BY <2>1, <2>2 DEF ManagerTypes
  <2>4. \A d \in Client \ {c} : cost'[d] = cost[d] /\ (d \in Manager!Sessions' <=> d \in Manager!Sessions)
    BY <2>1 DEF ManagerTypes, Manager!Sessions
  <2>5. \A g \in DOMAIN retained : Share(c, g)' + retained'[g] >= Share(c, g) + retained[g]
    BY <2>1, <2>2 DEF Share, Manager!Sessions, ManagerTypes
  <2> QED BY <2>2, <2>3, <2>4, <2>5, SessionStep
<1> QED BY <1>1, <1>2, <1>3, <1>4, <1>5, <1>6, <1>7, <1>8, <1>9, <1>10, QuietStep DEF Manager!Next

-----------------------------------------------------------------------------
(* The parts together *)

\* The invariant of ElectrumX.estimatefee holds whichever part a behaviour is of.
LEMMA FeeInvHolds == Spec => []FeeInv
<1>1. Init => FeeInv
  BY FeeInit DEF Init
<1>2. FeeInv /\ [Next]_vars => FeeInv'
  <2> SUFFICES ASSUME FeeInv, [Next]_vars
               PROVE  FeeInv'
    OBVIOUS
  <2>1. Fees!Next \/ UNCHANGED feeVars
    BY DEF Next, vars
  <2>2. CASE UNCHANGED feeVars
    BY <2>2 DEF feeVars, FeeInv, FeeTypes, CachedLater, AskedLater, LaterThanAsked, OneEach
  <2> QED BY <2>1, <2>2, FeeStep
<1> QED BY <1>1, <1>2, PTL DEF Spec

\* So does that of MerkleCache and the requests for header proofs,
LEMMA ProofInvHolds == Spec => []ProofInv
<1>1. Init => ProofInv
  BY ProofInit DEF Init
<1>2. ProofInv /\ [Next]_vars => ProofInv'
  <2> SUFFICES ASSUME ProofInv, [Next]_vars
               PROVE  ProofInv'
    OBVIOUS
  <2>1. Proofs!Next \/ UNCHANGED proofVars
    BY DEF Next, vars
  <2>2. CASE UNCHANGED proofVars
    BY <2>2 DEF proofVars, ProofInv, ProofTypes, CacheLevel, Alone, RightSoFar, ReadOrNot, Start, LeafEndOf,
                LevelOf, Size, Lasting, Proofs!SegmentLength, Proofs!Active
  <2> QED BY <2>1, <2>2, ProofStep
<1> QED BY <1>1, <1>2, PTL DEF Spec

\* and what the costs of SessionManager and its groups are.
LEMMA ManagerTypesHold == Spec => []ManagerTypes
<1>1. Init => ManagerTypes
  BY DEF Init, Manager!Init, ManagerTypes
<1>2. ManagerTypes /\ [Next]_vars => ManagerTypes'
  <2> SUFFICES ASSUME ManagerTypes, [Next]_vars
               PROVE  ManagerTypes'
    OBVIOUS
  <2>1. Manager!Next \/ UNCHANGED managerVars
    BY DEF Next, vars
  <2>2. CASE UNCHANGED managerVars
    BY <2>2 DEF managerVars, ManagerTypes
  <2>3. IsFiniteSet(Client)
    BY ServicesAssumption DEF Manager!SessionManagerAssumption, Manager!IsFiniteSet, IsFiniteSet
  <2> QED BY <2>1, <2>2, <2>3, ManagerStep
<1> QED BY <1>1, <1>2, PTL DEF Spec

\* No client gets a fee rate that was estimated before the tip at which it asked,
\* whatever ElectrumX.estimatefee had cached or came while it waited.
THEOREM FeeCurrentHolds == Spec => []FeeCurrent
<1>1. FeeInv => FeeCurrent
  BY DEF FeeInv, FeeTypes, AskedLater, LaterThanAsked, FeeCurrent, Fees!FeeCurrent
<1> QED BY <1>1, FeeInvHolds, PTL

\* However many clients ask for one estimate, one of them at a time asks the daemon.
THEOREM OneAsksHolds == Spec => []OneAsks
<1>1. FeeInv => OneAsks
  <2> SUFFICES ASSUME FeeInv, NEW k \in Key
               PROVE  Cardinality({r \in FeeRequest : fee_req[r].at = "asking" /\ fee_req[r].key = k}) <= 1
    BY DEF OneAsks, Fees!OneAsks, Fees!Cardinality, Cardinality
  <2> DEFINE A == {r \in FeeRequest : fee_req[r].at = "asking" /\ fee_req[r].key = k}
  <2>1. \A r, s \in A : r = s
    BY DEF FeeInv, OneEach
  <2>2. A = {} \/ \E r : A = {r}
    BY <2>1
  <2> HIDE DEF A
  <2>3. Cardinality(A) <= 1
    <3>1. A = {} => Cardinality(A) = 0
      BY FS_EmptySet
    <3>2. \A r : A = {r} => Cardinality(A) = 1
      BY FS_Singleton
    <3>3. Cardinality(A) = 0 \/ Cardinality(A) = 1
      BY <2>2, <3>1, <3>2
    <3> QED BY <3>3
  <2> QED BY <2>3 DEF A
<1> QED BY <1>1, FeeInvHolds, PTL

\* Between requests and reorgs MerkleCache is the level of the headers that it
\* covers, whatever extensions and truncations it went through.
THEOREM CacheExactHolds == Spec => []CacheExact
<1>1. ProofInv => CacheExact
  <2> SUFFICES ASSUME ProofInv, backing = 0, initialized
               PROVE  /\ length <= Len(chain)
                      /\ level = Proofs!Segments(Proofs!Slice(chain, 0, length), depth_higher)
    BY DEF CacheExact, Proofs!CacheExact
  <2>1. length <= Len(chain) /\ level = SegmentsOf(SubSeq(chain, 1, length), Size)
    BY DEF ProofInv, CacheLevel, Lasting, LevelOf
  <2>2. Proofs!Slice(chain, 0, length) = SubSeq(chain, 1, length)
    BY DEF Proofs!Slice
  <2>3. \A s : Proofs!Segments(s, depth_higher) = SegmentsOf(s, Size)
    BY ProofOperators DEF ProofInv
  <2> QED BY <2>1, <2>2, <2>3
<1> QED BY <1>1, ProofInvHolds, PTL

\* A header proof is the one of the first headers of the chain, and no request
\* for one ends in an error, when requests come one at a time.
THEOREM AnswersRightHolds == Spec => []AnswersRight
<1>1. ProofInv => AnswersRight
  <2> SUFFICES ASSUME ProofInv, NEW r \in ProofRequest
               PROVE  /\ proof_req[r].at # "failed"
                      /\ proof_req[r].at = "answered" =>
                            proof_req[r].result
                            = Proofs!Segments(Proofs!Slice(chain, 0, proof_req[r].length), depth_higher)
    BY DEF AnswersRight, Proofs!AnswersRight
  <2>1. RightSoFar(proof_req[r])
    BY DEF ProofInv
  <2>2. \A n : Proofs!Slice(chain, 0, n) = SubSeq(chain, 1, n)
    BY DEF Proofs!Slice
  <2>3. \A s : Proofs!Segments(s, depth_higher) = SegmentsOf(s, Size)
    BY ProofOperators DEF ProofInv
  <2> QED BY <2>1, <2>2, <2>3 DEF RightSoFar, LevelOf
<1> QED BY <1>1, ProofInvHolds, PTL

\* Hanging up does not shed the costs that a client's group has run up: sessions
\* of SessionManager come and go, and only decay lowers what their group has cost.
THEOREM CostSurvivesHolds == Spec => CostSurvives
<1>1. ManagerTypes /\ [Next]_vars => [CostKept]_(Manager!vars)
  <2> SUFFICES ASSUME ManagerTypes, [Next]_vars
               PROVE  CostKept \/ UNCHANGED Manager!vars
    OBVIOUS
  <2>1. Manager!Next \/ UNCHANGED managerVars
    BY DEF Next, vars
  <2>2. IsFiniteSet(Client)
    BY ServicesAssumption DEF Manager!SessionManagerAssumption, Manager!IsFiniteSet, IsFiniteSet
  <2>3. CASE UNCHANGED managerVars
    BY <2>3 DEF managerVars, Manager!vars, Manager!serverVars, Manager!connVars, Manager!noticeVars
  <2> QED BY <2>1, <2>2, <2>3, ManagerStep
<1>2. [CostKept]_(Manager!vars)
      => [\A g \in DOMAIN retained :
            Manager!GroupCost(g)' < Manager!GroupCost(g) => \E c \in Client : conn[c] = "open" /\ cost'[c] = cost[c] - 1]_(Manager!vars)
  BY DEF CostKept, Decays
<1> QED BY <1>1, <1>2, ManagerTypesHold, PTL DEF Spec, CostSurvives, Manager!CostSurvives
=============================================================================
