-------------------------- MODULE MmvPatternProofs --------------------------
(***************************************************************************)
(* What the pattern programs compute and do, for every directory, every    *)
(* pattern and every order of chars: the two binary searches, the walk of  *)
(* dostage_patterns, and the store it hands to mmv_execute.                *)
(***************************************************************************)
EXTENDS MmvPattern, MmvScanProofs, SequenceTheorems, WellFoundedInduction

-----------------------------------------------------------------------------
(***************************************************************************)
(* Numbers, and recursive functions over finite ranges of them.            *)
(***************************************************************************)
\* A set of numbers has a least member.
LEMMA LeastOf ==
    ASSUME NEW T \in SUBSET Nat, T # {}
    PROVE  \E n \in T : \A m \in T : n <= m
<1> DEFINE R == OpToRel(<, Nat)
<1>1. IsWellFoundedOn(R, Nat)
  BY NatLessThanWellFounded
<1>2. \A x, y \in Nat : y < x => <<y, x>> \in R
  BY DEF OpToRel
<1> HIDE DEF R
<1>3. PICK n \in T : \A m \in T : ~(<<m, n>> \in R)
  BY <1>1, WFMin
<1>4. \A m \in T : ~(m < n)
  BY <1>2, <1>3
<1> QED BY <1>3, <1>4

\* What holds of 0, and of n + 1 if it holds of n, holds of all: for sets.
LEMMA NatClosed ==
    ASSUME NEW T, 0 \in T, \A n \in Nat : n \in T => n + 1 \in T
    PROVE  \A n \in Nat : n \in T
<1> SUFFICES ASSUME Nat \ T # {} PROVE FALSE
  OBVIOUS
<1>1. PICK n \in Nat \ T : \A m \in Nat \ T : n <= m
  BY LeastOf
<1>2. n # 0 /\ n - 1 \in Nat /\ (n - 1) + 1 = n /\ ~(n <= n - 1)
  BY <1>1
<1>3. n - 1 \in T
  BY <1>1, <1>2
<1> QED BY <1>1, <1>2, <1>3

\* G is one round of a recursion: what the function is somewhere depends on what it
\* is where a measure m is smaller, and m is bounded.
Recursion(D, V, N, m, G) ==
    /\ V # {} /\ N \in Nat /\ m \in [D -> 0..N] /\ G \in [D \X [D -> V] -> V]
    /\ \A x \in D : \A f, g \in [D -> V] :
         (\A y \in D : m[y] < m[x] => f[y] = g[y]) => G[<<x, f>>] = G[<<x, g>>]

Solves(f, D, V, G) == f \in [D -> V] /\ \A x \in D : f[x] = G[<<x, f>>]

\* There is a function that satisfies such a recursion.
LEMMA BoundedRecursion ==
    ASSUME NEW D, NEW V, NEW N, NEW m, NEW G, Recursion(D, V, N, m, G)
    PROVE  \E f : Solves(f, D, V, G)
<1> USE DEF Recursion
<1> DEFINE Upto(f, n) == \A x \in D : m[x] < n => f[x] = G[<<x, f>>]
           T == {n \in Nat : \E f \in [D -> V] : Upto(f, n)}
<1>0. \A x \in D : m[x] \in Int /\ 0 <= m[x] /\ m[x] <= N
  OBVIOUS
<1>1. 0 \in T
  <2>1. PICK v \in V : TRUE
    OBVIOUS
  <2>2. [x \in D |-> v] \in [D -> V] /\ Upto([x \in D |-> v], 0)
    BY <2>1
  <2> QED BY <2>2
<1>2. ASSUME NEW n \in Nat, n \in T PROVE n + 1 \in T
  <2>1. PICK f \in [D -> V] : Upto(f, n)
    BY <1>2
  <2> DEFINE g == [x \in D |-> IF m[x] = n THEN G[<<x, f>>] ELSE f[x]]
  <2>2. g \in [D -> V]
    OBVIOUS
  <2>3. \A x \in D : g[x] = IF m[x] = n THEN G[<<x, f>>] ELSE f[x]
    OBVIOUS
  <2> HIDE DEF g
  <2>4. ASSUME NEW x \in D, m[x] < n + 1 PROVE g[x] = G[<<x, g>>]
    <3>1. \A y \in D : m[y] < m[x] => f[y] = g[y]
      <4>1. \A y \in D : m[y] < m[x] => m[y] # n
        BY <1>0, <2>4
      <4> QED BY <2>3, <4>1
    <3>2. G[<<x, f>>] = G[<<x, g>>]
      BY <2>2, <3>1
    <3>3. m[x] = n \/ m[x] < n
      <4>1. m[x] \in Int /\ m[x] < n + 1
        BY <1>0, <2>4
      <4> QED BY <4>1
    <3> QED BY <2>1, <2>3, <3>2, <3>3
  <2>5. Upto(g, n + 1)
    BY <2>4
  <2> QED BY <2>2, <2>5
<1> HIDE DEF T
<1>3. N + 1 \in T
  BY <1>1, <1>2, NatClosed
<1> USE DEF T
<1>4. PICK f \in [D -> V] : Upto(f, N + 1)
  BY <1>3
<1>5. \A x \in D : m[x] < N + 1
  BY <1>0
<1> QED BY <1>4, <1>5 DEF Solves

-----------------------------------------------------------------------------
(***************************************************************************)
(* strcmp: a total order of names.                                         *)
(***************************************************************************)
\* Chars are in order of numbers, each its own.
LEMMA RankOrders ==
    /\ \A c \in Char : Rank[c] \in Int
    /\ \A c, d \in Char : Rank[c] = Rank[d] => c = d
BY PatternAssumption DEF Char, IsInjective

\* Where strings differ first.
LEMMA LessAt ==
    ASSUME NEW s \in Seq(Char), NEW t \in Seq(Char), Less(s, t)
    PROVE  \E k \in Nat \ {0} :
             /\ k <= Len(t) /\ k - 1 <= Len(s)
             /\ \A j \in 1..k - 1 : s[j] = t[j]
             /\ k > Len(s) \/ Rank[s[k]] < Rank[t[k]]
<1>1. PICK k \in 1..Len(t) :
             /\ \A j \in 1..k - 1 : j <= Len(s) /\ s[j] = t[j]
             /\ k > Len(s) \/ Rank[s[k]] < Rank[t[k]]
  BY DEF Less
<1>2. k \in Nat \ {0} /\ k <= Len(t) /\ Len(s) \in Nat
  BY LenProperties
<1>3. k - 1 <= Len(s)
  <2>1. CASE k = 1
    BY <1>2, <2>1
  <2>2. CASE k > 1
    BY <1>1, <1>2, <2>2
  <2> QED BY <1>2, <2>1, <2>2
<1> QED BY <1>1, <1>2, <1>3

\* No string is less than one that is less than it.
LEMMA LessAsymmetric ==
    ASSUME NEW s \in Seq(Char), NEW t \in Seq(Char), Less(s, t)
    PROVE  ~Less(t, s)
<1> SUFFICES ASSUME Less(t, s) PROVE FALSE
  OBVIOUS
<1>0. /\ Len(s) \in Nat /\ Len(t) \in Nat
      /\ \A k \in 1..Len(s) : s[k] \in Char
      /\ \A k \in 1..Len(t) : t[k] \in Char
  BY LenProperties, ElementOfSeq
<1>1. PICK k \in Nat \ {0} :
             /\ k <= Len(t) /\ k - 1 <= Len(s)
             /\ \A j \in 1..k - 1 : s[j] = t[j]
             /\ k > Len(s) \/ Rank[s[k]] < Rank[t[k]]
  BY LessAt
<1>2. PICK m \in Nat \ {0} :
             /\ m <= Len(s) /\ m - 1 <= Len(t)
             /\ \A j \in 1..m - 1 : t[j] = s[j]
             /\ m > Len(t) \/ Rank[t[m]] < Rank[s[m]]
  BY LessAt
<1>3. CASE k < m
  <2>1. k \in 1..m - 1 /\ k \in 1..Len(s) /\ k \in 1..Len(t)
    BY <1>0, <1>1, <1>2, <1>3
  <2>2. t[k] = s[k]
    BY <1>2, <2>1
  <2> QED BY <1>0, <1>1, <2>1, <2>2, RankOrders
<1>4. CASE m < k
  <2>1. m \in 1..k - 1 /\ m \in 1..Len(s) /\ m \in 1..Len(t)
    BY <1>0, <1>1, <1>2, <1>4
  <2>2. s[m] = t[m]
    BY <1>1, <2>1
  <2> QED BY <1>0, <1>2, <2>1, <2>2, RankOrders
<1>5. CASE m = k
  <2>1. k \in 1..Len(s) /\ k \in 1..Len(t)
    BY <1>0, <1>1, <1>2, <1>5
  <2>2. Rank[s[k]] \in Int /\ Rank[t[k]] \in Int
    BY <1>0, <2>1, RankOrders
  <2>3. Rank[s[k]] < Rank[t[k]] /\ Rank[t[k]] < Rank[s[k]]
    BY <1>0, <1>1, <1>2, <1>5, <2>1
  <2> QED BY <2>2, <2>3
<1> QED BY <1>1, <1>2, <1>3, <1>4, <1>5

\* How to be less.
LEMMA LessIf ==
    ASSUME NEW s \in Seq(Char), NEW t \in Seq(Char), NEW k \in Nat \ {0},
           k <= Len(t), k - 1 <= Len(s), \A j \in 1..k - 1 : s[j] = t[j],
           k > Len(s) \/ Rank[s[k]] < Rank[t[k]]
    PROVE  Less(s, t)
<1>1. Len(s) \in Nat /\ Len(t) \in Nat
  BY LenProperties
<1>2. k \in 1..Len(t) /\ \A j \in 1..k - 1 : j <= Len(s)
  BY <1>1
<1> QED BY <1>2 DEF Less

\* Of two different strings one is less.
LEMMA LessTotal ==
    ASSUME NEW s \in Seq(Char), NEW t \in Seq(Char), s # t, ~Less(s, t)
    PROVE  Less(t, s)
<1> DEFINE T == {k \in Nat : /\ k > 0 /\ k <= Len(s) + 1 /\ k <= Len(t) + 1
                             /\ \/ k = Len(s) + 1 \/ k = Len(t) + 1
                                \/ s[k] # t[k]}
<1>0. /\ Len(s) \in Nat /\ Len(t) \in Nat
      /\ \A k \in 1..Len(s) : s[k] \in Char
      /\ \A k \in 1..Len(t) : t[k] \in Char
  BY LenProperties, ElementOfSeq
<1>1. T # {}
  <2>1. CASE Len(s) <= Len(t)
    <3>1. Len(s) + 1 \in T
      BY <1>0, <2>1
    <3> QED BY <3>1
  <2>2. CASE Len(t) <= Len(s)
    <3>1. Len(t) + 1 \in T
      BY <1>0, <2>2
    <3> QED BY <3>1
  <2> QED BY <1>0, <2>1, <2>2
<1>2. PICK k \in T : \A j \in T : k <= j
  BY <1>1, LeastOf
<1>3. /\ k \in Nat \ {0} /\ k - 1 <= Len(s) /\ k - 1 <= Len(t)
      /\ k = Len(s) + 1 \/ k = Len(t) + 1 \/ s[k] # t[k]
  BY <1>0, <1>2
<1>4. \A j \in 1..k - 1 : s[j] = t[j]
  <2> SUFFICES ASSUME NEW j \in 1..k - 1, s[j] # t[j] PROVE FALSE
    OBVIOUS
  <2>1. j \in Nat /\ j > 0 /\ j <= Len(s) + 1 /\ j <= Len(t) + 1 /\ ~(k <= j)
    BY <1>0, <1>3
  <2>2. j \in T
    BY <2>1
  <2> QED BY <1>2, <2>1, <2>2
<1>5. CASE k = Len(s) + 1 /\ k = Len(t) + 1
  <2>1. Len(s) = Len(t) /\ \A j \in 1..Len(s) : s[j] = t[j]
    BY <1>0, <1>4, <1>5
  <2> QED BY <2>1, SeqEqual
<1>6. CASE k = Len(s) + 1 /\ k # Len(t) + 1
  <2>1. k <= Len(t) /\ k > Len(s)
    BY <1>0, <1>3, <1>6
  <2> QED BY <1>3, <1>4, <2>1, LessIf
<1>7. CASE k # Len(s) + 1 /\ k = Len(t) + 1
  <2>1. k <= Len(s) /\ k > Len(t)
    BY <1>0, <1>3, <1>7
  <2> QED BY <1>3, <1>4, <2>1, LessIf
<1>8. CASE k # Len(s) + 1 /\ k # Len(t) + 1
  <2>1. k \in 1..Len(s) /\ k \in 1..Len(t) /\ s[k] # t[k]
    BY <1>0, <1>3, <1>8
  <2>2. /\ Rank[s[k]] \in Int /\ Rank[t[k]] \in Int
        /\ Rank[s[k]] # Rank[t[k]]
    BY <1>0, <2>1, RankOrders
  <2>3. ~(Rank[s[k]] < Rank[t[k]])
    BY <1>3, <1>4, <2>1, LessIf
  <2>4. Rank[t[k]] < Rank[s[k]]
    BY <2>2, <2>3
  <2> QED BY <1>3, <1>4, <2>1, <2>4, LessIf
<1> QED BY <1>5, <1>6, <1>7, <1>8

\* What is less than a lesser string is less.
LEMMA LessTransitive ==
    ASSUME NEW s \in Seq(Char), NEW t \in Seq(Char), NEW u \in Seq(Char),
           Less(s, t), Less(t, u)
    PROVE  Less(s, u)
<1>0. /\ Len(s) \in Nat /\ Len(t) \in Nat /\ Len(u) \in Nat
      /\ \A k \in 1..Len(s) : Rank[s[k]] \in Int
      /\ \A k \in 1..Len(t) : Rank[t[k]] \in Int
      /\ \A k \in 1..Len(u) : Rank[u[k]] \in Int
  BY LenProperties, ElementOfSeq, RankOrders
<1>1. PICK k \in Nat \ {0} :
             /\ k <= Len(t) /\ k - 1 <= Len(s)
             /\ \A j \in 1..k - 1 : s[j] = t[j]
             /\ k > Len(s) \/ Rank[s[k]] < Rank[t[k]]
  BY LessAt
<1>2. PICK m \in Nat \ {0} :
             /\ m <= Len(u) /\ m - 1 <= Len(t)
             /\ \A j \in 1..m - 1 : t[j] = u[j]
             /\ m > Len(t) \/ Rank[t[m]] < Rank[u[m]]
  BY LessAt
<1>3. CASE k < m
  <2>1. /\ k <= Len(u) /\ k \in 1..m - 1 /\ \A j \in 1..k - 1 : j \in 1..m - 1
    BY <1>0, <1>1, <1>2, <1>3
  <2>2. t[k] = u[k] /\ \A j \in 1..k - 1 : s[j] = u[j]
    BY <1>1, <1>2, <2>1
  <2> QED BY <1>1, <2>1, <2>2, LessIf
<1>4. CASE m < k
  <2>1. /\ m \in 1..k - 1 /\ \A j \in 1..m - 1 : j \in 1..k - 1
        /\ m - 1 <= Len(s) /\ m <= Len(t)
    BY <1>0, <1>1, <1>2, <1>4
  <2>2. s[m] = t[m] /\ \A j \in 1..m - 1 : s[j] = u[j]
    BY <1>1, <1>2, <2>1
  <2>3. Rank[t[m]] < Rank[u[m]]
    BY <1>0, <1>2, <2>1
  <2> QED BY <1>2, <2>1, <2>2, <2>3, LessIf
<1>5. CASE m = k
  <2>1. \A j \in 1..k - 1 : s[j] = u[j]
    BY <1>1, <1>2, <1>5
  <2>2. Rank[t[k]] < Rank[u[k]]
    BY <1>0, <1>1, <1>2, <1>5
  <2>3. k > Len(s) \/ Rank[s[k]] < Rank[u[k]]
    <3>1. CASE k > Len(s)
      BY <3>1
    <3>2. CASE k <= Len(s)
      <4>1. /\ k \in 1..Len(s) /\ k \in 1..Len(t) /\ k \in 1..Len(u)
            /\ Rank[s[k]] < Rank[t[k]]
        BY <1>0, <1>1, <1>2, <1>5, <3>2
      <4>2. Rank[s[k]] \in Int /\ Rank[t[k]] \in Int /\ Rank[u[k]] \in Int
        BY <1>0, <4>1
      <4> QED BY <2>2, <4>1, <4>2
    <3> QED BY <1>0, <3>1, <3>2
  <2> QED BY <1>1, <1>2, <1>5, <2>1, <2>3, LessIf
<1> QED BY <1>1, <1>2, <1>3, <1>4, <1>5

-----------------------------------------------------------------------------
(***************************************************************************)
(* fsearch and ffirst.                                                     *)
(***************************************************************************)
\* The middle of a range of places is in the range.
LEMMA Middle ==
    ASSUME NEW a \in Int, NEW b \in Int, a <= b
    PROVE  (a + b) \div 2 \in Int /\ a <= (a + b) \div 2 /\ (a + b) \div 2 <= b
           /\ (a < b => (a + b) \div 2 < b)
OBVIOUS

\* What takedir leaves: the names in the order of strcmp.
Sorted(f) == /\ f \in Seq(Seq(Char))
             /\ \A j, k \in DOMAIN f : j < k => Less(f[j], f[k])

\* One turn of fsearch's loop, with h for the turns after it.
SearchTurn(h, s, f, a, b) ==
    IF NoneLeft(a, b) THEN -1
    ELSE IF s = f[(a + b) \div 2 + 1] THEN (a + b) \div 2
    ELSE IF Less(s, f[(a + b) \div 2 + 1]) THEN h[<<a, (a + b) \div 2 - 1>>]
    ELSE h[<<(a + b) \div 2 + 1, b>>]

\* The places that the two ends of the range can have in fsearch.
SearchEnds(f) == (0..Len(f)) \X (-1..Len(f) - 1)

\* fsearch ends: its turns make a function of the range that is left.
LEMMA SearchExists ==
    ASSUME NEW s, NEW f, Len(f) \in Nat
    PROVE  \E h \in [SearchEnds(f) -> -1..Len(f)] :
             \A a \in 0..Len(f), b \in -1..Len(f) - 1 :
               h[<<a, b>>] = SearchTurn(h, s, f, a, b)
<1> DEFINE D == SearchEnds(f)
           V == -1..Len(f)
           m == [r \in D |-> IF r[2] < r[1] THEN 0 ELSE r[2] - r[1] + 1]
           G == [q \in D \X [D -> V] |-> SearchTurn(q[2], s, f, q[1][1], q[1][2])]
<1>1. \A a \in 0..Len(f), b \in -1..Len(f) - 1 : a <= b =>
        /\ <<a, (a + b) \div 2 - 1>> \in D /\ <<(a + b) \div 2 + 1, b>> \in D
        /\ (a + b) \div 2 \in V
  BY Middle DEF SearchEnds
<1>2. ASSUME NEW a \in 0..Len(f), NEW b \in -1..Len(f) - 1, NEW h \in [D -> V]
      PROVE  SearchTurn(h, s, f, a, b) \in V
  <2>1. CASE NoneLeft(a, b)
    BY <2>1 DEF SearchTurn
  <2>2. CASE ~NoneLeft(a, b)
    <3>1. a <= b
      BY <2>2 DEF NoneLeft
    <3>2. <<a, (a + b) \div 2 - 1>> \in D /\ <<(a + b) \div 2 + 1, b>> \in D
          /\ (a + b) \div 2 \in V
      BY <1>1, <3>1
    <3> HIDE DEF D, V
    <3> QED BY <2>2, <3>2 DEF SearchTurn
  <2> QED BY <2>1, <2>2
<1>3. V # {} /\ m \in [D -> 0..Len(f)]
  <2>1. -1 \in V
    OBVIOUS
  <2>2. ASSUME NEW r \in D PROVE m[r] \in 0..Len(f)
    BY DEF SearchEnds
  <2>3. m \in [D -> 0..Len(f)]
    BY <2>2
  <2> QED BY <2>1, <2>3
<1>4. \A a \in 0..Len(f), b \in -1..Len(f) - 1 :
        m[<<a, b>>] = IF b < a THEN 0 ELSE b - a + 1
  BY DEF SearchEnds
<1>5. ASSUME NEW x \in D, NEW g \in [D -> V], NEW h \in [D -> V],
             \A y \in D : m[y] < m[x] => g[y] = h[y]
      PROVE  SearchTurn(g, s, f, x[1], x[2]) = SearchTurn(h, s, f, x[1], x[2])
  <2>1. PICK a \in 0..Len(f), b \in -1..Len(f) - 1 : x = <<a, b>>
    BY DEF SearchEnds
  <2>2. CASE NoneLeft(a, b)
    BY <2>1, <2>2 DEF SearchTurn
  <2>3. CASE ~NoneLeft(a, b)
    <3> DEFINE k == (a + b) \div 2
    <3>1. a <= b /\ k \in Int /\ a <= k /\ k <= b
      BY <2>3, Middle DEF NoneLeft
    <3>2. <<a, k - 1>> \in D /\ <<k + 1, b>> \in D
      BY <1>1, <3>1
    <3>3. m[<<a, k - 1>>] < m[<<a, b>>] /\ m[<<k + 1, b>>] < m[<<a, b>>]
      <4>1. /\ k - 1 \in -1..Len(f) - 1 /\ k + 1 \in 0..Len(f)
        BY <3>1
      <4> HIDE DEF m, k
      <4> QED BY <1>4, <3>1, <4>1
    <3>4. g[<<a, k - 1>>] = h[<<a, k - 1>>] /\ g[<<k + 1, b>>] = h[<<k + 1, b>>]
      BY <1>5, <2>1, <3>2, <3>3
    <3> QED BY <2>1, <3>4 DEF SearchTurn
  <2> QED BY <2>2, <2>3
<1>6. \A x \in D : \A g \in [D -> V] : G[<<x, g>>] = SearchTurn(g, s, f, x[1], x[2])
  OBVIOUS
<1>7. G \in [D \X [D -> V] -> V]
  <2>1. ASSUME NEW q \in D \X [D -> V]
        PROVE  SearchTurn(q[2], s, f, q[1][1], q[1][2]) \in V
    <3>1. /\ q[1][1] \in 0..Len(f) /\ q[1][2] \in -1..Len(f) - 1
          /\ q[2] \in [D -> V]
      BY DEF SearchEnds
    <3> HIDE DEF D, V
    <3> QED BY <1>2, <3>1
  <2> HIDE DEF D, V
  <2> QED BY <2>1
<1> HIDE DEF G, m, D, V
<1>8. \A x \in D : \A g, h \in [D -> V] :
        (\A y \in D : m[y] < m[x] => g[y] = h[y]) => G[<<x, g>>] = G[<<x, h>>]
  <2> SUFFICES ASSUME NEW x \in D, NEW g \in [D -> V], NEW h \in [D -> V],
                      \A y \in D : m[y] < m[x] => g[y] = h[y]
               PROVE  G[<<x, g>>] = G[<<x, h>>]
    OBVIOUS
  <2> QED BY <1>5, <1>6
<1>9. PICK h : Solves(h, D, V, G)
  <2>1. Recursion(D, V, Len(f), m, G)
    BY <1>3, <1>7, <1>8 DEF Recursion
  <2> QED BY <2>1, BoundedRecursion
<1>10. ASSUME NEW a \in 0..Len(f), NEW b \in -1..Len(f) - 1
       PROVE  h[<<a, b>>] = SearchTurn(h, s, f, a, b)
  <2>1. <<a, b>> \in D
    BY DEF D, SearchEnds
  <2>2. h[<<a, b>>] = G[<<<<a, b>>, h>>]
    BY <1>9, <2>1 DEF Solves
  <2>3. G[<<<<a, b>>, h>>] = SearchTurn(h, s, f, <<a, b>>[1], <<a, b>>[2])
    BY <1>6, <1>9, <2>1 DEF Solves
  <2> QED BY <2>2, <2>3
<1>11. h \in [SearchEnds(f) -> -1..Len(f)]
  BY <1>9 DEF D, V, Solves
<1> QED BY <1>10, <1>11, Zenon


\* fsearch is its turns.
LEMMA SearchTurns ==
    ASSUME NEW s, NEW f, Len(f) \in Nat
    PROVE  \E h : /\ \A a \in 0..Len(f), b \in -1..Len(f) - 1 :
                       h[<<a, b>>] = SearchTurn(h, s, f, a, b)
                  /\ BinarySearch(s, f) = h[<<0, Len(f) - 1>>]
<1> DEFINE Table(h) == [r \in SearchEnds(f) |-> SearchTurn(h, s, f, r[1], r[2])]
           H == CHOOSE h : h = Table(h)
<1>1. PICK g \in [SearchEnds(f) -> -1..Len(f)] :
             \A a \in 0..Len(f), b \in -1..Len(f) - 1 :
               g[<<a, b>>] = SearchTurn(g, s, f, a, b)
  BY SearchExists
<1>2. g = Table(g)
  <2>1. \A r \in SearchEnds(f) : g[r] = SearchTurn(g, s, f, r[1], r[2])
    <3> SUFFICES ASSUME NEW r \in SearchEnds(f)
                 PROVE  g[r] = SearchTurn(g, s, f, r[1], r[2])
      OBVIOUS
    <3>1. PICK a \in 0..Len(f), b \in -1..Len(f) - 1 : r = <<a, b>>
      BY DEF SearchEnds
    <3> QED BY <1>1, <3>1
  <2> QED BY <1>1, <2>1
<1>3. H = Table(H)
  BY <1>2, Zenon
<1>4. BinarySearch(s, f) = H[<<0, Len(f) - 1>>]
  BY Zenon DEF BinarySearch, SearchTurn, SearchEnds
<1> HIDE DEF H
<1>5. ASSUME NEW a \in 0..Len(f), NEW b \in -1..Len(f) - 1
      PROVE  H[<<a, b>>] = SearchTurn(H, s, f, a, b)
  <2>1. <<a, b>> \in SearchEnds(f)
    BY DEF SearchEnds
  <2> QED BY <1>3, <2>1
<1> QED BY <1>4, <1>5, Zenon

\* fsearch finds a name in a sorted directory exactly if it is there.
LEMMA SearchFinds ==
    ASSUME NEW f, Sorted(f), NEW s \in Seq(Char)
    PROVE  IF s \in Range(f)
           THEN BinarySearch(s, f) + 1 \in DOMAIN f
                /\ f[BinarySearch(s, f) + 1] = s
           ELSE BinarySearch(s, f) = -1
<1>0. /\ f \in Seq(Seq(Char)) /\ Len(f) \in Nat /\ DOMAIN f = 1..Len(f)
      /\ \A j \in 1..Len(f) : f[j] \in Seq(Char)
      /\ \A j, k \in 1..Len(f) : j < k => Less(f[j], f[k])
  <2>1. f \in Seq(Seq(Char))
    BY DEF Sorted
  <2>2. Len(f) \in Nat /\ DOMAIN f = 1..Len(f)
    BY <2>1, LenProperties
  <2>3. \A j \in 1..Len(f) : f[j] \in Seq(Char)
    BY <2>1, ElementOfSeq
  <2> QED BY <2>1, <2>2, <2>3 DEF Sorted
<1>1. PICK h : /\ \A a \in 0..Len(f), b \in -1..Len(f) - 1 :
                    h[<<a, b>>] = SearchTurn(h, s, f, a, b)
               /\ BinarySearch(s, f) = h[<<0, Len(f) - 1>>]
  BY <1>0, SearchTurns
<1> DEFINE In(a, b, k) == k \in a..b /\ f[k + 1] = s
           Right(a, b) ==
             IF \E k \in 0..Len(f) - 1 : In(a, b, k) THEN In(a, b, h[<<a, b>>])
             ELSE h[<<a, b>>] = -1
           T == {n \in Nat : \A a \in 0..Len(f), b \in -1..Len(f) - 1 :
                               b - a + 1 <= n => Right(a, b)}
<1>2. 0 \in T
  <2> SUFFICES ASSUME NEW a \in 0..Len(f), NEW b \in -1..Len(f) - 1, b - a + 1 <= 0
               PROVE  Right(a, b)
    OBVIOUS
  <2>1. NoneLeft(a, b) /\ ~\E k \in 0..Len(f) - 1 : In(a, b, k)
    BY <1>0 DEF NoneLeft
  <2>2. h[<<a, b>>] = -1
    BY <1>1, <2>1 DEF SearchTurn
  <2> QED BY <2>1, <2>2
<1>3. ASSUME NEW n \in Nat, n \in T PROVE n + 1 \in T
  <2> SUFFICES ASSUME NEW a \in 0..Len(f), NEW b \in -1..Len(f) - 1,
                      b - a + 1 <= n + 1
               PROVE  Right(a, b)
    BY <1>3
  <2>1. CASE b < a
    <3>1. b - a + 1 <= n
      BY <2>1
    <3> QED BY <1>3, <3>1
  <2>2. CASE a <= b
    <3> DEFINE k == (a + b) \div 2
    <3>1. k \in Int /\ a <= k /\ k <= b /\ k + 1 \in 1..Len(f) /\ ~NoneLeft(a, b)
      BY <1>0, <2>2, Middle DEF NoneLeft
    <3>2. h[<<a, b>>] = IF s = f[k + 1] THEN k
                        ELSE IF Less(s, f[k + 1]) THEN h[<<a, k - 1>>]
                        ELSE h[<<k + 1, b>>]
      BY <1>1, <3>1 DEF SearchTurn
    <3> HIDE DEF k
    <3>3. CASE s = f[k + 1]
      <4>1. In(a, b, k) /\ k \in 0..Len(f) - 1
        BY <3>1, <3>3
      <4> QED BY <3>2, <3>3, <4>1
    <3>4. CASE s # f[k + 1] /\ Less(s, f[k + 1])
      <4>1. Right(a, k - 1)
        <5>1. k - 1 \in -1..Len(f) - 1 /\ (k - 1) - a + 1 <= n
          BY <1>0, <3>1
        <5> QED BY <1>3, <5>1
      <4>2. \A j \in 0..Len(f) - 1 : In(a, b, j) <=> In(a, k - 1, j)
        <5> SUFFICES ASSUME NEW j \in 0..Len(f) - 1, j \in a..b, f[j + 1] = s
                     PROVE  j < k
          BY <1>0, <3>1
        <5> SUFFICES ASSUME k <= j PROVE FALSE
          BY <3>1
        <5>1. k # j
          BY <3>4
        <5>2. Less(f[k + 1], f[j + 1])
          BY <1>0, <3>1, <5>1
        <5> QED BY <1>0, <3>1, <3>4, <5>2, LessAsymmetric
      <4>3. h[<<a, b>>] = h[<<a, k - 1>>]
        BY <3>2, <3>4
      <4>4. In(a, k - 1, h[<<a, k - 1>>]) => In(a, b, h[<<a, k - 1>>])
        BY <3>1
      <4> QED BY <4>1, <4>2, <4>3, <4>4
    <3>5. CASE s # f[k + 1] /\ ~Less(s, f[k + 1])
      <4>1. Right(k + 1, b)
        <5>1. k + 1 \in 0..Len(f) /\ b - (k + 1) + 1 <= n
          BY <1>0, <3>1
        <5> QED BY <1>3, <5>1
      <4>2. \A j \in 0..Len(f) - 1 : In(a, b, j) <=> In(k + 1, b, j)
        <5> SUFFICES ASSUME NEW j \in 0..Len(f) - 1, j \in a..b, f[j + 1] = s
                     PROVE  k < j
          BY <1>0, <3>1
        <5> SUFFICES ASSUME j <= k PROVE FALSE
          BY <3>1
        <5>1. k # j
          BY <3>5
        <5>2. Less(f[j + 1], f[k + 1])
          BY <1>0, <3>1, <5>1
        <5> QED BY <3>5, <5>2
      <4>3. h[<<a, b>>] = h[<<k + 1, b>>]
        BY <3>2, <3>5
      <4>4. In(k + 1, b, h[<<k + 1, b>>]) => In(a, b, h[<<k + 1, b>>])
        BY <3>1
      <4> QED BY <4>1, <4>2, <4>3, <4>4
    <3> QED BY <3>3, <3>4, <3>5
  <2> QED BY <2>1, <2>2
<1> HIDE DEF T
<1>4. Len(f) \in T
  BY <1>0, <1>2, <1>3, NatClosed
<1> USE DEF T
<1>5. Right(0, Len(f) - 1)
  <2>1. 0 \in 0..Len(f) /\ Len(f) - 1 \in -1..Len(f) - 1
        /\ (Len(f) - 1) - 0 + 1 <= Len(f)
    BY <1>0
  <2> QED BY <1>4, <2>1
<1> HIDE DEF T
<1>6. CASE s \in Range(f)
  <2>1. PICK j \in 1..Len(f) : f[j] = s
    BY <1>0, <1>6 DEF Range
  <2>2. j - 1 \in 0..Len(f) - 1 /\ In(0, Len(f) - 1, j - 1)
    BY <1>0, <2>1
  <2>3. In(0, Len(f) - 1, h[<<0, Len(f) - 1>>])
    BY <1>5, <2>2
  <2>4. BinarySearch(s, f) \in 0..Len(f) - 1 /\ f[BinarySearch(s, f) + 1] = s
    BY <1>1, <2>3
  <2> QED BY <1>0, <1>6, <2>4
<1>7. CASE s \notin Range(f)
  <2>1. \A j \in 0..Len(f) - 1 : ~In(0, Len(f) - 1, j)
    BY <1>0, <1>7 DEF Range
  <2> QED BY <1>1, <1>5, <1>7, <2>1
<1> QED BY <1>6, <1>7


\* The part of a name that strncmp looks at.
LEMMA CutFacts ==
    ASSUME NEW u \in Seq(Char), NEW n \in Nat
    PROVE  /\ Cut(u, n) \in Seq(Char)
           /\ Len(Cut(u, n)) = IF n < Len(u) THEN n ELSE Len(u)
           /\ \A j \in 1..Len(Cut(u, n)) : Cut(u, n)[j] = u[j]
<1> DEFINE e == IF n < Len(u) THEN n ELSE Len(u)
<1>1. e \in Nat /\ e <= Len(u) /\ \A j \in 1..e : u[j] \in Char
  <2>1. Len(u) \in Nat /\ \A j \in 1..Len(u) : u[j] \in Char
    BY LenProperties, ElementOfSeq
  <2> QED BY <2>1
<1>2. Cut(u, n) = SubSeq(u, 1, e)
  BY DEF Cut
<1> HIDE DEF e
<1>3. /\ SubSeq(u, 1, e) \in Seq(Char)
      /\ Len(SubSeq(u, 1, e)) = IF 1 <= e THEN e - 1 + 1 ELSE 0
      /\ \A j \in 1..(e - 1 + 1) : SubSeq(u, 1, e)[j] = u[1 + j - 1]
  BY <1>1, SubSeqProperties
<1>4. Len(Cut(u, n)) = e /\ \A j \in 1..e : Cut(u, n)[j] = u[j]
  BY <1>1, <1>2, <1>3
<1> QED BY <1>2, <1>3, <1>4 DEF e

\* strncmp says equal exactly if the name begins so.
LEMMA CutBegins ==
    ASSUME NEW s \in Seq(Char), NEW u \in Seq(Char)
    PROVE  s = Cut(u, Len(s)) <=> IsPrefix(s, u)
<1>0. Len(s) \in Nat /\ Len(u) \in Nat /\ SubSeq(s, 1, Len(s)) = s
  BY LenProperties, SubSeqFull
<1>1. Len(Cut(u, Len(s))) = IF Len(s) < Len(u) THEN Len(s) ELSE Len(u)
  BY <1>0, CutFacts
<1>2. CASE Len(s) <= Len(u)
  <2>1. Cut(u, Len(s)) = SubSeq(u, 1, Len(s))
    BY <1>0, <1>2 DEF Cut
  <2> QED BY <1>0, <1>2, <2>1 DEF IsPrefix
<1>3. CASE ~(Len(s) <= Len(u))
  BY <1>0, <1>1, <1>3 DEF IsPrefix
<1> QED BY <1>2, <1>3

\* Cutting names does not disturb their order.
LEMMA CutOrder ==
    ASSUME NEW u \in Seq(Char), NEW v \in Seq(Char), NEW n \in Nat, Less(u, v)
    PROVE  Cut(u, n) = Cut(v, n) \/ Less(Cut(u, n), Cut(v, n))
<1>1. PICK k \in Nat \ {0} :
             /\ k <= Len(v) /\ k - 1 <= Len(u)
             /\ \A j \in 1..k - 1 : u[j] = v[j]
             /\ k > Len(u) \/ Rank[u[k]] < Rank[v[k]]
  BY LessAt
<1> DEFINE p == Cut(u, n)
           q == Cut(v, n)
<1>2. /\ p \in Seq(Char) /\ Len(p) = IF n < Len(u) THEN n ELSE Len(u)
      /\ \A j \in 1..Len(p) : p[j] = u[j]
  BY CutFacts
<1>3. /\ q \in Seq(Char) /\ Len(q) = IF n < Len(v) THEN n ELSE Len(v)
      /\ \A j \in 1..Len(q) : q[j] = v[j]
  BY CutFacts
<1>4. Len(u) \in Nat /\ Len(v) \in Nat
  BY LenProperties
<1> HIDE DEF p, q
<1>5. CASE k <= n
  <2>1. k <= Len(q) /\ k - 1 <= Len(p) /\ k - 1 <= Len(q)
    BY <1>1, <1>2, <1>3, <1>4, <1>5
  <2>2. \A j \in 1..k - 1 : p[j] = q[j]
    <3> SUFFICES ASSUME NEW j \in 1..k - 1 PROVE p[j] = q[j]
      OBVIOUS
    <3>1. j \in 1..Len(p) /\ j \in 1..Len(q)
      BY <1>2, <1>3, <1>4, <2>1
    <3> QED BY <1>1, <1>2, <1>3, <3>1
  <2>3. k > Len(p) \/ Rank[p[k]] < Rank[q[k]]
    <3> SUFFICES ASSUME ~(k > Len(p)) PROVE Rank[p[k]] < Rank[q[k]]
      OBVIOUS
    <3>1. k \in 1..Len(p) /\ k \in 1..Len(q) /\ ~(k > Len(u))
      BY <1>2, <1>3, <1>4, <2>1
    <3> QED BY <1>1, <1>2, <1>3, <3>1
  <2>4. Less(p, q)
    BY <1>2, <1>3, <2>1, <2>2, <2>3, LessIf
  <2> QED BY <2>4 DEF p, q
<1>6. CASE n < k
  <2>1. Len(p) = n /\ Len(q) = n /\ \A j \in 1..n : j \in 1..k - 1
    BY <1>1, <1>2, <1>3, <1>4, <1>6
  <2>2. \A j \in 1..Len(p) : p[j] = q[j]
    BY <1>1, <1>2, <1>3, <2>1
  <2>3. p = q
    BY <1>2, <1>3, <2>1, <2>2, SeqEqual
  <2> QED BY <2>3 DEF p, q
<1> QED BY <1>1, <1>5, <1>6

\* One turn of ffirst's loop, with h for the turns after it.
FirstTurn(h, s, f, a, b) ==
    IF a = b THEN IF s = Cut(f[(a + b) \div 2 + 1], Len(s)) THEN (a + b) \div 2
                  ELSE Len(f)
    ELSE IF Less(Cut(f[(a + b) \div 2 + 1], Len(s)), s)
           THEN h[<<(a + b) \div 2 + 1, b>>]
    ELSE h[<<a, (a + b) \div 2>>]

\* The ends of the range in ffirst.
FirstEnds(f) == {q \in (0..Len(f) - 1) \X (0..Len(f) - 1) : q[1] <= q[2]}

\* ffirst ends, too.
LEMMA FirstExists ==
    ASSUME NEW s, NEW f, Len(f) \in Nat
    PROVE  \E h \in [FirstEnds(f) -> 0..Len(f)] :
             \A a, b \in 0..Len(f) - 1 : a <= b =>
               h[<<a, b>>] = FirstTurn(h, s, f, a, b)
<1> DEFINE D == FirstEnds(f)
           V == 0..Len(f)
           m == [r \in D |-> r[2] - r[1]]
           G == [q \in D \X [D -> V] |-> FirstTurn(q[2], s, f, q[1][1], q[1][2])]
<1>0. \A a, b \in 0..Len(f) - 1 : a <= b => <<a, b>> \in D
  BY DEF FirstEnds
<1>1. \A a, b \in 0..Len(f) - 1 : a <= b =>
        /\ (a + b) \div 2 \in 0..Len(f) - 1 /\ a <= (a + b) \div 2
        /\ a # b => /\ (a + b) \div 2 < b /\ (a + b) \div 2 + 1 \in 0..Len(f) - 1
  BY Middle
<1>2. ASSUME NEW a \in 0..Len(f) - 1, NEW b \in 0..Len(f) - 1, a <= b, a # b
      PROVE  <<a, (a + b) \div 2>> \in D /\ <<(a + b) \div 2 + 1, b>> \in D
  BY <1>0, <1>1, <1>2
<1>3. ASSUME NEW a \in 0..Len(f) - 1, NEW b \in 0..Len(f) - 1, a <= b,
             NEW h \in [D -> V]
      PROVE  FirstTurn(h, s, f, a, b) \in V
  <2>1. (a + b) \div 2 \in V /\ Len(f) \in V
    BY <1>1, <1>3
  <2> HIDE DEF D, V
  <2> QED BY <1>2, <1>3, <2>1 DEF FirstTurn
<1>4. V # {} /\ m \in [D -> 0..Len(f)]
  <2>1. 0 \in V
    OBVIOUS
  <2>2. ASSUME NEW r \in D PROVE m[r] \in 0..Len(f)
    BY DEF FirstEnds
  <2>3. m \in [D -> 0..Len(f)]
    BY <2>2
  <2> QED BY <2>1, <2>3
<1>5. ASSUME NEW x \in D, NEW g \in [D -> V], NEW h \in [D -> V],
             \A y \in D : m[y] < m[x] => g[y] = h[y]
      PROVE  FirstTurn(g, s, f, x[1], x[2]) = FirstTurn(h, s, f, x[1], x[2])
  <2>1. PICK a \in 0..Len(f) - 1, b \in 0..Len(f) - 1 : x = <<a, b>> /\ a <= b
    <3>1. x \in (0..Len(f) - 1) \X (0..Len(f) - 1) /\ x[1] <= x[2]
      BY DEF FirstEnds
    <3>2. PICK a \in 0..Len(f) - 1, b \in 0..Len(f) - 1 : x = <<a, b>>
      BY <3>1
    <3> QED BY <3>1, <3>2
  <2>2. CASE a = b
    BY <2>1, <2>2 DEF FirstTurn
  <2>3. CASE a # b
    <3> DEFINE k == (a + b) \div 2
    <3>1. <<a, k>> \in D /\ <<k + 1, b>> \in D
      BY <1>2, <2>1, <2>3
    <3>2. m[<<a, k>>] = k - a /\ m[<<k + 1, b>>] = b - (k + 1) /\ m[x] = b - a
      BY <2>1, <3>1
    <3>3. k \in Int /\ a <= k /\ k < b
      BY <1>1, <2>1, <2>3
    <3> HIDE DEF k, m
    <3>4. m[<<a, k>>] < m[x] /\ m[<<k + 1, b>>] < m[x]
      BY <3>2, <3>3
    <3>5. g[<<a, k>>] = h[<<a, k>>] /\ g[<<k + 1, b>>] = h[<<k + 1, b>>]
      BY <1>5, <3>1, <3>4
    <3> USE DEF k
    <3> QED BY <2>1, <3>5 DEF FirstTurn
  <2> QED BY <2>2, <2>3
<1>6. \A x \in D : \A g \in [D -> V] : G[<<x, g>>] = FirstTurn(g, s, f, x[1], x[2])
  OBVIOUS
<1>7. G \in [D \X [D -> V] -> V]
  <2>1. ASSUME NEW q \in D \X [D -> V]
        PROVE  FirstTurn(q[2], s, f, q[1][1], q[1][2]) \in V
    <3>1. /\ q[1][1] \in 0..Len(f) - 1 /\ q[1][2] \in 0..Len(f) - 1
          /\ q[1][1] <= q[1][2] /\ q[2] \in [D -> V]
      BY DEF FirstEnds
    <3> HIDE DEF D, V
    <3> QED BY <1>3, <3>1
  <2> HIDE DEF D, V
  <2> QED BY <2>1
<1> HIDE DEF G, m, D, V
<1>8. \A x \in D : \A g, h \in [D -> V] :
        (\A y \in D : m[y] < m[x] => g[y] = h[y]) => G[<<x, g>>] = G[<<x, h>>]
  <2> SUFFICES ASSUME NEW x \in D, NEW g \in [D -> V], NEW h \in [D -> V],
                      \A y \in D : m[y] < m[x] => g[y] = h[y]
               PROVE  G[<<x, g>>] = G[<<x, h>>]
    OBVIOUS
  <2> QED BY <1>5, <1>6
<1>9. PICK h : Solves(h, D, V, G)
  <2>1. Recursion(D, V, Len(f), m, G)
    BY <1>4, <1>7, <1>8 DEF Recursion
  <2> QED BY <2>1, BoundedRecursion
<1>10. ASSUME NEW a \in 0..Len(f) - 1, NEW b \in 0..Len(f) - 1, a <= b
       PROVE  h[<<a, b>>] = FirstTurn(h, s, f, a, b)
  <2>1. <<a, b>> \in D
    BY <1>0, <1>10
  <2>2. h[<<a, b>>] = G[<<<<a, b>>, h>>]
    BY <1>9, <2>1 DEF Solves
  <2>3. G[<<<<a, b>>, h>>] = FirstTurn(h, s, f, <<a, b>>[1], <<a, b>>[2])
    BY <1>6, <1>9, <2>1 DEF Solves
  <2> QED BY <2>2, <2>3
<1>11. h \in [FirstEnds(f) -> 0..Len(f)]
  BY <1>9 DEF D, V, Solves
<1> QED BY <1>10, <1>11, Zenon


\* ffirst is its turns.
LEMMA FirstTurns ==
    ASSUME NEW s, NEW f, Len(f) \in Nat, f # << >>, s # << >>
    PROVE  \E h : /\ \A a, b \in 0..Len(f) - 1 : a <= b =>
                       h[<<a, b>>] = FirstTurn(h, s, f, a, b)
                  /\ ffirst(s, f) = h[<<0, Len(f) - 1>>]
<1> DEFINE Table(h) == [r \in FirstEnds(f) |-> FirstTurn(h, s, f, r[1], r[2])]
           H == CHOOSE h : h = Table(h)
<1>1. PICK g \in [FirstEnds(f) -> 0..Len(f)] :
             \A a, b \in 0..Len(f) - 1 : a <= b =>
               g[<<a, b>>] = FirstTurn(g, s, f, a, b)
  BY FirstExists
<1>2. g = Table(g)
  <2>1. \A r \in FirstEnds(f) : g[r] = FirstTurn(g, s, f, r[1], r[2])
    <3> SUFFICES ASSUME NEW r \in FirstEnds(f)
                 PROVE  g[r] = FirstTurn(g, s, f, r[1], r[2])
      OBVIOUS
    <3>1. r \in (0..Len(f) - 1) \X (0..Len(f) - 1) /\ r[1] <= r[2]
      BY DEF FirstEnds
    <3>2. PICK a \in 0..Len(f) - 1, b \in 0..Len(f) - 1 : r = <<a, b>>
      BY <3>1
    <3> QED BY <1>1, <3>1, <3>2
  <2> QED BY <1>1, <2>1
<1>3. H = Table(H)
  BY <1>2, Zenon
<1>4. ffirst(s, f) = H[<<0, Len(f) - 1>>]
  BY Zenon DEF ffirst, FirstTurn, FirstEnds
<1> HIDE DEF H
<1>5. ASSUME NEW a \in 0..Len(f) - 1, NEW b \in 0..Len(f) - 1, a <= b
      PROVE  H[<<a, b>>] = FirstTurn(H, s, f, a, b)
  <2>1. <<a, b>> \in FirstEnds(f)
    BY <1>5 DEF FirstEnds
  <2> QED BY <1>3, <2>1
<1> QED BY <1>4, <1>5, Zenon

\* ffirst finds the first name of a sorted directory that begins with a prefix.
LEMMA FirstFinds ==
    ASSUME NEW f, Sorted(f), NEW s \in Seq(Char)
    PROVE  IF \E j \in DOMAIN f : IsPrefix(s, f[j])
           THEN /\ ffirst(s, f) \in Nat /\ ffirst(s, f) + 1 \in DOMAIN f
                /\ IsPrefix(s, f[ffirst(s, f) + 1])
                /\ \A j \in 1..ffirst(s, f) : ~IsPrefix(s, f[j])
           ELSE ffirst(s, f) = Len(f)
<1>0. /\ Len(f) \in Nat /\ DOMAIN f = 1..Len(f) /\ Len(s) \in Nat
      /\ \A j \in 1..Len(f) : f[j] \in Seq(Char)
      /\ \A j, k \in 1..Len(f) : j < k => Less(f[j], f[k])
  <2>1. f \in Seq(Seq(Char))
    BY DEF Sorted
  <2>2. Len(f) \in Nat /\ DOMAIN f = 1..Len(f)
    BY <2>1, LenProperties
  <2>3. \A j \in 1..Len(f) : f[j] \in Seq(Char)
    BY <2>1, ElementOfSeq
  <2>4. Len(s) \in Nat
    BY LenProperties
  <2> QED BY <2>2, <2>3, <2>4 DEF Sorted
<1> DEFINE c(k) == Cut(f[k + 1], Len(s))
           P == 0..Len(f) - 1
<1>1. \A k \in P : c(k) \in Seq(Char) /\ (s = c(k) <=> IsPrefix(s, f[k + 1]))
  <2> SUFFICES ASSUME NEW k \in P
               PROVE  c(k) \in Seq(Char) /\ (s = c(k) <=> IsPrefix(s, f[k + 1]))
    OBVIOUS
  <2>1. f[k + 1] \in Seq(Char)
    BY <1>0
  <2> QED BY <1>0, <2>1, CutFacts, CutBegins
<1>2. \A j, k \in P : j < k => c(j) = c(k) \/ Less(c(j), c(k))
  <2> SUFFICES ASSUME NEW j \in P, NEW k \in P, j < k
               PROVE  c(j) = c(k) \/ Less(c(j), c(k))
    OBVIOUS
  <2>1. /\ f[j + 1] \in Seq(Char) /\ f[k + 1] \in Seq(Char)
        /\ Less(f[j + 1], f[k + 1])
    BY <1>0
  <2> QED BY <1>0, <2>1, CutOrder
<1>3. CASE f = << >>
  <2>1. DOMAIN f = {} /\ Len(f) = 0
    BY <1>0, <1>3
  <2> QED BY <1>3, <2>1 DEF ffirst
<1>5. CASE f # << >> /\ s = << >>
  <2>1. Len(f) > 0
    BY <1>0, <1>5, EmptySeq DEF Sorted
  <2>2. \A j \in 1..Len(f) : IsPrefix(s, f[j])
    <3>1. Len(s) = 0 /\ s \in Seq(Char)
      BY <1>5, EmptySeq
    <3>2. ASSUME NEW t \in Seq(Char) PROVE IsPrefix(s, t)
      <4>1. Len(t) \in Nat
        BY LenProperties
      <4>2. SubSeq(s, 1, 0) = << >> /\ SubSeq(t, 1, 0) = << >>
        BY <3>1
      <4> QED BY <3>1, <4>1, <4>2 DEF IsPrefix
    <3> QED BY <1>0, <3>2
  <2>3. ffirst(s, f) = 0
    BY <1>5 DEF ffirst
  <2> DEFINE n == ffirst(s, f)
  <2>4. n = 0 /\ n \in Nat /\ n + 1 = 1
    BY <2>3
  <2> HIDE DEF n
  <2>5. n + 1 \in DOMAIN f /\ IsPrefix(s, f[n + 1])
    BY <1>0, <2>1, <2>2, <2>4
  <2>6. \E j \in DOMAIN f : IsPrefix(s, f[j])
    BY <2>5
  <2>7. \A j \in 1..n : ~IsPrefix(s, f[j])
    BY <2>4
  <2> QED BY <2>4, <2>5, <2>6, <2>7 DEF n
<1>4. CASE f # << >> /\ s # << >>
  <2>0. Len(f) > 0
    BY <1>0, <1>4, EmptySeq DEF Sorted
  <2>1. PICK h : /\ \A a, b \in P : a <= b => h[<<a, b>>] = FirstTurn(h, s, f, a, b)
                 /\ ffirst(s, f) = h[<<0, Len(f) - 1>>]
    BY <1>0, <1>4, FirstTurns
  <2> HIDE DEF c
  <2> DEFINE First(a, b, k) == /\ k \in a..b /\ k \in P /\ c(k) = s
                               /\ \A j \in P : a <= j /\ j < k => c(j) # s
             Right(a, b) ==
               IF \E k \in P : k \in a..b /\ c(k) = s THEN First(a, b, h[<<a, b>>])
               ELSE h[<<a, b>>] = Len(f)
             T == {n \in Nat : \A a, b \in P :
                                 a <= b /\ b - a <= n => Right(a, b)}
  <2> HIDE DEF Right, First
  <2>2. ASSUME NEW a \in P, a = (a + a) \div 2 PROVE Right(a, a)
    <3>1. h[<<a, a>>] = IF s = c(a) THEN a ELSE Len(f)
      <4>1. h[<<a, a>>] = FirstTurn(h, s, f, a, a)
        BY <2>1
      <4> QED BY <2>2, <4>1 DEF FirstTurn, c
    <3>2. CASE s = c(a)
      BY <3>1, <3>2 DEF Right, First
    <3>3. CASE s # c(a)
      BY <3>1, <3>3 DEF Right
    <3> QED BY <3>2, <3>3
  <2>3. \A a \in P : a = (a + a) \div 2
    OBVIOUS
  <2>4. 0 \in T
    <3> SUFFICES ASSUME NEW a \in P, NEW b \in P, a <= b, b - a <= 0
                 PROVE  Right(a, b)
      OBVIOUS
    <3>1. b = a
      OBVIOUS
    <3> QED BY <2>2, <2>3, <3>1
  <2>5. ASSUME NEW n \in Nat, n \in T PROVE n + 1 \in T
    <3> SUFFICES ASSUME NEW a \in P, NEW b \in P, a <= b, b - a <= n + 1
                 PROVE  Right(a, b)
      OBVIOUS
    <3>1. CASE a = b
      BY <2>2, <2>3, <3>1
    <3>2. CASE a # b
      <4> DEFINE k == (a + b) \div 2
      <4>1. k \in P /\ a <= k /\ k < b /\ k + 1 \in P
        BY <3>2, Middle
      <4>2. h[<<a, b>>] = IF Less(c(k), s) THEN h[<<k + 1, b>>] ELSE h[<<a, k>>]
        BY <2>1, <3>2 DEF FirstTurn, c
      <4> HIDE DEF k
      <4>3. CASE Less(c(k), s)
        <5>1. Right(k + 1, b)
          <6>1. k + 1 <= b /\ b - (k + 1) <= n
            BY <4>1
          <6> QED BY <2>5, <4>1, <6>1
        <5>2. ASSUME NEW j \in P, j <= k PROVE c(j) # s
          <6>1. c(j) = c(k) \/ Less(c(j), c(k))
            BY <1>2, <4>1, <5>2
          <6>2. c(j) \in Seq(Char) /\ c(k) \in Seq(Char)
            BY <1>1, <4>1
          <6> QED BY <4>3, <6>1, <6>2, LessAsymmetric
        <5>3. h[<<a, b>>] = h[<<k + 1, b>>]
          BY <4>2, <4>3
        <5>4. CASE \E j \in P : j \in a..b /\ c(j) = s
          <6>1. \E j \in P : j \in k + 1..b /\ c(j) = s
            BY <4>1, <5>2, <5>4
          <6>2. First(k + 1, b, h[<<k + 1, b>>])
            BY <5>1, <6>1 DEF Right
          <6>3. First(a, b, h[<<k + 1, b>>])
            <7>1. h[<<k + 1, b>>] \in a..b
              BY <4>1, <6>2 DEF First
            <7>2. \A j \in P : a <= j /\ j < h[<<k + 1, b>>] => c(j) # s
              BY <4>1, <5>2, <6>2 DEF First
            <7> QED BY <6>2, <7>1, <7>2 DEF First
          <6> QED BY <5>3, <5>4, <6>3 DEF Right
        <5>5. CASE ~\E j \in P : j \in a..b /\ c(j) = s
          <6>1. ~\E j \in P : j \in k + 1..b /\ c(j) = s
            BY <4>1, <5>5
          <6> QED BY <5>1, <5>3, <5>5, <6>1 DEF Right
        <5> QED BY <5>4, <5>5
      <4>4. CASE ~Less(c(k), s)
        <5>1. Right(a, k)
          <6>1. k - a <= n
            BY <4>1
          <6> QED BY <2>5, <4>1, <6>1
        <5>2. ASSUME NEW j \in P, c(j) = s, ~(j <= k) PROVE c(k) = s
          <6>1. c(k) = s \/ Less(c(k), s)
            BY <1>2, <4>1, <5>2
          <6> QED BY <4>4, <6>1
        <5>3. h[<<a, b>>] = h[<<a, k>>]
          BY <4>2, <4>4
        <5>4. CASE \E j \in P : j \in a..b /\ c(j) = s
          <6>1. \E j \in P : j \in a..k /\ c(j) = s
            BY <4>1, <5>2, <5>4
          <6>2. First(a, k, h[<<a, k>>])
            BY <5>1, <6>1 DEF Right
          <6>3. First(a, b, h[<<a, k>>])
            <7>1. h[<<a, k>>] \in a..b
              BY <4>1, <6>2 DEF First
            <7> QED BY <6>2, <7>1 DEF First
          <6> QED BY <5>3, <5>4, <6>3 DEF Right
        <5>5. CASE ~\E j \in P : j \in a..b /\ c(j) = s
          <6>1. ~\E j \in P : j \in a..k /\ c(j) = s
            BY <4>1, <5>5
          <6> QED BY <5>1, <5>3, <5>5, <6>1 DEF Right
        <5> QED BY <5>4, <5>5
      <4> QED BY <4>3, <4>4
    <3> QED BY <3>1, <3>2
  <2> HIDE DEF T
  <2>6. Len(f) \in T
    BY <1>0, <2>4, <2>5, NatClosed
  <2>7. Right(0, Len(f) - 1)
    <3>1. 0 \in P /\ Len(f) - 1 \in P /\ 0 <= Len(f) - 1
          /\ (Len(f) - 1) - 0 <= Len(f)
      BY <1>0, <2>0
    <3> QED BY <2>6, <3>1 DEF T
  <2>8. CASE \E j \in DOMAIN f : IsPrefix(s, f[j])
    <3>1. \E k \in P : k \in 0..Len(f) - 1 /\ c(k) = s
      <4>1. PICK j \in 1..Len(f) : IsPrefix(s, f[j])
        BY <1>0, <2>8
      <4>2. j - 1 \in P /\ (j - 1) + 1 = j
        BY <1>0
      <4>3. c(j - 1) = s
        BY <1>1, <4>1, <4>2
      <4> QED BY <4>2, <4>3
    <3>2. First(0, Len(f) - 1, ffirst(s, f))
      BY <2>1, <2>7, <3>1 DEF Right
    <3>3. /\ ffirst(s, f) \in P /\ c(ffirst(s, f)) = s
          /\ \A j \in P : j < ffirst(s, f) => c(j) # s
      BY <3>2 DEF First
    <3>4. ASSUME NEW j \in 1..ffirst(s, f) PROVE ~IsPrefix(s, f[j])
      <4>1. j - 1 \in P /\ j - 1 < ffirst(s, f) /\ (j - 1) + 1 = j
        BY <1>0, <3>3
      <4>2. c(j - 1) # s
        BY <3>3, <4>1
      <4> QED BY <1>1, <4>1, <4>2
    <3>5. ffirst(s, f) + 1 \in DOMAIN f /\ IsPrefix(s, f[ffirst(s, f) + 1])
      <4>1. ffirst(s, f) \in P /\ c(ffirst(s, f)) = s
        BY <3>3
      <4>2. IsPrefix(s, f[ffirst(s, f) + 1])
        BY <1>1, <4>1
      <4>3. ffirst(s, f) + 1 \in 1..Len(f)
        BY <1>0, <4>1
      <4> QED BY <1>0, <4>2, <4>3
    <3>6. ffirst(s, f) \in Nat
      BY <1>0, <3>3
    <3> QED BY <2>8, <3>4, <3>5, <3>6
  <2>9. CASE ~\E j \in DOMAIN f : IsPrefix(s, f[j])
    <3>1. ~\E k \in P : k \in 0..Len(f) - 1 /\ c(k) = s
      BY <1>0, <1>1, <2>9
    <3>2. ffirst(s, f) = Len(f)
      BY <2>1, <2>7, <3>1 DEF Right
    <3> QED BY <2>9, <3>2
  <2> QED BY <2>8, <2>9
<1> QED BY <1>3, <1>4, <1>5


\* What PatCallOK says of an invocation's directories.
LEMMA FilsSorted ==
    ASSUME call \in Calls, NEW i \in Inode
    PROVE  /\ Sorted(call.fils[i]) /\ call.fils[i] \in Seq(Simple)
           /\ Range(call.fils[i]) = W.files[i]
<1>1. PatCallOK(call)
  BY PatternAssumption
<1>2. call.fils[i] \in Seq(Simple) /\ Range(call.fils[i]) = W.files[i]
  BY <1>1 DEF PatCallOK, W
<1>3. Simple \subseteq Seq(Char)
  BY PatternAssumption
<1>4. call.fils[i] \in Seq(Seq(Char))
  BY <1>2, <1>3, SeqMonotonic
<1> QED BY <1>1, <1>2, <1>4 DEF PatCallOK, Sorted

\* No step of a pattern program changes the invocation.
LEMMA PatCallStays == [PatNext]_allVars => call' = call
<1> SUFFICES ASSUME [PatNext]_allVars PROVE call' = call
  OBVIOUS
<1>1. CASE GetLine \/ GetArgs \/ GetEof \/ PatternError \/ ParsePattern
  BY <1>1 DEF GetLine, GetArgs, GetEof, PatternError, ParsePattern, callVars
<1>2. CASE EnterNowhere \/ Enter \/ StatFails \/ PassFile \/ NextStage
  BY <1>2 DEF EnterNowhere, Enter, StatFails, PassFile, NextStage, callVars
<1>3. CASE TakeFile \/ FilesDone \/ PassDir \/ GoBelow \/ DirsDone
  BY <1>3 DEF TakeFile, FilesDone, PassDir, GoBelow, DirsDone, callVars
<1>4. CASE Verdict \/ PatKeepRep
  <2>1. Deciding
    BY <1>4 DEF Verdict, PatKeepRep, Deciding
  <2> QED BY <2>1 DEF Deciding, SourceBad, SourceGood, CheckToDirmove, CheckTo,
          CheckInside, TargetBad, KeepRep, RefuseSource, callVars
<1> QED BY <1>1, <1>2, <1>3, <1>4 DEF PatNext, allVars, scanVars

\* fsearch finds every name that a directory has and no other, and ffirst the
\* first that begins with a prefix: in every directory, however strcmp orders
\* chars.
THEOREM SearchesAreRight == PatSpec => []SearchesRight
<1>1. call \in Calls => SearchesRight
  <2> SUFFICES ASSUME call \in Calls, NEW i \in Inode,
                      NEW s \in Simple \cup {<< >>}
               PROVE  LET f == call.fils[i]
                          k == BinarySearch(s, f)
                          begun == {j \in DOMAIN f : IsPrefix(s, f[j])}
                      IN  /\ IF s \in Range(f)
                             THEN k + 1 \in DOMAIN f /\ f[k + 1] = s ELSE k = -1
                          /\ IF begun # {} THEN ffirst(s, f) + 1 = Min(begun)
                             ELSE ffirst(s, f) = Len(f)
    BY DEF SearchesRight
  <2> DEFINE f == call.fils[i]
             begun == {j \in DOMAIN f : IsPrefix(s, f[j])}
  <2>1. Sorted(f) /\ s \in Seq(Char)
    BY FilsSorted, PatternAssumption, EmptySeq
  <2>2. DOMAIN f = 1..Len(f) /\ Len(f) \in Nat
    BY <2>1, LenProperties DEF Sorted
  <2> HIDE DEF f
  <2>3. IF s \in Range(f)
        THEN BinarySearch(s, f) + 1 \in DOMAIN f
             /\ f[BinarySearch(s, f) + 1] = s
        ELSE BinarySearch(s, f) = -1
    BY <2>1, SearchFinds
  <2>4. CASE begun = {}
    <3>1. ffirst(s, f) = Len(f)
      BY <2>1, <2>4, FirstFinds
    <3> QED BY <2>3, <2>4, <3>1 DEF f
  <2>5. CASE begun # {}
    <3> DEFINE k == ffirst(s, f) + 1
    <3>1. /\ k \in DOMAIN f /\ IsPrefix(s, f[k])
          /\ \A j \in 1..k - 1 : ~IsPrefix(s, f[j])
      <4>1. \E j \in DOMAIN f : IsPrefix(s, f[j])
        BY <2>5
      <4>2. /\ ffirst(s, f) \in Nat /\ k \in DOMAIN f /\ IsPrefix(s, f[k])
            /\ \A j \in 1..ffirst(s, f) : ~IsPrefix(s, f[j])
        BY <2>1, <4>1, FirstFinds
      <4>3. \A j \in 1..k - 1 : ~IsPrefix(s, f[j])
        BY <4>2
      <4> QED BY <4>2, <4>3
    <3> HIDE DEF k
    <3>2. k \in begun /\ \A j \in begun : k <= j
      BY <2>2, <3>1
    <3>3. \A j \in begun : (\A m \in begun : j <= m) => j = k
      BY <2>2, <3>2
    <3>4. Min(begun) = k
      <4>1. Min(begun) \in begun /\ \A m \in begun : Min(begun) <= m
        BY <3>2 DEF Min
      <4> QED BY <3>3, <4>1
    <3> QED BY <2>3, <2>5, <3>4 DEF f, k
  <2> QED BY <2>4, <2>5
<1>2. PatInit => call \in Calls
  BY DEF PatInit, ScanInit
<1>3. call \in Calls /\ [PatNext]_allVars => (call \in Calls)'
  BY PatCallStays
<1> QED BY <1>1, <1>2, <1>3, PTL DEF PatSpec
-----------------------------------------------------------------------------
(***************************************************************************)
(* Texts.                                                                  *)
(***************************************************************************)
\* A row of values, each made from the one before it.
Steps(f, V, n, v, F) ==
    f \in [0..n -> V] /\ f[0] = v /\ \A k \in 1..n : f[k] = F[<<k, f[k - 1]>>]

\* There is one.
LEMMA StepByStep ==
    ASSUME NEW V, NEW n \in Nat, NEW v \in V, NEW F \in [(1..n) \X V -> V]
    PROVE  \E f : Steps(f, V, n, v, F)
<1> DEFINE T == {k \in Nat : k <= n => \E f \in [0..n -> V] :
                   f[0] = v /\ \A j \in 1..k : f[j] = F[<<j, f[j - 1]>>]}
<1>1. 0 \in T
  <2>1. [k \in 0..n |-> v] \in [0..n -> V] /\ [k \in 0..n |-> v][0] = v
    OBVIOUS
  <2>2. \A j \in 1..0 : FALSE
    OBVIOUS
  <2>3. \E f \in [0..n -> V] :
           f[0] = v /\ \A j \in 1..0 : f[j] = F[<<j, f[j - 1]>>]
    BY <2>1, <2>2
  <2> QED BY <2>3
<1>2. ASSUME NEW k \in Nat, k \in T PROVE k + 1 \in T
  <2> SUFFICES ASSUME k + 1 <= n
               PROVE  \E f \in [0..n -> V] :
                   f[0] = v /\ \A j \in 1..k + 1 : f[j] = F[<<j, f[j - 1]>>]
    OBVIOUS
  <2>1. PICK f \in [0..n -> V] :
               f[0] = v /\ \A j \in 1..k : f[j] = F[<<j, f[j - 1]>>]
    BY <1>2
  <2>2. k \in 0..n /\ k + 1 \in 1..n /\ k + 1 \in 0..n /\ f[k] \in V
    OBVIOUS
  <2>3. <<k + 1, f[k]>> \in (1..n) \X V
    BY <2>2
  <2>4. F[<<k + 1, f[k]>>] \in V
    BY <2>3
  <2> DEFINE g == [f EXCEPT ![k + 1] = F[<<k + 1, f[k]>>]]
  <2>5. /\ g \in [0..n -> V] /\ g[k + 1] = F[<<k + 1, f[k]>>]
        /\ \A j \in 0..n : j # k + 1 => g[j] = f[j]
    BY <2>2, <2>4
  <2> HIDE DEF g
  <2>6. ASSUME NEW j \in 1..k + 1 PROVE g[j] = F[<<j, g[j - 1]>>]
    <3>1. j - 1 \in 0..n /\ j \in 0..n /\ j - 1 # k + 1
      BY <2>2
    <3>2. CASE j = k + 1
      <4>1. j - 1 = k /\ g[k] = f[k]
        BY <2>2, <2>5, <3>2
      <4> QED BY <2>5, <3>2, <4>1
    <3>3. CASE j # k + 1
      <4>1. j \in 1..k
        BY <3>3
      <4> QED BY <2>1, <2>5, <3>1, <3>3, <4>1
    <3> QED BY <3>2, <3>3
  <2>7. g[0] = v
    BY <2>1, <2>5
  <2> QED BY <2>5, <2>6, <2>7
<1> HIDE DEF T
<1>3. n \in T
  BY <1>1, <1>2, NatClosed
<1> QED BY <1>3 DEF T, Steps

\* FlattenSeq of sequences is the sequence of all that is in them; it ends with the last.
LEMMA FlattenFacts ==
    ASSUME NEW S, NEW ss \in Seq(Seq(S))
    PROVE  /\ FlattenSeq(ss) \in Seq(S)
           /\ ss # << >> => \E front \in Seq(S) : FlattenSeq(ss) = front \o ss[Len(ss)]
<1> DEFINE n == Len(ss)
           V == Seq(S)
           F == [q \in (1..n) \X V |-> q[2] \o ss[q[1]]]
<1>0. n \in Nat /\ \A k \in 1..n : ss[k] \in V
  BY LenProperties, ElementOfSeq
<1>1. CASE n = 0
  <2>1. ss = << >>
    BY <1>1, EmptySeq
  <2> QED BY <2>1, <1>1, EmptySeq DEF FlattenSeq
<1>2. CASE n # 0
  <2>1. << >> \in V
    BY EmptySeq
  <2>2. F \in [(1..n) \X V -> V]
    <3>1. ASSUME NEW q \in (1..n) \X V PROVE q[2] \o ss[q[1]] \in V
      <4>1. q[1] \in 1..n /\ q[2] \in V
        OBVIOUS
      <4> QED BY <1>0, <4>1, ConcatProperties
    <3> HIDE DEF V
    <3> QED BY <3>1
  <2>3. \A k \in 1..n, u \in V : F[<<k, u>>] = u \o ss[k]
    OBVIOUS
  <2> HIDE DEF F, V, n
  <2>4. PICK f : Steps(f, V, n, << >>, F)
    BY <1>0, <2>1, <2>2, StepByStep
  <2>4a. f \in [0..n -> V] /\ f[0] = << >> /\ \A k \in 1..n : f[k] = F[<<k, f[k - 1]>>]
    BY <2>4 DEF Steps
  <2>5. ASSUME NEW k \in 1..n PROVE f[k] = f[k - 1] \o ss[k] /\ f[k - 1] \in V /\ f[k] \in V
    <3>1. k - 1 \in 0..n /\ k \in 0..n
      BY <1>0
    <3> QED BY <2>3, <2>4a, <3>1
  <2> DEFINE Round(h) == [i \in 1..n |-> IF i = 1 THEN ss[i] ELSE h[i - 1] \o ss[i]]
             H == CHOOSE h : h = Round(h)
             g == [i \in 1..n |-> f[i]]
  <2>6. ASSUME NEW i \in 1..n PROVE g[i] = IF i = 1 THEN ss[i] ELSE g[i - 1] \o ss[i]
    <3>1. CASE i = 1
      <4>1. f[1] = f[0] \o ss[1] /\ ss[1] \in Seq(S)
        <5>1. \A k \in 1..n, j \in Int : j = k - 1 => f[k] = f[j] \o ss[k]
          BY <2>5
        <5>2. 1 \in 1..n /\ 0 \in Int /\ 0 = 1 - 1
          BY <3>1
        <5>3. f[1] = f[0] \o ss[1]
          BY <5>1, <5>2
        <5> QED BY <1>0, <5>2, <5>3 DEF V
      <4> QED BY <2>4a, <3>1, <4>1, ConcatEmptySeq
    <3>2. CASE i # 1
      <4>1. i - 1 \in 1..n
        BY <1>0, <3>2
      <4> QED BY <2>5, <3>2, <4>1
    <3> QED BY <3>1, <3>2
  <2>7. g = Round(g)
    <3>1. g = [i \in 1..n |-> g[i]]
      OBVIOUS
    <3> HIDE DEF g
    <3> QED BY <2>6, <3>1
  <2>8. H = Round(H)
    BY <2>7, Zenon
  <2>9. FlattenSeq(ss) = H[n]
    BY <1>2, Zenon DEF FlattenSeq, n
  <2> HIDE DEF H
  <2>10. \A i \in 1..n : H[i] = IF i = 1 THEN ss[i] ELSE H[i - 1] \o ss[i]
    BY <2>8
  <2>11. \A i \in 1..n : f[i] = IF i = 1 THEN ss[i] ELSE f[i - 1] \o ss[i]
    <3>1. ASSUME NEW i \in 1..n, i # 1 PROVE g[i - 1] = f[i - 1]
      BY <1>0, <3>1
    <3> QED BY <2>6, <3>1
  <2> DEFINE T == {k \in Nat : k \in 1..n => H[k] = f[k]}
  <2> HIDE DEF g
  <2>13. 0 \in T
    BY <1>0
  <2>14. ASSUME NEW k \in Nat, k \in T PROVE k + 1 \in T
    <3> SUFFICES ASSUME k + 1 \in 1..n PROVE H[k + 1] = f[k + 1]
      OBVIOUS
    <3>1. CASE k = 0
      BY <2>10, <2>11, <3>1
    <3>2. CASE k # 0
      <4>1. k \in 1..n /\ (k + 1) - 1 = k /\ k + 1 # 1
        BY <1>0, <3>2
      <4> QED BY <2>10, <2>11, <2>14, <4>1
    <3> QED BY <3>1, <3>2
  <2> HIDE DEF T
  <2>15. n \in T
    BY <1>0, <2>13, <2>14, NatClosed
  <2>12. n \in 1..n
    BY <1>0, <1>2
  <2>16. FlattenSeq(ss) = f[n - 1] \o ss[n] /\ f[n - 1] \in V /\ f[n] \in V /\ H[n] = f[n]
    BY <2>5, <2>9, <2>15, <2>12 DEF T
  <2> QED BY <2>5, <2>12, <2>16 DEF V, n
<1> QED BY <1>1, <1>2

\* What a token is made of.
LEMMA TokenFacts ==
    ASSUME NEW x \in Token
    PROVE  /\ x.t \in {"char", "slash", "star", "any", "semi", "error", "class", "ref"}
           /\ x.t = "char" => x.c \in Char /\ x.esc \in BOOLEAN
           /\ x.t = "ref" => x.n \in Nat
<1>1. CASE x \in [t : {"char"}, c : Char, esc : BOOLEAN]
  BY <1>1
<1>2. CASE x \in [t : {"slash", "star", "any", "semi", "error"}]
  BY <1>2
<1>3. CASE x \in [t : {"class"}, in : SUBSET Char]
  BY <1>3
<1>4. CASE x \in [t : {"ref"}, n : Nat, conv : {"=", "u", "l"}]
  BY <1>4
<1> QED BY <1>1, <1>2, <1>3, <1>4 DEF Token

\* The constants have every name: each string that ends with a slash, or is
\* empty, is a spelling, and each that has no slash a simple name; what is below
\* a directory can be spelled.  The marks of wildcards are chars, for #0.
NamesClosed ==
    /\ Cwd = << >> /\ {Slash, Esc, "star", "any", "class", "semi"} \subseteq Char
    /\ \A s \in Seq(Char) : s = << >> \/ s[Len(s)] = Slash => s \in Spelling
    /\ \A s \in Seq(Char) : s # << >> /\ (\A k \in 1..Len(s) : s[k] # Slash) => s \in Simple
    /\ \A s \in Spelling, n \in Simple : <<s, n>> \in DOMAIN Below

\* Tokens of a source pattern that can be parsed.
Plainly(p) == p \in Seq(Token) /\ \A k \in 1..Len(p) : p[k].t \notin {"ref", "error"}

\* The text of a pattern's part is a string; it ends with a slash if the part does.
LEMMA RawChars ==
    ASSUME NamesClosed, NEW p, Plainly(p)
    PROVE  /\ RawText(p) \in Seq(Char)
           /\ p = << >> => RawText(p) = << >>
           /\ p # << >> /\ p[Len(p)].t = "slash" =>
                RawText(p) # << >> /\ RawText(p)[Len(RawText(p))] = Slash
<1> DEFINE q == [k \in DOMAIN p |-> Raw(p[k])]
<1>0. Len(p) \in Nat /\ DOMAIN p = 1..Len(p) /\ p \in Seq(Token)
  BY LenProperties DEF Plainly
<1>1. ASSUME NEW k \in 1..Len(p)
      PROVE  Raw(p[k]) \in Seq(Char) /\ (p[k].t = "slash" => Raw(p[k]) = <<Slash>>)
  <2>1. p[k] \in Token /\ p[k].t \notin {"ref", "error"}
    BY <1>0, ElementOfSeq DEF Plainly
  <2>2. Slash \in Char /\ Esc \in Char /\ {"star", "any", "class", "semi"} \subseteq Char
    BY DEF NamesClosed
  <2>3. CASE p[k].t = "char"
    BY <2>1, <2>2, <2>3, TokenFacts DEF Raw
  <2>4. CASE p[k].t = "slash"
    BY <2>1, <2>2, <2>4 DEF Raw
  <2>5. CASE p[k].t \notin {"char", "slash"}
    <3>1. p[k].t \in {"star", "any", "class", "semi"}
      BY <2>1, <2>5, TokenFacts
    <3>2. Raw(p[k]) = <<p[k].t>>
      BY <2>5 DEF Raw
    <3> QED BY <2>2, <3>1, <3>2
  <2> QED BY <2>3, <2>4, <2>5
<1>2. q \in Seq(Seq(Char)) /\ Len(q) = Len(p) /\ \A k \in 1..Len(p) : q[k] = Raw(p[k])
  <2>1. q \in [1..Len(p) -> Seq(Char)]
    BY <1>0, <1>1
  <2> QED BY <1>0, <2>1
<1>3. RawText(p) = FlattenSeq(q)
  BY DEF RawText
<1> HIDE DEF q
<1>4. RawText(p) \in Seq(Char)
  BY <1>2, <1>3, FlattenFacts
<1>5. ASSUME p = << >> PROVE RawText(p) = << >>
  <2>1. Len(q) = 0
    BY <1>2, <1>5
  <2>2. q = << >>
    BY <1>2, <2>1, EmptySeq
  <2> QED BY <1>3, <2>1, <2>2 DEF FlattenSeq
<1>6. ASSUME p # << >>, p[Len(p)].t = "slash"
      PROVE  RawText(p) # << >> /\ RawText(p)[Len(RawText(p))] = Slash
  <2>1. Len(p) \in 1..Len(p) /\ Len(p) # 0
    BY <1>0, <1>6, EmptySeq
  <2>2. q # << >> /\ q[Len(q)] = <<Slash>>
    BY <1>1, <1>2, <1>6, <2>1
  <2>3. PICK a \in Seq(Char) : FlattenSeq(q) = a \o <<Slash>>
    <3>1. \E a \in Seq(Char) : FlattenSeq(q) = a \o q[Len(q)]
      BY <1>2, <2>2, FlattenFacts
    <3> QED BY <2>2, <3>1
  <2>4. Slash \in Char
    BY DEF NamesClosed
  <2>5. FlattenSeq(q) = Append(a, Slash)
    BY <2>3, <2>4, AppendIsConcat
  <2>6. Len(a) \in Nat /\ Len(Append(a, Slash)) = Len(a) + 1
        /\ Append(a, Slash)[Len(a) + 1] = Slash /\ Append(a, Slash) # << >>
    BY <2>4, AppendProperties, LenProperties
  <2> QED BY <1>3, <2>5, <2>6
<1> QED BY <1>4, <1>5, <1>6

\* A path that a slash is put behind, or a part that ends with one, is a spelling.
LEMMA Spelled ==
    ASSUME NamesClosed, NEW s \in Seq(Char), NEW t \in Seq(Char),
           t # << >>, t[Len(t)] = Slash
    PROVE  s \o t \in Spelling
<1>1. Len(s) \in Nat /\ Len(t) \in Nat \ {0}
  BY EmptySeq, LenProperties
<1>2. /\ s \o t \in Seq(Char) /\ Len(s \o t) = Len(s) + Len(t)
      /\ \A i \in 1..Len(s) + Len(t) :
           (s \o t)[i] = IF i <= Len(s) THEN s[i] ELSE t[i - Len(s)]
  BY ConcatProperties
<1>3. /\ Len(s) + Len(t) \in 1..Len(s) + Len(t)
      /\ ~(Len(s) + Len(t) <= Len(s)) /\ (Len(s) + Len(t)) - Len(s) = Len(t)
  BY <1>1
<1>4. (s \o t)[Len(s \o t)] = Slash
  BY <1>2, <1>3
<1> QED BY <1>2, <1>4 DEF NamesClosed

-----------------------------------------------------------------------------
(***************************************************************************)
(* The stages of a pattern.                                                *)
(***************************************************************************)
\* A bounded set of numbers has a greatest member.
LEMMA GreatestOf ==
    ASSUME NEW T \in SUBSET Nat, T # {}, NEW n \in Nat, \A t \in T : t <= n
    PROVE  \E t \in T : \A u \in T : u <= t
<1> DEFINE U == {k \in Nat : n - k \in T}
<1>1. \A t \in T : n - t \in U
  OBVIOUS
<1>2. PICK k \in U : \A j \in U : k <= j
  <2>1. U # {} /\ U \in SUBSET Nat
    BY <1>1
  <2> HIDE DEF U
  <2> QED BY <2>1, LeastOf
<1>3. n - k \in T
  BY <1>2
<1>4. ASSUME NEW u \in T PROVE u <= n - k
  <2>1. k <= n - u
    BY <1>1, <1>2
  <2> QED BY <1>2, <2>1
<1> QED BY <1>3, <1>4

\* Max and Min of such a set.
LEMMA MaxOf ==
    ASSUME NEW T \in SUBSET Nat, T # {}, NEW n \in Nat, \A t \in T : t <= n
    PROVE  Max(T) \in T /\ \A u \in T : u <= Max(T)
<1>1. PICK t \in T : \A u \in T : u <= t
  BY GreatestOf
<1>2. t \in T /\ \A u \in T : t >= u
  BY <1>1
<1>3. Max(T) \in T /\ \A u \in T : Max(T) >= u
  BY <1>2, Zenon DEF Max
<1> QED BY <1>3

\* And the least.
LEMMA MinOf ==
    ASSUME NEW T \in SUBSET Nat, T # {}
    PROVE  Min(T) \in T /\ \A u \in T : Min(T) <= u
<1>1. PICK t \in T : \A u \in T : t <= u
  BY LeastOf
<1> QED BY <1>1, Zenon DEF Min

\* How many members of T are less than a.
Rank0(T, a) == Cardinality({b \in T : b < a})

\* The members of a finite set of numbers are numbered, from 0 on, in their order.
LEMMA Numbered ==
    ASSUME NEW T \in SUBSET Nat, IsFiniteSet(T)
    PROVE  /\ Cardinality(T) \in Nat
           /\ \A a \in T : Rank0(T, a) \in 0..Cardinality(T) - 1
           /\ \A a, b \in T : a < b => Rank0(T, a) < Rank0(T, b)
           /\ \A n \in 0..Cardinality(T) - 1 : \E a \in T : Rank0(T, a) = n
<1> DEFINE N == Cardinality(T)
           r == [a \in T |-> Rank0(T, a)]
<1>1. N \in Nat
  BY FS_CardinalityType
<1>2. ASSUME NEW a \in T
      PROVE  /\ IsFiniteSet({b \in T : b < a}) /\ Rank0(T, a) \in Nat
             /\ Rank0(T, a) < N
  <2>1. {b \in T : b < a} \in SUBSET T /\ {b \in T : b < a} # T
    OBVIOUS
  <2>2. IsFiniteSet({b \in T : b < a}) /\ Rank0(T, a) <= N /\ Rank0(T, a) # N
    BY <2>1, FS_Subset DEF Rank0
  <2>3. Rank0(T, a) \in Nat
    BY <2>2, FS_CardinalityType DEF Rank0
  <2> QED BY <1>1, <2>2, <2>3
<1>2a. \A a \in T : Rank0(T, a) \in Nat /\ Rank0(T, a) < N
  BY <1>2
<1>3. ASSUME NEW a \in T, NEW b \in T, a < b
      PROVE  Rank0(T, a) < Rank0(T, b)
  <2> DEFINE A == {c \in T : c < a}
             B == {c \in T : c < b}
  <2>1. A \in SUBSET B /\ A # B
    <3>1. a \in B /\ a \notin A
      BY <1>3
    <3>2. \A c \in A : c \in B
      BY <1>3
    <3> QED BY <3>1, <3>2
  <2>2. IsFiniteSet(A) /\ IsFiniteSet(B) /\ Cardinality(A) \in Nat /\ Cardinality(B) \in Nat
    BY <1>2 DEF Rank0
  <2>3. Cardinality(A) <= Cardinality(B) /\ Cardinality(A) # Cardinality(B)
    <3> HIDE DEF A, B
    <3> QED BY <2>1, <2>2, FS_Subset
  <2> QED BY <2>2, <2>3 DEF Rank0
<1> HIDE DEF N
<1>4. r \in Injection(T, 0..N - 1)
  <2>1. \A a \in T : Rank0(T, a) \in 0..N - 1
    BY <1>1, <1>2a
  <2>2. r \in [T -> 0..N - 1]
    BY <2>1
  <2>3. ASSUME NEW a \in T, NEW b \in T, Rank0(T, a) = Rank0(T, b) PROVE a = b
    <3>1. Rank0(T, a) \in Nat /\ Rank0(T, b) \in Nat
      BY <1>2a
    <3>2. ~(a < b) /\ ~(b < a)
      BY <1>3, <2>3, <3>1
    <3> QED BY <3>2
  <2> QED BY <2>2, <2>3 DEF Injection, IsInjective
<1>5. IsFiniteSet(0..N - 1) /\ Cardinality(0..N - 1) = N
  BY <1>1, FS_Interval
<1>6. r \in Surjection(T, 0..N - 1)
  <2> HIDE DEF r
  <2> QED BY <1>4, <1>5, FS_Injection DEF N
<1>7. \A n \in 0..N - 1 : \E a \in T : r[a] = n
  BY <1>6 DEF Surjection
<1>8. \A a \in T : Rank0(T, a) \in 0..N - 1
  BY <1>1, <1>2a
<1>9. \A n \in 0..N - 1 : \E a \in T : Rank0(T, a) = n
  BY <1>7
<1> QED BY <1>1, <1>3, <1>8, <1>9, Zenon DEF N

\* Where a component begins and ends.
LEMMA EndFacts ==
    ASSUME NEW p \in Seq(Token), NEW a \in 1..Len(p) + 1
    PROVE  /\ EndOf(p, a) \in a..Len(p) + 1
           /\ EndOf(p, a) <= Len(p) => p[EndOf(p, a)].t = "slash"
           /\ \A k \in a..EndOf(p, a) - 1 : p[k].t # "slash"
<1> DEFINE T == {e \in Nat : a <= e /\ e <= Len(p) + 1
                             /\ (e <= Len(p) => p[e].t = "slash")}
<1>0. Len(p) \in Nat /\ DOMAIN p = 1..Len(p)
  BY LenProperties
<1>1. Len(p) + 1 \in T
  BY <1>0
<1>2. PICK e \in T : \A d \in T : e <= d
  BY <1>1, LeastOf
<1>3. e \in a..Len(p) + 1 /\ (e \in DOMAIN p => p[e].t = "slash")
  BY <1>0, <1>2
<1>4. \A k \in a..e - 1 : p[k].t # "slash"
  <2> SUFFICES ASSUME NEW k \in a..e - 1, p[k].t = "slash" PROVE FALSE
    OBVIOUS
  <2>1. k \in T /\ ~(e <= k)
    BY <1>0, <1>3
  <2> QED BY <1>2, <2>1
<1>5. /\ EndOf(p, a) \in a..Len(p) + 1
      /\ EndOf(p, a) \in DOMAIN p => p[EndOf(p, a)].t = "slash"
      /\ \A k \in a..EndOf(p, a) - 1 : p[k].t # "slash"
  BY <1>3, <1>4, Zenon DEF EndOf
<1> QED BY <1>0, <1>5

\* A component begins at the first token, or behind a slash.
LEMMA StartsFacts ==
    ASSUME NEW p \in Seq(Token)
    PROVE  /\ Starts(p) \subseteq 1..Len(p) + 1 /\ 1 \in Starts(p)
           /\ \A a \in Starts(p) : a # 1 => a - 1 \in 1..Len(p) /\ p[a - 1].t = "slash"
           /\ \A k \in 1..Len(p) : p[k].t = "slash" => k + 1 \in Starts(p)
<1>1. Len(p) \in Nat /\ DOMAIN p = 1..Len(p)
  BY LenProperties
<1> QED BY <1>1 DEF Starts

\* The component that a place of the pattern is in.
LEMMA ComponentOf ==
    ASSUME NEW p \in Seq(Token), NEW k \in 1..Len(p)
    PROVE  \E c \in Starts(p) : c <= k /\ \A j \in c..k - 1 : p[j].t # "slash"
<1>0. Len(p) \in Nat
  BY LenProperties
<1> DEFINE T == {a \in Starts(p) : a <= k}
<1>1. 1 \in T /\ T \in SUBSET Nat /\ \A a \in T : a <= k
  BY StartsFacts
<1>2. PICK c \in T : \A a \in T : a <= c
  <2> HIDE DEF T
  <2>1. k \in Nat /\ T # {} /\ T \in SUBSET Nat
    BY <1>0, <1>1
  <2> QED BY <1>1, <2>1, GreatestOf
<1>3. ASSUME NEW j \in c..k - 1, p[j].t = "slash" PROVE FALSE
  <2>1. j \in 1..Len(p) /\ j + 1 <= k /\ ~(j + 1 <= c)
    BY <1>0, <1>1, <1>2
  <2>2. j + 1 \in T
    BY <1>3, <2>1, StartsFacts
  <2> QED BY <1>2, <2>1, <2>2
<1> QED BY <1>2, <1>3

\* Counting wildcards: part by part.
LEMMA WildsAdd ==
    ASSUME NEW p, NEW a \in Int, NEW b \in Int, NEW c \in Int, a <= c + 1, c <= b
    PROVE  /\ NWilds(p, a, b) = NWilds(p, a, c) + NWilds(p, c + 1, b)
           /\ NWilds(p, a, b) \in Nat /\ NWilds(p, a, c) \in Nat
           /\ NWilds(p, c + 1, b) \in Nat
<1> DEFINE A == {k \in a..c : Wild(p[k])}
           B == {k \in c + 1..b : Wild(p[k])}
           C == {k \in a..b : Wild(p[k])}
<1>1. C = A \cup B /\ A \cap B = {} /\ A \subseteq a..c /\ B \subseteq c + 1..b
  OBVIOUS
<1>2. IsFiniteSet(a..c) /\ IsFiniteSet(c + 1..b)
  BY FS_Interval
<1>3. IsFiniteSet(A) /\ IsFiniteSet(B)
  <2> HIDE DEF A, B
  <2> QED BY <1>1, <1>2, FS_Subset
<1>4. Cardinality(A) \in Nat /\ Cardinality(B) \in Nat
      /\ Cardinality(C) = Cardinality(A) + Cardinality(B)
  <2> HIDE DEF A, B, C
  <2>1. Cardinality(A \cap B) = 0
    BY <1>1, FS_EmptySet
  <2>2. Cardinality(A) \in Nat /\ Cardinality(B) \in Nat
    BY <1>3, FS_CardinalityType
  <2>3. Cardinality(A \cup B) = Cardinality(A) + Cardinality(B) - Cardinality(A \cap B)
    BY <1>3, FS_Union
  <2>4. Cardinality(C) = Cardinality(A) + Cardinality(B) - 0
    BY <1>1, <2>1, <2>3
  <2> QED BY <2>2, <2>4
<1> QED BY <1>4 DEF NWilds

\* A part without wildcards has none.
LEMMA WildsNone ==
    ASSUME NEW p, NEW a \in Int, NEW b \in Int, \A k \in a..b : ~Wild(p[k])
    PROVE  NWilds(p, a, b) = 0
<1>1. {k \in a..b : Wild(p[k])} = {}
  OBVIOUS
<1> QED BY <1>1, FS_EmptySet DEF NWilds

\* A wildcard counts.
LEMMA WildsSome ==
    ASSUME NEW p, NEW a \in Int, NEW b \in Int, NEW k \in a..b, Wild(p[k])
    PROVE  NWilds(p, a, b) > 0 /\ NWilds(p, k, k) = 1
<1> DEFINE T == {j \in a..b : Wild(p[j])}
<1>1. T # {} /\ IsFiniteSet(T)
  <2>1. k \in T
    OBVIOUS
  <2> QED BY <2>1, FS_Interval, FS_Subset
<1>2. Cardinality(T) \in Nat /\ Cardinality(T) # 0
  <2> HIDE DEF T
  <2> QED BY <1>1, FS_EmptySet, FS_CardinalityType
<1>3. {j \in k..k : Wild(p[j])} = {k}
  OBVIOUS
<1>4. Cardinality({k}) = 1
  BY FS_Singleton
<1>5. NWilds(p, a, b) = Cardinality(T) /\ NWilds(p, k, k) = 1
  BY <1>3, <1>4 DEF NWilds
<1> HIDE DEF T
<1> QED BY <1>2, <1>5

\* A part of a pattern, taken out, has its wildcards.
LEMMA WildsPart ==
    ASSUME NEW p \in Seq(Token), NEW a \in 1..Len(p) + 1, NEW b \in a - 1..Len(p)
    PROVE  NWilds(SubSeq(p, a, b), 1, Len(SubSeq(p, a, b))) = NWilds(p, a, b)
<1> DEFINE q == SubSeq(p, a, b)
           n == Len(q)
           A == {k \in a..b : Wild(p[k])}
           B == {k \in 1..n : Wild(q[k])}
           h == [k \in A |-> k - a + 1]
<1>0. Len(p) \in Nat /\ a \in Int /\ b \in Int
  BY LenProperties
<1>1. /\ n = b - a + 1 /\ n \in Nat
      /\ \A i \in 1..b - a + 1 : q[i] = p[a + i - 1]
  <2>1. \A i \in a..b : p[i] \in Token
    BY <1>0, ElementOfSeq
  <2> QED BY <1>0, <2>1, SubSeqProperties
<1> HIDE DEF n, q
<1>2. A \subseteq a..b /\ IsFiniteSet(A)
  BY <1>0, FS_Interval, FS_Subset
<1>3. h \in Bijection(A, B)
  <2>1. ASSUME NEW k \in A PROVE k - a + 1 \in B
    <3>1. k - a + 1 \in 1..b - a + 1 /\ a + (k - a + 1) - 1 = k
      BY <1>0
    <3>2. q[k - a + 1] = p[k]
      BY <1>1, <3>1
    <3> QED BY <1>1, <3>1, <3>2
  <2>2. ASSUME NEW k \in B PROVE k + a - 1 \in A /\ (k + a - 1) - a + 1 = k
    <3>1. /\ k \in 1..b - a + 1 /\ k + a - 1 \in a..b /\ a + k - 1 = k + a - 1
          /\ (k + a - 1) - a + 1 = k
      BY <1>0, <1>1
    <3>2. q[k] = p[k + a - 1]
      BY <1>1, <3>1
    <3> QED BY <3>1, <3>2
  <2>3. h \in [A -> B]
    BY <2>1
  <2>4. \A j, k \in A : h[j] = h[k] => j = k
    BY <1>0
  <2>5. \A k \in B : h[k + a - 1] = k
    BY <2>2
  <2> HIDE DEF h, A, B
  <2> QED BY <2>2, <2>3, <2>4, <2>5 DEF Bijection, Injection, Surjection, IsInjective
<1>4. Cardinality(B) = Cardinality(A)
  <2> HIDE DEF h, A, B
  <2> QED BY <1>2, <1>3, FS_Bijection DEF ExistsBijection
<1> QED BY <1>4 DEF NWilds, n, q

\* Where the literal prefix of a stage ends: there is one such place.
LEMMA LitFacts ==
    ASSUME NEW p \in Seq(Token), NEW b \in 1..Len(p) + 1, NEW r \in b..Len(p) + 1
    PROVE  /\ LitEnd(p, b, r) \in b..r
           /\ \A k \in b..LitEnd(p, b, r) - 1 : ~Wild(p[k])
<1> DEFINE T == {e \in Nat : b <= e /\ e <= r /\ (e < r => Wild(p[e]) \/ p[e].esc)}
<1>0. Len(p) \in Nat
  BY LenProperties
<1>1. r \in T
  BY <1>0
<1>2. PICK e \in T : \A d \in T : e <= d
  BY <1>1, LeastOf
<1>3. e \in b..r /\ (e < r => Wild(p[e]) \/ p[e].esc)
  BY <1>0, <1>2
<1>4. ASSUME NEW k \in b..e - 1 PROVE ~Wild(p[k]) /\ ~p[k].esc
  <2>1. k \in Nat /\ b <= k /\ k <= r /\ ~(e <= k)
    BY <1>0, <1>3
  <2> QED BY <1>2, <2>1
<1> QED BY <1>3, <1>4, Zenon DEF LitEnd

\* A source pattern that can be parsed.
SrcGood(p) ==
    Plainly(p) /\ \A k \in 1..Len(p) : p[k].t = "semi" => k \in Starts(p)

\* Stages begin where components do, and the last one ends with the pattern.
LEMMA StageStartsFacts ==
    ASSUME NEW p \in Seq(Token)
    PROVE  /\ StageStarts(p) \in SUBSET Nat /\ IsFiniteSet(StageStarts(p))
           /\ StageStarts(p) \subseteq Starts(p)
           /\ StageStarts(p) \subseteq 1..Len(p) + 1
           /\ \E z \in StageStarts(p) : EndOf(p, z) = Len(p) + 1
                                        /\ \A a \in StageStarts(p) : a <= z
<1>0. Len(p) \in Nat
  BY LenProperties
<1>1. StageStarts(p) \subseteq Starts(p) /\ Starts(p) \subseteq 1..Len(p) + 1
  BY StartsFacts DEF StageStarts
<1>2. IsFiniteSet(StageStarts(p))
  <2>1. IsFiniteSet(1..Len(p) + 1)
    BY <1>0, FS_Interval
  <2> QED BY <1>1, <2>1, FS_Subset
<1>3. PICK z \in Starts(p) : \A a \in Starts(p) : a <= z
  <2>1. Starts(p) \in SUBSET Nat /\ Starts(p) # {} /\ \A a \in Starts(p) : a <= Len(p) + 1
    BY <1>0, <1>1, StartsFacts
  <2>2. Len(p) + 1 \in Nat
    BY <1>0
  <2> QED BY <2>1, <2>2, GreatestOf
<1>4. EndOf(p, z) = Len(p) + 1
  <2>1. EndOf(p, z) \in z..Len(p) + 1
        /\ (EndOf(p, z) <= Len(p) => p[EndOf(p, z)].t = "slash")
    BY <1>1, EndFacts
  <2>2. ASSUME EndOf(p, z) <= Len(p) PROVE FALSE
    <3>1. EndOf(p, z) \in 1..Len(p) /\ ~(EndOf(p, z) + 1 <= z)
      BY <1>0, <1>1, <2>1, <2>2
    <3>2. EndOf(p, z) + 1 \in Starts(p)
      BY <2>1, <3>1, StartsFacts
    <3> QED BY <1>3, <3>1, <3>2
  <2> QED BY <1>0, <1>1, <2>1, <2>2
<1>5. z \in StageStarts(p)
  BY <1>0, <1>4 DEF StageStarts
<1> QED BY <1>0, <1>1, <1>2, <1>3, <1>4, <1>5

\* The prefix, and the tokens that match gets, of the stage that begins at a.
LEMMA StageInside ==
    ASSUME NEW p, SrcGood(p), NEW a \in StageStarts(p)
    PROVE  LET g == Stage1(p, a)
               r == EndOf(p, a)
           IN  /\ g.literal \in Seq(Char) /\ g.glob \in Seq(Token)
               /\ g.semi \in BOOLEAN /\ g.wilds = NWilds(p, 1, a - 1)
               /\ ((\A k \in 1..Len(g.rest) : ~Wild(g.rest[k])) =>
                      (\A k \in 1..Len(g.glob) : ~Wild(g.glob[k])))
               /\ NWilds(p, 1, r - 1) = NWilds(p, 1, a - 1) + (IF g.semi THEN 1 ELSE 0)
                                          + NWilds(g.glob, 1, Len(g.glob))
<1> DEFINE g == Stage1(p, a)
           r == EndOf(p, a)
           b == IF IsSemi(p, a) THEN a + 1 ELSE a
           e == LitEnd(p, b, r)
<1>0. /\ p \in Seq(Token) /\ Len(p) \in Nat /\ DOMAIN p = 1..Len(p)
      /\ a \in 1..Len(p) + 1 /\ a \in Starts(p)
      /\ \A k \in 1..Len(p) : p[k] \in Token /\ p[k].t \notin {"ref", "error"}
  <2>1. p \in Seq(Token) /\ \A k \in 1..Len(p) : p[k].t \notin {"ref", "error"}
    BY DEF SrcGood, Plainly
  <2> QED BY <2>1, LenProperties, ElementOfSeq, StageStartsFacts
<1>1. r \in a..Len(p) + 1 /\ \A k \in a..r - 1 : p[k].t # "slash"
  BY <1>0, EndFacts
<1>2. /\ b \in a..r /\ b \in 1..Len(p) + 1 /\ r \in b..Len(p) + 1
      /\ IsSemi(p, a) \in BOOLEAN
      /\ IsSemi(p, a) => b = a + 1 /\ a \in 1..Len(p) /\ Wild(p[a])
      /\ ~IsSemi(p, a) => b = a
  <2>1. CASE IsSemi(p, a)
    <3>1. a \in 1..Len(p) /\ p[a].t = "semi"
      BY <1>0, <2>1 DEF IsSemi
    <3>2. r # a
      <4>1. r <= Len(p) => p[r].t = "slash"
        BY <1>0, EndFacts
      <4> QED BY <1>0, <3>1, <4>1
    <3> QED BY <1>0, <1>1, <2>1, <3>1, <3>2 DEF Wild
  <2>2. CASE ~IsSemi(p, a)
    BY <1>0, <1>1, <2>2 DEF IsSemi
  <2> QED BY <2>1, <2>2
<1>3. e \in b..r /\ \A k \in b..e - 1 : ~Wild(p[k])
  BY <1>0, <1>2, LitFacts
<1>4. /\ g.semi = IsSemi(p, a) /\ g.literal = [k \in 1..e - b |-> p[b + k - 1].c]
      /\ g.glob = SubSeq(p, e, r - 1) /\ g.rest = SubSeq(p, b, Len(p))
      /\ g.wilds = NWilds(p, 1, a - 1)
  BY DEF Stage1
<1> HIDE DEF g, r, b, e
<1>5. a \in Int /\ b \in Int /\ e \in Int /\ r \in Int /\ a <= b /\ b <= e /\ e <= r
      /\ r <= Len(p) + 1 /\ 1 <= a
  BY <1>0, <1>1, <1>2, <1>3
<1>6. g.literal \in Seq(Char)
  <2>1. ASSUME NEW k \in 1..e - b PROVE p[b + k - 1].c \in Char
    <3>1. b + k - 1 \in b..e - 1 /\ b + k - 1 \in a..r - 1 /\ b + k - 1 \in 1..Len(p)
      BY <1>0, <1>5
    <3>2. ~Wild(p[b + k - 1]) /\ p[b + k - 1].t # "slash"
      BY <1>1, <1>3, <3>1
    <3>3. p[b + k - 1].t = "char"
      BY <1>0, <3>1, <3>2, TokenFacts DEF Wild
    <3> QED BY <1>0, <3>1, <3>3, TokenFacts
  <2>2. e - b \in Nat
    BY <1>5
  <2>3. g.literal \in [1..e - b -> Char]
    BY <1>4, <2>1
  <2> QED BY <2>2, <2>3
<1>7. /\ g.glob \in Seq(Token) /\ Len(g.glob) = r - e
      /\ \A i \in 1..r - e : g.glob[i] = p[e + i - 1]
  <2>1. \A i \in e..r - 1 : p[i] \in Token
    BY <1>0, <1>5
  <2>2. /\ SubSeq(p, e, r - 1) \in Seq(Token)
        /\ Len(SubSeq(p, e, r - 1)) = IF e <= r - 1 THEN (r - 1) - e + 1 ELSE 0
        /\ \A i \in 1..(r - 1) - e + 1 : SubSeq(p, e, r - 1)[i] = p[e + i - 1]
    <3>1. r - 1 \in Int
      BY <1>5
    <3> QED BY <1>5, <2>1, <3>1, SubSeqProperties
  <2> QED BY <1>4, <1>5, <2>2
<1>8. /\ Len(g.rest) = Len(p) - b + 1
      /\ \A i \in 1..Len(p) - b + 1 : g.rest[i] = p[b + i - 1]
  <2>1. \A i \in b..Len(p) : p[i] \in Token
    BY <1>0, <1>5
  <2>2. /\ Len(SubSeq(p, b, Len(p))) = IF b <= Len(p) THEN Len(p) - b + 1 ELSE 0
        /\ \A i \in 1..Len(p) - b + 1 : SubSeq(p, b, Len(p))[i] = p[b + i - 1]
    BY <1>0, <1>5, <2>1, SubSeqProperties
  <2> QED BY <1>0, <1>4, <1>5, <2>2
<1>9. ASSUME \A k \in 1..Len(g.rest) : ~Wild(g.rest[k]), NEW k \in 1..Len(g.glob)
      PROVE  ~Wild(g.glob[k])
  <2>1. /\ k \in 1..r - e /\ e + k - b \in 1..Len(g.rest)
        /\ e + k - b \in 1..Len(p) - b + 1 /\ b + (e + k - b) - 1 = e + k - 1
    BY <1>0, <1>5, <1>7, <1>8
  <2>2. g.glob[k] = p[e + k - 1] /\ g.rest[e + k - b] = p[e + k - 1]
    BY <1>7, <1>8, <2>1
  <2> QED BY <1>9, <2>1, <2>2
<1>10. NWilds(g.glob, 1, Len(g.glob)) = NWilds(p, e, r - 1)
  <2>1. e \in 1..Len(p) + 1 /\ r - 1 \in e - 1..Len(p)
    BY <1>0, <1>5
  <2> QED BY <1>0, <1>4, <2>1, WildsPart
<1>11. NWilds(p, b, e - 1) = 0 /\ NWilds(p, a, b - 1) = IF g.semi THEN 1 ELSE 0
  <2>1. NWilds(p, b, e - 1) = 0
    <3>1. e - 1 \in Int
      BY <1>5
    <3> QED BY <1>3, <1>5, <3>1, WildsNone
  <2>2. CASE IsSemi(p, a)
    <3>1. a \in a..a /\ Wild(p[a]) /\ b - 1 = a
      BY <1>2, <1>5, <2>2
    <3>2. NWilds(p, a, a) = 1
      BY <1>5, <3>1, WildsSome
    <3> QED BY <1>4, <2>1, <2>2, <3>1, <3>2
  <2>3. CASE ~IsSemi(p, a)
    <3>1. \A k \in a..b - 1 : ~Wild(p[k])
      BY <1>2, <1>5, <2>3
    <3>2. NWilds(p, a, b - 1) = 0
      BY <1>5, <3>1, WildsNone
    <3> QED BY <1>4, <2>1, <2>3, <3>2
  <2> QED BY <2>2, <2>3
<1>12. NWilds(p, 1, r - 1) = NWilds(p, 1, a - 1) + (IF g.semi THEN 1 ELSE 0)
                              + NWilds(g.glob, 1, Len(g.glob))
  <2>1. /\ NWilds(p, 1, r - 1) = NWilds(p, 1, a - 1) + NWilds(p, a, r - 1)
        /\ NWilds(p, 1, a - 1) \in Nat
    <3>1. \A c \in Int : 1 <= c + 1 /\ c <= r - 1 =>
            /\ NWilds(p, 1, r - 1) = NWilds(p, 1, c) + NWilds(p, c + 1, r - 1)
            /\ NWilds(p, 1, c) \in Nat
      BY <1>5, WildsAdd
    <3>2. a - 1 \in Int /\ 1 <= (a - 1) + 1 /\ a - 1 <= r - 1 /\ (a - 1) + 1 = a
      BY <1>5
    <3> QED BY <3>1, <3>2
  <2>2. /\ NWilds(p, a, r - 1) = NWilds(p, a, b - 1) + NWilds(p, b, r - 1)
        /\ NWilds(p, a, b - 1) \in Nat
    <3>1. \A c \in Int : a <= c + 1 /\ c <= r - 1 =>
            /\ NWilds(p, a, r - 1) = NWilds(p, a, c) + NWilds(p, c + 1, r - 1)
            /\ NWilds(p, a, c) \in Nat
      BY <1>5, WildsAdd
    <3>2. b - 1 \in Int /\ a <= (b - 1) + 1 /\ b - 1 <= r - 1 /\ (b - 1) + 1 = b
      BY <1>5
    <3> QED BY <3>1, <3>2
  <2>3. /\ NWilds(p, b, r - 1) = NWilds(p, b, e - 1) + NWilds(p, e, r - 1)
        /\ NWilds(p, e, r - 1) \in Nat
    <3>1. \A c \in Int : b <= c + 1 /\ c <= r - 1 =>
            /\ NWilds(p, b, r - 1) = NWilds(p, b, c) + NWilds(p, c + 1, r - 1)
            /\ NWilds(p, c + 1, r - 1) \in Nat
      BY <1>5, WildsAdd
    <3>2. e - 1 \in Int /\ b <= (e - 1) + 1 /\ e - 1 <= r - 1 /\ (e - 1) + 1 = e
      BY <1>5
    <3> QED BY <3>1, <3>2
  <2> QED BY <1>10, <1>11, <2>1, <2>2, <2>3
<1>13. g.semi \in BOOLEAN
  BY <1>2, <1>4
<1> QED BY <1>4, <1>6, <1>7, <1>9, <1>12, <1>13 DEF g, r

\* Between a stage and the one before it there are no wildcards.
LEMMA StageBetween ==
    ASSUME NEW p, SrcGood(p), NEW a \in StageStarts(p)
    PROVE  LET B == {k \in StageStarts(p) : k < a}
               t == Stage1(p, a).between
           IN  /\ Plainly(t) /\ (t # << >> => t[Len(t)].t = "slash")
               /\ B = {} => NWilds(p, 1, a - 1) = 0
               /\ B # {} => /\ t # << >> /\ Max(B) \in B /\ \A k \in B : k <= Max(B)
                            /\ NWilds(p, 1, a - 1) = NWilds(p, 1, EndOf(p, Max(B)) - 1)
<1> DEFINE B == {k \in StageStarts(p) : k < a}
           t == Stage1(p, a).between
           m == Max(B)
           z == IF B = {} THEN 1 ELSE EndOf(p, m)
<1>0. /\ p \in Seq(Token) /\ Len(p) \in Nat
      /\ a \in 1..Len(p) + 1 /\ a \in Starts(p)
      /\ \A k \in 1..Len(p) : p[k] \in Token /\ p[k].t \notin {"ref", "error"}
  <2>1. p \in Seq(Token) /\ \A k \in 1..Len(p) : p[k].t \notin {"ref", "error"}
    BY DEF SrcGood, Plainly
  <2> QED BY <2>1, LenProperties, ElementOfSeq, StageStartsFacts
<1>1. a = 1 \/ (a - 1 \in 1..Len(p) /\ p[a - 1].t = "slash")
  BY <1>0, StartsFacts
<1>2. t = SubSeq(p, z, a - 1)
  BY DEF Stage1
<1>3. B # {} => m \in B /\ \A k \in B : k <= m
  <2>1. B \in SUBSET Nat /\ \A k \in B : k <= Len(p) + 1
    <3>1. \A k \in B : k \in 1..Len(p) + 1
      BY <1>0, StageStartsFacts
    <3> QED BY <1>0, <3>1
  <2>2. Len(p) + 1 \in Nat
    BY <1>0
  <2> HIDE DEF B
  <2> QED BY <2>1, <2>2, MaxOf
<1>4. z \in 1..a /\ (B # {} => z <= a - 1)
  <2>1. CASE B = {}
    BY <1>0, <2>1
  <2>2. CASE B # {}
    <3>1. m \in 1..Len(p) + 1 /\ m < a
      BY <1>0, <1>3, <2>2, StageStartsFacts
    <3>2. z \in m..Len(p) + 1 /\ \A k \in m..z - 1 : p[k].t # "slash"
      BY <1>0, <2>2, <3>1, EndFacts
    <3>3. a - 1 \notin m..z - 1
      BY <1>0, <1>1, <3>1, <3>2
    <3> HIDE DEF z, m
    <3> QED BY <1>0, <3>1, <3>2, <3>3
  <2> QED BY <2>1, <2>2
<1>5. ASSUME NEW k \in z..a - 1, Wild(p[k]) PROVE FALSE
  <2>1. k \in 1..Len(p) /\ k < a
    BY <1>0, <1>4
  <2>2. PICK c \in Starts(p) : c <= k /\ \A j \in c..k - 1 : p[j].t # "slash"
    BY <1>0, <2>1, ComponentOf
  <2>3. c \in 1..Len(p) + 1 /\ p[k].t # "slash" /\ \A j \in c..k : p[j].t # "slash"
    <3>1. c \in 1..Len(p) + 1 /\ p[k].t # "slash"
      BY <1>0, <1>5, StartsFacts DEF Wild
    <3>2. \A j \in c..k : j \in c..k - 1 \/ j = k
      BY <2>1, <3>1
    <3> QED BY <2>2, <3>1, <3>2
  <2>4. EndOf(p, c) \in c..Len(p) + 1 /\ (EndOf(p, c) <= Len(p) => p[EndOf(p, c)].t = "slash")
    BY <1>0, <2>3, EndFacts
  <2>5. EndOf(p, c) > k
    BY <1>0, <2>1, <2>2, <2>3, <2>4
  <2>6. c \in B
    <3>1. k \in c..EndOf(p, c) - 1 /\ c \in Int /\ EndOf(p, c) - 1 \in Int /\ c < a
      BY <1>0, <2>1, <2>2, <2>3, <2>4, <2>5
    <3>2. NWilds(p, c, EndOf(p, c) - 1) > 0
      BY <1>5, <3>1, WildsSome
    <3> QED BY <3>1, <3>2 DEF StageStarts
  <2>7. m \in B /\ c <= m /\ z = EndOf(p, m)
    BY <1>3, <2>6
  <2>8. m \in 1..Len(p) + 1 /\ m \in Starts(p)
    BY <1>0, <2>7, StageStartsFacts
  <2>9. EndOf(p, m) \in m..Len(p) + 1
    BY <1>0, <2>8, EndFacts
  <2>10. CASE c = m
    <3>1. EndOf(p, c) = z /\ EndOf(p, c) > k
      BY <2>5, <2>7, <2>10
    <3>2. z \in Int /\ k \in Int /\ z <= k
      <4> HIDE DEF z
      <4> QED BY <1>0, <1>4
    <3> HIDE DEF z
    <3> QED BY <3>1, <3>2
  <2>11. CASE c # m
    <3>1. m # 1 /\ m - 1 \in 1..Len(p) /\ p[m - 1].t = "slash" /\ c <= m - 1
      BY <1>0, <2>3, <2>7, <2>8, <2>11, StartsFacts
    <3>2. ~(m - 1 <= k)
      BY <1>0, <2>1, <2>3, <3>1
    <3> QED BY <1>0, <2>1, <2>7, <2>8, <2>9, <3>2
  <2> QED BY <2>10, <2>11
<1> HIDE DEF z, m, B, t
<1>6. /\ t \in Seq(Token) /\ Len(t) = a - z
      /\ \A i \in 1..a - z : t[i] = p[z + i - 1]
  <2>1. \A i \in z..a - 1 : p[i] \in Token
    BY <1>0, <1>4
  <2>2. z \in Int /\ a - 1 \in Int
    BY <1>0, <1>4
  <2>3. /\ SubSeq(p, z, a - 1) \in Seq(Token)
        /\ Len(SubSeq(p, z, a - 1)) = IF z <= a - 1 THEN (a - 1) - z + 1 ELSE 0
        /\ \A i \in 1..(a - 1) - z + 1 : SubSeq(p, z, a - 1)[i] = p[z + i - 1]
    BY <2>1, <2>2, SubSeqProperties
  <2> QED BY <1>0, <1>2, <1>4, <2>3
<1>7. Plainly(t)
  <2>1. \A i \in 1..Len(t) : z + i - 1 \in 1..Len(p) /\ t[i] = p[z + i - 1]
    BY <1>0, <1>4, <1>6
  <2> QED BY <1>0, <1>6, <2>1 DEF Plainly
<1>8. t # << >> => t[Len(t)].t = "slash"
  <2> SUFFICES ASSUME t # << >> PROVE t[Len(t)].t = "slash"
    OBVIOUS
  <2>1. Len(t) # 0
    BY <1>6, EmptySeq
  <2>2. a - z \in 1..a - z /\ z + (a - z) - 1 = a - 1 /\ a # 1
    BY <1>0, <1>4, <1>6, <2>1
  <2>3. t[a - z] = p[a - 1]
    BY <1>6, <2>2
  <2> QED BY <1>1, <1>6, <2>2, <2>3
<1>9. B # {} => t # << >>
  <2> SUFFICES ASSUME B # {} PROVE t # << >>
    OBVIOUS
  <2>1. Len(t) # 0
    BY <1>0, <1>4, <1>6
  <2> QED BY <2>1, EmptySeq
<1>10. NWilds(p, z, a - 1) = 0
  <2>1. z \in Int /\ a - 1 \in Int
    BY <1>0, <1>4
  <2> QED BY <1>5, <2>1, WildsNone
<1>11. NWilds(p, 1, a - 1) = NWilds(p, 1, z - 1)
  <2>1. \A c \in Int : 1 <= c + 1 /\ c <= a - 1 =>
            /\ NWilds(p, 1, a - 1) = NWilds(p, 1, c) + NWilds(p, c + 1, a - 1)
            /\ NWilds(p, 1, c) \in Nat
    <3>1. a - 1 \in Int
      BY <1>0
    <3> QED BY <3>1, WildsAdd
  <2>2. z - 1 \in Int /\ 1 <= (z - 1) + 1 /\ z - 1 <= a - 1 /\ (z - 1) + 1 = z
    BY <1>0, <1>4
  <2> QED BY <1>10, <2>1, <2>2
<1>12. B = {} => NWilds(p, 1, a - 1) = 0
  <2> SUFFICES ASSUME B = {} PROVE NWilds(p, 1, a - 1) = 0
    OBVIOUS
  <2>1. z = 1
    BY DEF z
  <2> QED BY <1>10, <2>1
<1>13. B # {} => NWilds(p, 1, a - 1) = NWilds(p, 1, EndOf(p, m) - 1)
  BY <1>11 DEF z
<1> QED BY <1>3, <1>7, <1>8, <1>9, <1>12, <1>13 DEF B, t, m

\* What the walk relies on in the stages of a pattern.
Caughts(g) == g.wilds + (IF g.semi THEN 1 ELSE 0) + NWilds(g.glob, 1, Len(g.glob))

StageOK(g) ==
    /\ g.literal \in Seq(Char) /\ g.glob \in Seq(Token) /\ g.semi \in BOOLEAN
    /\ g.wilds \in Nat /\ Plainly(g.between)
    /\ g.between # << >> => g.between[Len(g.between)].t = "slash"
    /\ (\A k \in 1..Len(g.rest) : ~Wild(g.rest[k])) =>
         (\A k \in 1..Len(g.glob) : ~Wild(g.glob[k]))

StagesOK(p, v) ==
    \E N \in Nat \ {0} :
        /\ DOMAIN v = 0..N - 1 /\ v[0].wilds = 0
        /\ \A n \in 0..N - 1 :
             /\ StageOK(v[n])
             /\ n # 0 => v[n].between # << >>
             /\ n + 1 \in 0..N - 1 => Caughts(v[n]) = v[n + 1].wilds
             /\ n + 1 \notin 0..N - 1 => Caughts(v[n]) = NWilds(p, 1, Len(p))

\* stage_vec of any pattern that can be parsed is in order.
LEMMA StagesHold ==
    ASSUME NEW p, SrcGood(p)
    PROVE  StagesOK(p, StageVec(p))
<1> DEFINE S == StageStarts(p)
           N == Cardinality(S)
           A(n) == CHOOSE a \in S : Rank0(S, a) = n
           v == StageVec(p)
<1>0. p \in Seq(Token) /\ Len(p) \in Nat
  BY LenProperties DEF SrcGood, Plainly
<1>1. /\ S \in SUBSET Nat /\ IsFiniteSet(S) /\ S \subseteq 1..Len(p) + 1
      /\ \E z \in S : EndOf(p, z) = Len(p) + 1 /\ \A a \in S : a <= z
  BY <1>0, StageStartsFacts
<1>2. v = [n \in 0..N - 1 |-> Stage1(p, A(n))]
  BY Zenon DEF StageVec, Rank0
<1> HIDE DEF v
<1>3. \A a \in S : LET B == {k \in S : k < a}
                       t == Stage1(p, a).between
           IN  /\ Plainly(t) /\ (t # << >> => t[Len(t)].t = "slash")
               /\ B = {} => NWilds(p, 1, a - 1) = 0
               /\ B # {} => /\ t # << >> /\ Max(B) \in B /\ \A k \in B : k <= Max(B)
                            /\ NWilds(p, 1, a - 1) = NWilds(p, 1, EndOf(p, Max(B)) - 1)
  BY StageBetween
<1>4. \A a \in S : LET g == Stage1(p, a)
                       r == EndOf(p, a)
           IN  /\ g.literal \in Seq(Char) /\ g.glob \in Seq(Token)
               /\ g.semi \in BOOLEAN /\ g.wilds = NWilds(p, 1, a - 1)
               /\ ((\A k \in 1..Len(g.rest) : ~Wild(g.rest[k])) =>
                      (\A k \in 1..Len(g.glob) : ~Wild(g.glob[k])))
               /\ NWilds(p, 1, r - 1) = NWilds(p, 1, a - 1) + (IF g.semi THEN 1 ELSE 0)
                                          + NWilds(g.glob, 1, Len(g.glob))
  BY StageInside
<1> HIDE DEF S, N
<1>5. /\ N \in Nat
      /\ \A a \in S : Rank0(S, a) \in 0..N - 1
      /\ \A a, b \in S : a < b => Rank0(S, a) < Rank0(S, b)
      /\ \A n \in 0..N - 1 : \E a \in S : Rank0(S, a) = n
  BY <1>1, Numbered DEF N
<1>6. N \in Nat \ {0}
  <2>1. PICK z \in S : TRUE
    BY <1>1
  <2>2. Rank0(S, z) \in 0..N - 1
    BY <1>5
  <2> QED BY <1>5, <2>2
<1>7. \A n \in 0..N - 1 : A(n) \in S /\ Rank0(S, A(n)) = n
  BY <1>5
<1> HIDE DEF A
<1>8. /\ DOMAIN v = 0..N - 1
      /\ \A n \in 0..N - 1 : v[n] = Stage1(p, A(n))
  BY <1>2
<1>9. ASSUME NEW a \in S
      PROVE  NWilds(p, 1, a - 1) \in Nat
  <2>1. a \in Int /\ a - 1 \in Int /\ 1 <= (a - 1) + 1 /\ a - 1 <= a - 1 /\ (a - 1) + 1 = a
    BY <1>0, <1>1
  <2>2. NWilds(p, 1, a - 1) = Cardinality({k \in 1..a - 1 : Wild(p[k])})
    BY DEF NWilds
  <2>3. IsFiniteSet({k \in 1..a - 1 : Wild(p[k])})
    BY <2>1, FS_Interval, FS_Subset
  <2> QED BY <2>2, <2>3, FS_CardinalityType
<1>10. ASSUME NEW n \in 0..N - 1, {k \in S : k < A(n)} = {} PROVE n = 0
  <2>1. Rank0(S, A(n)) = 0
    BY <1>10, FS_EmptySet DEF Rank0
  <2> QED BY <1>7, <2>1
<1>11. {k \in S : k < A(0)} = {}
  <2>1. 0 \in 0..N - 1
    BY <1>6
  <2>2. A(0) \in S /\ Rank0(S, A(0)) = 0
    BY <1>7, <2>1
  <2>3. ASSUME NEW k \in S, k < A(0) PROVE FALSE
    <3>1. Rank0(S, k) < 0 /\ Rank0(S, k) \in 0..N - 1
      BY <1>5, <2>2, <2>3
    <3> QED BY <3>1
  <2> QED BY <2>3
<1>12. ASSUME NEW n \in 0..N - 1
       PROVE  /\ StageOK(v[n])
              /\ v[n].wilds = NWilds(p, 1, A(n) - 1)
              /\ n # 0 => v[n].between # << >>
              /\ Caughts(v[n]) = NWilds(p, 1, EndOf(p, A(n)) - 1)
  <2> DEFINE a == A(n)
             g == Stage1(p, a)
  <2>1. a \in S /\ v[n] = g
    BY <1>7, <1>8
  <2> HIDE DEF a, g
  <2>2. Stage1(p, a) = g
    BY DEF g
  <2>3. /\ g.literal \in Seq(Char) /\ g.glob \in Seq(Token)
        /\ g.semi \in BOOLEAN /\ g.wilds = NWilds(p, 1, a - 1)
        /\ ((\A k \in 1..Len(g.rest) : ~Wild(g.rest[k])) =>
              (\A k \in 1..Len(g.glob) : ~Wild(g.glob[k])))
        /\ NWilds(p, 1, EndOf(p, a) - 1) =
              NWilds(p, 1, a - 1) + (IF g.semi THEN 1 ELSE 0)
                + NWilds(g.glob, 1, Len(g.glob))
    BY <1>4, <2>1, <2>2
  <2>4. /\ Plainly(g.between) /\ (g.between # << >> => g.between[Len(g.between)].t = "slash")
        /\ {k \in S : k < a} # {} => g.between # << >>
    BY <1>3, <2>1, <2>2
  <2>5. n # 0 => {k \in S : k < a} # {}
    BY <1>10 DEF a
  <2>6. StageOK(g)
    BY <1>9, <2>1, <2>3, <2>4 DEF StageOK
  <2>7. Caughts(g) = NWilds(p, 1, EndOf(p, a) - 1)
    BY <2>3 DEF Caughts
  <2> QED BY <2>1, <2>3, <2>4, <2>5, <2>6, <2>7 DEF a
<1>13. v[0].wilds = 0
  <2>1. 0 \in 0..N - 1
    BY <1>6
  <2> QED BY <1>3, <1>7, <1>11, <1>12, <2>1
<1>14. ASSUME NEW n \in 0..N - 1, n + 1 \in 0..N - 1
       PROVE  Caughts(v[n]) = v[n + 1].wilds
  <2> DEFINE a == A(n)
             b == A(n + 1)
             B == {k \in S : k < b}
             m == Max(B)
  <2>1. a \in S /\ b \in S /\ Rank0(S, a) = n /\ Rank0(S, b) = n + 1 /\ a \in Nat /\ b \in Nat
    BY <1>1, <1>7, <1>14
  <2> HIDE DEF a, b
  <2>2. a < b
    <3>1. ASSUME b < a PROVE FALSE
      BY <1>5, <2>1, <3>1
    <3>2. a # b
      BY <2>1
    <3> QED BY <2>1, <3>1, <3>2
  <2>3. a \in B
    BY <2>1, <2>2
  <2>4. /\ m \in B /\ a <= m
        /\ NWilds(p, 1, b - 1) = NWilds(p, 1, EndOf(p, m) - 1)
    BY <1>3, <2>1, <2>3
  <2>5. m = a
    <3>1. m \in S /\ m < b /\ m \in Nat
      BY <1>1, <2>4
    <3>2. Rank0(S, m) < n + 1 /\ Rank0(S, m) \in 0..N - 1
      BY <1>5, <2>1, <3>1
    <3>3. ASSUME a < m PROVE FALSE
      <4>1. n < Rank0(S, m)
        BY <1>5, <2>1, <3>1, <3>3
      <4> QED BY <3>2, <4>1
    <3> QED BY <2>1, <2>4, <3>1, <3>3
  <2>6. v[n + 1].wilds = NWilds(p, 1, b - 1)
    BY <1>12, <1>14 DEF b
  <2>7. Caughts(v[n]) = NWilds(p, 1, EndOf(p, a) - 1)
    BY <1>12 DEF a
  <2> QED BY <2>4, <2>5, <2>6, <2>7
<1>15. ASSUME NEW n \in 0..N - 1, n + 1 \notin 0..N - 1
       PROVE  Caughts(v[n]) = NWilds(p, 1, Len(p))
  <2>1. PICK z \in S : EndOf(p, z) = Len(p) + 1 /\ \A a \in S : a <= z
    BY <1>1
  <2>2. n = N - 1 /\ A(n) \in S /\ Rank0(S, A(n)) = n /\ A(n) \in Nat /\ z \in Nat
    <3>1. n = N - 1
      BY <1>6, <1>15
    <3>2. A(n) \in S /\ Rank0(S, A(n)) = n
      BY <1>7
    <3> QED BY <1>1, <3>1, <3>2
  <2>3. A(n) = z
    <3>1. A(n) <= z
      BY <2>1, <2>2
    <3>2. ASSUME A(n) < z PROVE FALSE
      <4>1. n < Rank0(S, z) /\ Rank0(S, z) \in 0..N - 1
        BY <1>5, <2>2, <3>2
      <4> QED BY <1>6, <2>2, <4>1
    <3> QED BY <2>2, <3>1, <3>2
  <2>4. Caughts(v[n]) = NWilds(p, 1, EndOf(p, A(n)) - 1)
    BY <1>12
  <2>5. (Len(p) + 1) - 1 = Len(p)
    BY <1>0
  <2> QED BY <2>1, <2>3, <2>4, <2>5
<1> QED BY <1>6, <1>8, <1>12, <1>13, <1>14, <1>15 DEF StagesOK, v

-----------------------------------------------------------------------------
(***************************************************************************)
(* Matching.                                                               *)
(***************************************************************************)
\* One turn of match, with h for the turns behind it.
EndsAt(h, s, i, j) == {k \in j..Len(s) + 1 : h[<<i + 1, k>>] # {}}

MatchTurn(h, p, s, i, j) ==
    IF i > Len(p) THEN {<< >> : k \in {Len(s)} \cap {j - 1}}
    ELSE IF p[i].t = "star" THEN
      {<<SubSeq(s, j, StarEnd(EndsAt(h, s, i, j)) - 1)>> \o t :
         t \in IF EndsAt(h, s, i, j) = {} THEN {}
               ELSE h[<<i + 1, StarEnd(EndsAt(h, s, i, j))>>]}
    ELSE IF j > Len(s) \/ ~Fits(p[i], s[j]) THEN {}
    ELSE {Caught(p[i], s[j]) \o t : t \in h[<<i + 1, j + 1>>]}

\* It puts the text of a wildcard in front of those of the wildcards behind it.
PutsFirst(h, p, s, i, u) ==
    /\ i > Len(p) => u = << >>
    /\ ~(i > Len(p)) =>
         \E k \in 1..Len(s) + 1, c \in Seq(Seq(Char)) :
           Len(c) = NWilds(p, i, i) /\ \E t \in h[<<i + 1, k>>] : u = c \o t

\* So it is, whichever case of match applies.
LEMMA MatchPuts ==
    ASSUME NEW p \in Seq(Token), NEW s \in Seq(Char), NEW h,
           NEW i \in 1..Len(p) + 1, NEW j \in 1..Len(s) + 1,
           NEW u \in MatchTurn(h, p, s, i, j)
    PROVE  PutsFirst(h, p, s, i, u)
<1>0. Len(p) \in Nat /\ Len(s) \in Nat /\ i \in Int /\ j \in Int
      /\ \A k \in 1..Len(s) : s[k] \in Char
  BY LenProperties, ElementOfSeq
<1>1. CASE i > Len(p)
  BY <1>1 DEF MatchTurn, PutsFirst
<1>2. CASE ~(i > Len(p)) /\ p[i].t = "star"
  <2> DEFINE ends == EndsAt(h, s, i, j)
             e == StarEnd(ends)
             c == <<SubSeq(s, j, e - 1)>>
  <2>1. ends # {} /\ \E t \in h[<<i + 1, e>>] : u = c \o t
    BY <1>2 DEF MatchTurn
  <2>2. e \in j..Len(s) + 1
    <3>1. ends \in SUBSET Nat /\ ends \subseteq j..Len(s) + 1
      BY <1>0 DEF EndsAt
    <3>2. e = Min(ends)
      BY DEF StarEnd
    <3> HIDE DEF ends, e
    <3>3. Min(ends) \in ends
      BY <2>1, <3>1, MinOf
    <3> QED BY <3>1, <3>2, <3>3
  <2> HIDE DEF e, ends
  <2>3. SubSeq(s, j, e - 1) \in Seq(Char)
    <3>1. \A k \in j..e - 1 : s[k] \in Char
      BY <1>0, <2>2
    <3>2. e - 1 \in Int
      BY <1>0, <2>2
    <3> QED BY <1>0, <3>1, <3>2, SubSeqProperties
  <2>4. c \in Seq(Seq(Char)) /\ Len(c) = 1
    BY <2>3
  <2>5. NWilds(p, i, i) = 1
    <3>1. i \in i..i /\ Wild(p[i])
      BY <1>0, <1>2 DEF Wild
    <3> QED BY <1>0, <3>1, WildsSome
  <2>6. e \in 1..Len(s) + 1
    BY <1>0, <2>2
  <2> HIDE DEF c
  <2> QED BY <1>2, <2>1, <2>4, <2>5, <2>6 DEF PutsFirst
<1>3. CASE ~(i > Len(p)) /\ p[i].t # "star"
  <2> DEFINE c == Caught(p[i], s[j])
  <2>1. /\ j \in 1..Len(s) /\ Fits(p[i], s[j])
        /\ \E t \in h[<<i + 1, j + 1>>] : u = c \o t
    <3>1. ~(j > Len(s) \/ ~Fits(p[i], s[j]))
      BY <1>3 DEF MatchTurn
    <3>2. \E t \in h[<<i + 1, j + 1>>] : u = c \o t
      BY <1>3, <3>1 DEF MatchTurn
    <3>3. j \in 1..Len(s)
      BY <1>0, <3>1
    <3> HIDE DEF c
    <3> QED BY <3>1, <3>2, <3>3, Zenon
  <2>2. c \in Seq(Seq(Char)) /\ Len(c) = NWilds(p, i, i)
    <3>1. CASE p[i].t = "char"
      <4>1. \A k \in i..i : ~Wild(p[k])
        BY <3>1 DEF Wild
      <4>2. NWilds(p, i, i) = 0
        BY <1>0, <4>1, WildsNone
      <4>3. c = << >>
        BY <3>1 DEF Caught
      <4> QED BY <4>2, <4>3
    <3>2. CASE p[i].t # "char"
      <4>1. Wild(p[i]) /\ i \in i..i
        BY <1>0, <2>1, <3>2 DEF Fits, Wild
      <4>2. NWilds(p, i, i) = 1
        BY <1>0, <4>1, WildsSome
      <4>3. c = <<<<s[j]>>>> /\ s[j] \in Char
        BY <1>0, <2>1, <3>2 DEF Caught
      <4>4. <<s[j]>> \in Seq(Char)
        BY <4>3
      <4>5. <<<<s[j]>>>> \in Seq(Seq(Char)) /\ Len(<<<<s[j]>>>>) = 1
        BY <4>4
      <4> QED BY <4>2, <4>3, <4>5
    <3> QED BY <3>1, <3>2
  <2>3. j + 1 \in 1..Len(s) + 1
    BY <1>0, <2>1
  <2> HIDE DEF c
  <2> QED BY <1>3, <2>1, <2>2, <2>3 DEF PutsFirst
<1> QED BY <1>1, <1>2, <1>3

\* Places in a pattern and a name.
Places2(p, s) == (1..Len(p) + 1) \X (1..Len(s) + 1)

\* match is its turns.
LEMMA MatchTurns ==
    ASSUME NEW p \in Seq(Token), NEW s \in Seq(Char)
    PROVE  \E h \in [Places2(p, s) -> SUBSET Seq(Seq(Char))] :
             /\ \A i \in 1..Len(p) + 1, j \in 1..Len(s) + 1 :
                  h[<<i, j>>] = MatchTurn(h, p, s, i, j)
             /\ match(p, s) = h[<<1, 1>>]
<1> DEFINE D == Places2(p, s)
           V == SUBSET Seq(Seq(Char))
           m == [r \in D |-> Len(p) + 1 - r[1]]
           G == [q \in D \X [D -> V] |-> MatchTurn(q[2], p, s, q[1][1], q[1][2])]
<1>0. Len(p) \in Nat /\ Len(s) \in Nat
      /\ \A i \in 1..Len(p) + 1, j \in 1..Len(s) + 1 : <<i, j>> \in D
  BY LenProperties DEF Places2
<1>1. ASSUME NEW i \in 1..Len(p) + 1, NEW j \in 1..Len(s) + 1, NEW h \in [D -> V]
      PROVE  MatchTurn(h, p, s, i, j) \in V
  <2>1. \A k \in 1..Len(s) + 1 : i <= Len(p) => h[<<i + 1, k>>] \in V
    <3>1. \A k \in 1..Len(s) + 1 : i <= Len(p) => <<i + 1, k>> \in D
      BY <1>0
    <3> HIDE DEF D, V
    <3> QED BY <3>1
  <2>2. ASSUME NEW u \in MatchTurn(h, p, s, i, j) PROVE u \in Seq(Seq(Char))
    <3>1. /\ i > Len(p) => u = << >>
          /\ ~(i > Len(p)) =>
               \E k \in 1..Len(s) + 1, c \in Seq(Seq(Char)) :
                 \E t \in h[<<i + 1, k>>] : u = c \o t
      <4>1. PutsFirst(h, p, s, i, u)
        BY MatchPuts
      <4> QED BY <4>1 DEF PutsFirst
    <3>2. CASE i > Len(p)
      BY <3>1, <3>2, EmptySeq
    <3>3. CASE ~(i > Len(p))
      <4>1. PICK k \in 1..Len(s) + 1, c \in Seq(Seq(Char)) :
                   \E t \in h[<<i + 1, k>>] : u = c \o t
        BY <3>1, <3>3
      <4>2. PICK t \in h[<<i + 1, k>>] : u = c \o t
        BY <4>1
      <4>3. t \in Seq(Seq(Char))
        BY <1>0, <2>1, <3>3, <4>2
      <4> QED BY <4>2, <4>3, ConcatProperties
    <3> QED BY <3>2, <3>3
  <2> QED BY <2>2
<1>2. ASSUME NEW i \in 1..Len(p) + 1, NEW j \in 1..Len(s) + 1, NEW g, NEW h,
             i <= Len(p) => \A k \in 1..Len(s) + 1 : g[<<i + 1, k>>] = h[<<i + 1, k>>]
      PROVE  MatchTurn(g, p, s, i, j) = MatchTurn(h, p, s, i, j)
  <2>1. CASE i > Len(p)
    BY <2>1 DEF MatchTurn
  <2>2. CASE ~(i > Len(p))
    <3>1. \A k \in 1..Len(s) + 1 : g[<<i + 1, k>>] = h[<<i + 1, k>>]
      BY <1>0, <1>2, <2>2
    <3>2. EndsAt(g, s, i, j) = EndsAt(h, s, i, j)
      <4>1. \A k \in j..Len(s) + 1 : g[<<i + 1, k>>] = h[<<i + 1, k>>]
        <5>1. \A k \in j..Len(s) + 1 : k \in 1..Len(s) + 1
          BY <1>0
        <5> QED BY <3>1, <5>1
      <4> QED BY <4>1, Zenon DEF EndsAt
    <3>3. CASE p[i].t = "star"
      <4>1. CASE EndsAt(h, s, i, j) = {}
        BY <2>2, <3>2, <3>3, <4>1 DEF MatchTurn
      <4>2. CASE EndsAt(h, s, i, j) # {}
        <5> DEFINE e == StarEnd(EndsAt(h, s, i, j))
        <5>1. e \in 1..Len(s) + 1
          <6> DEFINE T == EndsAt(h, s, i, j)
          <6>1. T \in SUBSET Nat /\ T \subseteq 1..Len(s) + 1
            BY <1>0 DEF EndsAt
          <6>2. T # {} /\ e = Min(T)
            BY <4>2 DEF StarEnd
          <6> HIDE DEF T, e
          <6>3. Min(T) \in T
            BY <6>1, <6>2, MinOf
          <6> QED BY <6>1, <6>2, <6>3
        <5>2. g[<<i + 1, e>>] = h[<<i + 1, e>>]
          BY <3>1, <5>1
        <5> QED BY <2>2, <3>2, <3>3, <5>2 DEF MatchTurn
      <4> QED BY <4>1, <4>2
    <3>4. CASE p[i].t # "star"
      <4>1. CASE j > Len(s) \/ ~Fits(p[i], s[j])
        BY <2>2, <3>4, <4>1 DEF MatchTurn
      <4>2. CASE ~(j > Len(s) \/ ~Fits(p[i], s[j]))
        <5>1. j + 1 \in 1..Len(s) + 1
          BY <1>0, <4>2
        <5>2. g[<<i + 1, j + 1>>] = h[<<i + 1, j + 1>>]
          BY <3>1, <5>1
        <5> QED BY <2>2, <3>4, <4>2, <5>2 DEF MatchTurn
      <4> QED BY <4>1, <4>2
    <3> QED BY <3>3, <3>4
  <2> QED BY <2>1, <2>2
<1>3. ASSUME NEW r \in D
      PROVE  /\ r[1] \in 1..Len(p) + 1 /\ r[2] \in 1..Len(s) + 1 /\ r = <<r[1], r[2]>>
             /\ m[r] = Len(p) + 1 - r[1]
  BY DEF Places2
<1>4. V # {} /\ m \in [D -> 0..Len(p)]
  <2>1. \A r \in D : m[r] \in 0..Len(p)
    BY <1>0, <1>3
  <2>2. m \in [D -> 0..Len(p)]
    <3>1. m = [r \in D |-> m[r]]
      OBVIOUS
    <3> HIDE DEF m, D
    <3> QED BY <2>1, <3>1
  <2>3. {} \in V
    OBVIOUS
  <2> QED BY <2>2, <2>3
<1>5. \A x \in D : \A g \in [D -> V] : G[<<x, g>>] = MatchTurn(g, p, s, x[1], x[2])
  OBVIOUS
<1>6. G \in [D \X [D -> V] -> V]
  <2>1. ASSUME NEW q \in D \X [D -> V]
        PROVE  MatchTurn(q[2], p, s, q[1][1], q[1][2]) \in V
    <3>1. q[1] \in D /\ q[2] \in [D -> V]
      OBVIOUS
    <3>2. q[1][1] \in 1..Len(p) + 1 /\ q[1][2] \in 1..Len(s) + 1
      BY <1>3, <3>1
    <3> HIDE DEF D, V
    <3> QED BY <1>1, <3>1, <3>2
  <2> HIDE DEF D, V
  <2> QED BY <2>1
<1>7. ASSUME NEW x \in D, NEW g \in [D -> V], NEW h \in [D -> V],
             \A y \in D : m[y] < m[x] => g[y] = h[y]
      PROVE  G[<<x, g>>] = G[<<x, h>>]
  <2>1. x[1] \in 1..Len(p) + 1 /\ x[2] \in 1..Len(s) + 1 /\ m[x] = Len(p) + 1 - x[1]
    BY <1>3
  <2>2. ASSUME x[1] <= Len(p), NEW k \in 1..Len(s) + 1
        PROVE  g[<<x[1] + 1, k>>] = h[<<x[1] + 1, k>>]
    <3>1. x[1] + 1 \in 1..Len(p) + 1
      BY <1>0, <2>1, <2>2
    <3>2. <<x[1] + 1, k>> \in D
      BY <1>0, <3>1
    <3>3. m[<<x[1] + 1, k>>] = Len(p) + 1 - (x[1] + 1)
      BY <3>2
    <3>4. m[<<x[1] + 1, k>>] < m[x]
      <4> HIDE DEF m
      <4> QED BY <1>0, <2>1, <3>3
    <3> QED BY <1>7, <3>2, <3>4
  <2>3. MatchTurn(g, p, s, x[1], x[2]) = MatchTurn(h, p, s, x[1], x[2])
    <3>1. x[1] <= Len(p) => \A k \in 1..Len(s) + 1 : g[<<x[1] + 1, k>>] = h[<<x[1] + 1, k>>]
      BY <2>2
    <3> QED BY <1>2, <2>1, <3>1
  <2> HIDE DEF G, D, V
  <2> QED BY <1>5, <2>3
<1> HIDE DEF G, m, D, V
<1>8. PICK h : Solves(h, D, V, G)
  <2>1. Recursion(D, V, Len(p), m, G)
    BY <1>0, <1>4, <1>6, <1>7 DEF Recursion
  <2> QED BY <2>1, BoundedRecursion
<1> DEFINE Table(f) == [r \in D |-> MatchTurn(f, p, s, r[1], r[2])]
           H == CHOOSE f : f = Table(f)
<1>9. h = Table(h)
  <2>1. \A r \in D : h[r] = MatchTurn(h, p, s, r[1], r[2])
    BY <1>5, <1>8 DEF Solves
  <2>2. h \in [D -> V]
    BY <1>8 DEF Solves
  <2> QED BY <2>1, <2>2
<1>10. H = Table(H)
  BY <1>9, Zenon
<1>11. match(p, s) = H[<<1, 1>>]
  BY Zenon DEF match, MatchTurn, EndsAt, Places2, D
<1> HIDE DEF H
<1>12. \A r \in D : H[r] = MatchTurn(H, p, s, r[1], r[2])
  BY <1>10
<1>12a. \A r \in D : h[r] = MatchTurn(h, p, s, r[1], r[2])
  BY <1>5, <1>8 DEF Solves
<1> DEFINE T == {n \in Nat : n <= Len(p) =>
                   \A j \in 1..Len(s) + 1 : H[<<Len(p) + 1 - n, j>>] = h[<<Len(p) + 1 - n, j>>]}
<1>13. ASSUME NEW n \in Nat, n = 0 \/ n - 1 \in T PROVE n \in T
  <2> SUFFICES ASSUME n <= Len(p), NEW j \in 1..Len(s) + 1
               PROVE  H[<<Len(p) + 1 - n, j>>] = h[<<Len(p) + 1 - n, j>>]
    OBVIOUS
  <2> DEFINE i == Len(p) + 1 - n
  <2>1. i \in 1..Len(p) + 1 /\ <<i, j>> \in D
    BY <1>0
  <2>2. ASSUME i <= Len(p), NEW k \in 1..Len(s) + 1
        PROVE  H[<<i + 1, k>>] = h[<<i + 1, k>>]
    <3>1. n - 1 \in T /\ n - 1 <= Len(p) /\ Len(p) + 1 - (n - 1) = i + 1
      BY <1>0, <1>13, <2>2
    <3>2. H[<<Len(p) + 1 - (n - 1), k>>] = h[<<Len(p) + 1 - (n - 1), k>>]
      BY <3>1
    <3> QED BY <3>1, <3>2
  <2> HIDE DEF i
  <2>3. MatchTurn(H, p, s, i, j) = MatchTurn(h, p, s, i, j)
    BY <1>2, <2>1, <2>2
  <2>4. H[<<i, j>>] = MatchTurn(H, p, s, <<i, j>>[1], <<i, j>>[2])
        /\ h[<<i, j>>] = MatchTurn(h, p, s, <<i, j>>[1], <<i, j>>[2])
    BY <1>12, <1>12a, <2>1
  <2>5. H[<<i, j>>] = h[<<i, j>>]
    BY <2>3, <2>4
  <2> QED BY <2>5 DEF i
<1>14. \A n \in Nat : n \in T
  <2> HIDE DEF T
  <2>1. 0 \in T
    BY <1>13
  <2>2. ASSUME NEW n \in Nat, n \in T PROVE n + 1 \in T
    <3>1. n + 1 \in Nat /\ (n + 1) - 1 = n
      OBVIOUS
    <3> QED BY <1>13, <2>2, <3>1
  <2> QED BY <2>1, <2>2, NatClosed
<1>15. match(p, s) = h[<<1, 1>>]
  <2>1. Len(p) \in T /\ Len(p) + 1 - Len(p) = 1 /\ 1 \in 1..Len(s) + 1
    BY <1>0, <1>14
  <2>2. H[<<Len(p) + 1 - Len(p), 1>>] = h[<<Len(p) + 1 - Len(p), 1>>]
    BY <1>0, <2>1
  <2> QED BY <1>11, <2>1, <2>2
<1>16. \A i \in 1..Len(p) + 1, j \in 1..Len(s) + 1 : h[<<i, j>>] = MatchTurn(h, p, s, i, j)
  <2> SUFFICES ASSUME NEW i \in 1..Len(p) + 1, NEW j \in 1..Len(s) + 1
               PROVE  h[<<i, j>>] = MatchTurn(h, p, s, i, j)
    OBVIOUS
  <2>1. h[<<i, j>>] = MatchTurn(h, p, s, <<i, j>>[1], <<i, j>>[2])
    BY <1>0, <1>12a
  <2> QED BY <2>1
<1>17. h \in [Places2(p, s) -> SUBSET Seq(Seq(Char))]
  BY <1>8 DEF Solves, D, V
<1> QED BY <1>15, <1>16, <1>17

\* What match returns is the texts of all wildcards of its pattern.
LEMMA MatchTyped ==
    ASSUME NEW p \in Seq(Token), NEW s \in Seq(Char), NEW u \in match(p, s)
    PROVE  u \in Seq(Seq(Char)) /\ Len(u) = NWilds(p, 1, Len(p))
<1>0. Len(p) \in Nat /\ Len(s) \in Nat
  BY LenProperties
<1>1. PICK h \in [Places2(p, s) -> SUBSET Seq(Seq(Char))] :
             /\ \A i \in 1..Len(p) + 1, j \in 1..Len(s) + 1 :
                  h[<<i, j>>] = MatchTurn(h, p, s, i, j)
             /\ match(p, s) = h[<<1, 1>>]
  BY MatchTurns
<1>2. ASSUME NEW i \in 1..Len(p) + 1, NEW j \in 1..Len(s) + 1
      PROVE  h[<<i, j>>] \in SUBSET Seq(Seq(Char))
             /\ \A t \in h[<<i, j>>] : PutsFirst(h, p, s, i, t)
  <2>1. <<i, j>> \in Places2(p, s)
    BY DEF Places2
  <2>2. h[<<i, j>>] \in SUBSET Seq(Seq(Char))
    BY <2>1
  <2>3. ASSUME NEW t \in h[<<i, j>>] PROVE PutsFirst(h, p, s, i, t)
    <3>1. t \in MatchTurn(h, p, s, i, j)
      BY <1>1
    <3> QED BY <3>1, MatchPuts
  <2> QED BY <2>2, <2>3
<1> DEFINE T == {n \in Nat : n <= Len(p) =>
                   \A j \in 1..Len(s) + 1 : \A t \in h[<<Len(p) + 1 - n, j>>] :
                     Len(t) = NWilds(p, Len(p) + 1 - n, Len(p))}
<1>3. 0 \in T
  <2> SUFFICES ASSUME NEW j \in 1..Len(s) + 1, NEW t \in h[<<Len(p) + 1, j>>]
               PROVE  Len(t) = NWilds(p, Len(p) + 1, Len(p))
    BY <1>0
  <2>1. Len(p) + 1 \in 1..Len(p) + 1 /\ Len(p) + 1 > Len(p) /\ Len(p) + 1 \in Int
        /\ \A k \in Len(p) + 1..Len(p) : ~Wild(p[k])
    BY <1>0
  <2>2. PutsFirst(h, p, s, Len(p) + 1, t)
    BY <1>2, <2>1
  <2>3. t = << >>
    BY <2>1, <2>2 DEF PutsFirst
  <2>4. NWilds(p, Len(p) + 1, Len(p)) = 0
    BY <1>0, <2>1, WildsNone
  <2> QED BY <2>3, <2>4, EmptySeq
<1>4. ASSUME NEW n \in Nat, n \in T PROVE n + 1 \in T
  <2> SUFFICES ASSUME n + 1 <= Len(p), NEW j \in 1..Len(s) + 1,
                      NEW t \in h[<<Len(p) + 1 - (n + 1), j>>]
               PROVE  Len(t) = NWilds(p, Len(p) + 1 - (n + 1), Len(p))
    OBVIOUS
  <2> DEFINE i == Len(p) + 1 - (n + 1)
  <2>1. /\ i \in 1..Len(p) + 1 /\ ~(i > Len(p)) /\ i \in Int /\ i <= Len(p)
        /\ i + 1 = Len(p) + 1 - n /\ i + 1 \in 1..Len(p) + 1 /\ i <= i + 1
        /\ n <= Len(p)
    BY <1>0
  <2> HIDE DEF i
  <2>2. PutsFirst(h, p, s, i, t)
    <3>1. t \in h[<<i, j>>]
      BY DEF i
    <3> QED BY <1>2, <2>1, <3>1
  <2>3. PICK k \in 1..Len(s) + 1, c \in Seq(Seq(Char)) :
               Len(c) = NWilds(p, i, i) /\ \E v \in h[<<i + 1, k>>] : t = c \o v
    BY <2>1, <2>2 DEF PutsFirst
  <2>4. PICK v \in h[<<i + 1, k>>] : t = c \o v
    BY <2>3
  <2>5. v \in Seq(Seq(Char)) /\ Len(v) = NWilds(p, i + 1, Len(p))
    <3>1. v \in Seq(Seq(Char))
      BY <1>2, <2>1
    <3>2. v \in h[<<Len(p) + 1 - n, k>>]
      BY <2>1
    <3>3. Len(v) = NWilds(p, Len(p) + 1 - n, Len(p))
      BY <1>4, <2>1, <3>2
    <3> QED BY <2>1, <3>1, <3>3
  <2>6. Len(t) = Len(c) + Len(v)
    BY <2>4, <2>5, ConcatProperties
  <2>7. NWilds(p, i, Len(p)) = NWilds(p, i, i) + NWilds(p, i + 1, Len(p))
    BY <1>0, <2>1, WildsAdd
  <2> QED BY <2>3, <2>5, <2>6, <2>7 DEF i
<1> HIDE DEF T
<1>5. Len(p) \in T
  BY <1>0, <1>3, <1>4, NatClosed
<1>6. Len(u) = NWilds(p, 1, Len(p))
  <2>1. /\ Len(p) + 1 - Len(p) = 1 /\ 1 \in 1..Len(s) + 1 /\ Len(p) <= Len(p)
        /\ u \in h[<<1, 1>>]
    BY <1>0, <1>1
  <2>2. u \in h[<<Len(p) + 1 - Len(p), 1>>]
    BY <2>1
  <2>3. Len(u) = NWilds(p, Len(p) + 1 - Len(p), Len(p))
    BY <1>0, <1>5, <2>1, <2>2 DEF T
  <2> QED BY <2>1, <2>3
<1>7. u \in Seq(Seq(Char))
  BY <1>0, <1>1, <1>2
<1> QED BY <1>6, <1>7

\* ffirst returns a place of the directory, or the one behind the last.
LEMMA FirstTyped ==
    ASSUME NEW f, Sorted(f), NEW s \in Seq(Char)
    PROVE  ffirst(s, f) \in 0..Len(f)
<1>0. Len(f) \in Nat /\ DOMAIN f = 1..Len(f)
  BY LenProperties DEF Sorted
<1>1. CASE s = << >>
  BY <1>0, <1>1 DEF ffirst
<1>2. CASE s # << >> /\ \E j \in DOMAIN f : IsPrefix(s, f[j])
  <2>1. ffirst(s, f) \in Nat /\ ffirst(s, f) + 1 \in 1..Len(f)
    BY <1>0, <1>2, FirstFinds
  <2> QED BY <1>0, <2>1
<1>3. CASE s # << >> /\ ~\E j \in DOMAIN f : IsPrefix(s, f[j])
  <2>1. ffirst(s, f) = Len(f)
    BY <1>3, FirstFinds
  <2> QED BY <1>0, <2>1
<1> QED BY <1>1, <1>2, <1>3

\* A directory has as many places as files.
LEMMA FilsCounted ==
    ASSUME call \in Calls, NEW i \in Inode
    PROVE  /\ Len(call.fils[i]) = Cardinality(W.files[i]) /\ Len(call.fils[i]) \in Nat
           /\ \A k \in 0..Len(call.fils[i]) - 1 :
                call.fils[i][k + 1] \in Simple /\ call.fils[i][k + 1] \in W.files[i]
<1> DEFINE f == call.fils[i]
<1>1. Sorted(f) /\ f \in Seq(Simple) /\ Range(f) = W.files[i]
  BY FilsSorted
<1>2. Len(f) \in Nat /\ DOMAIN f = 1..Len(f) /\ \A k \in 1..Len(f) : f[k] \in Simple
  BY <1>1, LenProperties, ElementOfSeq
<1>3. f \in Seq(Seq(Char)) /\ \A j, k \in DOMAIN f : j < k => Less(f[j], f[k])
  BY <1>1 DEF Sorted
<1> HIDE DEF f
<1>4. ASSUME NEW j \in 1..Len(f), NEW k \in 1..Len(f), f[j] = f[k] PROVE j = k
  <2>1. f[j] \in Seq(Char) /\ f[k] \in Seq(Char)
    BY <1>2, <1>3, ElementOfSeq
  <2>2. ~Less(f[j], f[k])
    BY <1>4, <2>1, LessAsymmetric
  <2>3. ~(j < k) /\ ~(k < j)
    BY <1>2, <1>3, <1>4, <2>2
  <2> QED BY <2>3
<1>5. f \in Bijection(1..Len(f), Range(f))
  <2>1. f \in [1..Len(f) -> Range(f)]
    <3>1. f = [k \in 1..Len(f) |-> f[k]]
      BY <1>1, <1>2
    <3> QED BY <1>2, <3>1 DEF Range
  <2>2. \A r \in Range(f) : \E k \in 1..Len(f) : f[k] = r
    BY <1>2 DEF Range
  <2> QED BY <1>4, <2>1, <2>2 DEF Bijection, Injection, Surjection, IsInjective
<1>6. IsFiniteSet(1..Len(f)) /\ Cardinality(1..Len(f)) = Len(f)
  <2>1. Cardinality(1..Len(f)) = Len(f) - 1 + 1 \/ Len(f) = 0
    BY <1>2, FS_Interval
  <2>2. Len(f) = 0 => Cardinality(1..Len(f)) = 0
    BY <1>2, FS_Interval
  <2> QED BY <1>2, <2>1, <2>2, FS_Interval
<1>7. Cardinality(Range(f)) = Len(f)
  BY <1>5, <1>6, FS_Bijection DEF ExistsBijection
<1>8. \A k \in 0..Len(f) - 1 : f[k + 1] \in Simple /\ f[k + 1] \in W.files[i]
  <2>1. \A k \in 0..Len(f) - 1 : k + 1 \in 1..Len(f)
    BY <1>2
  <2> QED BY <1>1, <1>2, <2>1 DEF Range
<1> QED BY <1>1, <1>2, <1>7, <1>8 DEF f

-----------------------------------------------------------------------------
(***************************************************************************)
(* makerep.                                                                *)
(***************************************************************************)
\* A recursion step by step has one solution.
Follows(g, V, n, v, F) ==
    g[0] = v /\ \A k \in 1..n : g[k - 1] \in V => g[k] = F[<<k, g[k - 1]>>]

LEMMA StepsUnique ==
    ASSUME NEW V, NEW n \in Nat, NEW v, NEW F, NEW f, Steps(f, V, n, v, F),
           NEW g, Follows(g, V, n, v, F)
    PROVE  \A k \in 0..n : g[k] = f[k] /\ g[k] \in V
<1>1. /\ f \in [0..n -> V] /\ f[0] = v /\ \A k \in 1..n : f[k] = F[<<k, f[k - 1]>>]
      /\ g[0] = v /\ \A k \in 1..n : g[k - 1] \in V => g[k] = F[<<k, g[k - 1]>>]
  BY DEF Steps, Follows
<1> DEFINE T == {k \in Nat : k <= n => g[k] = f[k] /\ g[k] \in V}
<1>2. 0 \in T
  BY <1>1
<1>3. ASSUME NEW k \in Nat, k \in T PROVE k + 1 \in T
  <2> SUFFICES ASSUME k + 1 <= n PROVE g[k + 1] = f[k + 1] /\ g[k + 1] \in V
    OBVIOUS
  <2>1. k + 1 \in 1..n /\ (k + 1) - 1 = k /\ k + 1 \in 0..n
    OBVIOUS
  <2>2. g[k] = f[k] /\ g[k] \in V
    BY <1>3, <2>1
  <2>3. g[k + 1] = F[<<k + 1, g[k]>>] /\ f[k + 1] = F[<<k + 1, f[k]>>]
    BY <1>1, <2>1, <2>2
  <2> QED BY <1>1, <2>1, <2>2, <2>3
<1> HIDE DEF T
<1>4. \A k \in Nat : k \in T
  BY <1>2, <1>3, NatClosed
<1> QED BY <1>4 DEF T

\* The directory and the name of a path.
LEMMA SplitTyped ==
    ASSUME NamesClosed, NEW s \in Seq(Char)
    PROVE  SplitPath(s) \in Item /\ SplitPath(s).kind = "path"
<1> DEFINE T == {0} \cup {j \in DOMAIN s : s[j] = Slash}
           k == Max(T)
           d == SubSeq(s, 1, k)
           n == IF k = Len(s) THEN Empty ELSE SubSeq(s, k + 1, Len(s))
<1>0. Len(s) \in Nat /\ DOMAIN s = 1..Len(s) /\ \A j \in 1..Len(s) : s[j] \in Char
  BY LenProperties, ElementOfSeq
<1>1. k \in T /\ \A j \in T : j <= k
  <2>1. T \in SUBSET Nat /\ T # {} /\ \A j \in T : j <= Len(s)
    BY <1>0
  <2> HIDE DEF T
  <2> QED BY <1>0, <2>1, MaxOf
<1>2. SplitPath(s) = [kind |-> "path", dir |-> d, name |-> n]
  BY DEF SplitPath
<1> HIDE DEF k
<1>3. k \in 0..Len(s) /\ (k # 0 => s[k] = Slash)
      /\ \A j \in k + 1..Len(s) : s[j] # Slash
  <2>1. \A j \in k + 1..Len(s) : ~(j <= k) /\ j \in 1..Len(s)
    BY <1>0, <1>1
  <2> QED BY <1>0, <1>1, <2>1
<1>4. /\ d \in Seq(Char) /\ Len(d) = k
      /\ \A j \in 1..k : d[j] = s[j]
  <2>1. k \in Int /\ \A j \in 1..k : s[j] \in Char
    BY <1>0, <1>3
  <2>2. /\ SubSeq(s, 1, k) \in Seq(Char)
        /\ Len(SubSeq(s, 1, k)) = IF 1 <= k THEN k - 1 + 1 ELSE 0
        /\ \A i \in 1..k - 1 + 1 : SubSeq(s, 1, k)[i] = s[1 + i - 1]
    BY <2>1, SubSeqProperties
  <2> QED BY <1>0, <1>3, <2>2
<1>5. d \in Spelling
  <2>1. CASE k = 0
    <3>1. d = << >>
      BY <1>4, <2>1, EmptySeq
    <3> QED BY <1>4, <3>1 DEF NamesClosed
  <2>2. CASE k # 0
    <3>1. d[Len(d)] = Slash
      BY <1>3, <1>4, <2>2
    <3> QED BY <1>4, <3>1 DEF NamesClosed
  <2> QED BY <2>1, <2>2
<1>6. n \in Simple \cup {Empty}
  <2>1. CASE k = Len(s)
    BY <2>1
  <2>2. CASE k # Len(s)
    <3> DEFINE t == SubSeq(s, k + 1, Len(s))
    <3>1. k + 1 \in Int /\ \A j \in k + 1..Len(s) : s[j] \in Char
      BY <1>0, <1>3
    <3>2. /\ t \in Seq(Char)
          /\ Len(t) = IF k + 1 <= Len(s) THEN Len(s) - (k + 1) + 1 ELSE 0
          /\ \A i \in 1..Len(s) - (k + 1) + 1 : t[i] = s[k + 1 + i - 1]
      BY <1>0, <3>1, SubSeqProperties
    <3> HIDE DEF t
    <3>2a. k \in Int /\ Len(s) \in Int /\ 0 <= k /\ k + 1 <= Len(s)
      <4>1. k \in Int /\ 0 <= k /\ k <= Len(s)
        BY <1>3
      <4>2. Len(s) \in Int
        BY <1>0
      <4> QED BY <2>2, <4>1, <4>2
    <3>3. Len(t) = Len(s) - k /\ Len(t) # 0
      <4>1. Len(t) = Len(s) - (k + 1) + 1
        BY <3>2, <3>2a
      <4> QED BY <3>2a, <4>1
    <3>4. t # << >>
      BY <3>3, EmptySeq
    <3>5. ASSUME NEW i \in 1..Len(t) PROVE t[i] # Slash
      <4>1. i \in 1..Len(s) - (k + 1) + 1 /\ k + 1 + i - 1 \in k + 1..Len(s)
        BY <3>2a, <3>3
      <4> QED BY <1>3, <3>2, <4>1
    <3>6. t \in Simple
      BY <3>2, <3>4, <3>5 DEF NamesClosed
    <3> QED BY <2>2, <3>6 DEF t
  <2> QED BY <2>1, <2>2
<1> HIDE DEF d, n
<1> QED BY <1>2, <1>5, <1>6 DEF Item

\* A word that is no new name.
LEMMA RepbadTyped ==
    [NoWord EXCEPT !.kind = "repbad"] \in Item
    /\ [NoWord EXCEPT !.kind = "repbad"].kind = "repbad"
BY SpellingAssumption DEF NoWord, Item

\* Texts for all back-references of the second pattern.
TextsOK(texts) ==
    /\ SrcGood(Src) /\ Dst \in Seq(Token)
    /\ texts \in Seq(Seq(Char))
    /\ \A k \in DOMAIN Dst : Dst[k].t = "ref" => Dst[k].n <= Len(texts)

\* What a back-reference puts there is a string.
LEMMA ReferenceTyped ==
    ASSUME NamesClosed, NEW texts, TextsOK(texts), NEW k \in DOMAIN Dst, Dst[k].t = "ref"
    PROVE  Reference(Dst[k], texts) \in Seq(Char)
<1> DEFINE x == Dst[k]
           t == IF x.n = 0 THEN RawText(Src) ELSE texts[x.n]
<1>1. x.n \in Nat /\ x.n <= Len(texts)
  <2>1. Dst \in Seq(Token) /\ DOMAIN Dst = 1..Len(Dst)
    BY LenProperties DEF TextsOK
  <2>2. x \in Token
    BY <2>1, ElementOfSeq
  <2>3. x.n \in Nat
    BY <2>2, TokenFacts
  <2> QED BY <2>3 DEF TextsOK
<1>2. t \in Seq(Char)
  <2>1. CASE x.n = 0
    BY <2>1, RawChars DEF TextsOK, SrcGood
  <2>2. CASE x.n # 0
    <3>1. texts \in Seq(Seq(Char)) /\ Len(texts) \in Nat
      BY LenProperties DEF TextsOK
    <3>2. x.n \in 1..Len(texts)
      BY <1>1, <2>2, <3>1
    <3>3. texts[x.n] \in Seq(Char)
      BY <3>1, <3>2, ElementOfSeq
    <3> QED BY <2>2, <3>3
  <2> QED BY <2>1, <2>2
<1>3. Reference(x, texts) = [j \in DOMAIN t |-> CASE x.conv = "u" -> Upper[t[j]]
                               [] x.conv = "l" -> Lower[t[j]] [] OTHER -> t[j]]
  BY DEF Reference
<1> HIDE DEF t, x
<1>4. Len(t) \in Nat /\ DOMAIN t = 1..Len(t) /\ \A j \in 1..Len(t) : t[j] \in Char
  BY <1>2, LenProperties, ElementOfSeq
<1>5. ASSUME NEW c \in Char
      PROVE  (CASE x.conv = "u" -> Upper[c] [] x.conv = "l" -> Lower[c] [] OTHER -> c) \in Char
  <2>1. Upper[c] \in Char /\ Lower[c] \in Char
    BY PatternAssumption
  <2> QED BY <2>1
<1>6. Reference(x, texts) \in [1..Len(t) -> Char]
  BY <1>3, <1>4, <1>5
<1>7. Reference(x, texts) \in Seq(Char)
  BY <1>4, <1>6
<1> QED BY <1>7 DEF x

\* One turn of makerep's loop.
Made == [s : Seq(Char), bad : BOOLEAN]
MakeTurn(m, k, texts) ==
    CASE Dst[k].t = "ref" -> [m EXCEPT !.s = @ \o Reference(Dst[k], texts)]
      [] Dst[k].t = "char" -> [m EXCEPT !.s = Append(@, Dst[k].c)]
      [] OTHER -> [s |-> Append(m.s, Slash),
                   bad |-> m.bad \/ EmptyBefore(m.s, k)]

\* A round of makerep makes a string from a string.
LEMMA MakeTurnTyped ==
    ASSUME NamesClosed, NEW texts, TextsOK(texts), NEW k \in 1..Len(Dst), NEW m \in Made
    PROVE  MakeTurn(m, k, texts) \in Made
<1>1. Dst[k] \in Token /\ k \in DOMAIN Dst
  <2>1. Dst \in Seq(Token)
    BY DEF TextsOK
  <2> QED BY <2>1, LenProperties, ElementOfSeq
<1>2. m.s \in Seq(Char) /\ m.bad \in BOOLEAN /\ Slash \in Char
  BY DEF Made, NamesClosed
<1>3. CASE Dst[k].t = "ref"
  <2>1. Reference(Dst[k], texts) \in Seq(Char)
    BY <1>1, <1>3, ReferenceTyped
  <2>2. m.s \o Reference(Dst[k], texts) \in Seq(Char)
    BY <1>2, <2>1, ConcatProperties
  <2>3. MakeTurn(m, k, texts) = [m EXCEPT !.s = m.s \o Reference(Dst[k], texts)]
    BY <1>3 DEF MakeTurn
  <2> QED BY <2>2, <2>3 DEF Made
<1>4. CASE Dst[k].t = "char"
  <2>1. Dst[k].c \in Char
    BY <1>1, <1>4, TokenFacts
  <2>2. Append(m.s, Dst[k].c) \in Seq(Char)
    BY <1>2, <2>1, AppendProperties
  <2>3. MakeTurn(m, k, texts) = [m EXCEPT !.s = Append(m.s, Dst[k].c)]
    BY <1>4 DEF MakeTurn
  <2> QED BY <2>2, <2>3 DEF Made
<1>5. CASE Dst[k].t \notin {"ref", "char"}
  <2>1. MakeTurn(m, k, texts) = [s |-> Append(m.s, Slash),
                                 bad |-> m.bad \/ EmptyBefore(m.s, k)]
    BY <1>5 DEF MakeTurn
  <2>2. Append(m.s, Slash) \in Seq(Char)
    BY <1>2, AppendProperties
  <2>3. (m.bad \/ EmptyBefore(m.s, k)) \in BOOLEAN
    OBVIOUS
  <2> QED BY <2>1, <2>2, <2>3 DEF Made
<1> QED BY <1>3, <1>4, <1>5

\* makerep makes a path, or finds that there is none.
LEMMA MakerepTyped ==
    ASSUME NamesClosed, NEW texts, TextsOK(texts)
    PROVE  makerep(texts) \in Item /\ makerep(texts).kind \in {"path", "repbad"}
<1> DEFINE n == Len(Dst)
           v == [s |-> << >>, bad |-> FALSE]
           F == [q \in (1..n) \X Made |-> MakeTurn(q[2], q[1], texts)]
           Round(h) == [k \in 0..n |-> IF k = 0 THEN v ELSE MakeTurn(h[k - 1], k, texts)]
           H == CHOOSE h : h = Round(h)
<1>0. n \in Nat
  BY LenProperties DEF TextsOK
<1>1. v \in Made
  BY EmptySeq DEF Made
<1>2. F \in [(1..n) \X Made -> Made]
  <2>1. ASSUME NEW q \in (1..n) \X Made PROVE MakeTurn(q[2], q[1], texts) \in Made
    <3>1. q[1] \in 1..Len(Dst) /\ q[2] \in Made
      OBVIOUS
    <3> QED BY <3>1, MakeTurnTyped
  <2> QED BY <2>1
<1>3. \A k \in 1..n, m \in Made : F[<<k, m>>] = MakeTurn(m, k, texts)
  OBVIOUS
<1>4. makerep(texts) = IF H[n].bad \/ H[n].s = << >> THEN [NoWord EXCEPT !.kind = "repbad"]
                       ELSE SplitPath(H[n].s)
  BY Zenon DEF makerep, MakeTurn
<1> HIDE DEF F, n, v
<1>5. PICK f : Steps(f, Made, n, v, F)
  BY <1>0, <1>1, <1>2, StepByStep
<1>6. f \in [0..n -> Made] /\ f[0] = v /\ \A k \in 1..n : f[k] = F[<<k, f[k - 1]>>]
  BY <1>5 DEF Steps
<1>7. f = Round(f)
  <2>1. \A k \in 0..n : f[k] = IF k = 0 THEN v ELSE MakeTurn(f[k - 1], k, texts)
    <3> SUFFICES ASSUME NEW k \in 0..n, k # 0 PROVE f[k] = MakeTurn(f[k - 1], k, texts)
      BY <1>6
    <3>1. k \in 1..n /\ k - 1 \in 0..n
      BY <1>0
    <3> QED BY <1>3, <1>6, <3>1
  <2> QED BY <1>6, <2>1
<1>8. H = Round(H)
  BY <1>7, Zenon
<1> HIDE DEF H
<1>9. H[0] = v /\ \A k \in 1..n : H[k] = MakeTurn(H[k - 1], k, texts)
  <2>1. \A k \in 0..n : H[k] = IF k = 0 THEN v ELSE MakeTurn(H[k - 1], k, texts)
    BY <1>8
  <2>2. 0 \in 0..n /\ \A k \in 1..n : k \in 0..n /\ k # 0
    BY <1>0
  <2> QED BY <2>1, <2>2
<1>10. Follows(H, Made, n, v, F)
  BY <1>3, <1>9 DEF Follows
<1>11. H[n] \in Made
  <2>1. \A k \in 0..n : H[k] = f[k] /\ H[k] \in Made
    BY <1>0, <1>5, <1>10, StepsUnique
  <2> QED BY <1>0, <2>1
<1>12. H[n].s \in Seq(Char)
  BY <1>11 DEF Made
<1>13. CASE H[n].bad \/ H[n].s = << >>
  BY <1>4, <1>13, RepbadTyped
<1>14. CASE ~(H[n].bad \/ H[n].s = << >>)
  BY <1>4, <1>12, <1>14, SplitTyped
<1> QED BY <1>13, <1>14
-----------------------------------------------------------------------------
(***************************************************************************)
(* The walk.                                                               *)
(***************************************************************************)
\* The calls that have not returned: each has one text for each wildcard in front
\* of its stage, and each but the newest has read its directory.
Frame == [path : Spelling, stage : Nat, any : BOOLEAN, base : Seq(Seq(Char)),
          semi : Seq(Char), phase : {"files", "dirs"}, at : Nat, ret : {0, 1}]

Open(f) == handle[f.path] > 0 /\ f.at \in 0..Cardinality(W.files[W.at[f.path]])

Staged(f) == f.stage \in DOMAIN stages /\ Len(f.base) = stages[f.stage].wilds

FramesOK ==
    /\ stack \in Seq(Frame)
    /\ \A i \in 1..Len(stack) : /\ Staged(stack[i])
                                /\ i < Len(stack) \/ pc # "enter" => Open(stack[i])

WalkPhases == {"enter", "walk", "quit"} \cup Working

\* The pair at hand is a line that getpat has accepted, and behind "pattern" one
\* that can be parsed.
PairInWork ==
    /\ pc \in {"pattern"} \cup WalkPhases =>
         Pair \in 1..Len(call.lines) /\ Complete(call.lines[Pair])
    /\ pc \in WalkPhases => ~BadPair(Pair) /\ StagesOK(Src, stages)

WalkInv ==
    /\ call.reader = "pat" /\ to.kind # "home"
    /\ pc \in {"getpat", "pattern", "execute", "error"} \cup WalkPhases
    /\ stack # << >> <=> pc \in WalkPhases
    /\ patflags \in BOOLEAN /\ delok \subseteq DOMAIN reps
    /\ FramesOK /\ PairInWork

\* All calls but the newest.
LEMMA FrontFacts ==
    ASSUME NEW S, NEW s \in Seq(S), s # << >>
    PROVE  /\ Len(s) \in Nat \ {0} /\ Front(s) \in Seq(S) /\ Len(Front(s)) = Len(s) - 1
           /\ \A i \in 1..Len(s) - 1 : Front(s)[i] = s[i]
<1>1. Len(s) \in Nat \ {0} /\ \A i \in 1..Len(s) - 1 : s[i] \in S
  BY EmptySeq, LenProperties, ElementOfSeq
<1>2. /\ SubSeq(s, 1, Len(s) - 1) \in Seq(S)
      /\ Len(SubSeq(s, 1, Len(s) - 1)) = IF 1 <= Len(s) - 1 THEN Len(s) - 1 - 1 + 1 ELSE 0
      /\ \A i \in 1..Len(s) - 1 - 1 + 1 : SubSeq(s, 1, Len(s) - 1)[i] = s[1 + i - 1]
  <2>1. Len(s) - 1 \in Int /\ 1 \in Int
    BY <1>1
  <2> QED BY <1>1, <2>1, SubSeqProperties
<1> DEFINE q == SubSeq(s, 1, Len(s) - 1)
<1>3. Front(s) = q
  BY DEF Front
<1>2a. /\ q \in Seq(S) /\ Len(q) = IF 1 <= Len(s) - 1 THEN Len(s) - 1 - 1 + 1 ELSE 0
       /\ \A i \in 1..Len(s) - 1 - 1 + 1 : q[i] = s[1 + i - 1]
  BY <1>2
<1> HIDE DEF q
<1>4. q \in Seq(S) /\ Len(q) = Len(s) - 1
  <2>1. PICK n \in Nat \ {0} : n = Len(s)
    BY <1>1
  <2>2. Len(q) = IF 1 <= n - 1 THEN n - 1 - 1 + 1 ELSE 0
    BY <1>2a, <2>1
  <2>3. (IF 1 <= n - 1 THEN n - 1 - 1 + 1 ELSE 0) = n - 1
    BY <2>1
  <2> QED BY <1>2a, <2>1, <2>2, <2>3
<1>5. \A i \in 1..Len(s) - 1 : q[i] = s[i]
  <2>1. \A i \in 1..Len(s) - 1 : i \in 1..Len(s) - 1 - 1 + 1 /\ 1 + i - 1 = i
    BY <1>1
  <2> QED BY <1>2a, <2>1
<1> QED BY <1>1, <1>3, <1>4, <1>5

\* What is done to the newest of a row of calls: t is s with f in its place, s with f
\* in its place and g behind it, and s without it.
TopIs(t, s, f) ==
    /\ Len(t) = Len(s) /\ t # << >> /\ t[Len(s)] = f
    /\ \A i \in 1..Len(s) - 1 : t[i] = s[i]
TopTwo(t, s, f, g) ==
    /\ Len(t) = Len(s) + 1 /\ t # << >> /\ t[Len(s)] = f /\ t[Len(s) + 1] = g
    /\ \A i \in 1..Len(s) - 1 : t[i] = s[i]
TopOff(t, s) ==
    /\ Len(t) = Len(s) - 1 /\ t # << >>
    /\ \A i \in 1..Len(s) - 1 : t[i].path = s[i].path /\ t[i].stage = s[i].stage
                                  /\ t[i].at = s[i].at /\ t[i].base = s[i].base

\* SetTop.
LEMMA TopSet ==
    ASSUME NEW S, NEW s \in Seq(S), s # << >>, NEW f \in S
    PROVE  Append(Front(s), f) \in Seq(S) /\ TopIs(Append(Front(s), f), s, f)
<1>1. /\ Len(s) \in Nat \ {0} /\ Front(s) \in Seq(S) /\ Len(Front(s)) = Len(s) - 1
      /\ \A i \in 1..Len(s) - 1 : Front(s)[i] = s[i]
  BY FrontFacts
<1> DEFINE q == Front(s)
<1> HIDE DEF q
<1>2. /\ Append(q, f) \in Seq(S) /\ Append(q, f) # << >> /\ Len(Append(q, f)) = Len(q) + 1
      /\ \A i \in 1..Len(q) : Append(q, f)[i] = q[i]
      /\ Append(q, f)[Len(q) + 1] = f
  BY <1>1, AppendProperties DEF q
<1> QED BY <1>1, <1>2 DEF q, TopIs

\* A call that is made.
LEMMA TopPushed ==
    ASSUME NEW S, NEW s \in Seq(S), s # << >>, NEW f \in S, NEW g \in S
    PROVE  Front(s) \o <<f, g>> \in Seq(S) /\ TopTwo(Front(s) \o <<f, g>>, s, f, g)
<1>1. /\ Len(s) \in Nat \ {0} /\ Front(s) \in Seq(S) /\ Len(Front(s)) = Len(s) - 1
      /\ \A i \in 1..Len(s) - 1 : Front(s)[i] = s[i]
  BY FrontFacts
<1> DEFINE q == Front(s)
           r == <<f, g>>
           t == q \o r
<1>2. r \in Seq(S) /\ Len(r) = 2 /\ r[1] = f /\ r[2] = g
  OBVIOUS
<1> HIDE DEF q, r
<1>4. /\ q \o r \in Seq(S) /\ Len(q \o r) = Len(q) + Len(r)
      /\ \A i \in 1..Len(q) + Len(r) :
           (q \o r)[i] = IF i <= Len(q) THEN q[i] ELSE r[i - Len(q)]
  BY <1>1, <1>2, ConcatProperties DEF q
<1>5. Len(t) = Len(s) + 1 /\ \A i \in 1..Len(s) + 1 :
           t[i] = IF i <= Len(s) - 1 THEN q[i] ELSE r[i - (Len(s) - 1)]
  BY <1>1, <1>2, <1>4 DEF q
<1> HIDE DEF t
<1>6. Len(s) - (Len(s) - 1) = 1 /\ (Len(s) + 1) - (Len(s) - 1) = 2
      /\ Len(s) \in 1..Len(s) + 1 /\ Len(s) + 1 \in 1..Len(s) + 1
      /\ ~(Len(s) <= Len(s) - 1) /\ ~(Len(s) + 1 <= Len(s) - 1)
  BY <1>1
<1>7. t[Len(s)] = f /\ t[Len(s) + 1] = g
  BY <1>2, <1>5, <1>6
<1>8. \A i \in 1..Len(s) - 1 : t[i] = s[i]
  BY <1>1, <1>5 DEF q
<1>9. t # << >>
  BY <1>1, <1>5, EmptySeq
<1>10. t \in Seq(S) /\ TopTwo(t, s, f, g)
  BY <1>4, <1>5, <1>7, <1>8, <1>9 DEF TopTwo, t
<1> QED BY <1>10 DEF t, q, r

\* The newest call returns to the one before it.
LEMMA TopPopped ==
    ASSUME NEW s \in Seq(Frame), Len(s) > 1, NEW r \in Nat
    PROVE  /\ [Front(s) EXCEPT ![Len(s) - 1].ret = And(@, r)] \in Seq(Frame)
           /\ TopOff([Front(s) EXCEPT ![Len(s) - 1].ret = And(@, r)], s)
<1> DEFINE n == Len(s) - 1
           q == Front(s)
           t == [Front(s) EXCEPT ![Len(s) - 1].ret = And(@, r)]
           f == [q[n] EXCEPT !.ret = And(@, r)]
<1>0. s # << >>
  BY EmptySeq
<1>1. /\ Len(s) \in Nat \ {0} /\ q \in Seq(Frame) /\ Len(q) = n
      /\ \A i \in 1..n : q[i] = s[i]
  BY <1>0, FrontFacts
<1>1a. n \in Nat \ {0} /\ n \in 1..n
  BY <1>1
<1>2. q[n] \in Frame /\ q[n] = s[n]
  BY <1>1, <1>1a, ElementOfSeq
<1>3. And(q[n].ret, r) \in {0, 1}
  <2>1. q[n].ret \in {0, 1}
    BY <1>2 DEF Frame
  <2>2. r % 2 \in {0, 1}
    OBVIOUS
  <2> QED BY <2>1, <2>2 DEF And
<1>4. f \in Frame /\ f.path = s[n].path /\ f.stage = s[n].stage /\ f.at = s[n].at
      /\ f.base = s[n].base
  BY <1>2, <1>3 DEF Frame
<1>5. t = [q EXCEPT ![n] = f]
  OBVIOUS
<1> HIDE DEF f, q, n, t
<1>6. /\ [q EXCEPT ![n] = f] \in Seq(Frame) /\ Len([q EXCEPT ![n] = f]) = Len(q)
      /\ \A i \in 1..Len(q) : [q EXCEPT ![n] = f][i] = IF i = n THEN f ELSE q[i]
  BY <1>1, <1>1a, <1>4, ExceptSeq
<1>7. t # << >>
  BY <1>1, <1>1a, <1>5, <1>6, EmptySeq
<1>8. t \in Seq(Frame) /\ TopOff(t, s)
  BY <1>1, <1>4, <1>5, <1>6, <1>7 DEF n, TopOff
<1> QED BY <1>8 DEF t
-----------------------------------------------------------------------------
\* A call whose directory is open goes on having one.
LEMMA OpenStays ==
    ASSUME Grows, NEW f \in Frame, Open(f)
    PROVE  Open(f)'
<1>1. f.path \in Spelling /\ handle[f.path] # 0
  BY DEF Frame, Open
<1> QED BY <1>1 DEF Open, Grows, W

\* The calls behind the newest are those they were, and go on being in order.
LEMMA FramesBehind ==
    ASSUME FramesOK, stack # << >>, Grows, stages' = stages,
           NEW t \in Seq(Frame), NEW n \in 0..Len(stack) - 1,
           \A i \in 1..n : t[i].path = stack[i].path /\ t[i].stage = stack[i].stage
                             /\ t[i].at = stack[i].at /\ t[i].base = stack[i].base
    PROVE  \A i \in 1..n : Staged(t[i]) /\ Open(t[i])'
<1>1. stack \in Seq(Frame) /\ Len(stack) \in Nat
  BY LenProperties DEF FramesOK
<1> SUFFICES ASSUME NEW i \in 1..n PROVE Staged(t[i]) /\ Open(t[i])'
  OBVIOUS
<1>2. PICK f \in Frame : f = stack[i] /\ Staged(f) /\ Open(f)
  BY <1>1, ElementOfSeq DEF FramesOK
<1>3. PICK g : g = t[i]
  OBVIOUS
<1>4. /\ g.path = f.path /\ g.stage = f.stage /\ g.at = f.at /\ g.base = f.base
  BY <1>2, <1>3
<1>5. Open(f)'
  BY <1>2, OpenStays
<1> QED BY <1>2, <1>3, <1>4, <1>5 DEF Staged, Open

\* SetTop: the newest call goes on.
LEMMA FramesTop ==
    ASSUME FramesOK, stack # << >>, Grows, stages' = stages,
           NEW f \in Frame, Staged(f), pc' # "enter" => Open(f)', SetTop(f)
    PROVE  FramesOK' /\ stack' # << >>
<1>1. stack \in Seq(Frame) /\ Len(stack) \in Nat \ {0}
  BY FrontFacts DEF FramesOK
<1> PICK s : s = stack
  OBVIOUS
<1> PICK t : t = Append(Front(s), f)
  OBVIOUS
<1>2. /\ t \in Seq(Frame) /\ Len(t) = Len(s) /\ t # << >>
      /\ t[Len(s)] = f /\ \A i \in 1..Len(s) - 1 : t[i] = s[i]
  <2>1. s \in Seq(Frame) /\ s # << >>
    BY <1>1
  <2> QED BY <2>1, TopSet DEF TopIs
<1>2a. t = stack'
  BY DEF SetTop
<1>3. \A i \in 1..Len(stack) - 1 : Staged(t[i]) /\ Open(t[i])'
  <2>1. Len(stack) - 1 \in 0..Len(stack) - 1
    BY <1>1
  <2> QED BY <1>2, <2>1, FramesBehind
<1>4. \A i \in 1..Len(t) : Staged(t[i]) /\ (i < Len(t) \/ pc' # "enter" => Open(t[i])')
  <2> SUFFICES ASSUME NEW i \in 1..Len(t)
               PROVE  Staged(t[i]) /\ (i < Len(t) \/ pc' # "enter" => Open(t[i])')
    OBVIOUS
  <2>1. CASE i = Len(t)
    BY <1>1, <1>2, <2>1
  <2>2. CASE i # Len(t)
    <3>1. i \in 1..Len(stack) - 1
      BY <1>1, <1>2, <2>2
    <3> QED BY <1>3, <3>1
  <2> QED BY <2>1, <2>2
<1> QED BY <1>2, <1>2a, <1>4 DEF FramesOK, Staged

\* A call calls another one.
LEMMA FramesPush ==
    ASSUME FramesOK, stack # << >>, Grows, stages' = stages, pc' = "enter",
           NEW f \in Frame, Staged(f), Open(f)', NEW g \in Frame, Staged(g),
           stack' = Front(stack) \o <<f, g>>
    PROVE  FramesOK' /\ stack' # << >>
<1>1. stack \in Seq(Frame) /\ Len(stack) \in Nat \ {0}
  BY FrontFacts DEF FramesOK
<1> PICK s : s = stack
  OBVIOUS
<1>2. PICK t : t = Front(s) \o <<f, g>>
  OBVIOUS
<1>3. /\ t \in Seq(Frame) /\ Len(t) = Len(stack) + 1 /\ t # << >>
      /\ t[Len(stack)] = f /\ t[Len(stack) + 1] = g
      /\ \A i \in 1..Len(stack) - 1 : t[i] = stack[i]
  <2>1. s \in Seq(Frame) /\ s # << >>
    BY <1>1
  <2>2. /\ t \in Seq(Frame) /\ Len(t) = Len(s) + 1 /\ t # << >>
        /\ t[Len(s)] = f /\ t[Len(s) + 1] = g
        /\ \A i \in 1..Len(s) - 1 : t[i] = s[i]
    BY <1>2, <2>1, TopPushed DEF TopTwo
  <2> QED BY <2>2
<1>4. \A i \in 1..Len(stack) - 1 : Staged(t[i]) /\ Open(t[i])'
  <2>1. Len(stack) - 1 \in 0..Len(stack) - 1
    BY <1>1
  <2> QED BY <1>3, <2>1, FramesBehind
<1>5. \A i \in 1..Len(t) : Staged(t[i]) /\ (i < Len(t) => Open(t[i])')
  <2> SUFFICES ASSUME NEW i \in 1..Len(t)
               PROVE  Staged(t[i]) /\ (i < Len(t) => Open(t[i])')
    OBVIOUS
  <2>1. CASE i = Len(t)
    BY <1>1, <1>3, <2>1
  <2>2. CASE i = Len(stack)
    BY <1>1, <1>3, <2>2
  <2>3. CASE i # Len(t) /\ i # Len(stack)
    <3>1. i \in 1..Len(stack) - 1
      BY <1>1, <1>3, <2>3
    <3> QED BY <1>4, <3>1
  <2> QED BY <2>1, <2>2, <2>3
<1> QED BY <1>2, <1>3, <1>5 DEF FramesOK, Staged

\* Leave: the newest call returns to the one before it, or to matchpat.
LEMMA FramesPop ==
    ASSUME FramesOK, stack # << >>, Grows, stages' = stages,
           NEW r \in Nat, NEW err \in BOOLEAN, Leave(r, err), paterr \in BOOLEAN,
           patflags \in BOOLEAN
    PROVE  /\ FramesOK' /\ paterr' \in BOOLEAN /\ patflags' \in BOOLEAN
           /\ \/ pc' = "walk" /\ stack' # << >>
              \/ pc' = "getpat" /\ stack' = << >>
<1>1. stack \in Seq(Frame) /\ Len(stack) \in Nat \ {0}
  BY FrontFacts DEF FramesOK
<1>2. CASE Len(stack) > 1
  <2>1. /\ stack' = [Front(stack) EXCEPT ![Len(stack) - 1].ret = And(@, r)]
        /\ paterr' = (paterr \/ err) /\ pc' = "walk" /\ UNCHANGED <<patflags, unmatched>>
    BY <1>2 DEF Leave
  <2> PICK s : s = stack
    OBVIOUS
  <2>2. PICK t : t = [Front(s) EXCEPT ![Len(s) - 1].ret = And(@, r)]
    OBVIOUS
  <2>3. /\ t \in Seq(Frame) /\ Len(t) = Len(stack) - 1 /\ t # << >>
        /\ \A i \in 1..Len(stack) - 1 :
             t[i].path = stack[i].path /\ t[i].stage = stack[i].stage
               /\ t[i].at = stack[i].at /\ t[i].base = stack[i].base
    <3>1. s \in Seq(Frame) /\ Len(s) > 1
      BY <1>1, <1>2
    <3>2. /\ t \in Seq(Frame) /\ Len(t) = Len(s) - 1 /\ t # << >>
          /\ \A i \in 1..Len(s) - 1 :
               t[i].path = s[i].path /\ t[i].stage = s[i].stage
                 /\ t[i].at = s[i].at /\ t[i].base = s[i].base
      BY <2>2, <3>1, TopPopped DEF TopOff
    <3> QED BY <3>2
  <2>4. \A i \in 1..Len(stack) - 1 : Staged(t[i]) /\ Open(t[i])'
    <3>1. Len(stack) - 1 \in 0..Len(stack) - 1
      BY <1>1
    <3> QED BY <2>3, <3>1, FramesBehind
  <2>5. FramesOK'
    BY <2>1, <2>2, <2>3, <2>4 DEF FramesOK, Staged
  <2> QED BY <2>1, <2>2, <2>3, <2>5
<1>3. CASE ~(Len(stack) > 1)
  <2>1. /\ stack' = << >> /\ paterr' \in BOOLEAN /\ pc' = "getpat" /\ patflags' = FALSE
    BY <1>3 DEF Leave, GetAgain
  <2>2. Len(<<>>) = 0 /\ << >> \in Seq(Frame)
    BY EmptySeq
  <2>3. FramesOK'
    BY <2>1, <2>2 DEF FramesOK
  <2> QED BY <2>1, <2>3
<1> QED BY <1>2, <1>3

\* No call is made, and none returns.
LEMMA FramesSame ==
    ASSUME FramesOK, Grows, stages' = stages, stack' = stack, pc # "enter" \/ stack = << >>
    PROVE  FramesOK'
<1>1. stack \in Seq(Frame)
  BY DEF FramesOK
<1>2. PICK t : t = stack
  OBVIOUS
<1>3. ASSUME NEW i \in 1..Len(t) PROVE Staged(t[i]) /\ (stack # << >> => Open(t[i])')
  <2>1. PICK f \in Frame : f = t[i] /\ Staged(f) /\ (stack # << >> => Open(f))
    BY <1>1, <1>2, ElementOfSeq DEF FramesOK
  <2> QED BY <2>1, OpenStays
<1>4. stack = << >> => Len(t) = 0
  BY <1>2
<1> QED BY <1>1, <1>2, <1>3, <1>4 DEF FramesOK, Staged
-----------------------------------------------------------------------------
(***************************************************************************)
(* The invariant, and the reading of lines.                                *)
(***************************************************************************)
\* The invariant of a pattern program: that of the scan, whose REPs have no path as
\* their target, and that of the walk.
PatInv == CoreInv /\ FitInv /\ PathFree /\ WalkInv

\* Every step but those of badrep and checkto: it may take up a file that is there
\* and has no REP, and it may open a directory.
LEMMA WalkCore ==
    ASSUME CoreInv, FitInv, PathFree,
           UNCHANGED <<call, mistakes, badreps, reps, cand>>,
           pos' \in Nat, from' \in Item, to' \in Item, paterr' \in BOOLEAN,
           UNCHANGED dirVars \/ \E s \in Spelling : checkdir(s),
           pc' \in ScanPhases,
           pc' \in Working =>
             /\ pc' = "source" /\ handle'[from'.dir] > 0 /\ from'.name \in Simple
             /\ from'.name \in W.files[W.at[from'.dir]] /\ ~HasRep(ffrom)'
    PROVE  CoreInv' /\ FitInv' /\ PathFree' /\ Grows
<1>1. /\ dirs' \in Seq(Inode) /\ DOMAIN dirs \subseteq DOMAIN dirs'
      /\ handle' \in [Spelling -> H_NOREADDIR..Len(dirs')] /\ HandlesOpen'
  <2>1. CASE UNCHANGED dirVars
    BY <2>1 DEF dirVars, CoreInv, CoreTypes, HandlesOpen, W
  <2>2. CASE \E s \in Spelling : checkdir(s)
    BY <2>2, CheckdirOpens
  <2> QED BY <2>1, <2>2
<1>2. CoreTypes'
  BY <1>1 DEF CoreInv, CoreTypes
<1>3. OneRepEach'
  BY DEF CoreInv, OneRepEach
<1>4. AtWork'
  BY DEF AtWork, Working
<1>5. CoreInv'
  BY <1>1, <1>2, <1>3, <1>4 DEF CoreInv
<1>6. FitInv'
  BY OpeningFits
<1>7. Grows
  BY DirsGrow DEF FitInv
<1>8. PathFree'
  BY DEF PathFree
<1> QED BY <1>5, <1>6, <1>7, <1>8

\* What PatCallOK says of an invocation's lines.
LEMMA LineFacts ==
    ASSUME call \in Calls
    PROVE  /\ Len(call.lines) \in Nat
           /\ call.argv => Len(call.lines) = 1 /\ Complete(call.lines[1])
           /\ \A k \in 1..Len(call.lines) :
                Complete(call.lines[k]) => PairOK(call.op, SrcOf(k), DstOf(k))
<1>1. PatCallOK(call)
  BY PatternAssumption
<1>2. call.lines \in Seq(Line) /\ Len(call.lines) \in Nat
  BY <1>1, LenProperties DEF PatCallOK
<1>3. \A k \in 1..Len(call.lines) : call.lines[k] \in Range(call.lines)
  BY <1>2 DEF Range
<1> QED BY <1>1, <1>2, <1>3 DEF PatCallOK, SrcOf, DstOf

\* Both patterns of a line that can be parsed.
LEMMA PairFacts ==
    ASSUME call \in Calls, Pair \in 1..Len(call.lines), Complete(call.lines[Pair]),
           ~BadPair(Pair)
    PROVE  /\ SrcGood(Src) /\ Dst \in Seq(Token) /\ NWilds(Src, 1, Len(Src)) \in Nat
           /\ \A k \in DOMAIN Dst :
                Dst[k].t = "ref" => Dst[k].n <= NWilds(Src, 1, Len(Src))
<1>1. PairOK(call.op, Src, Dst) /\ ~BadSrc(Src) /\ ~BadDst(Dst, Src)
  BY LineFacts DEF BadPair, Src, Dst
<1>2. /\ Src \in Seq(Token) /\ \A k \in DOMAIN Src : Src[k].t # "ref"
      /\ Dst \in Seq(Token)
  BY <1>1 DEF PairOK
<1>3. Len(Src) \in Nat /\ DOMAIN Src = 1..Len(Src)
  BY <1>2, LenProperties
<1>4. SrcGood(Src)
  BY <1>1, <1>2, <1>3 DEF BadSrc, SrcGood, Plainly
<1>5. NWilds(Src, 1, Len(Src)) \in Nat
  <2>1. Len(Src) \in Int /\ 1 \in Int /\ 1 <= Len(Src) + 1 /\ Len(Src) <= Len(Src)
    BY <1>3
  <2> QED BY <2>1, WildsAdd
<1>6. ASSUME NEW k \in DOMAIN Dst, Dst[k].t = "ref"
      PROVE  Dst[k].n <= NWilds(Src, 1, Len(Src))
  <2>1. Dst[k].n \in Nat
    BY <1>2, <1>6, TokenFacts, ElementOfSeq
  <2>2. ~(Dst[k].n > NWilds(Src, 1, Len(Src)))
    BY <1>1, <1>6 DEF BadDst
  <2> QED BY <1>5, <2>1, <2>2
<1> QED BY <1>2, <1>4, <1>5, <1>6

\* What the invariant leaves of the walk between two lines.
Between ==
    /\ stack = << >> /\ stages' = stages /\ stack' = stack /\ call' = call
    /\ to' = to /\ delok' = delok /\ reps' = reps /\ patflags' \in BOOLEAN
    /\ pc' \in {"getpat", "pattern", "execute", "error"}

\* So it keeps the invariant of the walk, if the line at hand is one that getpat accepts.
LEMMA BetweenKeeps ==
    ASSUME PatInv, Between, Grows,
           pc' = "pattern" => Pair' \in 1..Len(call.lines) /\ Complete(call.lines[Pair'])
    PROVE  WalkInv'
<1>1. FramesOK'
  BY FramesSame DEF PatInv, WalkInv, Between
<1>2. PairInWork'
  BY DEF PairInWork, Between, WalkPhases, Working
<1> QED BY <1>1, <1>2 DEF PatInv, WalkInv, Between, WalkPhases, Working

\* getpat.
LEMMA GetKeeps == PatInv /\ (GetLine \/ GetArgs \/ GetEof) => PatInv'
<1> SUFFICES ASSUME PatInv, GetLine \/ GetArgs \/ GetEof PROVE PatInv'
  OBVIOUS
<1> USE DEF PatInv
<1>0. /\ pos \in Nat /\ from \in Item /\ to \in Item /\ paterr \in BOOLEAN
      /\ patflags \in BOOLEAN /\ stack = << >> /\ call \in Calls
  BY DEF CoreInv, CoreTypes, WalkInv, GetLine, GetArgs, GetEof, WalkPhases, Working
<1>1. /\ UNCHANGED <<call, mistakes, badreps, reps, cand, dirVars, from, to, paterr,
                     stack, stages, delok>>
      /\ pos' = pos \/ pos' = pos + 2
      /\ pc' \in {"getpat", "pattern", "execute", "error"}
      /\ patflags' \in BOOLEAN
  <2>1. CASE GetLine
    BY <1>0, <2>1 DEF GetLine, Finish, callVars, repVars
  <2>2. CASE GetArgs
    BY <1>0, <2>2 DEF GetArgs, callVars, repVars, patVars
  <2>3. CASE GetEof
    BY <1>0, <2>3 DEF GetEof, Finish, callVars, repVars, readVars, patVars
  <2> QED BY <2>1, <2>2, <2>3
<1>2. pc' \in ScanPhases /\ pc' \notin Working /\ pos' \in Nat
  BY <1>0, <1>1 DEF ScanPhases, Working
<1>3. CoreInv' /\ FitInv' /\ PathFree' /\ Grows
  BY <1>0, <1>1, <1>2, WalkCore
<1>4. ASSUME pc' = "pattern"
      PROVE  Pair' \in 1..Len(call.lines) /\ Complete(call.lines[Pair'])
  <2>1. pos' = pos + 2 /\ MoreLines
    BY <1>4 DEF GetLine, GetArgs, GetEof, Finish
  <2>2. Pair' = Pair + 1 /\ Pair \in Nat /\ Pair < Len(call.lines)
    BY <1>0, <2>1, Halves DEF Pair, MoreLines
  <2>3. Pair + 1 \in 1..Len(call.lines)
    BY <1>0, <2>2, LineFacts
  <2>4. Complete(call.lines[Pair + 1])
    <3>1. CASE GetLine
      BY <1>4, <3>1 DEF GetLine, Finish, NextLine
    <3>2. CASE GetArgs
      <4>1. Len(call.lines) = 1 /\ Complete(call.lines[1])
        BY <1>0, <3>2, LineFacts DEF GetArgs
      <4>2. Pair + 1 = 1
        BY <2>2, <2>3, <4>1
      <4> QED BY <4>1, <4>2
    <3>3. ~GetEof
      BY <1>4 DEF GetEof, Finish
    <3> QED BY <3>1, <3>2, <3>3
  <2> QED BY <2>2, <2>3, <2>4
<1>5. Between
  BY <1>0, <1>1 DEF Between
<1>6. WalkInv'
  BY <1>3, <1>4, <1>5, BetweenKeeps
<1> QED BY <1>3, <1>6

\* A pattern that cannot be parsed.
LEMMA PatternErrorKeeps == PatInv /\ PatternError => PatInv'
<1> SUFFICES ASSUME PatInv, PatternError PROVE PatInv'
  OBVIOUS
<1> USE DEF PatInv
<1>0. /\ pos \in Nat /\ from \in Item /\ to \in Item /\ stack = << >>
  BY DEF CoreInv, CoreTypes, WalkInv, PatternError, WalkPhases, Working
<1>1. /\ UNCHANGED <<call, mistakes, badreps, reps, cand, dirVars, from, to, pos,
                     stack, stages, delok>>
      /\ pc' = "getpat" /\ patflags' = FALSE /\ paterr' = TRUE
  BY DEF PatternError, GetAgain, callVars, readVars, repVars
<1>2. pc' \in ScanPhases /\ pc' \notin Working
  BY <1>1 DEF ScanPhases, Working
<1>3. CoreInv' /\ FitInv' /\ PathFree' /\ Grows
  BY <1>0, <1>1, <1>2, WalkCore
<1>4. Between
  BY <1>0, <1>1 DEF Between
<1>5. WalkInv'
  BY <1>1, <1>3, <1>4, BetweenKeeps
<1> QED BY <1>3, <1>5

-----------------------------------------------------------------------------
\* The newest call.
LEMMA TopFacts ==
    ASSUME PatInv, pc \in {"enter", "walk"}
    PROVE  /\ stack \in Seq(Frame) /\ stack # << >> /\ Top \in Frame /\ Staged(Top)
           /\ pc = "walk" => Open(Top)
           /\ call \in Calls /\ StagesOK(Src, stages) /\ StageOK(stages[Top.stage])
           /\ SrcGood(Src) /\ Dst \in Seq(Token) /\ NWilds(Src, 1, Len(Src)) \in Nat
           /\ \A k \in DOMAIN Dst :
                Dst[k].t = "ref" => Dst[k].n <= NWilds(Src, 1, Len(Src))
<1>1. stack \in Seq(Frame) /\ stack # << >> /\ pc \in WalkPhases /\ call \in Calls
  BY DEF PatInv, WalkInv, FramesOK, WalkPhases, CoreInv
<1>2. Len(stack) \in Nat \ {0} /\ Top = stack[Len(stack)] /\ Len(stack) \in 1..Len(stack)
  BY <1>1, FrontFacts DEF Top, Last
<1>3. Top \in Frame /\ Staged(Top) /\ (pc = "walk" => Open(Top))
  <2>1. stack[Len(stack)] \in Frame
    BY <1>1, <1>2, ElementOfSeq
  <2> QED BY <1>2, <2>1 DEF PatInv, WalkInv, FramesOK, Staged, Open
<1>4. /\ Pair \in 1..Len(call.lines) /\ Complete(call.lines[Pair]) /\ ~BadPair(Pair)
      /\ StagesOK(Src, stages)
  BY <1>1 DEF PatInv, WalkInv, PairInWork
<1>5. StageOK(stages[Top.stage])
  BY <1>3, <1>4 DEF StagesOK, Staged
<1> QED BY <1>1, <1>3, <1>4, <1>5, PairFacts

\* A step of the walk.
LEMMA WalkingKeeps ==
    ASSUME PatInv, pc \in {"enter", "walk"}, Grows, FramesOK',
           UNCHANGED <<pos, reps, delok, stages>>, to'.kind # "home",
           patflags' \in BOOLEAN, pc' \in {"getpat"} \cup WalkPhases,
           stack' # << >> <=> pc' \in WalkPhases
    PROVE  WalkInv'
<1>1. call' = call /\ Pair' = Pair /\ Src' = Src /\ BadPair(Pair)' = BadPair(Pair)
  BY DEF Grows, Pair, Src, SrcOf, BadPair, BadSrc, BadDst, DstOf
<1>2. PairInWork
  BY DEF PatInv, WalkInv
<1>3. /\ Pair \in 1..Len(call.lines) /\ Complete(call.lines[Pair])
      /\ ~BadPair(Pair) /\ StagesOK(Src, stages)
  BY <1>2 DEF PairInWork, WalkPhases
<1>4. PairInWork'
  BY <1>1, <1>3 DEF PairInWork
<1>5. delok' \subseteq DOMAIN reps' /\ call'.reader = "pat"
  BY <1>1 DEF PatInv, WalkInv
<1> QED BY <1>4, <1>5 DEF WalkInv

\* The text in front of a stage makes a spelling of a path that it is put behind.
LEMMA BetweenSpelled ==
    ASSUME NamesClosed, NEW s \in Seq(Char), NEW p, Plainly(p),
           p # << >>, p[Len(p)].t = "slash"
    PROVE  s \o RawText(p) \in Spelling
BY RawChars, Spelled

\* parse_src_pattern succeeds, and dostage_patterns is called for the first stage.
LEMMA ParsePatternKeeps == NamesClosed /\ PatInv /\ ParsePattern => PatInv'
<1> SUFFICES ASSUME NamesClosed, PatInv, ParsePattern PROVE PatInv'
  OBVIOUS
<1>0. /\ pos \in Nat /\ from \in Item /\ to \in Item /\ stack = << >> /\ paterr \in BOOLEAN
      /\ Pair \in 1..Len(call.lines) /\ Complete(call.lines[Pair]) /\ ~BadPair(Pair)
      /\ call \in Calls
  BY DEF PatInv, CoreInv, CoreTypes, WalkInv, ParsePattern, WalkPhases, Working, PairInWork
<1>1. /\ UNCHANGED <<call, mistakes, badreps, reps, cand, dirVars, from, to, pos,
                     paterr, patflags, delok>>
      /\ pc' = "enter" /\ stages' = StageVec(Src)
      /\ stack' = <<Call(<< >>, stages', 0, << >>)>>
  BY DEF ParsePattern, callVars, readVars, repVars
<1>2. pc' \in ScanPhases /\ pc' \notin Working
  BY <1>1 DEF ScanPhases, Working
<1>3. CoreInv' /\ FitInv' /\ PathFree' /\ Grows
  BY <1>0, <1>1, <1>2, WalkCore DEF PatInv
<1>4. SrcGood(Src)
  BY <1>0, PairFacts
<1>5. StagesOK(Src, stages')
  BY <1>1, <1>4, StagesHold
<1> PICK v : v = stages'
  OBVIOUS
<1> PICK f : f = Call(<< >>, v, 0, << >>)
  OBVIOUS
<1>6. PICK N \in Nat \ {0} :
        DOMAIN v = 0..N - 1 /\ v[0].wilds = 0 /\ \A n \in 0..N - 1 : StageOK(v[n])
  BY <1>5 DEF StagesOK
<1>7. 0 \in DOMAIN v /\ StageOK(v[0])
  BY <1>6
<1>8. << >> \o RawText(v[0].between) \in Spelling
  <2>1. Plainly(v[0].between) /\ << >> \in Seq(Char)
        /\ (v[0].between # << >> => v[0].between[Len(v[0].between)].t = "slash")
    BY <1>7, EmptySeq DEF StageOK
  <2>2. CASE v[0].between = << >>
    <3>1. RawText(v[0].between) = << >>
      BY <2>1, <2>2, RawChars
    <3>2. << >> \o << >> = << >>
      BY <2>1, ConcatEmptySeq
    <3> QED BY <3>1, <3>2, SpellingAssumption DEF NamesClosed
  <2>3. CASE v[0].between # << >>
    BY <2>1, <2>3, BetweenSpelled
  <2> QED BY <2>2, <2>3
<1>9. f \in Frame /\ f.stage = 0 /\ f.base = << >>
  <2>1. << >> \in Seq(Char) /\ << >> \in Seq(Seq(Char))
    BY EmptySeq
  <2> QED BY <1>8, <2>1 DEF Call, Frame
<1>10. Len(<< >>) = 0
  BY EmptySeq
<1>11. FramesOK'
  <2>1. stack' = <<f>>
    BY <1>1
  <2>2. <<f>> \in Seq(Frame) /\ Len(<<f>>) = 1 /\ <<f>>[1] = f
    BY <1>9
  <2>3. Staged(f)'
    BY <1>6, <1>7, <1>9, <1>10 DEF Staged
  <2> QED BY <1>1, <2>1, <2>2, <2>3 DEF FramesOK, Staged
<1>12. Pair' = Pair /\ Src' = Src /\ BadPair(Pair)' = BadPair(Pair)
  BY <1>1 DEF Pair, Src, SrcOf, BadPair, BadSrc, BadDst, DstOf
<1>13. PairInWork'
  BY <1>0, <1>1, <1>5, <1>12 DEF PairInWork
<1>14. stack' # << >>
  BY <1>1
<1>15. WalkInv'
  BY <1>1, <1>11, <1>13, <1>14 DEF PatInv, WalkInv, WalkPhases
<1> QED BY <1>3, <1>15 DEF PatInv
-----------------------------------------------------------------------------
(***************************************************************************)
(* The steps of the walk that take up no file.                             *)
(***************************************************************************)
\* What every step of the walk finds and leaves.
LEMMA WalkTypes ==
    ASSUME PatInv
    PROVE  /\ pos \in Nat /\ from \in Item /\ to \in Item /\ paterr \in BOOLEAN
           /\ patflags \in BOOLEAN /\ to.kind # "home" /\ FramesOK
           /\ CoreInv /\ FitInv /\ PathFree
BY DEF PatInv, CoreInv, CoreTypes, WalkInv

\* A step that opens no directory and takes up no file.
LEMMA WalkQuiet ==
    ASSUME PatInv, UNCHANGED <<call, readVars, dirVars, repVars, cand>>,
           paterr' \in BOOLEAN, pc' \in {"getpat", "enter", "walk", "quit"}
    PROVE  CoreInv' /\ FitInv' /\ PathFree' /\ Grows
<1>1. /\ UNCHANGED <<call, mistakes, badreps, reps, cand, dirVars, from, to, pos>>
      /\ pos' \in Nat /\ from' \in Item /\ to' \in Item
  BY WalkTypes DEF readVars, repVars
<1>2. pc' \in ScanPhases /\ pc' \notin Working
  BY DEF ScanPhases, Working
<1> QED BY <1>1, <1>2, WalkCore, WalkTypes

\* checkdir fails: the call returns.
LEMMA EnterNowhereKeeps == PatInv /\ EnterNowhere => PatInv'
<1> SUFFICES ASSUME PatInv, EnterNowhere PROVE PatInv'
  OBVIOUS
<1>1. /\ stack \in Seq(Frame) /\ stack # << >> /\ Top \in Frame
      /\ Top.path \in Spelling /\ Top.stage \in Nat
  BY TopFacts DEF EnterNowhere, Frame
<1>2. /\ UNCHANGED <<call, tried, readVars, repVars, cand, delok, stages>>
      /\ checkdir(Top.path)
  BY DEF EnterNowhere
<1> PICK r \in Nat : r = Top.stage
  BY <1>1
<1> PICK err \in BOOLEAN : err = (Top.stage = 0 \/ Found(Top.path) = H_NOREADDIR)
  OBVIOUS
<1>3. Leave(r, err)
  BY DEF EnterNowhere
<1>4. /\ pos' \in Nat /\ from' \in Item /\ to' \in Item /\ pos' = pos /\ to' = to
      /\ UNCHANGED <<call, mistakes, badreps, reps, cand>>
  BY <1>2, WalkTypes DEF readVars, repVars
<1>5. Grows
  BY <1>1, <1>2, DirsGrow, WalkTypes DEF FitInv
<1>6. /\ FramesOK' /\ paterr' \in BOOLEAN /\ patflags' \in BOOLEAN
      /\ \/ pc' = "walk" /\ stack' # << >>
         \/ pc' = "getpat" /\ stack' = << >>
  BY <1>1, <1>2, <1>3, <1>5, FramesPop, WalkTypes
<1>7. pc' \in ScanPhases /\ pc' \notin Working
  BY <1>6 DEF ScanPhases, Working
<1>8. CoreInv' /\ FitInv' /\ PathFree'
  BY <1>1, <1>2, <1>4, <1>6, <1>7, WalkCore, WalkTypes
<1>9. WalkInv'
  BY <1>2, <1>4, <1>5, <1>6, WalkingKeeps, WalkTypes DEF EnterNowhere, WalkPhases, Working
<1> QED BY <1>8, <1>9 DEF PatInv

\* checkdir succeeds: the call has its directory, and a place in it.
LEMMA EnterKeeps == PatInv /\ Enter => PatInv'
<1> SUFFICES ASSUME PatInv, Enter PROVE PatInv'
  OBVIOUS
<1>1. /\ stack \in Seq(Frame) /\ stack # << >> /\ Top \in Frame /\ Staged(Top)
      /\ Top.path \in Spelling /\ StageOK(stages[Top.stage]) /\ call \in Calls
  BY TopFacts DEF Enter, Frame
<1> PICK f : f = [Top EXCEPT !.any = @ \/ stages[Top.stage].semi]
  OBVIOUS
<1> PICK refuse \in BOOLEAN : refuse = (call.op \in MoveOps /\ ~dwritable(f.path))
  OBVIOUS
<1> PICK g : g = [f EXCEPT !.phase = IF refuse THEN "dirs" ELSE "files",
                 !.at = IF refuse THEN 0
                        ELSE ffirst(stages[f.stage].literal, Fils(f.path))]
  OBVIOUS
<1>2. f \in Frame /\ f.path = Top.path /\ f.stage = Top.stage /\ f.base = Top.base
  BY <1>1 DEF Frame, StageOK
<1>3. /\ Found(f.path) > 0 /\ checkdir(f.path) /\ SetTop(g) /\ pc' = "walk"
      /\ paterr' = (paterr \/ refuse)
      /\ UNCHANGED <<call, readVars, repVars, cand, patflags, delok, stages>>
  BY <1>2 DEF Enter, callVars
<1>4. /\ pos' \in Nat /\ from' \in Item /\ to' \in Item /\ pos' = pos /\ to' = to
      /\ paterr' \in BOOLEAN /\ UNCHANGED <<call, mistakes, badreps, reps, cand>>
  BY <1>3, WalkTypes DEF readVars, repVars
<1>5. Grows
  BY <1>1, <1>2, <1>3, DirsGrow, WalkTypes DEF FitInv
<1>6. /\ W.at[f.path] \in Inode /\ handle'[f.path] > 0
  BY <1>1, <1>2, <1>3, <1>4, CheckdirOpens, WalkTypes
<1>7. ffirst(stages[f.stage].literal, Fils(f.path)) \in 0..Cardinality(W.files[W.at[f.path]])
      /\ Cardinality(W.files[W.at[f.path]]) \in Nat
  <2>1. Fils(f.path) = call.fils[W.at[f.path]]
    BY DEF Fils
  <2>2. Sorted(Fils(f.path)) /\ Len(Fils(f.path)) = Cardinality(W.files[W.at[f.path]])
        /\ Len(Fils(f.path)) \in Nat
    BY <1>1, <1>6, <2>1, FilsSorted, FilsCounted
  <2>3. stages[f.stage].literal \in Seq(Char)
    BY <1>1, <1>2 DEF StageOK
  <2> QED BY <2>2, <2>3, FirstTyped
<1>8. g \in Frame /\ g.path = f.path /\ g.stage = f.stage /\ g.base = f.base
      /\ g.at \in 0..Cardinality(W.files[W.at[g.path]])
  <2>1. PICK ph \in {"files", "dirs"} : ph = IF refuse THEN "dirs" ELSE "files"
    OBVIOUS
  <2>2. PICK n : n = IF refuse THEN 0 ELSE ffirst(stages[f.stage].literal, Fils(f.path))
    OBVIOUS
  <2>3. n \in 0..Cardinality(W.files[W.at[f.path]])
    BY <1>7, <2>2
  <2>4. g = [f EXCEPT !.phase = ph, !.at = n] /\ n \in Nat
    BY <1>7, <2>1, <2>2, <2>3
  <2>5. g \in Frame /\ g.path = f.path /\ g.stage = f.stage /\ g.base = f.base /\ g.at = n
    BY <1>2, <2>4 DEF Frame
  <2> QED BY <2>3, <2>5
<1>9. Open(g)' /\ Staged(g)
  BY <1>1, <1>2, <1>4, <1>6, <1>8 DEF Open, Staged, W
<1>10. FramesOK' /\ stack' # << >>
  BY <1>1, <1>3, <1>5, <1>8, <1>9, FramesTop, WalkTypes
<1>11. pc' \in ScanPhases /\ pc' \notin Working
  BY <1>3 DEF ScanPhases, Working
<1>12. CoreInv' /\ FitInv' /\ PathFree'
  BY <1>1, <1>2, <1>3, <1>4, <1>11, WalkCore, WalkTypes
<1>13. patflags' \in BOOLEAN
  BY <1>3, WalkTypes
<1>14. WalkInv'
  BY <1>3, <1>4, <1>5, <1>10, <1>13, WalkingKeeps, WalkTypes DEF Enter, WalkPhases
<1> QED BY <1>12, <1>14 DEF PatInv

\* The place of the newest call in its directory, and the next one.
LEMMA PlaceFacts ==
    ASSUME PatInv, pc = "walk"
    PROVE  /\ W.at[Top.path] \in Inode /\ Top.path \in Spelling /\ handle[Top.path] > 0
           /\ Len(Names) \in Nat
           /\ Top.at < Len(Names) =>
                /\ Next1 \in Frame /\ Open(Next1) /\ Staged(Next1)
                /\ Next1 = [Top EXCEPT !.at = Top.at + 1]
                /\ File1 \in Simple /\ File1 \in W.files[W.at[Top.path]]
<1>1. /\ Top \in Frame /\ Staged(Top) /\ Open(Top) /\ call \in Calls
  BY TopFacts
<1>2. Top.path \in Spelling /\ Top.at \in Nat /\ handle[Top.path] > 0
  BY <1>1 DEF Frame, Open
<1>3. W.at[Top.path] \in Inode
  BY <1>2, WalkTypes DEF CoreInv, HandlesOpen
<1>4. Names = call.fils[W.at[Top.path]]
  BY DEF Names, Fils
<1>5. /\ Len(Names) = Cardinality(W.files[W.at[Top.path]]) /\ Len(Names) \in Nat
      /\ \A k \in 0..Len(Names) - 1 :
           Names[k + 1] \in Simple /\ Names[k + 1] \in W.files[W.at[Top.path]]
  BY <1>1, <1>3, <1>4, FilsCounted
<1>6. ASSUME Top.at < Len(Names)
      PROVE  /\ Next1 \in Frame /\ Open(Next1) /\ Staged(Next1)
             /\ Next1 = [Top EXCEPT !.at = Top.at + 1]
             /\ File1 \in Simple /\ File1 \in W.files[W.at[Top.path]]
  <2>1. Next1 = [Top EXCEPT !.at = Top.at + 1]
    BY DEF Next1
  <2>2. /\ Next1 \in Frame /\ Next1.path = Top.path /\ Next1.at = Top.at + 1
        /\ Next1.stage = Top.stage /\ Next1.base = Top.base
    <3>1. PICK n \in Nat : n = Top.at + 1
      BY <1>2
    <3>2. Next1 = [Top EXCEPT !.at = n]
      BY <2>1, <3>1
    <3> QED BY <1>1, <3>1, <3>2 DEF Frame
  <2>3. Open(Next1) /\ Staged(Next1)
    BY <1>1, <1>2, <1>5, <1>6, <2>2 DEF Open, Staged
  <2>4. Top.at \in 0..Len(Names) - 1
    BY <1>2, <1>5, <1>6
  <2> QED BY <1>5, <2>1, <2>2, <2>3, <2>4 DEF File1
<1> QED BY <1>2, <1>3, <1>5, <1>6

\* The newest call goes on in the same directory.
LEMMA GoesOn ==
    ASSUME PatInv, pc = "walk", pc' = "walk",
           NEW f \in Frame, Staged(f), Open(f), SetTop(f),
           UNCHANGED <<call, readVars, paterr, dirVars, repVars, cand, patflags, delok, stages>>
    PROVE  PatInv'
<1>1. CoreInv' /\ FitInv' /\ PathFree' /\ Grows
  BY WalkQuiet, WalkTypes
<1>2. stack # << >>
  BY TopFacts
<1>3. Open(f)'
  BY <1>1, OpenStays
<1>4. FramesOK' /\ stack' # << >>
  BY <1>1, <1>2, <1>3, FramesTop, WalkTypes
<1>5. pos' = pos /\ reps' = reps /\ to' = to /\ patflags' \in BOOLEAN
  BY WalkTypes DEF readVars, repVars
<1>6. WalkInv'
  BY <1>1, <1>4, <1>5, WalkingKeeps, WalkTypes DEF WalkPhases
<1> QED BY <1>1, <1>6 DEF PatInv

\* A name is passed over.
LEMMA PassKeeps == PatInv /\ (PassFile \/ PassDir) => PatInv'
<1> SUFFICES ASSUME PatInv, PassFile \/ PassDir PROVE PatInv'
  OBVIOUS
<1>1. pc = "walk" /\ Top.at < Len(Names) /\ SetTop(Next1) /\ pc' = "walk"
      /\ UNCHANGED <<call, readVars, paterr, dirVars, repVars, cand, patflags, delok, stages>>
  BY DEF PassFile, PassDir, InFiles, InDirs, callVars
<1>2. Next1 \in Frame /\ Open(Next1) /\ Staged(Next1)
  BY <1>1, PlaceFacts
<1> PICK f : f = Next1
  OBVIOUS
<1> QED BY <1>1, <1>2, GoesOn

\* The newest call returns.
LEMMA ReturnKeeps ==
    ASSUME PatInv, pc = "walk", Leave(Top.ret, FALSE),
           UNCHANGED <<call, readVars, dirVars, repVars, cand, delok, stages>>
    PROVE  PatInv'
<1>1. stack # << >> /\ Top \in Frame
  BY TopFacts
<1> PICK r : r = Top.ret
  OBVIOUS
<1>2. r \in Nat /\ Leave(r, FALSE)
  <2>1. Top.ret \in {0, 1}
    BY <1>1 DEF Frame
  <2>2. Leave(r, FALSE)
    BY Zenon
  <2>3. r \in Nat
    BY <2>1
  <2> QED BY <2>2, <2>3
<1>3. Grows
  BY DirsGrow, WalkTypes DEF FitInv
<1>4. /\ FramesOK' /\ paterr' \in BOOLEAN /\ patflags' \in BOOLEAN
      /\ \/ pc' = "walk" /\ stack' # << >>
         \/ pc' = "getpat" /\ stack' = << >>
  BY <1>1, <1>2, <1>3, FramesPop, WalkTypes
<1>5. CoreInv' /\ FitInv' /\ PathFree'
  BY <1>4, WalkQuiet
<1>6. pos' = pos /\ reps' = reps /\ to' = to
  BY DEF readVars, repVars
<1>7. WalkInv'
  BY <1>3, <1>4, <1>6, WalkingKeeps, WalkTypes DEF WalkPhases, Working
<1> QED BY <1>5, <1>7 DEF PatInv

\* The end of the second loop.
LEMMA DirsDoneKeeps == PatInv /\ DirsDone => PatInv'
BY ReturnKeeps DEF DirsDone

\* The end of the first loop: a ";" goes on to the second.
LEMMA FilesDoneKeeps == PatInv /\ FilesDone => PatInv'
<1> SUFFICES ASSUME PatInv, FilesDone PROVE PatInv'
  OBVIOUS
<1>1. pc = "walk" /\ UNCHANGED <<call, readVars, dirVars, repVars, cand, delok, stages>>
  BY DEF FilesDone
<1>2. CASE Top.any
  <2> PICK f : f = [Top EXCEPT !.phase = "dirs", !.at = 0]
    OBVIOUS
  <2>1. SetTop(f) /\ UNCHANGED <<pc, paterr, unmatched, patflags>>
    BY <1>2 DEF FilesDone
  <2>2. Top \in Frame /\ Staged(Top) /\ Open(Top)
    BY <1>1, TopFacts
  <2>3. Cardinality(W.files[W.at[Top.path]]) \in Nat
    <3>1. W.at[Top.path] \in Inode /\ call \in Calls
      BY <1>1, PlaceFacts, TopFacts
    <3> QED BY <3>1, FilsCounted
  <2>4. /\ f \in Frame /\ f.path = Top.path /\ f.at = 0 /\ f.stage = Top.stage
        /\ f.base = Top.base
    BY <2>2 DEF Frame
  <2>5. Open(f) /\ Staged(f)
    BY <2>2, <2>3, <2>4 DEF Open, Staged
  <2> QED BY <1>1, <2>1, <2>4, <2>5, GoesOn
<1>3. CASE ~Top.any
  BY <1>1, <1>3, ReturnKeeps DEF FilesDone
<1> QED BY <1>2, <1>3

\* getstat fails: the program ends.
LEMMA StatFailsKeeps == PatInv /\ StatFails => PatInv'
<1> SUFFICES ASSUME PatInv, StatFails PROVE PatInv'
  OBVIOUS
<1>1. /\ pc = "walk" /\ pc' = "quit" /\ stack' = stack /\ stages' = stages
      /\ UNCHANGED <<call, readVars, paterr, dirVars, repVars, cand, patflags, delok>>
  BY DEF StatFails, InFiles, InDirs, callVars, patVars
<1>2. CoreInv' /\ FitInv' /\ PathFree' /\ Grows
  BY <1>1, WalkQuiet, WalkTypes
<1>3. stack # << >>
  BY <1>1, TopFacts
<1>4. FramesOK'
  BY <1>1, <1>2, FramesSame, WalkTypes
<1>5. pos' = pos /\ reps' = reps /\ to' = to /\ patflags' \in BOOLEAN
  BY <1>1, WalkTypes DEF readVars, repVars
<1>6. WalkInv'
  BY <1>1, <1>2, <1>3, <1>4, <1>5, WalkingKeeps, WalkTypes DEF WalkPhases
<1> QED BY <1>2, <1>6 DEF PatInv
-----------------------------------------------------------------------------
(***************************************************************************)
(* The steps that match.                                                   *)
(***************************************************************************)
\* What trymatch and match return: the texts of the stage's wildcards.
LEMMA MatchedTyped ==
    ASSUME NEW f, NEW s \in Seq(Char), StageOK(stages[f.stage]), NEW t \in Matched(f, s)
    PROVE  /\ t \in Seq(Seq(Char)) /\ ~HasRep(<<handle[f.path], s>>)
           /\ Len(t) = NWilds(stages[f.stage].glob, 1, Len(stages[f.stage].glob))
<1> DEFINE g == stages[f.stage]
           u == SubSeq(s, Len(g.literal) + 1, Len(s))
<1>1. g.literal \in Seq(Char) /\ g.glob \in Seq(Token)
      /\ ((\A k \in 1..Len(g.rest) : ~Wild(g.rest[k])) =>
            (\A k \in 1..Len(g.glob) : ~Wild(g.glob[k])))
  BY DEF StageOK
<1>2. /\ ~HasRep(<<handle[f.path], s>>)
      /\ \/ t = << >> /\ g.rest = [k \in DOMAIN s |-> Char1(s[k])]
         \/ t \in match(g.glob, u)
  BY Zenon DEF Matched
<1>3. u \in Seq(Char)
  <2>1. Len(s) \in Nat /\ Len(g.literal) \in Nat
    BY <1>1, LenProperties
  <2>2. \A k \in Len(g.literal) + 1..Len(s) : s[k] \in Char
    BY <2>1, ElementOfSeq
  <2> QED BY <2>1, <2>2, SubSeqProperties
<1> HIDE DEF g, u
<1>4. CASE t = << >> /\ g.rest = [k \in DOMAIN s |-> Char1(s[k])]
  <2> PICK n \in Nat : n = Len(s)
    BY LenProperties
  <2> PICK q : q = g.rest
    OBVIOUS
  <2>1. q = [k \in 1..n |-> Char1(s[k])]
    BY <1>4, LenProperties
  <2>2. Len(q) = n /\ \A k \in 1..n : q[k].t = "char"
    BY <2>1 DEF Char1
  <2>3. \A k \in 1..Len(q) : ~Wild(q[k])
    BY <2>2 DEF Wild
  <2>4. \A k \in 1..Len(g.glob) : ~Wild(g.glob[k])
    BY <1>1, <2>3 DEF g
  <2>5. NWilds(g.glob, 1, Len(g.glob)) = 0
    <3>1. Len(g.glob) \in Int /\ 1 \in Int
      BY <1>1, LenProperties DEF g
    <3> QED BY <2>4, <3>1, WildsNone
  <2>6. t \in Seq(Seq(Char)) /\ Len(t) = 0
    BY <1>4, EmptySeq
  <2> QED BY <1>2, <2>5, <2>6 DEF g
<1>5. CASE t \in match(g.glob, u)
  <2>1. t \in Seq(Seq(Char)) /\ Len(t) = NWilds(g.glob, 1, Len(g.glob))
    BY <1>1, <1>3, <1>5, MatchTyped DEF g
  <2> QED BY <1>2, <2>1 DEF g
<1> QED BY <1>2, <1>4, <1>5 DEF g

\* The texts caught up to a stage are those of all wildcards up to it.
LEMMA TextsTyped ==
    ASSUME PatInv, pc = "walk", NEW t \in Seq(Seq(Char)),
           Len(t) = NWilds(stages[Top.stage].glob, 1, Len(stages[Top.stage].glob))
    PROVE  /\ Texts(t) \in Seq(Seq(Char))
           /\ Len(Texts(t)) = Caughts(stages[Top.stage])
<1> DEFINE g == stages[Top.stage]
           m == IF g.semi THEN <<Top.semi>> ELSE << >>
<1>1. /\ Top \in Frame /\ Len(Top.base) = g.wilds /\ StageOK(g)
  BY TopFacts DEF Staged
<1>2. Top.base \in Seq(Seq(Char)) /\ Top.semi \in Seq(Char) /\ g.wilds \in Nat
      /\ g.semi \in BOOLEAN
  BY <1>1 DEF Frame, StageOK
<1>3. m \in Seq(Seq(Char)) /\ Len(m) = IF g.semi THEN 1 ELSE 0
  <2>1. CASE g.semi
    BY <1>2, <2>1
  <2>2. CASE ~g.semi
    BY <2>2, EmptySeq
  <2> QED BY <2>1, <2>2
<1>4. Texts(t) = (Top.base \o m) \o t
  BY DEF Texts
<1> HIDE DEF m, g
<1>5. Top.base \o m \in Seq(Seq(Char)) /\ Len(Top.base \o m) = Len(Top.base) + Len(m)
  BY <1>2, <1>3, ConcatProperties
<1> DEFINE b == Top.base \o m
<1> HIDE DEF b
<1>6. b \o t \in Seq(Seq(Char)) /\ Len(b \o t) = Len(b) + Len(t)
  BY <1>5, ConcatProperties DEF b
<1>7. Len(b \o t) = g.wilds + (IF g.semi THEN 1 ELSE 0) + NWilds(g.glob, 1, Len(g.glob))
  BY <1>1, <1>3, <1>5, <1>6 DEF b, g
<1> QED BY <1>4, <1>6, <1>7 DEF b, g, Caughts

\* The newest call calls another one, for a directory at its place.
LEMMA CallsKeep ==
    ASSUME PatInv, pc = "walk", Top.at < Len(Names), pc' = "enter",
           UNCHANGED <<call, readVars, paterr, dirVars, repVars, cand, patflags, delok, stages>>,
           NEW h \in Frame, Staged(h), stack' = Front(stack) \o <<Next1, h>>
    PROVE  PatInv'
<1>1. CoreInv' /\ FitInv' /\ PathFree' /\ Grows
  BY WalkQuiet, WalkTypes
<1>2. stack # << >> /\ Next1 \in Frame /\ Open(Next1) /\ Staged(Next1)
  BY TopFacts, PlaceFacts
<1> PICK f : f = Next1
  OBVIOUS
<1>3. Open(f)' /\ Staged(f) /\ f \in Frame
  BY <1>1, <1>2, OpenStays
<1>4. stack' = Front(stack) \o <<f, h>>
  OBVIOUS
<1>5. FramesOK' /\ stack' # << >>
  BY <1>1, <1>2, <1>3, <1>4, FramesPush, WalkTypes
<1>6. pos' = pos /\ reps' = reps /\ to' = to /\ patflags' \in BOOLEAN
  BY WalkTypes DEF readVars, repVars
<1>7. WalkInv'
  BY <1>1, <1>5, <1>6, WalkingKeeps, WalkTypes DEF WalkPhases
<1> QED BY <1>1, <1>7 DEF PatInv

\* Names and paths are strings.
LEMMA NamesChars ==
    ASSUME PatInv, pc = "walk", Top.at < Len(Names)
    PROVE  /\ Top.path \in Seq(Char) /\ File1 \in Seq(Char)
           /\ Top.path \o File1 \in Seq(Char)
<1>1. Top.path \in Spelling /\ File1 \in Simple
  BY PlaceFacts
<1>2. Top.path \in Seq(Char) /\ File1 \in Seq(Char)
  BY <1>1, PatternAssumption
<1> QED BY <1>2, ConcatProperties

\* The recursion of a ";".
LEMMA GoBelowKeeps == NamesClosed /\ PatInv /\ GoBelow => PatInv'
<1> SUFFICES ASSUME NamesClosed, PatInv, GoBelow PROVE PatInv'
  OBVIOUS
<1>1. /\ pc = "walk" /\ Top.at < Len(Names) /\ pc' = "enter"
      /\ UNCHANGED <<call, readVars, paterr, dirVars, repVars, cand, patflags, delok, stages>>
      /\ stack' = Front(stack) \o <<Next1, CallBelow(Top, File1)>>
  BY DEF GoBelow, InDirs, callVars
<1>2. /\ Top \in Frame /\ Staged(Top) /\ File1 \in Seq(Char)
      /\ Top.path \o File1 \in Seq(Char)
  BY <1>1, TopFacts, NamesChars
<1> PICK h : h = CallBelow(Top, File1)
  OBVIOUS
<1> DEFINE e == <<Slash>>
<1>3. e \in Seq(Char) /\ e # << >> /\ e[Len(e)] = Slash
  BY DEF NamesClosed
<1> PICK p : p = Top.path \o File1 \o e
  OBVIOUS
<1> PICK q : q = Top.semi \o File1 \o e
  OBVIOUS
<1>4. h = [Top EXCEPT !.path = p, !.semi = q, !.phase = "files", !.at = 0, !.ret = 1]
  BY DEF CallBelow
<1> HIDE DEF e
<1>5. p \in Spelling
  BY <1>2, <1>3, Spelled
<1>6. q \in Seq(Char)
  <2>1. Top.semi \in Seq(Char)
    BY <1>2 DEF Frame
  <2>2. Top.semi \o File1 \in Seq(Char)
    BY <1>2, <2>1, ConcatProperties
  <2> QED BY <1>3, <2>2, ConcatProperties
<1>7. h \in Frame /\ h.stage = Top.stage /\ h.base = Top.base
  <2>1. PICK f \in Frame : f = Top
    BY <1>2
  <2>2. h = [path |-> p, stage |-> f.stage, any |-> f.any, base |-> f.base, semi |-> q,
             phase |-> "files", at |-> 0, ret |-> 1]
    BY <1>4, <2>1 DEF Frame
  <2>3. f.stage \in Nat /\ f.any \in BOOLEAN /\ f.base \in Seq(Seq(Char))
    BY <2>1 DEF Frame
  <2> QED BY <1>5, <1>6, <2>1, <2>2, <2>3 DEF Frame
<1>8. Staged(h)
  BY <1>2, <1>7 DEF Staged
<1> QED BY <1>1, <1>7, <1>8, CallsKeep

\* A directory matches, and the next stage is for what is in it.
LEMMA NextStageKeeps == NamesClosed /\ PatInv /\ NextStage => PatInv'
<1> SUFFICES ASSUME NamesClosed, PatInv, NextStage PROVE PatInv'
  OBVIOUS
<1>1. /\ pc = "walk" /\ Top.at < Len(Names) /\ pc' = "enter"
      /\ UNCHANGED <<call, readVars, paterr, dirVars, repVars, cand, patflags, delok, stages>>
      /\ Top.stage + 1 \in DOMAIN stages
  BY DEF NextStage, InFiles, callVars, LastStage
<1>2. PICK t \in Matched(Top, File1) :
        stack' = Front(stack) \o
                 <<Next1, Call(Top.path \o File1, stages, Top.stage + 1, Texts(t))>>
  BY DEF NextStage
<1>3. /\ Top \in Frame /\ Staged(Top) /\ File1 \in Seq(Char) /\ StageOK(stages[Top.stage])
      /\ Top.path \o File1 \in Seq(Char) /\ StagesOK(Src, stages)
  BY <1>1, TopFacts, NamesChars
<1>4. t \in Seq(Seq(Char))
      /\ Len(t) = NWilds(stages[Top.stage].glob, 1, Len(stages[Top.stage].glob))
  BY <1>2, <1>3, MatchedTyped
<1>5. Texts(t) \in Seq(Seq(Char)) /\ Len(Texts(t)) = Caughts(stages[Top.stage])
  BY <1>1, <1>4, TextsTyped
<1> PICK n \in Nat : n = Top.stage
  BY <1>3 DEF Frame
<1> PICK h : h = Call(Top.path \o File1, stages, n + 1, Texts(t))
  OBVIOUS
<1>6. /\ n \in DOMAIN stages /\ n + 1 \in DOMAIN stages
      /\ StageOK(stages[n + 1]) /\ stages[n + 1].between # << >>
      /\ Caughts(stages[n]) = stages[n + 1].wilds
  <2>1. PICK N \in Nat \ {0} :
          /\ DOMAIN stages = 0..N - 1
          /\ \A k \in 0..N - 1 :
               /\ StageOK(stages[k])
               /\ k # 0 => stages[k].between # << >>
               /\ k + 1 \in 0..N - 1 => Caughts(stages[k]) = stages[k + 1].wilds
    BY <1>3 DEF StagesOK
  <2>2. n \in 0..N - 1 /\ n + 1 \in 0..N - 1
    BY <1>1, <1>3, <2>1 DEF Staged
  <2> QED BY <2>1, <2>2
<1>7. Top.path \o File1 \o RawText(stages[n + 1].between) \in Spelling
  BY <1>3, <1>6, BetweenSpelled DEF StageOK
<1>8. h \in Frame /\ h.stage = n + 1 /\ h.base = Texts(t)
  <2>1. << >> \in Seq(Char) /\ n + 1 \in Nat
    BY EmptySeq
  <2> QED BY <1>5, <1>7, <2>1 DEF Call, Frame
<1>9. Staged(h)
  BY <1>5, <1>6, <1>8 DEF Staged
<1>10. stack' = Front(stack) \o <<Next1, h>>
  BY <1>2
<1> QED BY <1>1, <1>8, <1>9, <1>10, CallsKeep

\* A file matches the whole pattern: its new name can be made, and it has no REP.
LEMMA TakeFileKeeps == NamesClosed /\ PatInv /\ TakeFile => PatInv'
<1> SUFFICES ASSUME NamesClosed, PatInv, TakeFile PROVE PatInv'
  OBVIOUS
<1>1. /\ pc = "walk" /\ Top.at < Len(Names) /\ pc' = "source"
      /\ UNCHANGED <<call, pos, paterr, dirVars, repVars, cand, patflags, delok, stages>>
      /\ Top.stage + 1 \notin DOMAIN stages /\ SetTop([Next1 EXCEPT !.ret = 0])
      /\ from' = [kind |-> "path", dir |-> Top.path, name |-> File1]
  BY DEF TakeFile, InFiles, callVars, LastStage
<1>2. PICK t \in Matched(Top, File1) : to' = makerep(Texts(t))
  BY DEF TakeFile
<1>3. /\ Top \in Frame /\ Staged(Top) /\ File1 \in Seq(Char) /\ StageOK(stages[Top.stage])
      /\ StagesOK(Src, stages) /\ stack # << >>
  BY <1>1, TopFacts, NamesChars
<1>4. t \in Seq(Seq(Char)) /\ ~HasRep(<<handle[Top.path], File1>>)
      /\ Len(t) = NWilds(stages[Top.stage].glob, 1, Len(stages[Top.stage].glob))
  BY <1>2, <1>3, MatchedTyped
<1>5. Texts(t) \in Seq(Seq(Char)) /\ Len(Texts(t)) = Caughts(stages[Top.stage])
  BY <1>1, <1>4, TextsTyped
<1>6. Caughts(stages[Top.stage]) = NWilds(Src, 1, Len(Src))
  <2>1. PICK N \in Nat \ {0} :
          /\ DOMAIN stages = 0..N - 1
          /\ \A k \in 0..N - 1 :
               k + 1 \notin 0..N - 1 => Caughts(stages[k]) = NWilds(Src, 1, Len(Src))
    BY <1>3 DEF StagesOK
  <2> QED BY <1>1, <1>3, <2>1 DEF Staged
<1>7. TextsOK(Texts(t))
  <2>1. /\ SrcGood(Src) /\ Dst \in Seq(Token)
        /\ \A k \in DOMAIN Dst : Dst[k].t = "ref" => Dst[k].n <= NWilds(Src, 1, Len(Src))
    BY <1>1, TopFacts
  <2> QED BY <1>5, <1>6, <2>1 DEF TextsOK
<1>8. to' \in Item /\ to'.kind # "home"
  BY <1>2, <1>7, MakerepTyped
<1>9. /\ Top.path \in Spelling /\ handle[Top.path] > 0
      /\ Next1 \in Frame /\ Open(Next1) /\ Staged(Next1)
      /\ File1 \in Simple /\ File1 \in W.files[W.at[Top.path]]
  BY <1>1, PlaceFacts
<1>10. from' \in Item /\ from'.dir = Top.path /\ from'.name = File1
  BY <1>1, <1>9 DEF Item
<1>11. UNCHANGED <<mistakes, badreps, reps, handle, dirs, call>>
  BY <1>1 DEF repVars, dirVars, TakeFile, callVars
<1>12. /\ handle'[from'.dir] > 0 /\ from'.name \in Simple
       /\ from'.name \in W.files[W.at[from'.dir]] /\ ~HasRep(ffrom)'
  BY <1>4, <1>9, <1>10, <1>11 DEF HasRep, ffrom
<1>13. pc' \in ScanPhases /\ pos' \in Nat /\ paterr' \in BOOLEAN
  BY <1>1, WalkTypes DEF ScanPhases
<1>14. CoreInv' /\ FitInv' /\ PathFree' /\ Grows
  BY <1>1, <1>8, <1>10, <1>11, <1>12, <1>13, WalkCore, WalkTypes
<1> PICK f : f = [Next1 EXCEPT !.ret = 0]
  OBVIOUS
<1>15. /\ f \in Frame /\ f.path = Next1.path /\ f.at = Next1.at /\ f.stage = Next1.stage
       /\ f.base = Next1.base
  BY <1>9 DEF Frame
<1>16. Open(f) /\ Staged(f)
  BY <1>9, <1>15 DEF Open, Staged
<1>17. FramesOK' /\ stack' # << >>
  <2>1. Open(f)'
    BY <1>14, <1>15, <1>16, OpenStays
  <2> QED BY <1>1, <1>3, <1>14, <1>15, <1>16, <2>1, FramesTop, WalkTypes
<1>18. WalkInv'
  BY <1>1, <1>8, <1>11, <1>14, <1>17, WalkingKeeps, WalkTypes DEF WalkPhases, Working
<1> QED BY <1>14, <1>18 DEF PatInv

-----------------------------------------------------------------------------
(***************************************************************************)
(* badrep and checkto, whose steps are those of MmvScanProofs.             *)
(***************************************************************************)
\* What badrep and checkto do is done for patterns as for pairs.
LEMMA DecidesKeep ==
    ASSUME NamesClosed, PatInv, Deciding, stack' = stack, stages' = stages,
           patflags' = patflags, delok' \subseteq DOMAIN reps'
    PROVE  PatInv'
<1>0. CoreInv /\ FitInv /\ PathFree /\ to \in Item /\ FramesOK
  BY WalkTypes
<1>1. /\ pc \in Working
      /\ pc' \in Working \cup {"quit", "error", "execute", "walk", "from"}
      /\ pc' \in {"error", "execute", "walk", "from"} => Return(paterr)
      /\ pc' = "inside" => CheckTo
      /\ reps' = reps \/ KeepRep
      /\ UNCHANGED <<call, pos, from, to, paterr, tried, unmatched>>
  BY DecidingLeaves
<1>2. call.reader = "pat"
  BY DEF PatInv, WalkInv
<1>3. pc' \in Working \cup {"quit", "walk"}
  BY <1>1, <1>2 DEF Return, Working
<1>4. pc' = "inside" => <<to.dir, to.name>> \in DOMAIN Below
  <2>1. ASSUME pc' = "inside" PROVE to.name # Empty
    BY <1>1, <2>1 DEF CheckTo, Take
  <2>2. to.dir \in Spelling /\ to.name \in Simple \cup {Empty}
    BY <1>0 DEF Item
  <2> QED BY <2>1, <2>2 DEF NamesClosed
<1>5. CoreInv'
  BY <1>0, <1>4, DecidingKeeps
<1>6. FitInv'
  BY <1>0, <1>5, DecidingFits
<1>7. Grows
  <2>1. UNCHANGED dirVars \/ \E s \in Spelling : checkdir(s)
    BY <1>0, DecidingGrows
  <2> QED BY <1>0, <1>1, <2>1, DirsGrow DEF FitInv
<1>8. PathFree'
  <2>1. CASE reps' = reps
    BY <1>0, <2>1 DEF PathFree
  <2>2. CASE KeepRep
    <3> DEFINE r == [pair |-> Pair, hfrom |-> from.dir, ffrom |-> ffrom,
                     to |-> cand, isx |-> IsX]
    <3>1. pc = "verdict" /\ reps' = Append(reps, r) /\ r.to = cand
      BY <2>2 DEF KeepRep
    <3>2. ~cand.path
      BY <1>0, <3>1 DEF FitInv, AtWorkFits, PatInv, WalkInv
    <3> HIDE DEF r
    <3>3. Range(reps') \subseteq Range(reps) \cup {r}
      BY <1>0, <3>1 DEF Range, CoreInv, CoreTypes
    <3> QED BY <1>0, <3>1, <3>2, <3>3 DEF PathFree
  <2> QED BY <1>1, <2>1, <2>2
<1>9. FramesOK'
  BY <1>0, <1>1, <1>7, FramesSame DEF Working
<1>10. Pair' = Pair /\ Src' = Src /\ BadPair(Pair)' = BadPair(Pair)
  BY <1>1 DEF Pair, Src, SrcOf, BadPair, BadSrc, BadDst, DstOf
<1>11. PairInWork'
  BY <1>1, <1>10 DEF PairInWork, PatInv, WalkInv, WalkPhases
<1>12. WalkInv'
  BY <1>1, <1>2, <1>3, <1>9, <1>11 DEF PatInv, WalkInv, WalkPhases
<1> QED BY <1>5, <1>6, <1>8, <1>12 DEF PatInv

\* A refusal, or one more step towards the verdict.
LEMMA VerdictKeeps == NamesClosed /\ PatInv /\ Verdict /\ UNCHANGED patVars => PatInv'
<1> SUFFICES ASSUME NamesClosed, PatInv, Verdict, UNCHANGED patVars PROVE PatInv'
  OBVIOUS
<1>1. Deciding /\ stack' = stack /\ stages' = stages /\ patflags' = patflags
      /\ delok' = delok
  BY DEF Deciding, Verdict, patVars
<1>2. reps' = reps
  BY DEF Verdict, SourceBad, SourceGood, CheckToDirmove, CheckTo, CheckInside, TargetBad,
         RefuseSource, repVars
<1>3. delok' \subseteq DOMAIN reps'
  BY <1>1, <1>2 DEF PatInv, WalkInv
<1> QED BY <1>1, <1>3, DecidesKeep

\* A REP, with R_DELOK if the line has it.
LEMMA PatKeepRepKeeps == NamesClosed /\ PatInv /\ PatKeepRep => PatInv'
<1> SUFFICES ASSUME NamesClosed, PatInv, PatKeepRep PROVE PatInv'
  OBVIOUS
<1>1. Deciding /\ UNCHANGED <<patflags, stages, stack>> /\ KeepRep
  BY DEF Deciding, PatKeepRep
<1>2. delok' \subseteq DOMAIN reps'
  <2>1. reps \in Seq(RepRec) /\ delok \subseteq DOMAIN reps
    BY DEF PatInv, WalkInv, CoreInv, CoreTypes
  <2>2. PICK r : reps' = Append(reps, r)
    BY <1>1 DEF KeepRep
  <2>3. Len(reps) \in Nat /\ DOMAIN reps = 1..Len(reps)
    BY <2>1, LenProperties
  <2>4. DOMAIN reps' = 1..Len(reps) + 1 /\ Len(reps') = Len(reps) + 1
    BY <2>1, <2>2, <2>3
  <2> QED BY <2>1, <2>3, <2>4 DEF PatKeepRep
<1> QED BY <1>1, <1>2, DecidesKeep
-----------------------------------------------------------------------------
(***************************************************************************)
(* The theorems.                                                           *)
(***************************************************************************)
\* At first no line has been read, and nothing is open.
LEMMA PatInitInv == PatInit => PatInv
<1> SUFFICES ASSUME PatInit PROVE PatInv
  OBVIOUS
<1>1. ScanInit /\ patflags = FALSE /\ delok = {} /\ stages = << >> /\ stack = << >>
  BY DEF PatInit
<1>2. CoreInv /\ FitInv
  BY <1>1, ScanInitCore, FitInit
<1>3. PathFree
  BY <1>1 DEF ScanInit, PathFree, Range
<1>4. PatCallOK(call)
  BY <1>1, PatternAssumption DEF ScanInit
<1>5. call.reader = "pat" /\ pc = "getpat" /\ to.kind # "home"
  BY <1>1, <1>4 DEF ScanInit, PatCallOK, NoWord
<1>6. FramesOK
  <2>1. Len(<< >>) = 0 /\ << >> \in Seq(Frame)
    BY EmptySeq
  <2> QED BY <1>1, <2>1 DEF FramesOK
<1>7. WalkInv
  BY <1>1, <1>5, <1>6 DEF WalkInv, PairInWork, WalkPhases, Working
<1> QED BY <1>2, <1>3, <1>7 DEF PatInv

\* Every step keeps the invariant.
LEMMA PatStepKeeps == NamesClosed /\ PatInv /\ [PatNext]_allVars => PatInv'
<1> SUFFICES ASSUME NamesClosed, PatInv, [PatNext]_allVars PROVE PatInv'
  OBVIOUS
<1>1. CASE GetLine \/ GetArgs \/ GetEof
  BY <1>1, GetKeeps
<1>2. CASE PatternError
  BY <1>2, PatternErrorKeeps
<1>3. CASE ParsePattern
  BY <1>3, ParsePatternKeeps
<1>4. CASE EnterNowhere
  BY <1>4, EnterNowhereKeeps
<1>5. CASE Enter
  BY <1>5, EnterKeeps
<1>6. CASE StatFails
  BY <1>6, StatFailsKeeps
<1>7. CASE PassFile \/ PassDir
  BY <1>7, PassKeeps
<1>8. CASE NextStage
  BY <1>8, NextStageKeeps
<1>9. CASE TakeFile
  BY <1>9, TakeFileKeeps
<1>10. CASE FilesDone
  BY <1>10, FilesDoneKeeps
<1>11. CASE GoBelow
  BY <1>11, GoBelowKeeps
<1>12. CASE DirsDone
  BY <1>12, DirsDoneKeeps
<1>13. CASE Verdict /\ UNCHANGED patVars
  BY <1>13, VerdictKeeps
<1>14. CASE PatKeepRep
  BY <1>14, PatKeepRepKeeps
<1>15. CASE UNCHANGED allVars
  <2>1. /\ UNCHANGED <<call, readVars, dirVars, repVars, cand, paterr, from, to, pos, pc,
                       mistakes, badreps, reps, handle, dirs>>
        /\ UNCHANGED <<patflags, delok, stages, stack>>
    BY <1>15 DEF allVars, scanVars, patVars, readVars, dirVars, repVars
  <2>2. CoreInv'
    BY <2>1 DEF PatInv, CoreInv, CoreTypes, HandlesOpen, OneRepEach, AtWork, HasRep, ffrom,
           IsDir, Working, W
  <2>3. FitInv'
    BY <2>1 DEF PatInv, FitInv, DirsLed, AtWorkFits, There, RepFits, FdelRight,
           fsearch, Place, MvTarget, IsDir, Working, W
  <2>4. PathFree'
    BY <2>1 DEF PatInv, PathFree
  <2>5. FramesOK'
    BY <2>1 DEF PatInv, WalkInv, FramesOK, Staged, Open, W
  <2>6. Pair' = Pair /\ Src' = Src /\ BadPair(Pair)' = BadPair(Pair)
    BY <2>1 DEF Pair, Src, SrcOf, BadPair, BadSrc, BadDst, DstOf
  <2>7. PairInWork'
    BY <2>1, <2>6 DEF PatInv, WalkInv, PairInWork
  <2>8. WalkInv'
    BY <2>1, <2>5, <2>7 DEF PatInv, WalkInv
  <2> QED BY <2>2, <2>3, <2>4, <2>8 DEF PatInv
<1> QED BY <1>1, <1>2, <1>3, <1>4, <1>5, <1>6, <1>7, <1>8, <1>9, <1>10, <1>11, <1>12, <1>13,
           <1>14, <1>15 DEF PatNext

\* PatInv holds of every run of a pattern program, in a world with all names.
LEMMA PatKept ==
    ASSUME NamesClosed
    PROVE  PatSpec => []PatInv
<1>1. PatInv /\ [PatNext]_allVars => PatInv'
  BY PatStepKeeps
<1> QED BY <1>1, PatInitInv, PTL DEF PatSpec

\* The types of a pattern program, whatever its patterns and directories are: a call
\* of dostage_patterns has one text for each wildcard in front of its stage, and every
\* call that is open but the newest has its directory, with its place in it.
THEOREM PatTypeCorrect ==
    ASSUME NamesClosed
    PROVE  PatSpec => []PatTypeOK
<1>1. PatInv => PatTypeOK
  <2> SUFFICES ASSUME PatInv PROVE PatTypeOK
    OBVIOUS
  <2>1. /\ pc \in ScanPhases /\ patflags \in BOOLEAN /\ delok \subseteq DOMAIN reps
        /\ pc \in {"enter", "walk"} => stack # << >>
    BY DEF PatInv, CoreInv, CoreTypes, WalkInv, WalkPhases
  <2>2. stack \in Seq(Frame) /\ DOMAIN stack = 1..Len(stack)
    BY LenProperties DEF PatInv, WalkInv, FramesOK
  <2>3. ASSUME NEW i \in 1..Len(stack)
        PROVE  /\ stack[i].path \in Spelling /\ stack[i].stage \in DOMAIN stages
               /\ stack[i].ret \in {0, 1} /\ stack[i].phase \in {"files", "dirs"}
               /\ Len(stack[i].base) = stages[stack[i].stage].wilds
               /\ i < Len(stack) \/ pc # "enter" =>
                    /\ handle[stack[i].path] > 0
                    /\ stack[i].at \in 0..Cardinality(W.files[W.at[stack[i].path]])
    <3>1. stack[i] \in Frame
      BY <2>2, ElementOfSeq
    <3>2. /\ Staged(stack[i])
          /\ i < Len(stack) \/ pc # "enter" => Open(stack[i])
      BY DEF PatInv, WalkInv, FramesOK
    <3> QED BY <3>1, <3>2 DEF Frame, Staged, Open
  <2> QED BY <2>1, <2>2, <2>3 DEF PatTypeOK
<1>2. PatSpec => []PatInv
  BY PatKept
<1> QED BY <1>1, <1>2, PTL

\* What mmv_execute relies on when the pattern programs call it: what dostage_patterns
\* gives badrep is in an open directory, has no REP yet, and makerep has made a name
\* for it.  As for ScanHandsOver, the spellings of a directory must have one DIRINFO;
\* nothing need be said of names after -r, for no new name begins with the home.
THEOREM PatHandsOver ==
    ASSUME NamesClosed
    PROVE  PatSpec => [](SpellingsShare => HandsOver)
<1>1. PatInv => (SpellingsShare => HandsOver)
  BY JobFits, StoreFits DEF HandsOver, PatInv
<1>2. PatSpec => []PatInv
  BY PatKept
<1> QED BY <1>1, <1>2, PTL
=============================================================================
