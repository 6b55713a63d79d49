---------------------------- MODULE NumberLemmas ----------------------------
(***************************************************************************)
(* Lemmas about numbers that the other proofs cite.                        *)
(*                                                                         *)
(* Induction and recursion over the natural numbers, stated about sets and *)
(* functions rather than about operators, so that they can be instantiated *)
(* anywhere: a set that contains 0 and the successor of each of its        *)
(* elements contains every number, and a function given by its first value *)
(* and a step exists.  Division with remainder.  Sequences that are given  *)
(* element by element and grow at their end.                               *)
(***************************************************************************)
EXTENDS Integers, Sequences, SequenceTheorems, FiniteSetTheorems,
        WellFoundedInduction, TLAPS

(* A set of numbers that is not empty has a smallest element.              *)
LEMMA Least ==
  ASSUME NEW T \in SUBSET Nat, NEW n \in T
  PROVE  \E m \in T : \A k \in T : m <= k
<1> DEFINE R == {p \in Nat \X Nat : p[1] < p[2]}
<1>1. IsWellFoundedOn(R, Nat)
  BY NatLessThanWellFounded DEF OpToRel
<1>2. PICK m \in T : \A k \in T : ~ (<<k, m>> \in R)
  BY <1>1, WFMin
<1>3. ASSUME NEW k \in T
      PROVE  m <= k
  <2>1. ~ (<<k, m>> \in R)
    BY <1>2
  <2>2. k \in Nat /\ m \in Nat
    OBVIOUS
  <2> QED  BY <2>1, <2>2
<1> QED  BY <1>3

(* Induction: membership in T stands for the statement to be proved.       *)
LEMMA Induction ==
  ASSUME NEW T, 0 \in T, \A n \in Nat : n \in T => n + 1 \in T
  PROVE  \A n \in Nat : n \in T
<1> SUFFICES ASSUME NEW n \in Nat, n \notin T PROVE FALSE
  OBVIOUS
<1> DEFINE U == {k \in Nat : k \notin T}
<1>1. PICK m \in U : \A k \in U : m <= k
  BY Least
<1>2. m # 0 /\ m - 1 \in Nat /\ m - 1 \notin U
  BY <1>1
<1> QED  BY <1>2

(* g is f0, G[0][f0], G[1][G[0][f0]], ... up to its n-th element.          *)
Obeys(g, n, S, f0, G) ==
  /\ g \in [0 .. n -> S]
  /\ g[0] = f0
  /\ \A i \in 0 .. n - 1 : g[i + 1] = G[i][g[i]]

(* What obeys the recursion up to n can be carried one step further.       *)
LEMMA ObeysStep ==
  ASSUME NEW S, NEW f0 \in S, NEW G \in [Nat -> [S -> S]],
         NEW n \in Nat, NEW g, Obeys(g, n, S, f0, G)
  PROVE  \E h : Obeys(h, n + 1, S, f0, G)
<1> DEFINE h == [i \in 0 .. n + 1 |-> IF i <= n THEN g[i] ELSE G[n][g[n]]]
<1>1. g[n] \in S /\ G[n][g[n]] \in S
  BY DEF Obeys
<1>2. h \in [0 .. n + 1 -> S]
  BY <1>1 DEF Obeys
<1>3. ASSUME NEW i \in 0 .. n
      PROVE  h[i + 1] = G[i][h[i]]
  <2>1. CASE i = n
    BY <2>1
  <2>2. CASE i # n
    <3>1. i \in 0 .. n - 1
      BY <2>2
    <3>2. h[i + 1] = g[i + 1] /\ h[i] = g[i]
      BY <3>1
    <3> QED  BY <3>1, <3>2 DEF Obeys
  <2> QED  BY <2>1, <2>2
<1>4. h[0] = f0
  BY DEF Obeys
<1> HIDE DEF h
<1>5. (n + 1) - 1 = n
  OBVIOUS
<1> QED  BY <1>2, <1>3, <1>4, <1>5 DEF Obeys

(* What obeys the recursion up to m obeys it up to any smaller n.          *)
LEMMA ObeysPrefix ==
  ASSUME NEW S, NEW f0 \in S, NEW G \in [Nat -> [S -> S]],
         NEW n \in Nat, NEW m \in Nat, n <= m,
         NEW g, Obeys(g, m, S, f0, G)
  PROVE  Obeys([i \in 0 .. n |-> g[i]], n, S, f0, G)
BY DEF Obeys

(* The recursion determines its n-th value.                                *)
LEMMA ObeysUnique ==
  ASSUME NEW S, NEW f0 \in S, NEW G \in [Nat -> [S -> S]]
  PROVE  \A n \in Nat : \A g, h :
           Obeys(g, n, S, f0, G) /\ Obeys(h, n, S, f0, G) => g[n] = h[n]
<1> DEFINE T == {n \in Nat : \A g, h :
                   Obeys(g, n, S, f0, G) /\ Obeys(h, n, S, f0, G) => g[n] = h[n]}
<1>1. 0 \in T
  BY DEF Obeys
<1>2. ASSUME NEW n \in Nat, n \in T
      PROVE  n + 1 \in T
  <2> SUFFICES ASSUME NEW g, NEW h,
                      Obeys(g, n + 1, S, f0, G), Obeys(h, n + 1, S, f0, G)
               PROVE  g[n + 1] = h[n + 1]
    OBVIOUS
  <2> DEFINE gg == [i \in 0 .. n |-> g[i]]
             hh == [i \in 0 .. n |-> h[i]]
  <2>1. Obeys(gg, n, S, f0, G) /\ Obeys(hh, n, S, f0, G)
    <3>1. n + 1 \in Nat /\ n <= n + 1
      OBVIOUS
    <3> QED  BY <3>1, ObeysPrefix
  <2>2. gg[n] = hh[n]
    <3> HIDE DEF gg, hh
    <3> QED  BY <1>2, <2>1
  <2>3. g[n] = h[n]
    BY <2>2
  <2>4. n \in 0 .. (n + 1) - 1
    OBVIOUS
  <2> QED  BY <2>3, <2>4 DEF Obeys
<1> HIDE DEF T
<1>3. \A n \in Nat : n \in T
  BY <1>1, <1>2, Induction
<1> QED  BY <1>3 DEF T

(* G takes the number of a step and the value before it to the value after *)
(* it; f takes these steps from f0.                                        *)
IsStep(G, S) == G \in [Nat -> [S -> S]]

Solves(f, S, f0, G) ==
  /\ f \in [Nat -> S]
  /\ f[0] = f0
  /\ \A n \in Nat : f[n + 1] = G[n][f[n]]

(* A first value and a step define a function on all natural numbers.      *)
LEMMA RecursiveDefinition ==
  ASSUME NEW S, NEW f0 \in S, NEW G, IsStep(G, S)
  PROVE  \E f : Solves(f, S, f0, G)
<1>0. G \in [Nat -> [S -> S]]
  BY DEF IsStep
<1> DEFINE T == {n \in Nat : \E g : Obeys(g, n, S, f0, G)}
<1>1. \A n \in Nat : n \in T
  <2>1. 0 \in T
    <3> DEFINE g == [i \in 0 .. 0 |-> f0]
    <3>1. Obeys(g, 0, S, f0, G)
      BY DEF Obeys
    <3> QED  BY <3>1
  <2>2. ASSUME NEW n \in Nat, n \in T
        PROVE  n + 1 \in T
    <3>1. \E h : Obeys(h, n + 1, S, f0, G)
      BY <1>0, <2>2, ObeysStep
    <3> QED  BY <3>1
  <2> HIDE DEF T
  <2> QED  BY <2>1, <2>2, Induction
<1> DEFINE at(n) == CHOOSE g : Obeys(g, n, S, f0, G)
           f == [n \in Nat |-> at(n)[n]]
<1>2. \A n \in Nat : Obeys(at(n), n, S, f0, G)
  BY <1>1
<1> HIDE DEF at, T
<1>3. \A n \in Nat : at(n)[n] \in S
  BY <1>2 DEF Obeys
<1>4. at(0)[0] = f0
  BY <1>2 DEF Obeys
<1>5. ASSUME NEW n \in Nat
      PROVE  at(n + 1)[n + 1] = G[n][at(n)[n]]
  <2> DEFINE h == [i \in 0 .. n |-> at(n + 1)[i]]
  <2>1. Obeys(at(n + 1), n + 1, S, f0, G) /\ Obeys(at(n), n, S, f0, G)
    BY <1>2
  <2>2. Obeys(h, n, S, f0, G)
    BY <1>0, <2>1, ObeysPrefix
  <2>3. h[n] = at(n)[n]
    <3> HIDE DEF h
    <3> QED  BY <1>0, <2>1, <2>2, ObeysUnique
  <2>4. at(n + 1)[n] = at(n)[n]
    BY <2>3
  <2>5. n \in 0 .. (n + 1) - 1
    OBVIOUS
  <2> QED  BY <2>1, <2>4, <2>5 DEF Obeys
<1>6. Solves(f, S, f0, G)
  BY <1>3, <1>4, <1>5 DEF Solves
<1> QED  BY <1>6

----------------------------------------------------------------------------
(* A larger multiple of d is larger by d at least.                         *)
LEMMA MultipleAbove ==
  ASSUME NEW d \in Nat, NEW m \in Int, NEW n \in Int, m < n
  PROVE  m * d + d <= n * d
<1>1. PICK z \in Nat : n = m + 1 + z
  <2>1. n - m - 1 \in Nat /\ n = m + 1 + (n - m - 1)
    OBVIOUS
  <2> QED  BY <2>1
<1>2. (m + 1 + z) * d = m * d + d + z * d
  OBVIOUS
<1>3. z * d >= 0 /\ m * d \in Int
  OBVIOUS
<1> QED  BY <1>1, <1>2, <1>3

(* k*d + r with a remainder r determines both.                             *)
LEMMA QuotientUnique ==
  ASSUME NEW d \in Nat \ {0}, NEW k \in Int, NEW r \in 0 .. d - 1
  PROVE  (k * d + r) \div d = k /\ (k * d + r) % d = r
<1> DEFINE n == k * d + r
           a == n \div d
           b == n % d
<1>1. n \in Int /\ k * d \in Int
  OBVIOUS
<1>2. a \in Int /\ b \in 0 .. d - 1 /\ n = a * d + b /\ a * d \in Int
  <2> HIDE DEF n
  <2> QED  BY <1>1
<1>3. a * d + b = k * d + r
  BY <1>2
<1> HIDE DEF n, a, b
<1>4. ~(a < k)
  <2>1. a < k => a * d + d <= k * d
    BY <1>2, MultipleAbove
  <2> DEFINE A == a * d
             K == k * d
  <2> HIDE DEF A, K
  <2>2. A \in Int /\ K \in Int /\ A + b = K + r /\ (a < k => A + d <= K)
    BY <1>1, <1>2, <1>3, <2>1 DEF A, K
  <2> QED  BY <1>2, <2>2
<1>5. ~(k < a)
  <2>1. k < a => k * d + d <= a * d
    BY <1>2, MultipleAbove
  <2> DEFINE A == a * d
             K == k * d
  <2> HIDE DEF A, K
  <2>2. A \in Int /\ K \in Int /\ A + b = K + r /\ (k < a => K + d <= A)
    BY <1>1, <1>2, <1>3, <2>1 DEF A, K
  <2> QED  BY <1>2, <2>2
<1>6. a = k
  BY <1>2, <1>4, <1>5
<1>7. b = r
  BY <1>1, <1>2, <1>3, <1>6
<1> QED  BY <1>6, <1>7 DEF a, b, n

(* A number is its quotient times the divisor, plus the remainder.         *)
LEMMA QuotientRemainder ==
  ASSUME NEW d \in Nat \ {0}, NEW n \in Nat
  PROVE  /\ n \div d \in Nat /\ n % d \in 0 .. d - 1
         /\ n = (n \div d) * d + (n % d)
OBVIOUS

----------------------------------------------------------------------------
(* The next c elements of f, behind its first m, make its first m + c.     *)
LEMMA GrowAtEnd ==
  ASSUME NEW f, NEW m \in Nat, NEW c \in Nat
  PROVE  [n \in 1 .. m |-> f[n]] \o [i \in 1 .. c |-> f[m + i]] = [n \in 1 .. m + c |-> f[n]]
<1> DEFINE s == [n \in 1 .. m |-> f[n]]
           t == [i \in 1 .. c |-> f[m + i]]
           g == [n \in 1 .. m + c |-> f[n]]
<1>1. Len(s) = m /\ Len(t) = c /\ Len(g) = m + c /\ m + c \in Nat
  OBVIOUS
<1>2. \A n \in 1 .. m + c : g[n] = IF n <= m THEN s[n] ELSE t[n - m]
  OBVIOUS
<1>3. g = [n \in 1 .. m + c |-> IF n <= m THEN s[n] ELSE t[n - m]]
  BY <1>2
<1> QED  BY <1>1, <1>3

(* The next element of f, behind its first m, makes its first m + 1.       *)
LEMMA AppendAtEnd ==
  ASSUME NEW f, NEW m \in Nat
  PROVE  Append([n \in 1 .. m |-> f[n]], f[m + 1]) = [n \in 1 .. m + 1 |-> f[n]]
OBVIOUS

(* The elements of a concatenation.                                        *)
LEMMA ConcatElements ==
  ASSUME NEW S, NEW s \in Seq(S), NEW t \in Seq(S)
  PROVE  /\ Len(s \o t) = Len(s) + Len(t)
         /\ \A i \in 1 .. Len(s) : (s \o t)[i] = s[i]
         /\ \A i \in 1 .. Len(t) : (s \o t)[Len(s) + i] = t[i]
OBVIOUS
----------------------------------------------------------------------------
(* A power of two counts the subsets of an interval.                       *)
LEMMA PowerCounts ==
  ASSUME NEW n \in Nat
  PROVE  /\ IsFiniteSet(SUBSET (1 .. n)) /\ 2 ^ n = Cardinality(SUBSET (1 .. n))
         /\ 2 ^ n \in Nat
<1>1. IsFiniteSet(1 .. n) /\ Cardinality(1 .. n) = n
  BY FS_Interval
<1>2. IsFiniteSet(SUBSET (1 .. n)) /\ 2 ^ n = Cardinality(SUBSET (1 .. n))
  BY <1>1, FS_SUBSET
<1> QED  BY <1>2, FS_CardinalityType

(* Powers of two, as the provers need them: the first one, and the next.   *)
LEMMA PowerOfTwo ==
  /\ 2 ^ 0 = 1 /\ 2 ^ 1 = 2
  /\ \A n \in Nat : 2 ^ n \in Nat /\ 2 ^ (n + 1) = 2 * 2 ^ n
<1>1. 2 ^ 0 = 1 /\ 2 ^ 1 = 2
  OBVIOUS
<1>2. ASSUME NEW n \in Nat
      PROVE  2 ^ (n + 1) = 2 * 2 ^ n
  <2> DEFINE S == SUBSET (1 .. n)
             T == {s \cup {n + 1} : s \in S}
             f == [s \in S |-> s \cup {n + 1}]
  <2>1. IsFiniteSet(S) /\ 2 ^ n = Cardinality(S) /\ Cardinality(S) \in Nat
    BY PowerCounts
  <2>2. n + 1 \notin 1 .. n
    OBVIOUS
  <2>3. f \in Bijection(S, T)
    <3>1. \A s \in S, t \in S : f[s] = f[t] => s = t
      BY <2>2
    <3>2. f \in [S -> T] /\ \A t \in T : \E s \in S : f[s] = t
      OBVIOUS
    <3> QED  BY <3>1, <3>2 DEF Bijection, Injection, Surjection, IsInjective
  <2>4. IsFiniteSet(T) /\ Cardinality(T) = Cardinality(S)
    BY <2>1, <2>3, FS_Bijection DEF ExistsBijection
  <2>5. S \cap T = {}
    BY <2>2
  <2>6. SUBSET (1 .. n + 1) = S \cup T
    <3>1. 1 .. n + 1 = (1 .. n) \cup {n + 1}
      OBVIOUS
    <3>2. ASSUME NEW s \in SUBSET (1 .. n + 1), n + 1 \in s
          PROVE  s \in T
      <4>1. s \ {n + 1} \in S /\ s = (s \ {n + 1}) \cup {n + 1}
        BY <3>1, <3>2
      <4> QED  BY <4>1
    <3>3. ASSUME NEW s \in SUBSET (1 .. n + 1), n + 1 \notin s
          PROVE  s \in S
      BY <3>1, <3>3
    <3>4. \A s \in T : s \in SUBSET (1 .. n + 1)
      BY <3>1
    <3>5. \A s \in S : s \in SUBSET (1 .. n + 1)
      BY <3>1
    <3> HIDE DEF S, T
    <3> QED  BY <3>2, <3>3, <3>4, <3>5
  <2> HIDE DEF S, T, f
  <2>7. Cardinality(S \cup T) = Cardinality(S) + Cardinality(S) - 0
    <3>1. Cardinality(S \cap T) = 0
      BY <2>5, FS_EmptySet
    <3> QED  BY <2>1, <2>4, <3>1, FS_Union
  <2>8. 2 ^ (n + 1) = Cardinality(S \cup T)
    BY <2>6, PowerCounts
  <2> QED  BY <2>1, <2>7, <2>8
<1> QED  BY <1>1, <1>2, PowerCounts

(* A power of two is greater than its exponent.                            *)
LEMMA PowerPositive ==
  ASSUME NEW n \in Nat
  PROVE  2 ^ n \in Nat \ {0} /\ n + 1 <= 2 ^ n
<1> DEFINE T == {k \in Nat : k + 1 <= 2 ^ k}
<1>1. 0 \in T
  BY PowerOfTwo
<1>2. ASSUME NEW k \in Nat, k \in T
      PROVE  k + 1 \in T
  BY <1>2, PowerOfTwo
<1>3. \A k \in Nat : k \in T
  <2> HIDE DEF T
  <2> QED  BY <1>1, <1>2, Induction
<1> QED  BY <1>3, PowerOfTwo

(* The power of a sum.                                                     *)
LEMMA PowerSum ==
  ASSUME NEW m \in Nat, NEW n \in Nat
  PROVE  2 ^ (m + n) = 2 ^ m * 2 ^ n
<1> DEFINE T == {k \in Nat : 2 ^ (m + k) = 2 ^ m * 2 ^ k}
<1>1. 0 \in T
  <2>1. 2 ^ m \in Nat /\ 2 ^ m * 1 = 2 ^ m /\ m + 0 = m
    BY PowerOfTwo
  <2> QED  BY <2>1, PowerOfTwo
<1>2. ASSUME NEW k \in Nat, k \in T
      PROVE  k + 1 \in T
  <2> DEFINE a == 2 ^ m
             b == 2 ^ k
  <2>1. a \in Nat /\ b \in Nat /\ 2 ^ (m + k) = a * b /\ 2 ^ (k + 1) = 2 * b
    BY <1>2, PowerOfTwo
  <2>2. 2 ^ (m + k + 1) = 2 * 2 ^ (m + k) /\ m + (k + 1) = m + k + 1
    BY PowerOfTwo
  <2> HIDE DEF a, b
  <2>3. 2 * (a * b) = a * (2 * b)
    BY <2>1
  <2>4. 2 ^ (m + (k + 1)) = a * 2 ^ (k + 1)
    BY <2>1, <2>2, <2>3
  <2> QED  BY <2>4 DEF a
<1>3. \A k \in Nat : k \in T
  <2> HIDE DEF T
  <2> QED  BY <1>1, <1>2, Induction
<1> QED  BY <1>3

-----------------------------------------------------------------------------
(* Bits as numbers: sequences of digits of b bits, the number they         *)
(* stand for, and its leading bits.                                        *)

(* The recursion up to n, as the definition of a finite function.          *)
LEMMA FiniteRecursion ==
  ASSUME NEW S, NEW f0 \in S, NEW n \in Nat, NEW G, IsStep(G, S)
  PROVE  \E g : Obeys(g, n, S, f0, G)
<1>1. PICK f : Solves(f, S, f0, G)
  BY RecursiveDefinition
<1> DEFINE g == [i \in 0 .. n |-> f[i]]
<1>2. g \in [0 .. n -> S] /\ g[0] = f0
  BY <1>1 DEF Solves
<1>3. ASSUME NEW i \in 0 .. n - 1
      PROVE  g[i + 1] = G[i][g[i]]
  <2>1. i \in Nat /\ i \in 0 .. n /\ i + 1 \in 0 .. n
    OBVIOUS
  <2>2. f[i + 1] = G[i][f[i]]
    BY <1>1, <2>1 DEF Solves
  <2> QED  BY <2>1, <2>2
<1> HIDE DEF g
<1> QED  BY <1>2, <1>3 DEF Obeys

(* The remainder by a divisor of the modulus does not see the modulus.     *)
LEMMA RemainderOfRemainder ==
  ASSUME NEW m \in Nat \ {0}, NEW c \in Nat \ {0}, NEW z \in Nat
  PROVE  (z % (m * c)) % m = z % m
<1> DEFINE M == m * c
           k == z \div M
           r == z % M
           a == r \div m
           b == r % m
<1>1. M \in Nat \ {0}
  OBVIOUS
<1>2. k \in Nat /\ r \in Nat /\ z = k * M + r
  <2> HIDE DEF M
  <2> QED  BY <1>1, QuotientRemainder
<1>3. a \in Nat /\ b \in 0 .. m - 1 /\ r = a * m + b
  <2> HIDE DEF r
  <2> QED  BY <1>2, QuotientRemainder
<1> HIDE DEF k, r, a, b
<1>4. k * M = (k * c) * m
  BY <1>2
<1>5. k * c \in Nat /\ (k * c) * m + a * m = (k * c + a) * m
  BY <1>2, <1>3
<1>6. z = (k * c + a) * m + b /\ k * c + a \in Nat
  <2>1. z = (k * c) * m + (a * m + b)
    BY <1>2, <1>3, <1>4
  <2>2. (k * c) * m \in Nat /\ a * m \in Nat
    BY <1>3, <1>5
  <2> QED  BY <1>3, <1>5, <2>1, <2>2
<1>7. z % m = b
  <2> DEFINE h == k * c + a
  <2> HIDE DEF h
  <2>1. h \in Int /\ z = h * m + b
    BY <1>6 DEF h
  <2> QED  BY <1>3, <2>1, QuotientUnique
<1> QED  BY <1>7 DEF b, r

(* The same for powers of two.                                             *)
LEMMA RemainderOfPower ==
  ASSUME NEW m \in Nat, NEW n \in Nat, m <= n, NEW z \in Nat
  PROVE  (z % 2 ^ n) % 2 ^ m = z % 2 ^ m
<1>1. n - m \in Nat /\ m + (n - m) = n
  OBVIOUS
<1>2. 2 ^ n = 2 ^ m * 2 ^ (n - m)
  BY <1>1, PowerSum
<1>3. 2 ^ m \in Nat \ {0} /\ 2 ^ (n - m) \in Nat \ {0}
  BY <1>1, PowerPositive
<1>4. (z % (2 ^ m * 2 ^ (n - m))) % 2 ^ m = z % 2 ^ m
  BY <1>3, RemainderOfRemainder
<1> QED  BY <1>2, <1>4

(* The low m + b bits of a number are b bits, followed by the low m bits.  *)
LEMMA SplitBits ==
  ASSUME NEW m \in Nat, NEW b \in Nat, NEW z \in Nat
  PROVE  /\ z \div 2 ^ m \in Nat
         /\ (z \div 2 ^ m) % 2 ^ b \in 0 .. 2 ^ b - 1
         /\ z % 2 ^ m \in 0 .. 2 ^ m - 1
         /\ z % 2 ^ (m + b) = ((z \div 2 ^ m) % 2 ^ b) * 2 ^ m + (z % 2 ^ m)
<1> DEFINE M == 2 ^ m
           B == 2 ^ b
           h == z \div M
           r == z % M
           k == h \div B
           w == h % B
<1>1. M \in Nat \ {0} /\ B \in Nat \ {0} /\ 2 ^ (m + b) = M * B
  BY PowerPositive, PowerSum
<1> HIDE DEF M, B
<1>2. h \in Nat /\ r \in 0 .. M - 1 /\ z = h * M + r
  BY <1>1, QuotientRemainder
<1>3. k \in Nat /\ w \in 0 .. B - 1 /\ h = k * B + w
  <2> HIDE DEF h
  <2> QED  BY <1>1, <1>2, QuotientRemainder
<1> HIDE DEF h, r, k, w
<1>4. z = k * (M * B) + (w * M + r)
  <2>1. (k * B + w) * M = k * (M * B) + w * M
    BY <1>1, <1>3
  <2>2. k * (M * B) \in Nat /\ w * M \in Nat
    BY <1>1, <1>3
  <2> QED  BY <1>2, <1>3, <2>1, <2>2
<1>5. w * M + r \in 0 .. M * B - 1
  <2>1. w * M + M <= B * M
    <3>1. w \in Int /\ B \in Int /\ w < B
      BY <1>1, <1>3
    <3> QED  BY <1>1, <3>1, MultipleAbove
  <2>2. w * M \in Nat /\ B * M = M * B /\ M * B \in Nat
    BY <1>1, <1>3
  <2> QED  BY <1>1, <1>2, <2>1, <2>2
<1>6. z % (M * B) = w * M + r
  <2> DEFINE P == M * B
             s == w * M + r
  <2>1. P \in Nat \ {0}
    BY <1>1
  <2>2. s \in 0 .. P - 1 /\ z = k * P + s /\ k \in Int
    BY <1>3, <1>4, <1>5
  <2> HIDE DEF P, s
  <2>3. (k * P + s) % P = s
    BY <2>1, <2>2, QuotientUnique
  <2> QED  BY <2>2, <2>3 DEF P, s
<1> QED  BY <1>1, <1>2, <1>3, <1>6 DEF M, B, h, r, k, w

(* Bits shifted in at the low end of a number.                             *)
LEMMA JoinBits ==
  ASSUME NEW m \in Nat, NEW b \in Nat, NEW z \in Nat, NEW w \in 0 .. 2 ^ b - 1
  PROVE  /\ z * 2 ^ b + w \in Nat
         /\ (z * 2 ^ b + w) % 2 ^ (m + b) = (z % 2 ^ m) * 2 ^ b + w
<1> DEFINE M == 2 ^ m
           B == 2 ^ b
           h == z \div M
           r == z % M
<1>1. M \in Nat \ {0} /\ B \in Nat \ {0} /\ 2 ^ (m + b) = M * B
  BY PowerPositive, PowerSum
<1>0. w \in 0 .. B - 1
  OBVIOUS
<1> HIDE DEF M, B
<1>2. h \in Nat /\ r \in 0 .. M - 1 /\ z = h * M + r
  BY <1>1, QuotientRemainder
<1> HIDE DEF h, r
<1>3. z * B + w = h * (M * B) + (r * B + w)
  <2>1. (h * M + r) * B = h * (M * B) + r * B
    BY <1>1, <1>2
  <2>2. h * (M * B) \in Nat /\ r * B \in Nat
    BY <1>1, <1>2
  <2> QED  BY <1>0, <1>2, <2>1, <2>2
<1>4. r * B + w \in 0 .. M * B - 1
  <2>1. r * B + B <= M * B
    <3>1. r \in Int /\ M \in Int /\ r < M
      BY <1>1, <1>2
    <3> QED  BY <1>1, <3>1, MultipleAbove
  <2>2. r * B \in Nat /\ M * B \in Nat
    BY <1>1, <1>2
  <2> QED  BY <1>0, <1>1, <2>1, <2>2
<1>5. (z * B + w) % (M * B) = r * B + w
  <2> DEFINE P == M * B
             s == r * B + w
  <2>1. P \in Nat \ {0}
    BY <1>1
  <2>2. s \in 0 .. P - 1 /\ z * B + w = h * P + s /\ h \in Int
    BY <1>2, <1>3, <1>4
  <2> HIDE DEF P, s
  <2>3. (h * P + s) % P = s
    BY <2>1, <2>2, QuotientUnique
  <2> QED  BY <2>2, <2>3 DEF P, s
<1>6. z * B + w \in Nat
  BY <1>0, <1>1
<1> QED  BY <1>1, <1>5, <1>6 DEF M, B, r


----------------------------------------------------------------------------
(* Numbers written with digits of b bits.                                  *)

(* Beyond its end a sequence goes on with zeros.                           *)
Digit(s, i) == IF i \in DOMAIN s THEN s[i] ELSE 0

(* ValueOf(s, b)[i] is the number the first i digits of s stand for.       *)
ValueOf(s, b) ==
  LET f[i \in Nat] == IF i = 0 THEN 0 ELSE f[i - 1] * 2 ^ b + Digit(s, i) IN f

Whole(s, b) == ValueOf(s, b)[Len(s)]

Digits(b) == 0 .. 2 ^ b - 1

(* A digit is a number below the base, also beyond the end.                *)
LEMMA DigitType ==
  ASSUME NEW b \in Nat, NEW s \in Seq(Digits(b)), NEW i
  PROVE  Digit(s, i) \in Digits(b)
<1>1. 2 ^ b \in Nat \ {0}
  BY PowerPositive
<1>2. 0 \in Digits(b)
  BY <1>1 DEF Digits
<1>3. i \in DOMAIN s => s[i] \in Digits(b)
  OBVIOUS
<1> HIDE DEF Digits
<1> QED  BY <1>2, <1>3, Zenon DEF Digit

(* The definition of ValueOf, as equations.                                *)
LEMMA ValueStep ==
  ASSUME NEW b \in Nat, NEW s \in Seq(Digits(b))
  PROVE  /\ ValueOf(s, b) \in [Nat -> Nat]
         /\ ValueOf(s, b)[0] = 0
         /\ \A i \in Nat : ValueOf(s, b)[i + 1] = ValueOf(s, b)[i] * 2 ^ b + Digit(s, i + 1)
<1> DEFINE Step(i, z) == z * 2 ^ b + Digit(s, i + 1)
           G == [i \in Nat |-> [z \in Nat |-> Step(i, z)]]
           Rule(f) == f = [i \in Nat |-> IF i = 0 THEN 0 ELSE f[i - 1] * 2 ^ b + Digit(s, i)]
           V == ValueOf(s, b)
<1>0. 2 ^ b \in Nat /\ \A i \in Nat : Digit(s, i) \in Nat
  BY DigitType, PowerPositive DEF Digits
<1>1. IsStep(G, Nat)
  <2>1. \A i \in Nat : \A z \in Nat : Step(i, z) \in Nat
    <3>1. \A z \in Nat, c \in Nat, d \in Nat : z * c + d \in Nat
      OBVIOUS
    <3>2. \A i \in Nat : i + 1 \in Nat
      OBVIOUS
    <3> QED  BY <1>0, <3>1, <3>2
  <2> HIDE DEF Step
  <2> QED  BY <2>1 DEF IsStep
<1>2. PICK g : Solves(g, Nat, 0, G)
  <2> HIDE DEF G
  <2> QED  BY <1>1, RecursiveDefinition
<1>3. Rule(g)
  <2>1. ASSUME NEW i \in Nat, i # 0
        PROVE  g[i] = g[i - 1] * 2 ^ b + Digit(s, i)
    <3>1. i - 1 \in Nat /\ (i - 1) + 1 = i
      BY <2>1
    <3>2. g[(i - 1) + 1] = G[i - 1][g[i - 1]] /\ g[i - 1] \in Nat
      <4> HIDE DEF G
      <4> QED  BY <1>2, <3>1 DEF Solves
    <3>3. g[i] = Step(i - 1, g[i - 1])
      <4> HIDE DEF Step
      <4> QED  BY <3>1, <3>2
    <3> QED  BY <3>1, <3>3
  <2>2. g[0] = 0 /\ g = [i \in Nat |-> g[i]]
    BY <1>2 DEF Solves
  <2> QED  BY <2>1, <2>2
<1>4. V = CHOOSE f : Rule(f)
  BY DEF ValueOf
<1>5. Rule(V)
  <2> HIDE DEF Rule, V
  <2> QED  BY <1>3, <1>4
<1> HIDE DEF V
<1>6. V[0] = 0 /\ DOMAIN V = Nat
  BY <1>5
<1>7. ASSUME NEW i \in Nat
      PROVE  V[i + 1] = V[i] * 2 ^ b + Digit(s, i + 1)
  <2>1. i + 1 \in Nat /\ i + 1 # 0 /\ (i + 1) - 1 = i
    OBVIOUS
  <2>2. V[i + 1] = V[(i + 1) - 1] * 2 ^ b + Digit(s, i + 1)
    BY <1>5, <2>1
  <2> QED  BY <2>1, <2>2
<1>8. \A i \in Nat : V[i] \in Nat
  <2> DEFINE T == {i \in Nat : V[i] \in Nat}
  <2>1. 0 \in T
    BY <1>6
  <2>2. ASSUME NEW i \in Nat, i \in T
        PROVE  i + 1 \in T
    <3>1. \A z \in Nat, c \in Nat, d \in Nat : z * c + d \in Nat
      OBVIOUS
    <3>2. i + 1 \in Nat /\ V[i] \in Nat
      BY <2>2
    <3>3. V[i] * 2 ^ b + Digit(s, i + 1) \in Nat
      BY <1>0, <3>1, <3>2, Zenon
    <3> QED  BY <1>7, <3>2, <3>3, Zenon
  <2> HIDE DEF T
  <2>3. \A i \in Nat : i \in T
    BY <2>1, <2>2, Induction
  <2> QED  BY <2>3 DEF T
<1>9. V \in [Nat -> Nat]
  <2>1. V = [i \in Nat |-> V[i]]
    BY <1>5
  <2> QED  BY <1>8, <2>1
<1> QED  BY <1>6, <1>7, <1>9 DEF V

(* The first n digits are all that the value of the first n depends on.    *)
LEMMA ValueSame ==
  ASSUME NEW b \in Nat, NEW s \in Seq(Digits(b)), NEW t \in Seq(Digits(b)), NEW n \in Nat,
         \A i \in 1 .. n : Digit(s, i) = Digit(t, i)
  PROVE  \A i \in 0 .. n : ValueOf(s, b)[i] = ValueOf(t, b)[i]
<1> DEFINE T == {i \in Nat : i <= n => ValueOf(s, b)[i] = ValueOf(t, b)[i]}
<1>1. 0 \in T
  BY ValueStep
<1>2. ASSUME NEW i \in Nat, i \in T
      PROVE  i + 1 \in T
  <2> SUFFICES ASSUME i + 1 <= n
               PROVE  ValueOf(s, b)[i + 1] = ValueOf(t, b)[i + 1]
    OBVIOUS
  <2>1. i + 1 \in 1 .. n /\ ValueOf(s, b)[i] = ValueOf(t, b)[i]
    BY <1>2
  <2>2. Digit(s, i + 1) = Digit(t, i + 1)
    BY <2>1
  <2> QED  BY <2>1, <2>2, ValueStep
<1> HIDE DEF T
<1>3. \A i \in Nat : i \in T
  BY <1>1, <1>2, Induction
<1> QED  BY <1>3 DEF T

(* The value of the first n digits determines them.                        *)
LEMMA ValueUnique ==
  ASSUME NEW b \in Nat, NEW s \in Seq(Digits(b)), NEW t \in Seq(Digits(b)), NEW n \in Nat,
         ValueOf(s, b)[n] = ValueOf(t, b)[n]
  PROVE  \A i \in 1 .. n : Digit(s, i) = Digit(t, i)
<1> DEFINE T == {i \in Nat : ValueOf(s, b)[i] = ValueOf(t, b)[i] =>
                               \A j \in 1 .. i : Digit(s, j) = Digit(t, j)}
<1>1. 0 \in T
  OBVIOUS
<1>2. ASSUME NEW i \in Nat, i \in T
      PROVE  i + 1 \in T
  <2> SUFFICES ASSUME ValueOf(s, b)[i + 1] = ValueOf(t, b)[i + 1]
               PROVE  \A j \in 1 .. i + 1 : Digit(s, j) = Digit(t, j)
    OBVIOUS
  <2> DEFINE x == ValueOf(s, b)[i]
             y == ValueOf(t, b)[i]
             c == Digit(s, i + 1)
             d == Digit(t, i + 1)
             B == 2 ^ b
  <2>1. B \in Nat \ {0} /\ x \in Int /\ y \in Int /\ c \in 0 .. B - 1 /\ d \in 0 .. B - 1
    <3>1. c \in Digits(b) /\ d \in Digits(b)
      BY DigitType
    <3>2. B \in Nat \ {0}
      BY PowerPositive
    <3>3. x \in Int /\ y \in Int
      <4>1. ValueOf(s, b) \in [Nat -> Nat] /\ ValueOf(t, b) \in [Nat -> Nat]
        BY ValueStep
      <4>2. x \in Nat /\ y \in Nat
        BY <4>1
      <4> QED  BY <4>2
    <3> HIDE DEF x, y, c, d
    <3> QED  BY <3>1, <3>2, <3>3 DEF Digits
  <2>2. x * B + c = y * B + d
    BY ValueStep
  <2> HIDE DEF x, y, c, d, B
  <2>3. /\ (x * B + c) \div B = x /\ (x * B + c) % B = c
        /\ (y * B + d) \div B = y /\ (y * B + d) % B = d
    BY <2>1, QuotientUnique
  <2>4. x = y /\ c = d
    BY <2>2, <2>3
  <2>5. \A j \in 1 .. i : Digit(s, j) = Digit(t, j)
    BY <1>2, <2>4 DEF x, y
  <2>6. Digit(s, i + 1) = Digit(t, i + 1)
    BY <2>4 DEF c, d
  <2>7. \A j \in 1 .. i + 1 : j \in 1 .. i \/ j = i + 1
    OBVIOUS
  <2> QED  BY <2>5, <2>6, <2>7
<1> HIDE DEF T
<1>3. \A i \in Nat : i \in T
  BY <1>1, <1>2, Induction
<1> QED  BY <1>3 DEF T

(* Sequences of the same length and value are the same.                    *)
LEMMA WholeUnique ==
  ASSUME NEW b \in Nat, NEW s \in Seq(Digits(b)), NEW t \in Seq(Digits(b)),
         Len(s) = Len(t), Whole(s, b) = Whole(t, b)
  PROVE  s = t
<1>1. \A i \in 1 .. Len(s) : Digit(s, i) = Digit(t, i)
  BY ValueUnique DEF Whole
<1>2. DOMAIN s = 1 .. Len(s) /\ DOMAIN t = 1 .. Len(s)
  OBVIOUS
<1>3. \A i \in 1 .. Len(s) : s[i] = t[i]
  BY <1>1, <1>2 DEF Digit
<1> QED  BY <1>3

(* The value of the empty sequence, and of one more digit.                 *)
LEMMA WholeStep ==
  ASSUME NEW b \in Nat
  PROVE  /\ Whole(<<>>, b) = 0
         /\ \A s \in Seq(Digits(b)) :
              /\ Whole(s, b) \in Nat
              /\ \A d \in Digits(b) : /\ Append(s, d) \in Seq(Digits(b))
                                      /\ Len(Append(s, d)) = Len(s) + 1
                                      /\ Whole(Append(s, d), b) = Whole(s, b) * 2 ^ b + d
<1>1. Whole(<<>>, b) = 0
  <2>1. <<>> \in Seq(Digits(b)) /\ Len(<<>>) = 0
    OBVIOUS
  <2> QED  BY <2>1, ValueStep DEF Whole
<1>2. ASSUME NEW s \in Seq(Digits(b))
      PROVE  Whole(s, b) \in Nat
  <2>1. Len(s) \in Nat
    OBVIOUS
  <2> QED  BY <2>1, ValueStep DEF Whole
<1>3. ASSUME NEW s \in Seq(Digits(b)), NEW d \in Digits(b)
      PROVE  /\ Append(s, d) \in Seq(Digits(b)) /\ Len(Append(s, d)) = Len(s) + 1
             /\ Whole(Append(s, d), b) = Whole(s, b) * 2 ^ b + d
  <2> DEFINE t == Append(s, d)
             n == Len(s)
  <2>1. t \in Seq(Digits(b)) /\ Len(t) = n + 1 /\ n \in Nat
    OBVIOUS
  <2>2. \A i \in 1 .. n : t[i] = s[i]
    OBVIOUS
  <2>3. t[n + 1] = d /\ DOMAIN s = 1 .. n /\ DOMAIN t = 1 .. n + 1
    OBVIOUS
  <2> HIDE DEF t, n
  <2>4. \A i \in 1 .. n : i \in 1 .. n + 1
    BY <2>1
  <2>5. \A i \in 1 .. n : Digit(s, i) = Digit(t, i)
    BY <2>2, <2>3, <2>4 DEF Digit
  <2>6. Digit(t, n + 1) = d
    BY <2>1, <2>3 DEF Digit
  <2>7. n \in 0 .. n
    BY <2>1
  <2>8. ValueOf(s, b)[n] = ValueOf(t, b)[n]
    BY <2>1, <2>5, <2>7, ValueSame
  <2>9. ValueOf(t, b)[n + 1] = ValueOf(t, b)[n] * 2 ^ b + d
    BY <2>1, <2>6, ValueStep
  <2>10. Whole(t, b) = Whole(s, b) * 2 ^ b + d
    BY <2>1, <2>8, <2>9 DEF Whole, n
  <2> QED  BY <2>1, <2>10 DEF t, n
<1> QED  BY <1>1, <1>2, <1>3

(* The k upper digits of pending bits.                                     *)
Taken(acc, pending, b, k) ==
  [i \in 1 .. k |-> (acc \div 2 ^ (pending - b * i)) % 2 ^ b]

(* Taking the k upper of the digits a number of pending bits holds to the  *)
(* end of a sequence keeps the value of both together.                     *)
LEMMA TakeDigits ==
  ASSUME NEW b \in Nat, NEW s \in Seq(Digits(b)), NEW acc \in Nat, NEW pending \in Nat,
         NEW k \in Nat, b * k <= pending
  PROVE  /\ s \o Taken(acc, pending, b, k) \in Seq(Digits(b))
         /\ Len(s \o Taken(acc, pending, b, k)) = Len(s) + k
         /\ Whole(s \o Taken(acc, pending, b, k), b) * 2 ^ (pending - b * k)
              + (acc % 2 ^ (pending - b * k)) =
                Whole(s, b) * 2 ^ pending + (acc % 2 ^ pending)
<1> DEFINE w(i) == (acc \div 2 ^ (pending - b * i)) % 2 ^ b
           t(m) == s \o [i \in 1 .. m |-> w(i)]
           Sum(r, m) == Whole(r, b) * 2 ^ m + (acc % 2 ^ m)
           Good(m) == /\ t(m) \in Seq(Digits(b)) /\ Len(t(m)) = Len(s) + m
                      /\ Sum(t(m), pending - b * m) = Sum(s, pending)
           T == {m \in Nat : b * m <= pending => Good(m)}
<1>1. 0 \in T
  <2>1. [i \in 1 .. 0 |-> w(i)] = <<>>
    <3> DEFINE f == [i \in 1 .. 0 |-> w(i)]
    <3>1. f \in Seq({}) /\ Len(f) = 0
      <4> HIDE DEF w
      <4> QED  OBVIOUS
    <3> HIDE DEF f
    <3>2. f = <<>>
      BY <3>1
    <3> QED  BY <3>2 DEF f
  <2>2. t(0) = s
    <3> HIDE DEF w
    <3> QED  BY <2>1
  <2>3. pending - b * 0 = pending
    OBVIOUS
  <2> HIDE DEF t, Sum
  <2> QED  BY <2>2, <2>3
<1>2. ASSUME NEW m \in Nat, m \in T
      PROVE  m + 1 \in T
  <2> SUFFICES ASSUME b * (m + 1) <= pending
               PROVE  Good(m + 1)
    <3> HIDE DEF Good
    <3> QED  OBVIOUS
  <2> DEFINE p == pending - b * (m + 1)
  <2>1. b * (m + 1) = b * m + b /\ b * m \in Nat
    OBVIOUS
  <2>2. p \in Nat /\ pending - b * m = p + b /\ b * m <= pending
    BY <2>1
  <2>3. Good(m)
    BY <1>2, <2>2
  <2>4. w(m + 1) \in Digits(b) /\ acc % 2 ^ (p + b) = w(m + 1) * 2 ^ p + (acc % 2 ^ p)
    <3> HIDE DEF p
    <3>1. /\ (acc \div 2 ^ p) % 2 ^ b \in 0 .. 2 ^ b - 1
          /\ acc % 2 ^ (p + b) = ((acc \div 2 ^ p) % 2 ^ b) * 2 ^ p + (acc % 2 ^ p)
      BY <2>2, SplitBits
    <3> QED  BY <3>1 DEF p, Digits
  <2>5. t(m + 1) = Append(t(m), w(m + 1))
    <3> DEFINE f == [i \in 1 .. m |-> w(i)]
               g == [i \in 1 .. m + 1 |-> w(i)]
    <3>1. Append(f, w(m + 1)) = g
      <4> HIDE DEF w
      <4>1. Len(f) = m /\ Len(g) = m + 1 /\ m + 1 \in 1 .. m + 1
        OBVIOUS
      <4> QED  BY <4>1
    <3>2. f \in Seq(Digits(b))
      <4>1. ASSUME NEW i \in 1 .. m
            PROVE  w(i) \in Digits(b)
        <5>1. b * i <= b * m
          <6>1. i * b <= m * b
            <7>1. i = m \/ i * b + b <= m * b
              BY <4>1, MultipleAbove
            <7>2. i * b \in Nat /\ m * b \in Nat
              OBVIOUS
            <7> QED  BY <7>1, <7>2
          <6> QED  BY <6>1
        <5>2. b * i \in Nat
          OBVIOUS
        <5>3. pending - b * i \in Nat
          BY <2>1, <2>2, <5>1, <5>2
        <5> DEFINE e == pending - b * i
        <5> HIDE DEF e
        <5>4. (acc \div 2 ^ e) % 2 ^ b \in 0 .. 2 ^ b - 1
          BY <5>3, SplitBits DEF e
        <5> QED  BY <5>4 DEF e, Digits
      <4> HIDE DEF w
      <4> QED  BY <4>1
    <3> HIDE DEF f, g, w
    <3>3. Append(s \o f, w(m + 1)) = s \o Append(f, w(m + 1))
      BY <2>4, <3>2
    <3> QED  BY <3>1, <3>3 DEF f, g
  <2>6. /\ t(m + 1) \in Seq(Digits(b)) /\ Len(t(m + 1)) = Len(s) + (m + 1)
        /\ Whole(t(m + 1), b) = Whole(t(m), b) * 2 ^ b + w(m + 1)
    <3>1. t(m) \in Seq(Digits(b)) /\ Len(t(m)) = Len(s) + m
      BY <2>3
    <3>2. Len(s) + m + 1 = Len(s) + (m + 1)
      OBVIOUS
    <3> DEFINE r == t(m)
               d == w(m + 1)
    <3>3. r \in Seq(Digits(b)) /\ d \in Digits(b) /\ t(m + 1) = Append(r, d)
      <4> HIDE DEF t, w
      <4> QED  BY <2>4, <2>5, <3>1
    <3> HIDE DEF r, d
    <3>4. /\ Append(r, d) \in Seq(Digits(b)) /\ Len(Append(r, d)) = Len(r) + 1
          /\ Whole(Append(r, d), b) = Whole(r, b) * 2 ^ b + d
      BY <3>3, WholeStep
    <3> HIDE DEF t, w
    <3> QED  BY <3>1, <3>2, <3>3, <3>4 DEF r, d
  <2>7. Sum(t(m + 1), p) = Sum(t(m), p + b)
    <3> DEFINE W == Whole(t(m), b)
               P == 2 ^ p
               B == 2 ^ b
               v == w(m + 1)
               r == acc % 2 ^ p
    <3>1. W \in Nat
      <4> HIDE DEF t
      <4> QED  BY <2>3, WholeStep
    <3>2. P \in Nat \ {0} /\ B \in Nat /\ 2 ^ (p + b) = P * B
      <4> HIDE DEF p
      <4> QED  BY <2>2, PowerPositive, PowerSum
    <3>3. v \in Nat
      <4> HIDE DEF w
      <4> QED  BY <2>4 DEF Digits
    <3>4. r \in Nat
      <4> HIDE DEF P
      <4>1. acc % P \in 0 .. P - 1
        BY <3>2, QuotientRemainder
      <4> QED  BY <4>1 DEF P
    <3>5. Sum(t(m + 1), p) = (W * B + v) * P + r
      <4> HIDE DEF t, w, p
      <4> QED  BY <2>6
    <3>6. Sum(t(m), p + b) = W * (P * B) + (v * P + r)
      <4> HIDE DEF t, w, p
      <4> QED  BY <2>4, <3>2
    <3> HIDE DEF W, P, B, v, r, Sum, t
    <3>7. (W * B + v) * P = W * (P * B) + v * P
      BY <3>1, <3>2, <3>3
    <3>8. W * (P * B) \in Nat /\ v * P \in Nat
      BY <3>1, <3>2, <3>3
    <3> QED  BY <3>4, <3>5, <3>6, <3>7, <3>8
  <2>8. Sum(t(m + 1), p) = Sum(s, pending)
    <3>1. Sum(t(m), pending - b * m) = Sum(s, pending)
      BY <2>3
    <3> HIDE DEF Sum, t, p
    <3> QED  BY <2>2, <2>7, <3>1
  <2> HIDE DEF t, Sum
  <2> QED  BY <2>6, <2>8
<1>3. k \in T
  <2> HIDE DEF T
  <2> QED  BY <1>1, <1>2, Induction
<1>4. Good(k)
  BY <1>3
<1>5. t(k) = s \o Taken(acc, pending, b, k)
  BY DEF Taken
<1> HIDE DEF t
<1> QED  BY <1>4, <1>5


(* Dropping m bits and then k drops m + k.                                 *)
LEMMA DropBits ==
  ASSUME NEW m \in Nat, NEW k \in Nat, NEW z \in Nat
  PROVE  (z \div 2 ^ m) \div 2 ^ k = z \div 2 ^ (m + k)
<1> DEFINE M == 2 ^ m
           B == 2 ^ k
           h == z \div M
           r == z % M
           c == h \div B
           w == h % B
<1>1. M \in Nat \ {0} /\ B \in Nat \ {0} /\ 2 ^ (m + k) = M * B
  BY PowerPositive, PowerSum
<1> HIDE DEF M, B
<1>2. h \in Nat /\ r \in 0 .. M - 1 /\ z = h * M + r
  BY <1>1, QuotientRemainder
<1>3. c \in Nat /\ w \in 0 .. B - 1 /\ h = c * B + w
  <2> HIDE DEF h
  <2> QED  BY <1>1, <1>2, QuotientRemainder
<1> HIDE DEF h, r, c, w
<1>4. z = c * (M * B) + (w * M + r)
  <2>1. (c * B + w) * M = c * (M * B) + w * M
    BY <1>1, <1>3
  <2>2. c * (M * B) \in Nat /\ w * M \in Nat
    BY <1>1, <1>3
  <2> QED  BY <1>2, <1>3, <2>1, <2>2
<1>5. w * M + r \in 0 .. M * B - 1
  <2>1. w * M + M <= B * M
    <3>1. w \in Int /\ B \in Int /\ w < B
      BY <1>1, <1>3
    <3> QED  BY <1>1, <3>1, MultipleAbove
  <2>2. w * M \in Nat /\ B * M = M * B /\ M * B \in Nat
    BY <1>1, <1>3
  <2> QED  BY <1>1, <1>2, <2>1, <2>2
<1>6. z \div (M * B) = c
  <2> DEFINE P == M * B
             s == w * M + r
  <2>1. P \in Nat \ {0}
    BY <1>1
  <2>2. s \in 0 .. P - 1 /\ z = c * P + s /\ c \in Int
    BY <1>3, <1>4, <1>5
  <2> HIDE DEF P, s
  <2>3. (c * P + s) \div P = c
    BY <2>1, <2>2, QuotientUnique
  <2> QED  BY <2>2, <2>3 DEF P, s
<1> QED  BY <1>1, <1>6 DEF M, B, h, c

(* Bits below the n-th are those of the number, whatever n bits kept it.   *)
LEMMA ReadBits ==
  ASSUME NEW m \in Nat, NEW k \in Nat, NEW n \in Nat, m + k <= n, NEW z \in Nat
  PROVE  ((z % 2 ^ n) \div 2 ^ m) % 2 ^ k = (z \div 2 ^ m) % 2 ^ k
<1> DEFINE y == z % 2 ^ n
           M == 2 ^ m
           a == (y \div M) % 2 ^ k
           c == (z \div M) % 2 ^ k
           r == y % M
           d == z % M
<1>1. y \in Nat
  <2>1. 2 ^ n \in Nat \ {0}
    BY PowerPositive
  <2>2. z % 2 ^ n \in 0 .. 2 ^ n - 1
    BY <2>1, QuotientRemainder
  <2> QED  BY <2>2
<1>2. y % 2 ^ (m + k) = z % 2 ^ (m + k)
  <2>1. m + k \in Nat
    OBVIOUS
  <2> QED  BY <2>1, RemainderOfPower
<1> HIDE DEF y
<1>3. a \in 0 .. 2 ^ k - 1 /\ r \in 0 .. M - 1 /\ y % 2 ^ (m + k) = a * M + r
  BY <1>1, SplitBits
<1>4. c \in 0 .. 2 ^ k - 1 /\ d \in 0 .. M - 1 /\ z % 2 ^ (m + k) = c * M + d
  BY SplitBits
<1>5. M \in Nat \ {0} /\ a \in Int /\ c \in Int
  <2>1. M \in Nat \ {0}
    BY PowerPositive
  <2> HIDE DEF a, c, M
  <2> QED  BY <1>3, <1>4, <2>1
<1> HIDE DEF a, c, r, d, M
<1>6. (a * M + r) \div M = a /\ (c * M + d) \div M = c
  BY <1>3, <1>4, <1>5, QuotientUnique
<1> QED  BY <1>2, <1>3, <1>4, <1>6 DEF a, c, y, M

(* The first p bits of a sequence of digits, as a number.                  *)
Front(s, b, p) == ValueOf(s, b)[p] \div 2 ^ ((b - 1) * p)

(* The digits behind the first n do not matter to those.                   *)
LEMMA DropDigits ==
  ASSUME NEW b \in Nat, NEW s \in Seq(Digits(b)), NEW n \in Nat
  PROVE  \A j \in Nat : ValueOf(s, b)[n + j] \div 2 ^ (b * j) = ValueOf(s, b)[n]
<1> DEFINE V == ValueOf(s, b)
           T == {j \in Nat : V[n + j] \div 2 ^ (b * j) = V[n]}
<1>0. V \in [Nat -> Nat] /\ \A i \in Nat : V[i + 1] = V[i] * 2 ^ b + Digit(s, i + 1)
  BY ValueStep
<1> HIDE DEF V
<1>1. 0 \in T
  <2>1. n + 0 = n /\ b * 0 = 0 /\ 2 ^ 0 = 1 /\ V[n] \in Nat
    <3>1. V[n] \in Nat
      BY <1>0
    <3>2. n + 0 = n /\ b * 0 = 0
      OBVIOUS
    <3> QED  BY <3>1, <3>2, PowerOfTwo
  <2>2. \A z \in Nat : z \div 1 = z
    OBVIOUS
  <2>3. V[n + 0] \div 2 ^ (b * 0) = V[n]
    BY <2>1, <2>2
  <2> QED  BY <2>3
<1>2. ASSUME NEW j \in Nat, j \in T
      PROVE  j + 1 \in T
  <2> DEFINE z == V[n + j]
             d == Digit(s, n + j + 1)
             B == 2 ^ b
             y == z * B + d
  <2>1. B \in Nat \ {0} /\ z \in Nat /\ z \in Int /\ d \in 0 .. B - 1
    <3>1. d \in 0 .. 2 ^ b - 1
      BY DigitType DEF Digits
    <3>2. B \in Nat \ {0}
      BY PowerPositive
    <3>3. z \in Nat
      <4>1. n + j \in Nat
        OBVIOUS
      <4>2. \A i \in Nat : V[i] \in Nat
        BY <1>0
      <4> QED  BY <4>1, <4>2
    <3> QED  BY <3>1, <3>2, <3>3
  <2>2. n + (j + 1) = (n + j) + 1 /\ n + j \in Nat /\ b * (j + 1) = b + b * j /\ b * j \in Nat
    OBVIOUS
  <2>3. V[n + (j + 1)] = y
    BY <1>0, <2>2
  <2>4. y \div B = z /\ y \in Nat
    <3> HIDE DEF z, d, B
    <3>1. (z * B + d) \div B = z
      BY <2>1, QuotientUnique
    <3>2. z * B + d \in Nat
      BY <2>1
    <3> QED  BY <3>1, <3>2
  <2> HIDE DEF y
  <2>5. (y \div 2 ^ b) \div 2 ^ (b * j) = y \div 2 ^ (b + b * j)
    BY <2>2, <2>4, DropBits
  <2>6. z \div 2 ^ (b * j) = V[n]
    BY <1>2
  <2>7. V[n + (j + 1)] \div 2 ^ (b * (j + 1)) = V[n]
    BY <2>2, <2>3, <2>4, <2>5, <2>6
  <2> QED  BY <2>7
<1> HIDE DEF T
<1>3. \A j \in Nat : j \in T
  BY <1>1, <1>2, Induction
<1> QED  BY <1>3 DEF T, V

(* The first p bits are found in any number of digits that holds them.     *)
LEMMA FrontAt ==
  ASSUME NEW b \in Nat \ {0}, NEW s \in Seq(Digits(b)), NEW n \in Nat, NEW len \in Nat,
         NEW p \in Nat, b * n = p + len
  PROVE  Front(s, b, p) = ValueOf(s, b)[n] \div 2 ^ len
<1> DEFINE V == ValueOf(s, b)
           e == (b - 1) * p
<1>0. V \in [Nat -> Nat] /\ \A i, j \in Nat : V[i + j] \div 2 ^ (b * j) = V[i]
  BY DropDigits, ValueStep
<1> HIDE DEF V
<1>1. e \in Nat /\ e = b * p - p /\ b * p \in Nat
  <2>1. b - 1 \in Nat
    OBVIOUS
  <2> QED  BY <2>1
<1> HIDE DEF e
<1>2. CASE n <= p
  <2> DEFINE j == p - n
  <2>1. j \in Nat /\ n + j = p
    BY <1>2
  <2> HIDE DEF j
  <2>2. b * p = b * n + b * j /\ b * j \in Nat
    BY <2>1
  <2>3. e = b * j + len
    BY <1>1, <2>2
  <2>4. V[p] \div 2 ^ (b * j) = V[n] /\ V[p] \in Nat
    BY <1>0, <2>1
  <2>5. (V[p] \div 2 ^ (b * j)) \div 2 ^ len = V[p] \div 2 ^ (b * j + len)
    BY <2>2, <2>4, DropBits
  <2> QED  BY <2>3, <2>4, <2>5 DEF Front, V, e
<1>3. CASE n > p
  <2> DEFINE j == n - p
  <2>1. j \in Nat /\ p + j = n
    BY <1>3
  <2> HIDE DEF j
  <2>2. b * n = b * p + b * j /\ b * j \in Nat
    BY <2>1
  <2>3. len = b * j + e
    BY <1>1, <2>2
  <2>4. V[n] \div 2 ^ (b * j) = V[p] /\ V[n] \in Nat
    BY <1>0, <2>1
  <2>5. (V[n] \div 2 ^ (b * j)) \div 2 ^ e = V[n] \div 2 ^ (b * j + e)
    BY <1>1, <2>2, <2>4, DropBits
  <2> QED  BY <2>3, <2>4, <2>5 DEF Front, V, e
<1> QED  BY <1>2, <1>3

(* Fewer bits are the front of more bits.                                  *)
LEMMA FrontShift ==
  ASSUME NEW b \in Nat \ {0}, NEW s \in Seq(Digits(b)), NEW p \in Nat, NEW k \in Nat
  PROVE  /\ Front(s, b, p) \in Nat
         /\ Front(s, b, p + k) \div 2 ^ k = Front(s, b, p)
         /\ Front(s, b, p + k) = Front(s, b, p) * 2 ^ k + (Front(s, b, p + k) % 2 ^ k)
<1> DEFINE n == p + k
           z == ValueOf(s, b)[n]
           e == (b - 1) * n
<1>1. z \in Nat /\ n \in Nat /\ e \in Nat
  <2>1. n \in Nat /\ b - 1 \in Nat
    OBVIOUS
  <2>2. e \in Nat
    <3> HIDE DEF n
    <3> QED  BY <2>1
  <2>3. z \in Nat
    <3>1. ValueOf(s, b) \in [Nat -> Nat]
      BY ValueStep
    <3> HIDE DEF n
    <3> QED  BY <2>1, <3>1
  <2> QED  BY <2>1, <2>2, <2>3
<1>2. b * n = p + (e + k)
  <2>1. (b - 1) * n = b * n - n /\ b * n \in Nat
    BY <1>1
  <2> HIDE DEF e
  <2> QED  BY <2>1 DEF e
<1>3. Front(s, b, p) = z \div 2 ^ (e + k) /\ Front(s, b, n) = z \div 2 ^ e
  <2>1. e + k \in Nat
    BY <1>1
  <2> HIDE DEF e, n
  <2>2. Front(s, b, p) = ValueOf(s, b)[n] \div 2 ^ (e + k)
    BY <1>1, <1>2, <2>1, FrontAt
  <2> QED  BY <2>2 DEF Front, e
<1> HIDE DEF z, e
<1>4. (z \div 2 ^ e) \div 2 ^ k = z \div 2 ^ (e + k)
  BY <1>1, DropBits
<1>5. z \div 2 ^ e \in Nat /\ 2 ^ k \in Nat \ {0}
  <2>1. 2 ^ e \in Nat \ {0} /\ 2 ^ k \in Nat \ {0}
    BY <1>1, PowerPositive
  <2> QED  BY <1>1, <2>1, QuotientRemainder
<1> DEFINE f == Front(s, b, n)
           g == Front(s, b, p)
<1>6. f \in Nat /\ f \div 2 ^ k = g
  BY <1>3, <1>4, <1>5
<1> HIDE DEF f, g
<1>7. f \div 2 ^ k \in Nat /\ f = (f \div 2 ^ k) * 2 ^ k + (f % 2 ^ k)
  BY <1>5, <1>6, QuotientRemainder
<1> QED  BY <1>6, <1>7 DEF f, g

(* The last equation, as a named relation that is quoted more easily.      *)
FrontGrows(s, b, p, k) ==
  Front(s, b, p + k) = Front(s, b, p) * 2 ^ k + (Front(s, b, p + k) % 2 ^ k)

(* Every sequence of digits has it.                                        *)
LEMMA FrontGrown ==
  ASSUME NEW b \in Nat \ {0}, NEW s \in Seq(Digits(b)), NEW p \in Nat, NEW k \in Nat
  PROVE  FrontGrows(s, b, p, k)
BY FrontShift DEF FrontGrows

(* JoinBits, as a named relation that is quoted more easily.               *)
Joined(z, w, m, b) == (z * 2 ^ b + w) % 2 ^ (m + b) = (z % 2 ^ m) * 2 ^ b + w

(* All numbers have it.                                                    *)
LEMMA BitsJoined ==
  ASSUME NEW m \in Nat, NEW b \in Nat, NEW z \in Nat, NEW w \in 0 .. 2 ^ b - 1
  PROVE  Joined(z, w, m, b)
BY JoinBits DEF Joined

(* What an accumulator of n bits has lost does not come back.              *)
LEMMA KeepBits ==
  ASSUME NEW n \in Nat, NEW b \in Nat, b <= n, NEW z \in Nat, NEW w \in 0 .. 2 ^ b - 1
  PROVE  ((z % 2 ^ n) * 2 ^ b + w) % 2 ^ n = (z * 2 ^ b + w) % 2 ^ n
<1>1. PICK m \in Nat : m + b = n /\ m <= n
  <2>1. n - b \in Nat /\ (n - b) + b = n /\ n - b <= n
    OBVIOUS
  <2> QED  BY <2>1
<1>2. PICK y \in Nat : y = z % 2 ^ n
  <2>1. 2 ^ n \in Nat \ {0}
    BY PowerPositive
  <2>2. z % 2 ^ n \in 0 .. 2 ^ n - 1
    BY <2>1, QuotientRemainder
  <2> QED  BY <2>2
<1>3. y % 2 ^ m = z % 2 ^ m
  BY <1>1, <1>2, RemainderOfPower
<1>4. Joined(y, w, m, b) /\ Joined(z, w, m, b)
  BY BitsJoined
<1>5. /\ (y * 2 ^ b + w) % 2 ^ (m + b) = (y % 2 ^ m) * 2 ^ b + w
      /\ (z * 2 ^ b + w) % 2 ^ (m + b) = (z % 2 ^ m) * 2 ^ b + w
  BY <1>4 DEF Joined
<1> QED  BY <1>1, <1>2, <1>3, <1>5

=============================================================================
