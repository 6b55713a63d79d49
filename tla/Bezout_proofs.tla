---------------------------- MODULE Bezout_proofs ----------------------------
(***************************************************************************)
(* Proofs about Bezout, for every word size, number of words and set of    *)
(* resultants.                                                             *)
(***************************************************************************)
EXTENDS Bezout, NumberLemmas, TLAPS

----------------------------------------------------------------------------
(* Odd numbers and powers of two.                                          *)

Divides(m, z) == \E c \in Int : z = m * c

(* A number is even or odd.                                                *)
LEMMA Halves ==
  ASSUME NEW z \in Int
  PROVE  /\ z \div 2 \in Int /\ z % 2 \in {0, 1} /\ z = 2 * (z \div 2) + (z % 2)
         /\ \E h \in Int, r \in {0, 1} : z = 2 * h + r
         /\ Odd(z) => \E h \in Int : z = 2 * h + 1
<1>1. z \div 2 \in Int /\ z % 2 \in {0, 1} /\ z = 2 * (z \div 2) + (z % 2)
  OBVIOUS
<1> QED  BY <1>1 DEF Odd

(* An odd factor of 2*d is a factor of d.                                  *)
LEMMA CancelTwo ==
  ASSUME NEW m \in Int, Odd(m), NEW d \in Int, NEW k \in Int, 2 * d = m * k
  PROVE  Divides(m, d)
<1>1. PICK h \in Int : m = 2 * h + 1
  BY Halves
<1>2. PICK c \in Int, r \in {0, 1} : k = 2 * c + r
  BY Halves
<1>3. m * k = 2 * (m * c) + m * r
  BY <1>2
<1>4. m * c \in Int /\ h * r \in Int /\ m * r = 2 * (h * r) + r
  BY <1>1
<1>5. r = 0
  <2> DEFINE x1 == m * c
             x2 == h * r
             x3 == m * r
             x4 == m * k
  <2>1. /\ x1 \in Int /\ x2 \in Int /\ x3 = 2 * x2 + r /\ x4 = 2 * x1 + x3
        /\ 2 * d = x4
    BY <1>3, <1>4
  <2> HIDE DEF x1, x2, x3, x4
  <2> QED  BY <2>1
<1>6. 2 * d = 2 * (m * c)
  BY <1>3, <1>5
<1> QED  BY <1>4, <1>6 DEF Divides

(* So is an odd factor of 2^n * d.                                         *)
LEMMA CancelPower ==
  ASSUME NEW m \in Int, Odd(m), NEW n \in Nat,
         NEW d \in Int, NEW k \in Int, 2 ^ n * d = m * k
  PROVE  Divides(m, d)
<1> DEFINE T == {e \in Nat : \A x1, x2 \in Int :
                   2 ^ e * x1 = m * x2 => Divides(m, x1)}
<1>1. 0 \in T
  BY PowerOfTwo DEF Divides
<1>2. ASSUME NEW e \in Nat, e \in T
      PROVE  e + 1 \in T
  <2> SUFFICES ASSUME NEW x1 \in Int, NEW x2 \in Int, 2 ^ (e + 1) * x1 = m * x2
               PROVE  Divides(m, x1)
    OBVIOUS
  <2> DEFINE b2 == 2 ^ e
  <2>1. b2 \in Nat /\ 2 ^ (e + 1) = 2 * b2
    BY PowerOfTwo
  <2>2. 2 * (b2 * x1) = m * x2 /\ b2 * x1 \in Int
    <3> HIDE DEF b2
    <3>1. (2 * b2) * x1 = 2 * (b2 * x1)
      BY <2>1
    <3> QED  BY <2>1, <3>1
  <2>3. Divides(m, b2 * x1)
    <3> DEFINE z == b2 * x1
    <3>1. z \in Int /\ 2 * z = m * x2
      BY <2>2
    <3> HIDE DEF z
    <3>2. Divides(m, z)
      BY <3>1, CancelTwo
    <3> QED  BY <3>2 DEF z
  <2>4. PICK c \in Int : 2 ^ e * x1 = m * c
    BY <2>3 DEF Divides
  <2> QED  BY <1>2, <2>4
<1>3. n \in T
  <2> HIDE DEF T
  <2> QED  BY <1>1, <1>2, Induction
<1> QED  BY <1>3

NegInverse(m, n, i) == i \in 0 .. 2 ^ n - 1 /\ \E c \in Int : m * i + 1 = c * 2 ^ n

(* An odd number has a negated inverse modulo every power of two.          *)
LEMMA NegatedInverse ==
  ASSUME NEW m \in Int, Odd(m), NEW n \in Nat
  PROVE  \E i : NegInverse(m, n, i)
<1> DEFINE T == {e \in Nat : \E i : NegInverse(m, e, i)}
<1>1. 0 \in T
  <2>1. 0 \in 0 .. 2 ^ 0 - 1 /\ m * 0 + 1 = 1 * 2 ^ 0
    BY PowerOfTwo
  <2>2. NegInverse(m, 0, 0)
    BY <2>1 DEF NegInverse
  <2> QED  BY <2>2
<1>2. ASSUME NEW e \in Nat, e \in T
      PROVE  e + 1 \in T
  <2> DEFINE b2 == 2 ^ e
  <2>1. b2 \in Nat \ {0} /\ 2 ^ (e + 1) = 2 * b2
    BY PowerOfTwo, PowerPositive
  <2>2. PICK i \in 0 .. b2 - 1, c \in Int : m * i + 1 = c * b2
    BY <1>2 DEF NegInverse
  <2>3. PICK h \in Int : m = 2 * h + 1
    BY DEF Odd
  <2>4. PICK g \in Int, r \in {0, 1} : c = 2 * g + r
    BY Halves
  <2> HIDE DEF b2
  <2>5. CASE r = 0
    <3>1. c * b2 = g * (2 * b2)
      BY <2>1, <2>4, <2>5
    <3>2. i \in 0 .. 2 * b2 - 1 /\ m * i + 1 = g * (2 * b2)
      BY <2>1, <2>2, <3>1
    <3>3. NegInverse(m, e + 1, i)
      BY <2>1, <3>2 DEF NegInverse
    <3> QED  BY <3>3
  <2>6. CASE r = 1
    <3>1. c = 2 * g + 1 /\ c \in Int /\ b2 \in Int
      BY <2>1, <2>4, <2>6
    <3>2. m * (i + b2) + 1 = (m * i + 1) + m * b2
      BY <3>1
    <3>3. m * b2 = h * (2 * b2) + b2
      BY <2>3, <3>1
    <3>4. c * b2 = g * (2 * b2) + b2
      BY <3>1
    <3>5. (g + h + 1) * (2 * b2) = g * (2 * b2) + h * (2 * b2) + 2 * b2
      BY <3>1
    <3>6. m * (i + b2) + 1 = (g + h + 1) * (2 * b2)
      <4> DEFINE x1 == g * (2 * b2)
                 x2 == h * (2 * b2)
                 x3 == m * (i + b2)
                 x4 == m * i
                 x5 == m * b2
                 x6 == c * b2
                 x7 == (g + h + 1) * (2 * b2)
      <4>1. {x1, x2, x3, x4, x5, x6, x7} \subseteq Int
        BY <3>1
      <4>2. /\ x3 + 1 = (x4 + 1) + x5 /\ x5 = x2 + b2 /\ x6 = x1 + b2
            /\ x7 = x1 + x2 + 2 * b2 /\ x4 + 1 = x6
        BY <2>2, <3>2, <3>3, <3>4, <3>5
      <4> HIDE DEF x1, x2, x3, x4, x5, x6, x7
      <4>3. x3 + 1 = x7
        BY <4>1, <4>2, <3>1
      <4> QED  BY <4>3 DEF x3, x7
    <3>7. i + b2 \in 0 .. 2 * b2 - 1
      BY <2>1
    <3>8. NegInverse(m, e + 1, i + b2)
      <4>1. g + h + 1 \in Int
        OBVIOUS
      <4> QED  BY <2>1, <3>6, <3>7, <4>1 DEF NegInverse
    <3> QED  BY <3>8
  <2> QED  BY <2>4, <2>5, <2>6
<1>3. n \in T
  <2> HIDE DEF T
  <2> QED  BY <1>1, <1>2, Induction
<1> QED  BY <1>3

----------------------------------------------------------------------------
(* One Montgomery step.                                                    *)

(* A word holds something.                                                 *)
LEMMA BaseType == Base \in Nat \ {0} /\ W \in Nat
BY WordAssumption, PowerPositive DEF Base

(* Division of integers.                                                   *)
LEMMA Division ==
  ASSUME NEW d \in Nat \ {0}, NEW z \in Int
  PROVE  z \div d \in Int /\ z % d \in 0 .. d - 1 /\ z = (z \div d) * d + (z % d)
OBVIOUS

(* A remainder of 0 is divisibility.                                       *)
LEMMA ZeroRemainder ==
  ASSUME NEW d \in Nat \ {0}, NEW z \in Int
  PROVE  /\ z % d = 0 <=> Divides(d, z)
         /\ \A c \in Int : z = d * c => z \div d = c
<1>1. ASSUME NEW c \in Int, z = d * c
      PROVE  z \div d = c /\ z % d = 0
  <2>1. z = c * d + 0 /\ 0 \in 0 .. d - 1
    BY <1>1
  <2> QED  BY <2>1, QuotientUnique
<1>2. ASSUME z % d = 0
      PROVE  Divides(d, z)
  <2> DEFINE c == z \div d
  <2>1. c \in Int /\ z = c * d + 0
    BY <1>2, Division
  <2> HIDE DEF c
  <2>2. z = d * c
    BY <2>1
  <2> QED  BY <2>1, <2>2 DEF Divides
<1> QED  BY <1>1, <1>2 DEF Divides

(* Products grow with their factors.                                       *)
LEMMA ProductMonotone ==
  ASSUME NEW m \in Int, NEW n \in Int, NEW c \in Nat, m <= n
  PROVE  m * c <= n * c
<1> DEFINE d == n - m
<1>1. d \in Nat /\ n = m + d
  OBVIOUS
<1> HIDE DEF d
<1>2. (m + d) * c = m * c + d * c /\ d * c \in Nat /\ m * c \in Int
  BY <1>1
<1> QED  BY <1>1, <1>2

(* ninv is what ninv31 computes.                                           *)
LEMMA NinvIs ==
  ASSUME NEW m \in Int, Odd(m)
  PROVE  ninv(m) \in 0 .. Base - 1 /\ Divides(Base, m * ninv(m) + 1)
<1>1. PICK i : NegInverse(m, W, i)
  BY NegatedInverse, BaseType
<1>2. i \in 0 .. Base - 1 /\ Divides(Base, m * i + 1)
  <2>1. i \in 0 .. Base - 1 /\ \E c \in Int : m * i + 1 = c * Base
    BY <1>1 DEF NegInverse, Base
  <2>2. \A c \in Int : c * Base = Base * c
    BY BaseType
  <2> QED  BY <2>1, <2>2 DEF Divides
<1>3. \A j \in 0 .. Base - 1 : (m * j + 1) % Base = 0 <=> Divides(Base, m * j + 1)
  <2> SUFFICES ASSUME NEW j \in 0 .. Base - 1
               PROVE  (m * j + 1) % Base = 0 <=> Divides(Base, m * j + 1)
    OBVIOUS
  <2>1. j \in Int /\ m * j + 1 \in Int
    BY BaseType
  <2> QED  BY <2>1, BaseType, ZeroRemainder
<1>4. ninv(m) \in 0 .. Base - 1 /\ (m * ninv(m) + 1) % Base = 0
  BY <1>2, <1>3 DEF ninv
<1> QED  BY <1>3, <1>4

(* The absolute values of two factors add up to at most n.                 *)
Bounded(k0, k1, n) ==
  /\ k0 \in Int /\ k1 \in Int
  /\ \E h0 \in Nat, h1 \in Nat :
       h0 + h1 <= n /\ -h0 <= k0 /\ k0 <= h0 /\ -h1 <= k1 /\ k1 <= h1

(* A product with a factor in -h .. h.                                     *)
LEMMA ProductWithin ==
  ASSUME NEW m \in Nat, NEW c \in 0 .. m, NEW h \in Nat, NEW k \in Int, -h <= k, k <= h
  PROVE  -(m * h) <= c * k /\ c * k <= m * h
<1>1. c \in Nat /\ c <= m /\ -h \in Int
  OBVIOUS
<1>2. (-h) * c <= k * c /\ k * c <= h * c /\ c * h <= m * h
  BY <1>1, ProductMonotone
<1>3. (-h) * c = -(c * h) /\ k * c = c * k /\ h * c = c * h
  BY <1>1
<1>4. c * h \in Int /\ m * h \in Int /\ c * k \in Int
  BY <1>1
<1> QED  BY <1>2, <1>3, <1>4

(* A combination with such factors exceeds the larger operand n times at   *)
(* most.                                                                   *)
LEMMA CombinationWithin ==
  ASSUME NEW m \in Nat, NEW c0 \in 0 .. m, NEW c1 \in 0 .. m, NEW n \in Nat,
         NEW k0, NEW k1, Bounded(k0, k1, n)
  PROVE  /\ c0 * k0 + c1 * k1 \in Int
         /\ -(m * n) <= c0 * k0 + c1 * k1 /\ c0 * k0 + c1 * k1 <= m * n
<1>1. PICK h0 \in Nat, h1 \in Nat :
        h0 + h1 <= n /\ -h0 <= k0 /\ k0 <= h0 /\ -h1 <= k1 /\ k1 <= h1
  BY DEF Bounded
<1>2. k0 \in Int /\ k1 \in Int
  BY DEF Bounded
<1> DEFINE x0 == c0 * k0
           x1 == c1 * k1
           y0 == m * h0
           y1 == m * h1
           z  == m * n
<1>3. x0 \in Int /\ x1 \in Int /\ y0 \in Int /\ y1 \in Int /\ z \in Int
  BY <1>2
<1>4. -y0 <= x0 /\ x0 <= y0 /\ -y1 <= x1 /\ x1 <= y1
  BY <1>1, <1>2, ProductWithin
<1>5. y0 + y1 <= z
  <2>1. (h0 + h1) * m <= n * m
    BY <1>1, ProductMonotone
  <2>2. (h0 + h1) * m = y0 + y1 /\ n * m = z
    OBVIOUS
  <2> QED  BY <2>1, <2>2
<1> HIDE DEF x0, x1, y0, y1, z
<1>6. x0 + x1 \in Int /\ -z <= x0 + x1 /\ x0 + x1 <= z
  BY <1>3, <1>4, <1>5
<1> QED  BY <1>6 DEF x0, x1, z

(* r is z / Base modulo m.                                                 *)
IsQuotient(r, z, m) == r \in Int /\ \E t \in Int : Base * r = z + m * t

(* The Montgomery step divides exactly, and its result is within one       *)
(* modulus of being reduced.                                               *)
LEMMA MontgomeryIs ==
  ASSUME NEW m \in Nat, Odd(m), NEW c0 \in 0 .. m, NEW c1 \in 0 .. m,
         NEW k0, NEW k1, Bounded(k0, k1, Base)
  PROVE  /\ -m <= Montgomery(c0, c1, k0, k1, m)
         /\ Montgomery(c0, c1, k0, k1, m) < 2 * m
         /\ IsQuotient(Montgomery(c0, c1, k0, k1, m), c0 * k0 + c1 * k1, m)
<1> DEFINE z == c0 * k0 + c1 * k1
           n == ninv(m)
           t == (z * n) % Base
           r == Montgomery(c0, c1, k0, k1, m)
<1>1. z \in Int /\ -(m * Base) <= z /\ z <= m * Base
  BY BaseType, CombinationWithin
<1>2. m \in Int /\ n \in Int /\ m \in Nat \ {0}
  BY NinvIs, BaseType DEF Odd
<1>3. PICK c \in Int : m * n + 1 = Base * c
  BY <1>2, NinvIs DEF Divides
<1>4. r = (z + m * t) \div Base
  BY DEF Montgomery
<1> HIDE DEF z, n, r
<1>5. PICK e \in Int : t \in 0 .. Base - 1 /\ z * n = e * Base + t
  <2>1. z * n \in Int
    BY <1>1, <1>2
  <2> QED  BY <2>1, BaseType, Division
<1> HIDE DEF t
<1>6. z + m * t = Base * (z * c - m * e)
  <2>1. t = z * n - e * Base /\ t \in Int /\ Base \in Int
    BY <1>1, <1>2, <1>5, BaseType
  <2>2. m * (z * n - e * Base) = z * (m * n) - Base * (m * e)
    BY <1>1, <1>2, <2>1
  <2>3. m * n = Base * c - 1
    BY <1>2, <1>3, <2>1
  <2>4. z * (Base * c - 1) = Base * (z * c) - z
    BY <1>1, <2>1
  <2>5. Base * (z * c - m * e) = Base * (z * c) - Base * (m * e)
    BY <1>1, <1>2, <2>1
  <2> DEFINE x1 == Base * (z * c)
             x2 == Base * (m * e)
  <2>6. x1 \in Int /\ x2 \in Int
    BY <1>1, <1>2, <2>1
  <2> HIDE DEF x1, x2
  <2>7. m * t = (x1 - z) - x2
    BY <2>1, <2>2, <2>3, <2>4 DEF x1, x2
  <2>8. z + m * t = x1 - x2
    BY <1>1, <2>6, <2>7
  <2> QED  BY <2>5, <2>8 DEF x1, x2
<1>7. z * c - m * e \in Int /\ z + m * t \in Int /\ m * t \in Int /\ t \in Int
  BY <1>1, <1>2, <1>5, BaseType
<1>8. r = z * c - m * e
  BY <1>4, <1>6, <1>7, BaseType, ZeroRemainder
<1>9. r \in Int /\ Base * r = z + m * t
  BY <1>6, <1>7, <1>8
<1>10. -m <= r
  <2> SUFFICES ASSUME r < -m PROVE FALSE
    BY <1>9
  <2>1. r * Base + Base <= (-m) * Base
    BY <1>2, <1>9, BaseType, MultipleAbove
  <2>2. (-m) * Base = -(m * Base) /\ r * Base = Base * r /\ 0 <= m * t
    BY <1>2, <1>5, <1>9, BaseType
  <2>3. m * Base \in Int /\ Base * r \in Int
    BY <1>2, <1>9, BaseType
  <2> QED  BY <1>1, <1>7, <1>9, <2>1, <2>2, <2>3, BaseType
<1>11. r < 2 * m
  <2> SUFFICES ASSUME 2 * m <= r PROVE FALSE
    BY <1>2, <1>9
  <2>1. (2 * m) * Base <= r * Base
    BY <1>2, <1>9, BaseType, ProductMonotone
  <2>2. (2 * m) * Base = 2 * (m * Base) /\ r * Base = Base * r
    BY <1>2, <1>9, BaseType
  <2>3. t * m <= (Base - 1) * m /\ (Base - 1) * m = m * Base - m /\ t * m = m * t
    <3>1. t <= Base - 1 /\ Base - 1 \in Int
      BY <1>5, BaseType
    <3>2. (Base - 1) * m = m * Base - m /\ t * m = m * t
      BY <1>2, <1>7, BaseType
    <3> QED  BY <1>7, <3>1, <3>2, ProductMonotone
  <2>4. m * Base \in Int
    BY <1>2, BaseType
  <2> QED  BY <1>1, <1>2, <1>7, <1>9, <2>1, <2>2, <2>3, <2>4
<1>12. IsQuotient(r, z, m)
  BY <1>7, <1>9 DEF IsQuotient
<1> QED  BY <1>10, <1>11, <1>12 DEF r, z

(* What zint_finish_mod makes of it is reduced and in the same class.      *)
LEMMA CoReduceModIs ==
  ASSUME NEW m \in Nat, Odd(m), NEW c0 \in 0 .. m, NEW c1 \in 0 .. m,
         NEW k0, NEW k1, Bounded(k0, k1, Base)
  PROVE  /\ CoReduceMod(c0, c1, k0, k1, m) \in 0 .. m - 1
         /\ IsQuotient(CoReduceMod(c0, c1, k0, k1, m), c0 * k0 + c1 * k1, m)
<1> DEFINE z == c0 * k0 + c1 * k1
           p == Montgomery(c0, c1, k0, k1, m)
           r == CoReduceMod(c0, c1, k0, k1, m)
<1>0. -m <= p /\ p < 2 * m /\ IsQuotient(p, z, m)
  BY MontgomeryIs
<1>1. PICK t \in Int : p \in Int /\ -m <= p /\ p < 2 * m /\ Base * p = z + m * t
  <2> HIDE DEF p, z
  <2> QED  BY <1>0 DEF IsQuotient
<1>2. z \in Int /\ m \in Nat
  BY BaseType, CombinationWithin
<1>3. PICK d \in {-1, 0, 1} : r = p + d * m /\ r \in 0 .. m - 1
  <2>1. r = IF p < 0 THEN p + m ELSE IF p >= m THEN p - m ELSE p
    BY DEF CoReduceMod, FinishMod
  <2> HIDE DEF p, r
  <2>2. CASE p < 0
    <3>1. r = p + 1 * m /\ r \in 0 .. m - 1
      BY <1>1, <1>2, <2>1, <2>2
    <3> QED  BY <3>1
  <2>3. CASE p >= m
    <3>1. r = p + (-1) * m /\ r \in 0 .. m - 1
      BY <1>1, <1>2, <2>1, <2>3
    <3> QED  BY <3>1
  <2>4. CASE 0 <= p /\ p < m
    <3>1. r = p + 0 * m /\ r \in 0 .. m - 1
      BY <1>1, <1>2, <2>1, <2>4
    <3> QED  BY <3>1
  <2> QED  BY <1>1, <1>2, <2>2, <2>3, <2>4
<1> HIDE DEF p, z
<1>4. Base * (p + d * m) = z + m * (t + d * Base)
  <2>1. Base \in Int /\ d \in Int
    BY BaseType
  <2>2. Base * (p + d * m) = Base * p + m * (d * Base)
    BY <1>1, <1>2, <2>1
  <2>3. m * (t + d * Base) = m * t + m * (d * Base)
    BY <1>1, <1>2, <2>1
  <2>4. m * t \in Int /\ m * (d * Base) \in Int
    BY <1>1, <1>2, <2>1
  <2> QED  BY <1>1, <1>2, <2>2, <2>3, <2>4
<1>5. t + d * Base \in Int
  BY BaseType
<1> HIDE DEF r
<1>6. r \in 0 .. m - 1 /\ IsQuotient(r, z, m)
  BY <1>3, <1>4, <1>5 DEF IsQuotient
<1> QED  BY <1>6 DEF r, z

----------------------------------------------------------------------------
(* One inner iteration, exactly: what the factors and low words stand for. *)

(* Multiples of the modulus do not count.                                  *)
LEMMA SameRemainder ==
  ASSUME NEW m \in Nat \ {0}, NEW z \in Int, NEW w \in Int, NEW c \in Int, w = z + c * m
  PROVE  w % m = z % m
<1> DEFINE k == z \div m
           r == z % m
<1>1. k \in Int /\ r \in 0 .. m - 1 /\ z = k * m + r
  BY Division
<1> HIDE DEF k, r
<1>2. w = (k + c) * m + r /\ k + c \in Int
  <2>1. (k + c) * m = k * m + c * m /\ k * m \in Int /\ c * m \in Int
    BY <1>1
  <2> QED  BY <1>1, <2>1
<1>3. w % m = r
  BY <1>1, <1>2, QuotientUnique
<1> QED  BY <1>3 DEF r

(* Low words may be doubled and subtracted modulo the base.                *)
LEMMA LowDouble ==
  ASSUME NEW m \in Nat \ {0}, NEW z \in Int
  PROVE  /\ (z % m) % m = z % m
         /\ (2 * (z % m)) % m = (2 * z) % m
<1>1. PICK k \in Int, r \in 0 .. m - 1 : z = k * m + r /\ z % m = r
  BY Division
<1>2. r \in Int /\ k * m \in Int /\ z = r + k * m
  BY <1>1
<1>3. 2 * z = 2 * r + (2 * k) * m /\ 2 * k \in Int /\ 2 * z \in Int /\ 2 * r \in Int
  <2>1. (2 * k) * m = 2 * (k * m)
    BY <1>1
  <2> QED  BY <1>1, <1>2, <2>1
<1>4. z % m = r % m
  BY <1>1, <1>2, SameRemainder
<1>5. (2 * z) % m = (2 * r) % m
  BY <1>3, SameRemainder
<1> QED  BY <1>1, <1>4, <1>5

(* The same for a difference.                                              *)
LEMMA LowDifference ==
  ASSUME NEW m \in Nat \ {0}, NEW z \in Int, NEW w \in Int
  PROVE  ((z % m) - (w % m)) % m = (z - w) % m
<1>1. PICK k \in Int, r \in 0 .. m - 1 : z = k * m + r /\ z % m = r
  BY Division
<1>2. PICK l \in Int, s \in 0 .. m - 1 : w = l * m + s /\ w % m = s
  BY Division
<1>3. r \in Int /\ s \in Int /\ k * m \in Int /\ l * m \in Int
  BY <1>1, <1>2
<1>4. z - w = (r - s) + (k - l) * m /\ k - l \in Int /\ z - w \in Int /\ r - s \in Int
  <2>1. (k - l) * m = k * m - l * m
    BY <1>1
  <2> QED  BY <1>1, <1>2, <1>3, <2>1
<1>5. (z - w) % m = (r - s) % m
  BY <1>4, SameRemainder
<1> QED  BY <1>1, <1>2, <1>5

(* The factors p0 and p1 make n times e of the remainders a and b, and low *)
(* is the low word of that.                                                *)
Row(n, e, p0, p1, low) ==
  /\ e \in Int /\ Bounded(p0, p1, n)
  /\ a * p0 + b * p1 = n * e
  /\ low = (n * e) % Base

(* Factors are bounded after a subtraction, and after a doubling.          *)
LEMMA BoundsGrow ==
  ASSUME NEW n \in Nat, NEW p0, NEW p1, NEW q0, NEW q1,
         Bounded(p0, p1, n), Bounded(q0, q1, n)
  PROVE  /\ Bounded(p0, p1, 2 * n)
         /\ Bounded(p0 - q0, p1 - q1, 2 * n)
         /\ Bounded(2 * p0, 2 * p1, 2 * n)
<1>1. PICK h0 \in Nat, h1 \in Nat :
        h0 + h1 <= n /\ -h0 <= p0 /\ p0 <= h0 /\ -h1 <= p1 /\ p1 <= h1
  BY DEF Bounded
<1>2. PICK i0 \in Nat, i1 \in Nat :
        i0 + i1 <= n /\ -i0 <= q0 /\ q0 <= i0 /\ -i1 <= q1 /\ q1 <= i1
  BY DEF Bounded
<1>3. p0 \in Int /\ p1 \in Int /\ q0 \in Int /\ q1 \in Int
  BY DEF Bounded
<1>4. Bounded(p0, p1, 2 * n)
  BY <1>1, <1>3 DEF Bounded
<1>5. Bounded(p0 - q0, p1 - q1, 2 * n)
  <2>1. /\ h0 + i0 \in Nat /\ h1 + i1 \in Nat /\ (h0 + i0) + (h1 + i1) <= 2 * n
        /\ -(h0 + i0) <= p0 - q0 /\ p0 - q0 <= h0 + i0
        /\ -(h1 + i1) <= p1 - q1 /\ p1 - q1 <= h1 + i1
        /\ p0 - q0 \in Int /\ p1 - q1 \in Int
    BY <1>1, <1>2, <1>3
  <2> QED  BY <2>1 DEF Bounded
<1>6. Bounded(2 * p0, 2 * p1, 2 * n)
  <2>1. /\ 2 * h0 \in Nat /\ 2 * h1 \in Nat /\ 2 * h0 + 2 * h1 <= 2 * n
        /\ -(2 * h0) <= 2 * p0 /\ 2 * p0 <= 2 * h0
        /\ -(2 * h1) <= 2 * p1 /\ 2 * p1 <= 2 * h1
        /\ 2 * p0 \in Int /\ 2 * p1 \in Int
    BY <1>1, <1>3
  <2> QED  BY <2>1 DEF Bounded
<1> QED  BY <1>4, <1>5, <1>6

(* Halving a number, or the difference of two: its factors stay, and those *)
(* of the other number double.                                             *)
LEMMA RowHalved ==
  ASSUME a \in Nat, b \in Nat, NEW n \in Nat, NEW d \in {0, 1},
         NEW e, NEW p0, NEW p1, NEW low, Row(n, e, p0, p1, low),
         NEW f, NEW q0, NEW q1, NEW lof, Row(n, f, q0, q1, lof),
         NEW h \in Int, 2 * h = e - d * f
  PROVE  Row(2 * n, h, p0 - d * q0, p1 - d * q1, (low - d * lof) % Base)
<1>1. /\ e \in Int /\ f \in Int /\ p0 \in Int /\ p1 \in Int /\ q0 \in Int /\ q1 \in Int
      /\ a * p0 + b * p1 = n * e /\ a * q0 + b * q1 = n * f
      /\ low = (n * e) % Base /\ lof = (n * f) % Base
      /\ Bounded(p0, p1, n) /\ Bounded(q0, q1, n)
  BY DEF Row, Bounded
<1>2. CASE d = 0
  <2>1. p0 - d * q0 = p0 /\ p1 - d * q1 = p1 /\ low - d * lof = low /\ e = 2 * h
    <3>1. lof \in Int /\ low \in Int
      BY <1>1, BaseType
    <3> QED  BY <1>1, <1>2, <3>1
  <2>2. (2 * n) * h = n * e
    BY <2>1
  <2>3. low % Base = low
    <3>1. n * e \in Int
      BY <1>1
    <3> QED  BY <1>1, <3>1, BaseType, LowDouble
  <2>4. Bounded(p0, p1, 2 * n)
    BY <1>1, BoundsGrow
  <2> QED  BY <1>1, <2>1, <2>2, <2>3, <2>4 DEF Row
<1>3. CASE d = 1
  <2>1. p0 - d * q0 = p0 - q0 /\ p1 - d * q1 = p1 - q1 /\ low - d * lof = low - lof
        /\ e = 2 * h + f
    <3>1. lof \in Int /\ low \in Int
      BY <1>1, BaseType
    <3> QED  BY <1>1, <1>3, <3>1
  <2>2. (2 * n) * h = n * e - n * f
    BY <1>1, <2>1
  <2>3. a * (p0 - q0) + b * (p1 - q1) = (a * p0 + b * p1) - (a * q0 + b * q1)
    BY <1>1
  <2>4. (low - lof) % Base = (n * e - n * f) % Base
    <3> DEFINE z == n * e
               w == n * f
    <3>1. z \in Int /\ w \in Int /\ low = z % Base /\ lof = w % Base
      BY <1>1
    <3> HIDE DEF z, w
    <3>2. ((z % Base) - (w % Base)) % Base = (z - w) % Base
      BY <3>1, BaseType, LowDifference
    <3>3. low - lof = (z % Base) - (w % Base)
      BY <3>1
    <3>4. (low - lof) % Base = (z - w) % Base
      BY <3>2, <3>3
    <3> QED  BY <3>4 DEF z, w
  <2>5. Bounded(p0 - q0, p1 - q1, 2 * n)
    BY <1>1, BoundsGrow
  <2> QED  BY <1>1, <2>1, <2>2, <2>3, <2>4, <2>5 DEF Row
<1> QED  BY <1>2, <1>3

(* The other number stays, and its factors double.                         *)
LEMMA RowDoubled ==
  ASSUME a \in Nat, b \in Nat, NEW n \in Nat,
         NEW f, NEW q0, NEW q1, NEW lof, Row(n, f, q0, q1, lof)
  PROVE  Row(2 * n, f, 2 * q0, 2 * q1, (2 * lof) % Base)
<1>1. /\ f \in Int /\ q0 \in Int /\ q1 \in Int
      /\ a * q0 + b * q1 = n * f /\ lof = (n * f) % Base /\ Bounded(q0, q1, n)
  BY DEF Row, Bounded
<1>2. a * (2 * q0) + b * (2 * q1) = 2 * (a * q0 + b * q1) /\ 2 * (n * f) = (2 * n) * f
  BY <1>1
<1>3. (2 * lof) % Base = (2 * (n * f)) % Base
  <2>1. n * f \in Int
    BY <1>1
  <2> QED  BY <1>1, <2>1, BaseType, LowDouble
<1>4. Bounded(2 * q0, 2 * q1, 2 * n)
  BY <1>1, BoundsGrow
<1> QED  BY <1>1, <1>2, <1>3, <1>4 DEF Row

(* Bit i of the low word of 2^i * e is the parity of e.                    *)
LEMMA BitIsParity ==
  ASSUME NEW i \in 0 .. W - 1, NEW e \in Int
  PROVE  Bit((2 ^ i * e) % Base, i) = e % 2
<1> DEFINE n == 2 ^ i
           m == 2 ^ (W - i - 1)
           c == (2 * m)
           k == e \div c
           r == e % c
<1>1. i \in Nat /\ W - i - 1 \in Nat /\ W = i + 1 + (W - i - 1) /\ i + 1 \in Nat
  BY BaseType
<1>2. n \in Nat \ {0} /\ m \in Nat \ {0} /\ 2 ^ (i + 1) = 2 * n
  BY <1>1, PowerOfTwo, PowerPositive
<1>3. Base = n * c
  <2>1. Base = 2 ^ (i + 1) * m
    BY <1>1, PowerSum DEF Base
  <2>2. (2 * n) * m = n * (2 * m)
    BY <1>2
  <2> QED  BY <1>2, <2>1, <2>2
<1>4. c \in Nat \ {0}
  BY <1>2
<1>5. k \in Int /\ r \in 0 .. c - 1 /\ e = k * c + r
  BY <1>4, Division
<1> HIDE DEF n, c, k, r
<1>6. n * e = k * Base + n * r
  BY <1>2, <1>3, <1>4, <1>5
<1>7. n * r \in 0 .. Base - 1
  <2>1. r \in Nat /\ r \in Int /\ c \in Int /\ r < c
    BY <1>4, <1>5
  <2>2. r * n + n <= c * n
    BY <1>2, <2>1, MultipleAbove
  <2>3. r * n = n * r /\ c * n = n * c /\ n * r \in Nat /\ n * c \in Nat
    BY <1>2, <1>4, <2>1
  <2> QED  BY <1>2, <1>3, <2>2, <2>3
<1>8. (n * e) % Base = n * r
  BY <1>5, <1>6, <1>7, BaseType, QuotientUnique
<1>9. (n * r) \div n = r
  <2>1. n * r = r * n + 0 /\ 0 \in 0 .. n - 1 /\ r \in Int
    BY <1>2, <1>4, <1>5
  <2> QED  BY <1>2, <2>1, QuotientUnique
<1>10. e % 2 = r % 2
  <2>1. e = r + (k * m) * 2 /\ k * m \in Int /\ r \in Int
    <3>1. k * (2 * m) = (k * m) * 2 /\ k * m \in Int
      BY <1>2, <1>5
    <3> QED  BY <1>4, <1>5, <3>1 DEF c
  <2> QED  BY <2>1, SameRemainder
<1> QED  BY <1>8, <1>9, <1>10 DEF Bit, n

----------------------------------------------------------------------------
(* One inner iteration, approximately: what the top words are worth.       *)

(* e is a number below bound in size that was halved k times, when the     *)
(* other number was halved j times; top counts its units of s.  The error  *)
(* grows by half a unit with each subtraction, and each subtraction is     *)
(* followed by a halving, so that either count bounds it.  There were most *)
(* units at the beginning, which were halved as often.                     *)
Approximate(s, k, j, e, top, most, bound) ==
  /\ k \in Nat /\ e \in Int /\ top \in Nat /\ most \in Nat /\ bound \in Nat
  /\ s * most <= bound /\ 2 ^ k * top <= most
  /\ -bound <= e /\ e <= bound
  /\ -(k * s) <= 2 * (e - s * top) /\ 2 * (e - s * top) <= k * s + 2 * s
  /\ -(j * s + 2 * s) <= 2 * (e - s * top) /\ 2 * (e - s * top) <= j * s + 2 * s

(* More halvings of the other number leave the estimate valid.             *)
LEMMA ApproximateStays ==
  ASSUME NEW s \in Nat \ {0}, NEW k, NEW j \in Nat, NEW e, NEW top, NEW most, NEW bound,
         Approximate(s, k, j, e, top, most, bound)
  PROVE  Approximate(s, k, j + 1, e, top, most, bound)
<1>1. (j + 1) * s = j * s + s /\ j * s \in Int /\ s * top \in Int
  BY DEF Approximate
<1> DEFINE x1 == (j + 1) * s
           x2 == j * s
           x3 == s * top
<1>2. x1 = x2 + s /\ x2 \in Int /\ x3 \in Int
  BY <1>1
<1>3. e \in Int /\ -(x2 + 2 * s) <= 2 * (e - x3) /\ 2 * (e - x3) <= x2 + 2 * s
  BY DEF Approximate
<1> HIDE DEF x1, x2, x3
<1>4. -(x1 + 2 * s) <= 2 * (e - x3) /\ 2 * (e - x3) <= x1 + 2 * s
  BY <1>2, <1>3
<1> QED  BY <1>4 DEF Approximate, x1, x3

(* A number that is halved, after the subtraction of another one that is   *)
(* not greater by the top words, stays below its bound although the top    *)
(* words may be wrong about which one is greater.                          *)
LEMMA HalvedWithin ==
  ASSUME NEW s \in Nat \ {0}, NEW k \in Nat, NEW j \in Nat,
         NEW e, NEW top, NEW most, NEW bound,
         Approximate(s, k, j, e, top, most, bound),
         NEW f, NEW tof, NEW mosf, NEW bounf,
         Approximate(s, j, k, f, tof, mosf, bounf),
         tof <= top, 1 <= top
  PROVE  -(2 * bound) <= e - f /\ e - f <= 2 * bound
<1> DEFINE p  == 2 ^ k
           st == s * top
           sf == s * tof
           sm == s * most
           ks == k * s
<1>1. /\ e \in Int /\ f \in Int /\ top \in Nat /\ tof \in Nat /\ most \in Nat
      /\ bound \in Nat /\ p \in Nat
      /\ st \in Nat /\ sf \in Nat /\ sm \in Nat /\ ks \in Nat
      /\ sm <= bound /\ p * top <= most /\ e <= bound
      /\ -ks <= 2 * (e - st) /\ 2 * (e - st) <= ks + 2 * s
      /\ -(ks + 2 * s) <= 2 * (f - sf) /\ 2 * (f - sf) <= ks + 2 * s
  BY PowerOfTwo DEF Approximate
<1>2. k + 1 <= p /\ (k >= 1 => p >= 2)
  BY PowerPositive
<1>3. k + 1 <= most
  <2>1. p <= p * top
    <3>1. 1 * p <= top * p /\ 1 * p = p /\ top * p = p * top
      BY <1>1, ProductMonotone
    <3> QED  BY <3>1
  <2> QED  BY <1>1, <1>2, <2>1
<1>4. ks + s <= sm
  <2>1. (k + 1) * s <= most * s
    BY <1>1, <1>3, ProductMonotone
  <2>2. (k + 1) * s = ks + s /\ most * s = sm
    BY <1>1
  <2> QED  BY <2>1, <2>2
<1>5. sf <= st
  <2>1. tof * s <= top * s /\ tof * s = sf /\ top * s = st
    BY <1>1, ProductMonotone
  <2> QED  BY <2>1
<1>6. k >= 1 => 2 * st <= sm
  <2> SUFFICES ASSUME k >= 1
               PROVE  2 * st <= sm
    OBVIOUS
  <2>1. 2 * top <= p * top
    BY <1>1, <1>2, ProductMonotone
  <2>2. 2 * top <= most /\ p * top \in Int
    BY <1>1, <2>1
  <2>3. (2 * top) * s <= most * s /\ (2 * top) * s = 2 * st /\ most * s = sm
    BY <1>1, <2>2, ProductMonotone
  <2> QED  BY <2>3
<1>7. k >= 1 => s <= ks
  <2> SUFFICES ASSUME k >= 1
               PROVE  s <= ks
    OBVIOUS
  <2>1. 1 * s <= k * s /\ 1 * s = s
    BY ProductMonotone
  <2> QED  BY <2>1
<1>8. k = 0 => ks = 0
  OBVIOUS
<1> HIDE DEF p, st, sf, sm, ks
<1>9. -(2 * bound) <= e - f
  BY <1>1, <1>4, <1>5
<1>10. CASE k = 0
  BY <1>1, <1>4, <1>8, <1>9, <1>10
<1>11. CASE k >= 1
  BY <1>1, <1>4, <1>6, <1>7, <1>9, <1>11
<1> QED  BY <1>10, <1>11

(* So the estimate of the halved number is valid, counting its halving.    *)
LEMMA ApproximateHalved ==
  ASSUME NEW s \in Nat \ {0}, NEW k \in Nat, NEW j \in Nat, NEW d \in {0, 1},
         NEW e, NEW top, NEW most, NEW bound,
         Approximate(s, k, j, e, top, most, bound),
         NEW f, NEW tof, NEW mosf, NEW bounf,
         Approximate(s, j, k, f, tof, mosf, bounf),
         d = 1 => tof <= top /\ 1 <= top,
         NEW h \in Int, 2 * h = e - d * f
  PROVE  Approximate(s, k + 1, j, h, (top - d * tof) \div 2, most, bound)
<1> DEFINE t  == (top - d * tof) \div 2
           p  == 2 ^ k
           st == s * top
           sf == s * tof
           sn == s * t
           ks == k * s
           js == j * s
<1>1. /\ e \in Int /\ f \in Int /\ top \in Nat /\ tof \in Nat /\ most \in Nat
      /\ bound \in Nat /\ p \in Nat /\ s * most <= bound /\ p * top <= most
      /\ st \in Nat /\ sf \in Nat /\ ks \in Nat /\ js \in Nat
      /\ -bound <= e /\ e <= bound
      /\ -ks <= 2 * (e - st) /\ 2 * (e - st) <= ks + 2 * s
      /\ -(js + 2 * s) <= 2 * (e - st) /\ 2 * (e - st) <= js + 2 * s
      /\ -js <= 2 * (f - sf) /\ 2 * (f - sf) <= js + 2 * s
      /\ -(ks + 2 * s) <= 2 * (f - sf) /\ 2 * (f - sf) <= ks + 2 * s
  BY PowerOfTwo DEF Approximate
<1>2. PICK r \in {0, 1} : t \in Nat /\ top - d * tof = 2 * t + r
  <2>1. top - d * tof \in Nat
    BY <1>1
  <2> QED  BY <2>1
<1> HIDE DEF t
<1>3. 2 * t <= top
  BY <1>1, <1>2
<1>4. st - d * sf = 2 * sn + r * s /\ sn \in Nat
  <2>1. s * (top - d * tof) = s * (2 * t + r)
    BY <1>2
  <2>2. s * (top - d * tof) = st - d * sf
    BY <1>1
  <2>3. s * (2 * t + r) = 2 * sn + r * s
    BY <1>2
  <2> QED  BY <1>2, <2>1, <2>2, <2>3
<1>5. 2 ^ (k + 1) * t <= most
  <2>1. 2 ^ (k + 1) = 2 * p
    BY PowerOfTwo
  <2>2. (2 * t) * p <= top * p
    BY <1>1, <1>2, <1>3, ProductMonotone
  <2>3. (2 * t) * p = (2 * p) * t /\ top * p = p * top
    BY <1>1, <1>2
  <2>4. (2 * p) * t \in Int /\ p * top \in Int
    BY <1>1, <1>2
  <2> QED  BY <1>1, <2>1, <2>2, <2>3, <2>4
<1>6. (k + 1) * s = ks + s
  OBVIOUS
<1>7. -(2 * bound) <= e - d * f /\ e - d * f <= 2 * bound
  <2>1. CASE d = 0
    BY <1>1, <2>1
  <2>2. CASE d = 1
    BY <1>1, <2>2, HalvedWithin
  <2> QED  BY <2>1, <2>2
<1> HIDE DEF p, st, sf, sn, ks, js
<1>8. -bound <= h /\ h <= bound
  BY <1>1, <1>7
<1>9. /\ -(ks + s) <= 2 * (h - sn) /\ 2 * (h - sn) <= ks + s + 2 * s
      /\ -(js + 2 * s) <= 2 * (h - sn) /\ 2 * (h - sn) <= js + 2 * s
  <2>1. CASE d = 0
    BY <1>1, <1>4, <2>1
  <2>2. CASE d = 1
    BY <1>1, <1>4, <2>2
  <2> QED  BY <2>1, <2>2
<1>10. h \in Int /\ t \in Nat /\ k + 1 \in Nat
  BY <1>2
<1>11. /\ -((k + 1) * s) <= 2 * (h - s * t) /\ 2 * (h - s * t) <= (k + 1) * s + 2 * s
       /\ -(j * s + 2 * s) <= 2 * (h - s * t) /\ 2 * (h - s * t) <= j * s + 2 * s
  BY <1>6, <1>9 DEF sn, js
<1> QED  BY <1>1, <1>5, <1>8, <1>10, <1>11 DEF Approximate, t

----------------------------------------------------------------------------
(* The inner loop.                                                         *)

(* After i iterations the top words are exact, or estimates of at least    *)
(* 2 ^ (W - i) units together, so that none is subtracted from zero.       *)
Estimates(i, unit, e, top, bound, f, tof, bounf) ==
  \/ /\ bound \in Nat /\ bounf \in Nat
     /\ e = top /\ e \in 0 .. bound
     /\ f = tof /\ f \in 0 .. bounf
  \/ \E k \in Nat, j \in Nat :
       /\ Approximate(unit, k, j, e, top, bound \div unit, bound)
       /\ Approximate(unit, j, k, f, tof, bounf \div unit, bounf)
       /\ 2 ^ (W - i) <= top + tof

(* Nothing in the estimates tells the two numbers apart.                   *)
LEMMA EstimatesSymmetric ==
  ASSUME NEW i, NEW unit, NEW e, NEW top, NEW bound, NEW f, NEW tof, NEW bounf,
         Estimates(i, unit, e, top, bound, f, tof, bounf)
  PROVE  Estimates(i, unit, f, tof, bounf, e, top, bound)
<1>1. CASE /\ bound \in Nat /\ bounf \in Nat
           /\ e = top /\ e \in 0 .. bound
           /\ f = tof /\ f \in 0 .. bounf
  BY <1>1 DEF Estimates
<1>2. CASE \E k \in Nat, j \in Nat :
             /\ Approximate(unit, k, j, e, top, bound \div unit, bound)
             /\ Approximate(unit, j, k, f, tof, bounf \div unit, bounf)
             /\ 2 ^ (W - i) <= top + tof
  <2>1. PICK k \in Nat, j \in Nat :
             /\ Approximate(unit, k, j, e, top, bound \div unit, bound)
             /\ Approximate(unit, j, k, f, tof, bounf \div unit, bounf)
             /\ 2 ^ (W - i) <= top + tof
    BY <1>2
  <2>2. top + tof = tof + top
    BY <2>1 DEF Approximate
  <2> QED  BY <2>1, <2>2 DEF Estimates
<1> QED  BY <1>1, <1>2 DEF Estimates

(* One iteration keeps them, if the greater number by the top words is the *)
(* one subtracted from.                                                    *)
LEMMA EstimatesHalved ==
  ASSUME NEW i \in 0 .. W - 1, NEW unit \in Nat \ {0}, NEW d \in {0, 1},
         NEW e, NEW top, NEW bound, NEW f, NEW tof, NEW bounf,
         Estimates(i, unit, e, top, bound, f, tof, bounf),
         d = 1 => tof <= top,
         NEW h \in Int, 2 * h = e - d * f
  PROVE  Estimates(i + 1, unit, h, (top - d * tof) \div 2, bound, f, tof, bounf)
<1> DEFINE t == (top - d * tof) \div 2
<1>1. CASE /\ bound \in Nat /\ bounf \in Nat
           /\ e = top /\ e \in 0 .. bound
           /\ f = tof /\ f \in 0 .. bounf
  <2>1. top - d * tof = 2 * h /\ 0 <= 2 * h /\ 2 * h <= bound
    <3>1. CASE d = 0
      BY <1>1, <3>1
    <3>2. CASE d = 1
      BY <1>1, <3>2
    <3> QED  BY <3>1, <3>2
  <2>2. t = h /\ h \in 0 .. bound
    BY <1>1, <2>1
  <2> QED  BY <1>1, <2>2 DEF Estimates
<1>2. CASE \E k \in Nat, j \in Nat :
             /\ Approximate(unit, k, j, e, top, bound \div unit, bound)
             /\ Approximate(unit, j, k, f, tof, bounf \div unit, bounf)
             /\ 2 ^ (W - i) <= top + tof
  <2>1. PICK k \in Nat, j \in Nat :
             /\ Approximate(unit, k, j, e, top, bound \div unit, bound)
             /\ Approximate(unit, j, k, f, tof, bounf \div unit, bounf)
             /\ 2 ^ (W - i) <= top + tof
    BY <1>2
  <2> DEFINE p == 2 ^ (W - (i + 1))
  <2>2. p \in Nat \ {0} /\ 2 * p <= top + tof
    <3>1. W - (i + 1) \in Nat /\ (W - (i + 1)) + 1 = W - i
      BY BaseType
    <3> QED  BY <2>1, <3>1, PowerOfTwo, PowerPositive
  <2>3. top \in Nat /\ tof \in Nat /\ e \in Int /\ f \in Int
    BY <2>1 DEF Approximate
  <2> HIDE DEF p
  <2>4. d = 1 => tof <= top /\ 1 <= top
    BY <2>2, <2>3
  <2>5. Approximate(unit, k + 1, j, h, t, bound \div unit, bound)
    BY <2>1, <2>4, ApproximateHalved
  <2>6. Approximate(unit, j, k + 1, f, tof, bounf \div unit, bounf)
    BY <2>1, ApproximateStays
  <2>7. p <= t + tof
    <3>1. top - d * tof \in Int /\ top - d * tof >= top - tof
      BY <2>3
    <3>2. 2 * t + 1 >= top - d * tof /\ t \in Int
      BY <3>1
    <3> HIDE DEF t
    <3> QED  BY <2>2, <2>3, <3>1, <3>2
  <2>8. k + 1 \in Nat
    OBVIOUS
  <2> HIDE DEF t
  <2> QED  BY <2>5, <2>6, <2>7, <2>8 DEF Estimates, p, t
<1> QED  BY <1>1, <1>2 DEF Estimates

----------------------------------------------------------------------------
(* How far an iteration of the outer loop shrinks the two numbers.         *)

(* c and d were halved to e and f, k and j times, with n = 2^(k + j): e    *)
(* and f are the combinations of c and d with the factors p0, -p1 and      *)
(* -q0, q1, divided by n, and c and d are combinations of e and f.         *)
Factored(n, k, j, c, d, e, f, p0, p1, q0, q1) ==
  /\ e \in Int /\ f \in Int
  /\ p0 \in Nat /\ p1 \in Nat /\ q0 \in Nat /\ q1 \in Nat
  /\ p0 + p1 <= n /\ q0 + q1 <= n
  /\ 2 ^ j <= p0 /\ 2 ^ k <= q1
  /\ p0 * q1 = n + p1 * q0
  /\ c = e * q1 + f * p1 /\ d = f * p0 + e * q0

(* Nothing in it tells the two numbers apart.                              *)
LEMMA FactoredSymmetric ==
  ASSUME NEW n \in Nat, NEW k, NEW j, NEW c, NEW d, NEW e, NEW f,
         NEW p0, NEW p1, NEW q0, NEW q1,
         Factored(n, k, j, c, d, e, f, p0, p1, q0, q1)
  PROVE  Factored(n, j, k, d, c, f, e, q1, q0, p1, p0)
<1>1. p0 \in Nat /\ p1 \in Nat /\ q0 \in Nat /\ q1 \in Nat /\ e \in Int /\ f \in Int
  BY DEF Factored
<1>2. /\ q1 + q0 = q0 + q1 /\ p1 + p0 = p0 + p1 /\ q1 * p0 = p0 * q1 /\ q0 * p1 = p1 * q0
      /\ f * p0 + e * q0 = e * q0 + f * p0 /\ f * p1 + e * q1 = e * q1 + f * p1
  BY <1>1
<1> QED  BY <1>1, <1>2 DEF Factored

(* An iteration keeps it.                                                  *)
LEMMA FactoredHalved ==
  ASSUME NEW n \in Nat, NEW k \in Nat, NEW j \in Nat, NEW c, NEW d, NEW e, NEW f,
         NEW p0, NEW p1, NEW q0, NEW q1,
         Factored(n, k, j, c, d, e, f, p0, p1, q0, q1),
         NEW w \in {0, 1}, NEW h \in Int, 2 * h = e - w * f
  PROVE  Factored(2 * n, k + 1, j, c, d, h, f,
                  p0 + w * q0, p1 + w * q1, 2 * q0, 2 * q1)
<1>1. /\ e \in Int /\ f \in Int
      /\ p0 \in Nat /\ p1 \in Nat /\ q0 \in Nat /\ q1 \in Nat
      /\ p0 + p1 <= n /\ q0 + q1 <= n /\ 2 ^ j <= p0 /\ 2 ^ k <= q1
      /\ p0 * q1 = n + p1 * q0
      /\ c = e * q1 + f * p1 /\ d = f * p0 + e * q0
      /\ 2 ^ j \in Nat /\ 2 ^ k \in Nat /\ 2 ^ (k + 1) = 2 * 2 ^ k
  BY PowerOfTwo DEF Factored
<1>2. /\ p0 + w * q0 \in Nat /\ p1 + w * q1 \in Nat /\ 2 * q0 \in Nat /\ 2 * q1 \in Nat
      /\ (p0 + w * q0) + (p1 + w * q1) <= 2 * n /\ 2 * q0 + 2 * q1 <= 2 * n
      /\ 2 ^ j <= p0 + w * q0 /\ 2 ^ (k + 1) <= 2 * q1
  <2>1. CASE w = 0
    BY <1>1, <2>1
  <2>2. CASE w = 1
    BY <1>1, <2>2
  <2> QED  BY <2>1, <2>2
<1>3. (p0 + w * q0) * (2 * q1) = 2 * n + (p1 + w * q1) * (2 * q0)
  <2>1. CASE w = 0
    <3>1. p0 * (2 * q1) = 2 * (p0 * q1) /\ p1 * (2 * q0) = 2 * (p1 * q0) /\ p1 * q0 \in Int
      BY <1>1
    <3>2. p0 + w * q0 = p0 /\ p1 + w * q1 = p1
      BY <1>1, <2>1
    <3> QED  BY <1>1, <3>1, <3>2
  <2>2. CASE w = 1
    <3>1. /\ (p0 + q0) * (2 * q1) = 2 * (p0 * q1) + 2 * (q0 * q1)
          /\ (p1 + q1) * (2 * q0) = 2 * (p1 * q0) + 2 * (q0 * q1)
          /\ p1 * q0 \in Int /\ q0 * q1 \in Int
      BY <1>1
    <3>2. p0 + w * q0 = p0 + q0 /\ p1 + w * q1 = p1 + q1
      BY <1>1, <2>2
    <3> QED  BY <1>1, <3>1, <3>2
  <2> QED  BY <2>1, <2>2
<1>4. /\ c = h * (2 * q1) + f * (p1 + w * q1)
      /\ d = f * (p0 + w * q0) + h * (2 * q0)
  <2>1. h * (2 * q1) = (2 * h) * q1 /\ h * (2 * q0) = (2 * h) * q0
    BY <1>1
  <2>2. CASE w = 0
    <3>1. 2 * h = e /\ p0 + w * q0 = p0 /\ p1 + w * q1 = p1
      BY <1>1, <2>2
    <3> QED  BY <1>1, <2>1, <3>1
  <2>3. CASE w = 1
    <3>1. 2 * h = e - f /\ p0 + w * q0 = p0 + q0 /\ p1 + w * q1 = p1 + q1
      BY <1>1, <2>3
    <3>2. /\ (e - f) * q1 = e * q1 - f * q1 /\ (e - f) * q0 = e * q0 - f * q0
          /\ f * (p1 + q1) = f * p1 + f * q1 /\ f * (p0 + q0) = f * p0 + f * q0
          /\ e * q1 \in Int /\ f * q1 \in Int /\ e * q0 \in Int /\ f * q0 \in Int
          /\ f * p1 \in Int /\ f * p0 \in Int
      BY <1>1
    <3>3. c = (e - f) * q1 + f * (p1 + q1) /\ d = f * (p0 + q0) + (e - f) * q0
      BY <1>1, <3>2
    <3> QED  BY <2>1, <3>1, <3>3
  <2> QED  BY <2>2, <2>3
<1> QED  BY <1>1, <1>2, <1>3, <1>4 DEF Factored

(* The two combinations, and what both numbers are worth together.         *)
LEMMA FactoredIs ==
  ASSUME NEW n \in Nat, NEW k, NEW j, NEW c, NEW d, NEW e, NEW f,
         NEW p0, NEW p1, NEW q0, NEW q1,
         Factored(n, k, j, c, d, e, f, p0, p1, q0, q1)
  PROVE  /\ n * e = c * p0 - d * p1 /\ n * f = d * q1 - c * q0
         /\ e >= 0 /\ f >= 0 => n * (e * f) <= c * d
<1>1. /\ e \in Int /\ f \in Int
      /\ p0 \in Nat /\ p1 \in Nat /\ q0 \in Nat /\ q1 \in Nat
      /\ p0 * q1 = n + p1 * q0
      /\ c = e * q1 + f * p1 /\ d = f * p0 + e * q0
  BY DEF Factored
<1> DEFINE s  == p0 * q1
           t  == p1 * q0
           ef == e * f
           pp == p0 * p1
           qq == q0 * q1
<1>2. s \in Nat /\ t \in Nat /\ ef \in Int /\ pp \in Nat /\ qq \in Nat /\ s = n + t
  BY <1>1
<1>3. n * e = c * p0 - d * p1
  <2>1. /\ (e * q1 + f * p1) * p0 = e * s + f * pp
        /\ (f * p0 + e * q0) * p1 = f * pp + e * t
    BY <1>1
  <2>2. e * s = e * n + e * t /\ e * n = n * e /\ e * n \in Int /\ e * t \in Int /\ f * pp \in Int
    BY <1>1, <1>2
  <2> QED  BY <1>1, <2>1, <2>2
<1>4. n * f = d * q1 - c * q0
  <2>1. /\ (f * p0 + e * q0) * q1 = f * s + e * qq
        /\ (e * q1 + f * p1) * q0 = e * qq + f * t
    BY <1>1
  <2>2. f * s = f * n + f * t /\ f * n = n * f /\ f * n \in Int /\ f * t \in Int /\ e * qq \in Int
    BY <1>1, <1>2
  <2> QED  BY <1>1, <2>1, <2>2
<1>5. ASSUME e >= 0, f >= 0
      PROVE  n * (e * f) <= c * d
  <2>1. c * d = ef * s + ef * t + (e * e) * qq + (f * f) * pp
    <3>1. /\ (e * q1 + f * p1) * (f * p0 + e * q0) =
               (e * q1) * (f * p0) + (e * q1) * (e * q0) + (f * p1) * (f * p0) + (f * p1) * (e * q0)
      <4> DEFINE x1 == e * q1
                 x2 == f * p1
                 x3 == f * p0
                 x4 == e * q0
      <4>1. x1 \in Int /\ x2 \in Int /\ x3 \in Int /\ x4 \in Int
        BY <1>1
      <4> HIDE DEF x1, x2, x3, x4
      <4>2. (x1 + x2) * (x3 + x4) = x1 * x3 + x1 * x4 + x2 * x3 + x2 * x4
        BY <4>1
      <4> QED  BY <4>2 DEF x1, x2, x3, x4
    <3>2. (e * q1) * (f * p0) = ef * s
      BY <1>1
    <3>3. (e * q1) * (e * q0) = (e * e) * qq
      BY <1>1
    <3>4. (f * p1) * (f * p0) = (f * f) * pp
      BY <1>1
    <3>5. (f * p1) * (e * q0) = ef * t
      BY <1>1
    <3>6. ef * s \in Int /\ ef * t \in Int /\ (e * e) * qq \in Int /\ (f * f) * pp \in Int
      BY <1>1, <1>2
    <3> HIDE DEF s, t, ef, pp, qq
    <3> QED  BY <1>1, <3>1, <3>2, <3>3, <3>4, <3>5, <3>6
  <2>2. ef \in Nat /\ e * e \in Nat /\ f * f \in Nat
    BY <1>1, <1>5
  <2>3. ef * s = n * ef + ef * t /\ n * ef \in Nat
    BY <1>2, <2>2
  <2>4. ef * t \in Nat /\ (e * e) * qq \in Nat /\ (f * f) * pp \in Nat
    BY <1>2, <2>2
  <2> QED  BY <2>1, <2>3, <2>4
<1> QED  BY <1>3, <1>4, <1>5

(* How wrong the top words are about two numbers e and f, in units of u,   *)
(* by the factors of e.                                                    *)
Lag(u, e, top, f, tof, p0, p1) ==
  /\ -(u * p1) <= 2 * (e - u * top) /\ 2 * (f - u * tof) <= u * p1 + 2 * u
  /\ -(u * p0 + 2 * u) <= 2 * (e - u * top) /\ 2 * (f - u * tof) <= u * p0 + 2 * u

(* An iteration keeps that for both numbers.                               *)
LEMMA LagHalved ==
  ASSUME NEW u \in Nat \ {0}, NEW e \in Int, NEW f \in Int, NEW top \in Nat, NEW tof \in Nat,
         NEW p0 \in Nat, NEW p1 \in Nat, NEW q0 \in Nat, NEW q1 \in Nat, 1 <= p0, 1 <= q1,
         Lag(u, e, top, f, tof, p0, p1), Lag(u, f, tof, e, top, q1, q0),
         NEW w \in {0, 1}, NEW h \in Int, 2 * h = e - w * f, w = 1 => tof <= top
  PROVE  /\ Lag(u, h, (top - w * tof) \div 2, f, tof, p0 + w * q0, p1 + w * q1)
         /\ Lag(u, f, tof, h, (top - w * tof) \div 2, 2 * q1, 2 * q0)
<1> DEFINE t  == (top - w * tof) \div 2
           x0 == u * p0
           x1 == u * p1
           y0 == u * q0
           y1 == u * q1
           se == u * top
           sf == u * tof
           sh == u * t
<1>1. PICK r \in {0, 1} : t \in Nat /\ top - w * tof = 2 * t + r
  <2>1. top - w * tof \in Nat
    OBVIOUS
  <2> QED  BY <2>1
<1> HIDE DEF t
<1>2. se - w * sf = 2 * sh + r * u
  <2>1. u * (top - w * tof) = u * (2 * t + r)
    BY <1>1
  <2>2. u * (top - w * tof) = se - w * sf /\ u * (2 * t + r) = 2 * sh + r * u
    BY <1>1
  <2> QED  BY <2>1, <2>2
<1>3. /\ {x0, x1, y0, y1, se, sf, sh} \subseteq Nat
      /\ u <= x0 /\ u <= y1
  <2>1. 1 * u <= p0 * u /\ 1 * u <= q1 * u
    BY ProductMonotone
  <2> QED  BY <1>1, <2>1
<1>4. /\ u * (p0 + w * q0) = x0 + w * y0 /\ u * (p1 + w * q1) = x1 + w * y1
      /\ u * (2 * q0) = 2 * y0 /\ u * (2 * q1) = 2 * y1
  OBVIOUS
<1>5. /\ -x1 <= 2 * (e - se) /\ 2 * (f - sf) <= x1 + 2 * u
      /\ -(x0 + 2 * u) <= 2 * (e - se) /\ 2 * (f - sf) <= x0 + 2 * u
      /\ -y0 <= 2 * (f - sf) /\ 2 * (e - se) <= y0 + 2 * u
      /\ -(y1 + 2 * u) <= 2 * (f - sf) /\ 2 * (e - se) <= y1 + 2 * u
  BY DEF Lag
<1> HIDE DEF x0, x1, y0, y1, se, sf, sh
<1>6. /\ -(x1 + w * y1) <= 2 * (h - sh) /\ 2 * (f - sf) <= x1 + w * y1 + 2 * u
      /\ -(x0 + w * y0 + 2 * u) <= 2 * (h - sh) /\ 2 * (f - sf) <= x0 + w * y0 + 2 * u
      /\ -(2 * y0) <= 2 * (f - sf) /\ 2 * (h - sh) <= 2 * y0 + 2 * u
      /\ -(2 * y1 + 2 * u) <= 2 * (f - sf) /\ 2 * (h - sh) <= 2 * y1 + 2 * u
  <2>1. CASE w = 0
    BY <1>2, <1>3, <1>5, <2>1
  <2>2. CASE w = 1
    BY <1>2, <1>3, <1>5, <2>2
  <2> QED  BY <2>1, <2>2
<1> QED  BY <1>4, <1>6 DEF Lag, se, sf, sh, t

(* What the subtraction of the wrong number, not greater by the top words, *)
(* can leave: the difference is a few units, by the factors and by the     *)
(* halvings.                                                               *)
LEMMA DifferenceBelow ==
  ASSUME NEW u \in Nat \ {0}, NEW k \in Nat, NEW j \in Nat,
         NEW e, NEW top, NEW most, NEW bound, Approximate(u, k, j, e, top, most, bound),
         NEW f, NEW tof, NEW mosf, NEW bounf, Approximate(u, j, k, f, tof, mosf, bounf),
         NEW p0 \in Nat, NEW p1 \in Nat, Lag(u, e, top, f, tof, p0, p1),
         tof <= top
  PROVE  /\ f - e <= u * (p1 + 1) /\ f - e <= u * (p0 + 2)
         /\ f - e <= u * (k + 1) /\ f - e <= u * (j + 2)
<1> DEFINE se == u * top
           sf == u * tof
           x0 == u * p0
           x1 == u * p1
           ku == k * u
           ju == j * u
<1>1. /\ e \in Int /\ f \in Int /\ top \in Nat /\ tof \in Nat
      /\ -ku <= 2 * (e - se) /\ -(ju + 2 * u) <= 2 * (e - se)
      /\ 2 * (f - sf) <= ku + 2 * u /\ 2 * (f - sf) <= ju + 2 * u
  BY DEF Approximate
<1>2. /\ -x1 <= 2 * (e - se) /\ -(x0 + 2 * u) <= 2 * (e - se)
      /\ 2 * (f - sf) <= x1 + 2 * u /\ 2 * (f - sf) <= x0 + 2 * u
  BY DEF Lag
<1>3. sf <= se
  <2>1. tof * u <= top * u /\ tof * u = sf /\ top * u = se
    BY <1>1, ProductMonotone
  <2> QED  BY <2>1
<1>4. {se, sf, x0, x1, ku, ju} \subseteq Nat
  BY <1>1
<1>5. /\ u * (p1 + 1) = x1 + u /\ u * (p0 + 2) = x0 + 2 * u
      /\ u * (k + 1) = ku + u /\ u * (j + 2) = ju + 2 * u
  OBVIOUS
<1> HIDE DEF se, sf, x0, x1, ku, ju
<1>6. /\ f - e <= x1 + u /\ f - e <= x0 + 2 * u
      /\ f - e <= ku + u /\ f - e <= ju + 2 * u
  BY <1>1, <1>2, <1>3, <1>4
<1> QED  BY <1>5, <1>6

(* A square is below the power of two.                                     *)
LEMMA SquareBelowPower ==
  ASSUME NEW k \in Nat
  PROVE  (k + 1) * (k + 1) <= 4 * 2 ^ k
<1> DEFINE T == {n \in Nat : (n + 1) * (n + 1) <= 4 * 2 ^ n}
<1>1. 0 \in T
  BY PowerOfTwo
<1>2. ASSUME NEW n \in Nat, n \in T
      PROVE  n + 1 \in T
  <2> DEFINE p == 2 ^ n
  <2>1. p \in Nat /\ 2 ^ (n + 1) = 2 * p /\ n + 1 <= p /\ (n + 1) * (n + 1) <= 4 * p
    BY <1>2, PowerOfTwo, PowerPositive
  <2> HIDE DEF p
  <2>2. (n + 1 + 1) * (n + 1 + 1) = (n + 1) * (n + 1) + 2 * n + 3
    OBVIOUS
  <2>3. (n + 1) * (n + 1) \in Nat
    OBVIOUS
  <2>4. (n + 1 + 1) * (n + 1 + 1) <= 4 * (2 * p)
    BY <2>1, <2>2, <2>3
  <2> QED  BY <2>1, <2>4
<1>3. \A n \in Nat : n \in T
  <2> HIDE DEF T
  <2> QED  BY <1>1, <1>2, Induction
<1> QED  BY <1>3

(* Products of naturals grow with both factors.                            *)
LEMMA ProductsMonotone ==
  ASSUME NEW m \in Nat, NEW n \in Nat, NEW c \in Nat, NEW d \in Nat, m <= n, c <= d
  PROVE  m * c <= n * d
<1>1. m * c <= n * c /\ c * n <= d * n
  BY ProductMonotone
<1>2. c * n = n * c /\ d * n = n * d /\ m * c \in Int /\ n * c \in Int /\ n * d \in Int
  OBVIOUS
<1> QED  BY <1>1, <1>2

(* The units c is worth after its halvings.                                *)
LEMMA TopBelow ==
  ASSUME NEW u \in Nat \ {0}, NEW k, NEW j, NEW e, NEW top, NEW c \in Nat,
         Approximate(u, k, j, e, top, c \div u, c)
  PROVE  u * (2 ^ k * top) <= c
<1>1. k \in Nat /\ top \in Nat /\ c \div u \in Nat /\ u * (c \div u) <= c /\ 2 ^ k * top <= c \div u
  BY DEF Approximate
<1> DEFINE t == 2 ^ k * top
           m == c \div u
<1>2. t \in Nat /\ m \in Nat /\ t <= m /\ u * m <= c
  BY <1>1, PowerOfTwo
<1> HIDE DEF t, m
<1>3. t * u <= m * u /\ t * u = u * t /\ m * u = u * m
  BY <1>2, ProductMonotone
<1>4. u * t \in Int /\ u * m \in Int
  BY <1>2
<1>5. u * t <= c
  BY <1>2, <1>3, <1>4
<1> QED  BY <1>5 DEF t

(* e was not negative: the difference is small against c.                  *)
LEMMA FirstNegative ==
  ASSUME NEW u \in Nat \ {0}, NEW n \in Nat, NEW k \in Nat, NEW j \in Nat, n = 2 ^ k * 2 ^ j,
         NEW c \in Nat, NEW d \in Nat, NEW e, NEW f, NEW top, NEW tof,
         NEW p0, NEW p1, NEW q0, NEW q1,
         Factored(n, k, j, c, d, e, f, p0, p1, q0, q1),
         Approximate(u, k, j, e, top, c \div u, c),
         Approximate(u, j, k, f, tof, d \div u, d),
         Lag(u, e, top, f, tof, p0, p1),
         u * Base <= c \/ u * Base <= d,
         Base <= n * (top + tof),
         tof <= top, 0 <= e, e < f
  PROVE  (f - e) * Base <= 4 * (c * p0)
<1> DEFINE g  == f - e
           cp == c * p0
           dp == d * p1
           ub == u * Base
<1>1. /\ e \in Int /\ f \in Int /\ p0 \in Nat /\ p1 \in Nat /\ g \in Nat /\ Base \in Nat
      /\ top \in Nat /\ tof \in Nat /\ 2 ^ j \in Nat \ {0} /\ 2 ^ k \in Nat \ {0} /\ 2 ^ j <= p0
  BY BaseType, PowerPositive DEF Factored, Approximate
<1>2. g <= u * (p1 + 1) /\ g <= u * (p0 + 2)
  BY <1>1, DifferenceBelow
<1>3. cp \in Nat /\ dp \in Nat /\ ub \in Nat /\ g * Base \in Nat
  BY <1>1
<1>4. dp <= cp
  <2>1. n * e = cp - dp
    BY FactoredIs
  <2>2. n * e \in Nat
    BY <1>1
  <2> QED  BY <1>3, <2>1, <2>2
<1>5. CASE ub <= c
  <2>1. g <= (u * p0) * 3
    <3>1. 1 * u <= p0 * u
      BY <1>1, ProductMonotone
    <3>2. u * (p0 + 2) = u * p0 + 2 * u /\ p0 * u = u * p0 /\ u * p0 \in Nat
      BY <1>1
    <3> DEFINE z == u * p0
    <3>3. z \in Nat /\ g <= z + 2 * u /\ u <= z
      BY <1>2, <3>1, <3>2
    <3> HIDE DEF z, g
    <3>4. g <= z * 3
      BY <1>1, <3>3
    <3> QED  BY <3>4 DEF z
  <2>2. g * Base <= ((u * p0) * 3) * Base
    <3>1. (u * p0) * 3 \in Int
      BY <1>1
    <3> QED  BY <1>1, <2>1, <3>1, ProductMonotone
  <2>3. ((u * p0) * 3) * Base = 3 * (ub * p0)
    BY <1>1
  <2>4. ub * p0 <= cp
    BY <1>1, <1>3, <1>5, ProductMonotone
  <2>5. ub * p0 \in Nat
    BY <1>1, <1>3
  <2> DEFINE z == ub * p0
             v == g * Base
  <2>6. z \in Nat /\ v \in Nat /\ v <= 3 * z /\ z <= cp
    BY <1>3, <2>2, <2>3, <2>4, <2>5
  <2> HIDE DEF z, v, cp
  <2>7. v <= 4 * cp
    BY <1>3, <2>6
  <2> QED  BY <2>7 DEF v, cp
<1>6. CASE ub <= d /\ 1 <= p1
  <2>1. g <= (u * p1) * 2
    <3>1. 1 * u <= p1 * u
      BY <1>1, <1>6, ProductMonotone
    <3>2. u * (p1 + 1) = u * p1 + u /\ p1 * u = u * p1 /\ u * p1 \in Nat
      BY <1>1
    <3> DEFINE z == u * p1
    <3>3. z \in Nat /\ g <= z + u /\ u <= z
      BY <1>2, <3>1, <3>2
    <3> HIDE DEF z, g
    <3>4. g <= z * 2
      BY <1>1, <3>3
    <3> QED  BY <3>4 DEF z
  <2>2. g * Base <= ((u * p1) * 2) * Base
    <3>1. (u * p1) * 2 \in Int
      BY <1>1
    <3> QED  BY <1>1, <2>1, <3>1, ProductMonotone
  <2>3. ((u * p1) * 2) * Base = 2 * (ub * p1)
    BY <1>1
  <2>4. ub * p1 <= dp
    BY <1>1, <1>3, <1>6, ProductMonotone
  <2>5. ub * p1 \in Nat
    BY <1>1, <1>3
  <2> DEFINE z == ub * p1
             v == g * Base
  <2>6. z \in Nat /\ v \in Nat /\ v <= 2 * z /\ z <= dp
    BY <1>3, <2>2, <2>3, <2>4, <2>5
  <2> HIDE DEF z, v, cp, dp
  <2>7. v <= 4 * cp
    BY <1>3, <1>4, <2>6
  <2> QED  BY <2>7 DEF v, cp
<1>7. CASE p1 = 0
  <2>1. g <= u
    BY <1>2, <1>7
  <2>2. u * (2 ^ k * top) <= c
    BY TopBelow
  <2> DEFINE s == u * (2 ^ k * top)
             r == 2 ^ j
  <2>3. s \in Nat /\ r \in Nat
    BY <1>1
  <2>4. s * r <= cp
    BY <1>1, <2>2, <2>3, ProductsMonotone
  <2>5. s * r = u * (n * top)
    <3> DEFINE m == 2 ^ k
    <3>1. m \in Nat /\ n = m * r
      BY <1>1
    <3> HIDE DEF m, r
    <3>2. (u * (m * top)) * r = u * ((m * r) * top)
      BY <1>1, <2>3, <3>1
    <3> QED  BY <3>1, <3>2 DEF m
  <2> HIDE DEF s, r
  <2>6. Base <= 2 * (n * top)
    <3>1. (top + tof) * n <= (2 * top) * n
      BY <1>1, ProductMonotone
    <3>2. (top + tof) * n = n * (top + tof) /\ (2 * top) * n = 2 * (n * top)
      BY <1>1
    <3>3. n * (top + tof) \in Int /\ n * top \in Int
      BY <1>1
    <3> QED  BY <1>1, <3>1, <3>2, <3>3
  <2>7. g * Base <= u * (2 * (n * top))
    <3>1. n * top \in Nat
      BY <1>1
    <3> QED  BY <1>1, <2>1, <2>6, <3>1, ProductsMonotone
  <2>8. u * (2 * (n * top)) = 2 * (u * (n * top)) /\ u * (n * top) \in Nat
    BY <1>1
  <2> DEFINE v == g * Base
             z == u * (n * top)
  <2>9. v \in Nat /\ z \in Nat /\ v <= 2 * z /\ z <= cp
    BY <1>3, <2>4, <2>5, <2>7, <2>8
  <2> HIDE DEF v, z, cp
  <2>10. v <= 4 * cp
    BY <1>3, <2>9
  <2> QED  BY <2>10 DEF v, cp
<1> QED  BY <1>1, <1>5, <1>6, <1>7

(* e was negative already: the difference is small against both.           *)
LEMMA NegativeAgain ==
  ASSUME NEW u \in Nat \ {0}, NEW n \in Nat, 2 * n <= Base, NEW k \in Nat, NEW j \in Nat,
         NEW c \in Nat, NEW d \in Nat, NEW e, NEW f, NEW top, NEW tof,
         NEW p0, NEW p1, NEW q0, NEW q1,
         Factored(n, k, j, c, d, e, f, p0, p1, q0, q1),
         Approximate(u, k, j, e, top, c \div u, c),
         Approximate(u, j, k, f, tof, d \div u, d),
         Lag(u, e, top, f, tof, p0, p1),
         u * Base <= c \/ u * Base <= d,
         1 <= top, tof <= top, e < 0, e < f
  PROVE  ((f - e) * (f - e)) * Base <= 4 * (c * d)
<1> DEFINE g  == f - e
           ub == u * Base
           uu == u * u
<1>1. /\ e \in Int /\ f \in Int /\ p0 \in Nat /\ p1 \in Nat /\ g \in Nat
      /\ Base \in Nat \ {0} /\ top \in Nat /\ tof \in Nat
      /\ 2 ^ j \in Nat \ {0} /\ 2 ^ k \in Nat \ {0} /\ 2 ^ j <= p0
      /\ p0 + p1 <= n /\ ub \in Nat /\ uu \in Nat
  BY BaseType, PowerPositive DEF Factored, Approximate
<1>2. g <= u * (k + 1) /\ g <= u * (j + 2)
  BY <1>1, DifferenceBelow
<1>3. CASE ub <= d
  <2> DEFINE r == 2 ^ k
             m == k + 1
  <2>0. r \in Nat /\ m \in Nat /\ m * m <= 4 * r
    BY <1>1, SquareBelowPower
  <2>1. u * r <= c
    <3>1. u * (r * top) <= c
      BY TopBelow
    <3> HIDE DEF r
    <3>2. 1 * (u * r) <= top * (u * r)
      <4>1. u * r \in Nat
        BY <2>0
      <4> QED  BY <1>1, <4>1, ProductMonotone
    <3>3. top * (u * r) = u * (r * top) /\ u * r \in Int /\ u * (r * top) \in Int
      BY <1>1, <2>0
    <3> QED  BY <3>1, <3>2, <3>3
  <2> HIDE DEF r, m
  <2>2. g * g <= uu * (m * m)
    <3>1. u * m \in Nat /\ g <= u * m
      BY <1>2, <2>0 DEF m
    <3>2. g * g <= (u * m) * (u * m)
      BY <1>1, <3>1, ProductsMonotone
    <3>3. (u * m) * (u * m) = uu * (m * m)
      BY <2>0
    <3> QED  BY <3>2, <3>3
  <2>3. uu * (m * m) <= uu * (4 * r)
    <3>1. m * m \in Nat /\ 4 * r \in Nat /\ uu <= uu
      BY <1>1, <2>0
    <3> QED  BY <1>1, <2>0, <3>1, ProductsMonotone
  <2>4. (u * r) * ub <= c * d
    <3>1. u * r \in Nat
      BY <2>0
    <3> QED  BY <1>1, <1>3, <2>1, <3>1, ProductsMonotone
  <2>5. (g * g) * Base <= (uu * (4 * r)) * Base
    <3>1. g * g \in Int /\ uu * (m * m) \in Int /\ uu * (4 * r) \in Int
      BY <1>1, <2>0
    <3>2. g * g <= uu * (4 * r)
      BY <2>2, <2>3, <3>1
    <3> QED  BY <1>1, <3>1, <3>2, ProductMonotone
  <2>6. (uu * (4 * r)) * Base = 4 * ((u * r) * ub)
    BY <1>1, <2>0
  <2>7. (u * r) * ub \in Nat /\ c * d \in Nat /\ (g * g) * Base \in Nat
    BY <1>1, <2>0
  <2> DEFINE v == (g * g) * Base
             z == (u * r) * ub
             cd == c * d
  <2>8. v \in Nat /\ z \in Nat /\ cd \in Nat /\ v <= 4 * z /\ z <= cd
    BY <2>4, <2>5, <2>6, <2>7
  <2> HIDE DEF v, z, cd
  <2>9. v <= 4 * cd
    BY <2>8
  <2> QED  BY <2>9 DEF v, cd
<1>4. CASE ub <= c
  <2> DEFINE r == 2 ^ j
             m == j + 2
  <2>0. r \in Nat /\ m \in Nat /\ m * m <= 8 * r /\ r <= p0
    <3>1. (j + 1 + 1) * (j + 1 + 1) <= 4 * 2 ^ (j + 1) /\ 2 ^ (j + 1) = 2 * r
      BY SquareBelowPower, PowerOfTwo
    <3>2. j + 1 + 1 = m
      OBVIOUS
    <3>3. r \in Nat /\ r <= p0 /\ m \in Nat
      BY <1>1
    <3> HIDE DEF r, m
    <3>4. m * m \in Int /\ m * m <= 4 * (2 * r)
      BY <3>1, <3>2, <3>3
    <3> QED  BY <3>3, <3>4
  <2> HIDE DEF r, m
  <2>1. 2 * (u * r) <= d
    <3>1. c * p0 - d * p1 = n * e
      BY FactoredIs
    <3>2. n * e <= 0
      <4>1. n * (-e) \in Nat /\ n * e = -(n * (-e))
        BY <1>1
      <4> QED  BY <4>1
    <3>3. ub * r <= c * p0
      BY <1>1, <1>4, <2>0, ProductsMonotone
    <3>4. (2 * p1) * d <= Base * d
      BY <1>1, ProductMonotone
    <3>5. (2 * p1) * d = 2 * (d * p1) /\ Base * d \in Int /\ d * p1 \in Int /\ c * p0 \in Int /\ n * e \in Int
      BY <1>1
    <3>6. ub * r = (u * r) * Base /\ ub * r \in Int
      BY <1>1, <2>0
    <3>7. 2 * ((u * r) * Base) <= Base * d
      <4> DEFINE x1 == c * p0
                 x2 == d * p1
                 x3 == n * e
                 x4 == ub * r
                 x5 == Base * d
      <4>1. {x1, x2, x3, x4, x5} \subseteq Int
        BY <3>5, <3>6
      <4>2. x1 - x2 = x3 /\ x3 <= 0 /\ x4 <= x1 /\ 2 * x2 <= x5 /\ x4 = (u * r) * Base
        BY <3>1, <3>2, <3>3, <3>4, <3>5, <3>6
      <4> HIDE DEF x1, x2, x3, x4, x5
      <4>3. 2 * x4 <= x5
        BY <4>1, <4>2
      <4> QED  BY <4>2, <4>3 DEF x5
    <3> DEFINE l == 2 * (u * r)
    <3>8. l \in Nat /\ 2 * ((u * r) * Base) = l * Base /\ Base * d = d * Base
      BY <1>1, <2>0
    <3> HIDE DEF l
    <3>9. ASSUME d < l PROVE FALSE
      <4>1. d * Base + Base <= l * Base
        BY <1>1, <3>8, <3>9, MultipleAbove
      <4>2. d * Base \in Int /\ l * Base \in Int
        BY <1>1, <3>8
      <4> QED  BY <1>1, <3>7, <3>8, <4>1, <4>2
    <3>10. l <= d
      BY <3>8, <3>9
    <3> QED  BY <3>10 DEF l
  <2>2. g * g <= uu * (m * m)
    <3>1. u * m \in Nat /\ g <= u * m
      BY <1>2, <2>0 DEF m
    <3>2. g * g <= (u * m) * (u * m)
      BY <1>1, <3>1, ProductsMonotone
    <3>3. (u * m) * (u * m) = uu * (m * m)
      BY <2>0
    <3> QED  BY <3>2, <3>3
  <2>3. uu * (m * m) <= uu * (8 * r)
    <3>1. m * m \in Nat /\ 8 * r \in Nat /\ uu <= uu
      BY <1>1, <2>0
    <3> QED  BY <1>1, <2>0, <3>1, ProductsMonotone
  <2>4. ub * (2 * (u * r)) <= c * d
    <3>1. 2 * (u * r) \in Nat
      BY <2>0
    <3> QED  BY <1>1, <1>4, <2>1, <3>1, ProductsMonotone
  <2>5. (g * g) * Base <= (uu * (8 * r)) * Base
    <3>1. g * g \in Int /\ uu * (m * m) \in Int /\ uu * (8 * r) \in Int
      BY <1>1, <2>0
    <3>2. g * g <= uu * (8 * r)
      BY <2>2, <2>3, <3>1
    <3> QED  BY <1>1, <3>1, <3>2, ProductMonotone
  <2>6. (uu * (8 * r)) * Base = 4 * (ub * (2 * (u * r)))
    BY <1>1, <2>0
  <2>7. ub * (2 * (u * r)) \in Nat /\ c * d \in Nat /\ (g * g) * Base \in Nat
    BY <1>1, <2>0
  <2> DEFINE v == (g * g) * Base
             z == ub * (2 * (u * r))
             cd == c * d
  <2>8. v \in Nat /\ z \in Nat /\ cd \in Nat /\ v <= 4 * z /\ z <= cd
    BY <2>4, <2>5, <2>6, <2>7
  <2> HIDE DEF v, z, cd
  <2>9. v <= 4 * cd
    BY <2>8
  <2> QED  BY <2>9 DEF v, cd
<1> QED  BY <1>3, <1>4

(* A negative number among e and f is small: twice the product of c and d  *)
(* bounds that of e and f, and what the subtractions to come can add.      *)
Crossed(n, c, d, e, f) ==
  /\ e < 0 => (e * e) * (Base - n) - n * (e * f) <= 2 * (c * d)
  /\ f < 0 => (f * f) * (Base - n) - n * (e * f) <= 2 * (c * d)

(* The number that is not halved: nothing changes.                         *)
LEMMA CrossedOther ==
  ASSUME NEW n \in Nat, 2 * n <= Base, NEW e \in Int, NEW f \in Int,
         NEW z \in Int, (f * f) * (Base - n) - n * (e * f) <= z,
         NEW w \in {0, 1}, NEW h \in Int, 2 * h = e - w * f
  PROVE  (f * f) * (Base - 2 * n) - (2 * n) * (h * f) <= z
<1> DEFINE ff == f * f
           ef == e * f
           x1 == ff * Base
           x2 == ff * n
           x3 == n * ef
<1>1. Base \in Int /\ ff \in Nat /\ ef \in Int
  BY BaseType
<1>2. x1 \in Int /\ x2 \in Nat /\ x3 \in Int
  BY <1>1
<1>3. (2 * n) * (h * f) = x3 - w * x2
  <2>1. (2 * n) * (h * f) = (n * f) * (2 * h) /\ n * f \in Int
    OBVIOUS
  <2>2. (n * f) * (e - w * f) = x3 - w * x2
    <3>1. CASE w = 0
      <4>1. e - w * f = e /\ w * x2 = 0
        BY <1>2, <3>1
      <4>2. (n * f) * e = x3
        OBVIOUS
      <4> QED  BY <1>2, <4>1, <4>2
    <3>2. CASE w = 1
      <4>1. e - w * f = e - f /\ w * x2 = x2
        BY <1>2, <3>2
      <4>2. (n * f) * (e - f) = x3 - x2
        OBVIOUS
      <4> QED  BY <4>1, <4>2
    <3> QED  BY <3>1, <3>2
  <2> QED  BY <2>1, <2>2
<1>4. ff * (Base - 2 * n) = x1 - 2 * x2 /\ ff * (Base - n) = x1 - x2
  BY <1>1
<1> HIDE DEF ff, ef, x1, x2, x3
<1>5. x1 - x2 - x3 <= z
  BY <1>4 DEF ff, ef, x3
<1>6. (x1 - 2 * x2) - (x3 - w * x2) <= z
  <2>1. w * x2 <= x2 /\ w * x2 \in Int
    <3>1. CASE w = 0
      BY <1>2, <3>1
    <3>2. CASE w = 1
      BY <1>2, <3>2
    <3> QED  BY <3>1, <3>2
  <2> HIDE DEF x1
  <2> QED  BY <1>2, <1>5, <2>1
<1> QED  BY <1>3, <1>4, <1>6 DEF ff

(* A negative number that is halved.                                       *)
LEMMA CrossedEven ==
  ASSUME NEW n \in Nat, 2 * n <= Base, NEW e \in Int, NEW f \in Int,
         NEW z \in Int, (e * e) * (Base - n) - n * (e * f) <= z,
         NEW h \in Int, 2 * h = e
  PROVE  (h * h) * (Base - 2 * n) - (2 * n) * (h * f) <= z
<1> DEFINE hh == h * h
           x1 == hh * Base
           x2 == hh * n
           x3 == n * (e * f)
<1>1. Base \in Int /\ hh \in Nat /\ e * f \in Int
  BY BaseType
<1>2. x1 \in Int /\ x2 \in Nat /\ x3 \in Int /\ 2 * x2 <= x1
  <2>1. (2 * n) * hh <= Base * hh
    BY <1>1, ProductMonotone
  <2>2. (2 * n) * hh = 2 * x2 /\ Base * hh = x1
    BY <1>1
  <2> QED  BY <1>1, <2>1, <2>2
<1>3. (2 * n) * (h * f) = x3
  <2>1. (2 * n) * (h * f) = n * ((2 * h) * f)
    OBVIOUS
  <2> QED  BY <2>1
<1>4. (e * e) * (Base - n) = 4 * x1 - 4 * x2
  <2>1. (2 * h) * (2 * h) = 4 * hh
    OBVIOUS
  <2>2. (4 * hh) * (Base - n) = 4 * x1 - 4 * x2
    BY <1>1
  <2> QED  BY <2>1, <2>2
<1>5. hh * (Base - 2 * n) = x1 - 2 * x2
  BY <1>1
<1>6. 4 * x1 - 4 * x2 - x3 <= z
  BY <1>4
<1> HIDE DEF hh, x1, x2, x3
<1>7. (x1 - 2 * x2) - x3 <= z
  BY <1>2, <1>6
<1> QED  BY <1>3, <1>5, <1>7 DEF hh

(* A number that becomes negative, or more so, by a subtraction.           *)
LEMMA CrossedBelow ==
  ASSUME NEW n \in Nat, 2 * n <= Base, NEW e \in Int, NEW f \in Nat,
         NEW z \in Int, NEW g \in Nat, g = f - e, NEW l \in Nat, f <= l, g <= l,
         (g * l) * Base <= 4 * z,
         NEW h \in Int, 2 * h = e - f
  PROVE  (h * h) * (Base - 2 * n) - (2 * n) * (h * f) <= 2 * z
<1> DEFINE hh == h * h
           gy == g * l
           gf == g * f
           x1 == hh * Base
           x2 == hh * n
           x3 == n * gf
           x4 == gy * Base
           x5 == gy * n
<1>1. /\ Base \in Int /\ hh \in Nat /\ gy \in Nat /\ gf \in Nat /\ gf <= gy
      /\ 4 * hh = g * g /\ 4 * hh <= gy
  <2>1. g * f <= g * l /\ g * g <= g * l
    BY ProductsMonotone
  <2>2. g = -(2 * h)
    OBVIOUS
  <2>3. 4 * hh = (-(2 * h)) * (-(2 * h))
    OBVIOUS
  <2> QED  BY <2>1, <2>2, <2>3, BaseType
<1>2. x1 \in Int /\ x2 \in Int /\ x3 \in Int /\ x4 \in Int /\ x5 \in Int
  BY <1>1
<1>3. (2 * n) * (h * f) = -x3
  <2>1. (2 * n) * (h * f) = -(n * ((-(2 * h)) * f))
    OBVIOUS
  <2>2. g = -(2 * h)
    OBVIOUS
  <2> QED  BY <2>1, <2>2
<1>4. hh * (Base - 2 * n) = x1 - 2 * x2
  BY <1>1
<1>5. 4 * x1 - 8 * x2 <= x4 - 2 * x5
  <2>1. (4 * hh) * (Base - 2 * n) <= gy * (Base - 2 * n)
    <3>1. Base - 2 * n \in Nat
      BY <1>1
    <3> QED  BY <1>1, <3>1, ProductMonotone
  <2>2. (4 * hh) * (Base - 2 * n) = 4 * x1 - 8 * x2 /\ gy * (Base - 2 * n) = x4 - 2 * x5
    BY <1>1
  <2> QED  BY <2>1, <2>2
<1>6. x3 <= x5
  <2>1. gf * n <= gy * n /\ gf * n = x3
    BY <1>1, ProductMonotone
  <2> QED  BY <2>1
<1>7. 2 * x5 <= x4
  <2>1. (2 * n) * gy <= Base * gy
    BY <1>1, ProductMonotone
  <2>2. (2 * n) * gy = 2 * x5 /\ Base * gy = x4
    BY <1>1
  <2> QED  BY <2>1, <2>2
<1>8. x4 <= 4 * z
  OBVIOUS
<1> HIDE DEF hh, gy, gf, x1, x2, x3, x4, x5
<1>9. (x1 - 2 * x2) - (-x3) <= 2 * z
  BY <1>2, <1>5, <1>6, <1>7, <1>8
<1> QED  BY <1>3, <1>4, <1>9 DEF hh

(* An iteration keeps it for the number that is halved and for the other.  *)
LEMMA CrossedHalved ==
  ASSUME NEW u \in Nat \ {0}, NEW n \in Nat, 2 * n <= Base,
         NEW k \in Nat, NEW j \in Nat, n = 2 ^ k * 2 ^ j,
         NEW c \in Nat, NEW d \in Nat, NEW e, NEW f, NEW top, NEW tof,
         NEW p0, NEW p1, NEW q0, NEW q1,
         Factored(n, k, j, c, d, e, f, p0, p1, q0, q1),
         Approximate(u, k, j, e, top, c \div u, c),
         Approximate(u, j, k, f, tof, d \div u, d),
         Lag(u, e, top, f, tof, p0, p1),
         u * Base <= c \/ u * Base <= d,
         Base <= n * (top + tof),
         Crossed(n, c, d, e, f),
         NEW w \in {0, 1}, w = 1 => tof <= top /\ 1 <= top,
         NEW h \in Int, 2 * h = e - w * f
  PROVE  Crossed(2 * n, c, d, h, f)
<1>1. /\ e \in Int /\ f \in Int /\ p0 \in Nat /\ p1 \in Nat /\ q0 \in Nat /\ q1 \in Nat
      /\ 2 ^ k <= q1 /\ 2 ^ k \in Nat \ {0}
      /\ c = e * q1 + f * p1 /\ d = f * p0 + e * q0 /\ Base \in Nat
  BY BaseType, PowerPositive DEF Factored
<1> DEFINE cd == c * d
<1>2. cd \in Nat /\ 2 * cd \in Int
  OBVIOUS
<1>3. ASSUME f < 0
      PROVE  (f * f) * (Base - 2 * n) - (2 * n) * (h * f) <= 2 * cd
  <2>1. (f * f) * (Base - n) - n * (e * f) <= 2 * cd
    BY <1>3 DEF Crossed
  <2> HIDE DEF cd
  <2> QED  BY <1>1, <1>2, <2>1, CrossedOther
<1>4. ASSUME f < 0
      PROVE  h >= 0
  <2>1. f * p1 <= 0
    <3>1. (-f) * p1 \in Nat /\ f * p1 = -((-f) * p1)
      BY <1>1, <1>4
    <3> QED  BY <3>1
  <2>2. e * q1 >= 0 /\ e * q1 \in Int
    BY <1>1, <2>1
  <2>3. ASSUME e < 0 PROVE FALSE
    <3>1. (-e) * q1 \in Nat /\ e * q1 = -((-e) * q1) /\ (-e) \in Nat
      BY <1>1, <2>3
    <3>2. 1 * q1 <= (-e) * q1
      <4>1. 1 <= -e
        BY <1>1, <2>3
      <4> QED  BY <1>1, <3>1, <4>1, ProductMonotone
    <3> QED  BY <1>1, <2>2, <3>1, <3>2
  <2>4. e >= 0
    BY <1>1, <2>3
  <2>5. CASE w = 0
    BY <1>1, <2>4, <2>5
  <2>6. CASE w = 1
    BY <1>1, <1>4, <2>4, <2>6
  <2> QED  BY <2>5, <2>6
<1>5. ASSUME f >= 0, h < 0
      PROVE  (h * h) * (Base - 2 * n) - (2 * n) * (h * f) <= 2 * cd
  <2>1. CASE w = 0
    <3>1. 2 * h = e /\ e < 0
      BY <1>1, <1>5, <2>1
    <3>2. (e * e) * (Base - n) - n * (e * f) <= 2 * cd
      BY <3>1 DEF Crossed
    <3> HIDE DEF cd
    <3> QED  BY <1>1, <1>2, <3>1, <3>2, CrossedEven
  <2>2. CASE w = 1
    <3> DEFINE g == f - e
    <3>1. 2 * h = e - f /\ e < f /\ f \in Nat /\ g \in Nat /\ tof <= top /\ 1 <= top
      BY <1>1, <1>5, <2>2
    <3>2. \E l \in Nat : f <= l /\ g <= l /\ (g * l) * Base <= 4 * cd
      <4>1. CASE e >= 0
        <5>1. g * Base <= 4 * (c * p0)
          BY <3>1, <4>1, FirstNegative
        <5>2. f * p0 <= d
          <6>1. e * q0 \in Nat /\ f * p0 \in Int
            BY <1>1, <4>1
          <6> QED  BY <1>1, <6>1
        <5>3. (g * Base) * f <= (4 * (c * p0)) * f
          BY <1>1, <3>1, <5>1, ProductMonotone
        <5>4. (f * p0) * (4 * c) <= d * (4 * c)
          <6>1. f * p0 \in Int
            BY <1>1
          <6> QED  BY <5>2, <6>1, ProductMonotone
        <5>5. /\ (g * Base) * f = (g * f) * Base /\ (4 * (c * p0)) * f = (f * p0) * (4 * c)
              /\ d * (4 * c) = 4 * cd
          <6>1. g \in Int
            BY <3>1
          <6> HIDE DEF g
          <6> QED  BY <1>1, <6>1
        <5>6. (g * f) * Base \in Int /\ (f * p0) * (4 * c) \in Int
          BY <1>1, <3>1
        <5>7. (g * f) * Base <= 4 * cd
          <6> DEFINE x1 == (g * f) * Base
                     x2 == (f * p0) * (4 * c)
                     x3 == 4 * cd
          <6>1. x1 \in Int /\ x2 \in Int /\ x3 \in Int /\ x1 <= x2 /\ x2 <= x3
            BY <1>2, <5>3, <5>4, <5>5, <5>6
          <6> HIDE DEF x1, x2, x3
          <6>2. x1 <= x3
            BY <6>1
          <6> QED  BY <6>2 DEF x1, x3
        <5>8. g <= f
          BY <1>1, <4>1
        <5> HIDE DEF g, cd
        <5> QED  BY <3>1, <5>7, <5>8
      <4>2. CASE e < 0
        <5>1. (g * g) * Base <= 4 * cd
          BY <1>1, <3>1, <4>2, NegativeAgain
        <5>2. f <= g
          BY <1>1, <4>2
        <5> HIDE DEF g, cd
        <5> QED  BY <3>1, <5>1, <5>2
      <4> QED  BY <1>1, <4>1, <4>2
    <3>3. PICK l \in Nat : f <= l /\ g <= l /\ (g * l) * Base <= 4 * cd
      BY <3>2
    <3>4. g = f - e
      OBVIOUS
    <3> HIDE DEF g, cd
    <3> QED  BY <1>1, <1>2, <3>1, <3>3, <3>4, CrossedBelow
  <2> QED  BY <2>1, <2>2
<1> QED  BY <1>1, <1>3, <1>4, <1>5 DEF Crossed

(* What i iterations have made of c and d: the numbers e and f, whose top  *)
(* words are exact, or estimates of numbers one of which filled them.      *)
Pair(i, u, c, d, e, top, f, tof, p0, p1, q0, q1) ==
  \E k \in Nat, j \in Nat :
    /\ k + j = i
    /\ Factored(2 ^ i, k, j, c, d, e, f, p0, p1, q0, q1)
    /\ \/ u = 1 /\ e = top /\ f = tof /\ 0 <= e /\ 0 <= f
       \/ /\ u # 1
          /\ u * Base <= c \/ u * Base <= d
          /\ Approximate(u, k, j, e, top, c \div u, c)
          /\ Approximate(u, j, k, f, tof, d \div u, d)
          /\ 2 ^ (W - i) <= top + tof
          /\ Lag(u, e, top, f, tof, p0, p1) /\ Lag(u, f, tof, e, top, q1, q0)
          /\ Crossed(2 ^ i, c, d, e, f)

(* Nothing in it tells the two numbers apart.                              *)
LEMMA PairSymmetric ==
  ASSUME NEW i \in Nat, NEW u, NEW c, NEW d, NEW e, NEW top, NEW f, NEW tof,
         NEW p0, NEW p1, NEW q0, NEW q1,
         c \in Nat, d \in Nat,
         Pair(i, u, c, d, e, top, f, tof, p0, p1, q0, q1)
  PROVE  Pair(i, u, d, c, f, tof, e, top, q1, q0, p1, p0)
<1>1. PICK k \in Nat, j \in Nat :
        /\ k + j = i
        /\ Factored(2 ^ i, k, j, c, d, e, f, p0, p1, q0, q1)
        /\ \/ u = 1 /\ e = top /\ f = tof /\ 0 <= e /\ 0 <= f
           \/ /\ u # 1
              /\ u * Base <= c \/ u * Base <= d
              /\ Approximate(u, k, j, e, top, c \div u, c)
              /\ Approximate(u, j, k, f, tof, d \div u, d)
              /\ 2 ^ (W - i) <= top + tof
              /\ Lag(u, e, top, f, tof, p0, p1) /\ Lag(u, f, tof, e, top, q1, q0)
              /\ Crossed(2 ^ i, c, d, e, f)
  BY DEF Pair
<1>2. j + k = i
  BY <1>1
<1>3. Factored(2 ^ i, j, k, d, c, f, e, q1, q0, p1, p0)
  <2>1. 2 ^ i \in Nat
    BY PowerOfTwo
  <2> QED  BY <1>1, <2>1, FactoredSymmetric
<1>4. CASE u = 1 /\ e = top /\ f = tof /\ 0 <= e /\ 0 <= f
  BY <1>2, <1>3, <1>4 DEF Pair
<1>5. CASE /\ u # 1
           /\ u * Base <= c \/ u * Base <= d
           /\ Approximate(u, k, j, e, top, c \div u, c)
           /\ Approximate(u, j, k, f, tof, d \div u, d)
           /\ 2 ^ (W - i) <= top + tof
           /\ Lag(u, e, top, f, tof, p0, p1) /\ Lag(u, f, tof, e, top, q1, q0)
           /\ Crossed(2 ^ i, c, d, e, f)
  <2>1. top + tof = tof + top
    BY <1>5 DEF Approximate
  <2>2. Crossed(2 ^ i, d, c, f, e)
    <3>1. e * f = f * e /\ c * d = d * c
      BY <1>1 DEF Factored
    <3> QED  BY <1>5, <3>1 DEF Crossed
  <2>3. 2 ^ (W - i) <= tof + top
    BY <1>5, <2>1
  <2>4. /\ u # 1
        /\ u * Base <= d \/ u * Base <= c
        /\ Approximate(u, j, k, f, tof, d \div u, d)
        /\ Approximate(u, k, j, e, top, c \div u, c)
        /\ 2 ^ (W - i) <= tof + top
        /\ Lag(u, f, tof, e, top, q1, q0) /\ Lag(u, e, top, f, tof, p0, p1)
        /\ Crossed(2 ^ i, d, c, f, e)
    BY <1>5, <2>2, <2>3
  <2> QED  BY <1>2, <1>3, <2>4 DEF Pair
<1> QED  BY <1>1, <1>4, <1>5

(* One iteration keeps it, seen from the number that is halved.            *)
LEMMA PairHalved ==
  ASSUME NEW i \in 0 .. W - 1, NEW u \in Nat \ {0}, NEW c \in Nat, NEW d \in Nat,
         NEW e, NEW top, NEW f, NEW tof, NEW p0, NEW p1, NEW q0, NEW q1,
         Pair(i, u, c, d, e, top, f, tof, p0, p1, q0, q1),
         NEW w \in {0, 1}, w = 1 => tof <= top,
         NEW h \in Int, 2 * h = e - w * f
  PROVE  Pair(i + 1, u, c, d, h, (top - w * tof) \div 2, f, tof,
              p0 + w * q0, p1 + w * q1, 2 * q0, 2 * q1)
<1> DEFINE t == (top - w * tof) \div 2
           n == 2 ^ i
           p == 2 ^ (W - (i + 1))
<1>1. PICK k \in Nat, j \in Nat :
        /\ k + j = i
        /\ Factored(n, k, j, c, d, e, f, p0, p1, q0, q1)
        /\ \/ u = 1 /\ e = top /\ f = tof /\ 0 <= e /\ 0 <= f
           \/ /\ u # 1
              /\ u * Base <= c \/ u * Base <= d
              /\ Approximate(u, k, j, e, top, c \div u, c)
              /\ Approximate(u, j, k, f, tof, d \div u, d)
              /\ 2 ^ (W - i) <= top + tof
              /\ Lag(u, e, top, f, tof, p0, p1) /\ Lag(u, f, tof, e, top, q1, q0)
              /\ Crossed(n, c, d, e, f)
  BY DEF Pair
<1>2. /\ n \in Nat \ {0} /\ 2 ^ (i + 1) = 2 * n /\ n = 2 ^ k * 2 ^ j
      /\ p \in Nat \ {0} /\ 2 ^ (W - i) = 2 * p /\ Base = n * (2 * p)
      /\ k + 1 \in Nat /\ (k + 1) + j = i + 1
      /\ i \in Nat
  <2>1. i \in Nat /\ W - (i + 1) \in Nat /\ (W - (i + 1)) + 1 = W - i /\ i + (W - i) = W
        /\ W - i \in Nat
    BY BaseType
  <2>2. 2 ^ (i + (W - i)) = 2 ^ i * 2 ^ (W - i)
    BY <2>1, PowerSum
  <2>3. 2 ^ (k + j) = 2 ^ k * 2 ^ j
    BY PowerSum
  <2>4. n \in Nat \ {0} /\ p \in Nat \ {0} /\ 2 ^ (i + 1) = 2 * n /\ 2 ^ (W - i) = 2 * p
    BY <2>1, PowerOfTwo, PowerPositive
  <2>5. k + 1 \in Nat /\ (k + 1) + j = i + 1
    BY <1>1
  <2> QED  BY <1>1, <2>1, <2>2, <2>3, <2>4, <2>5 DEF Base
<1> HIDE DEF n, p
<1>3. Factored(2 * n, k + 1, j, c, d, h, f, p0 + w * q0, p1 + w * q1, 2 * q0, 2 * q1)
  BY <1>1, <1>2, FactoredHalved
<1>4. CASE u = 1 /\ e = top /\ f = tof /\ 0 <= e /\ 0 <= f
  <2>1. e \in Int /\ f \in Int
    BY <1>1 DEF Factored
  <2>2. top - w * tof = 2 * h /\ 0 <= 2 * h
    <3>1. CASE w = 0
      BY <1>4, <2>1, <3>1
    <3>2. CASE w = 1
      BY <1>4, <2>1, <3>2
    <3> QED  BY <3>1, <3>2
  <2>3. t = h /\ 0 <= h
    BY <2>2
  <2>4. u = 1 /\ h = t /\ f = tof /\ 0 <= h /\ 0 <= f
    BY <1>4, <2>3
  <2> QED  BY <1>2, <1>3, <2>4 DEF Pair
<1>5. CASE /\ u # 1
           /\ u * Base <= c \/ u * Base <= d
           /\ Approximate(u, k, j, e, top, c \div u, c)
           /\ Approximate(u, j, k, f, tof, d \div u, d)
           /\ 2 ^ (W - i) <= top + tof
           /\ Lag(u, e, top, f, tof, p0, p1) /\ Lag(u, f, tof, e, top, q1, q0)
           /\ Crossed(n, c, d, e, f)
  <2>1. top \in Nat /\ tof \in Nat /\ e \in Int /\ f \in Int
    BY <1>5 DEF Approximate
  <2>2. 2 * p <= top + tof
    BY <1>2, <1>5
  <2>3. w = 1 => tof <= top /\ 1 <= top
    BY <1>2, <2>1, <2>2
  <2>4. Approximate(u, k + 1, j, h, t, c \div u, c)
    BY <1>5, <2>3, ApproximateHalved
  <2>5. Approximate(u, j, k + 1, f, tof, d \div u, d)
    BY <1>5, ApproximateStays
  <2>6. p <= t + tof
    <3>1. top - w * tof \in Int /\ top - w * tof >= top - tof
      BY <2>1
    <3>2. 2 * t + 1 >= top - w * tof /\ t \in Int
      BY <3>1
    <3> HIDE DEF t
    <3> QED  BY <1>2, <2>1, <2>2, <3>1, <3>2
  <2>7. /\ p0 \in Nat /\ p1 \in Nat /\ q0 \in Nat /\ q1 \in Nat /\ 1 <= p0 /\ 1 <= q1
    <3>1. 2 ^ j \in Nat \ {0} /\ 2 ^ k \in Nat \ {0}
      BY PowerPositive
    <3> QED  BY <1>1, <3>1 DEF Factored
  <2>8. /\ Lag(u, h, t, f, tof, p0 + w * q0, p1 + w * q1)
        /\ Lag(u, f, tof, h, t, 2 * q1, 2 * q0)
    BY <1>5, <2>1, <2>3, <2>7, LagHalved
  <2>9. 2 * n <= Base /\ Base <= n * (top + tof)
    <3>1. 1 * (2 * n) <= p * (2 * n)
      BY <1>2, ProductMonotone
    <3>2. p * (2 * n) = n * (2 * p) /\ 1 * (2 * n) = 2 * n
      BY <1>2
    <3>3. (2 * p) * n <= (top + tof) * n
      BY <1>2, <2>1, <2>2, ProductMonotone
    <3>4. (2 * p) * n = n * (2 * p) /\ (top + tof) * n = n * (top + tof)
      BY <1>2, <2>1
    <3> QED  BY <1>2, <3>1, <3>2, <3>3, <3>4
  <2>10. Crossed(2 * n, c, d, h, f)
    <3>1. /\ u * Base <= c \/ u * Base <= d
          /\ Approximate(u, k, j, e, top, c \div u, c)
          /\ Approximate(u, j, k, f, tof, d \div u, d)
          /\ Lag(u, e, top, f, tof, p0, p1)
          /\ Crossed(n, c, d, e, f) /\ n = 2 ^ k * 2 ^ j /\ n \in Nat
          /\ Factored(n, k, j, c, d, e, f, p0, p1, q0, q1)
      BY <1>1, <1>2, <1>5
    <3> QED  BY <2>3, <2>9, <3>1, CrossedHalved
  <2>11. 2 ^ (W - (i + 1)) <= t + tof
    BY <2>6 DEF p
  <2> HIDE DEF t
  <2>12. /\ u # 1
         /\ u * Base <= c \/ u * Base <= d
         /\ Approximate(u, k + 1, j, h, t, c \div u, c)
         /\ Approximate(u, j, k + 1, f, tof, d \div u, d)
         /\ 2 ^ (W - (i + 1)) <= t + tof
         /\ Lag(u, h, t, f, tof, p0 + w * q0, p1 + w * q1)
         /\ Lag(u, f, tof, h, t, 2 * q1, 2 * q0)
         /\ Crossed(2 * n, c, d, h, f)
    BY <1>5, <2>4, <2>5, <2>8, <2>10, <2>11
  <2>13. Pair(i + 1, u, c, d, h, t, f, tof, p0 + w * q0, p1 + w * q1, 2 * q0, 2 * q1)
    BY <1>2, <1>3, <2>12 DEF Pair
  <2> QED  BY <2>13 DEF t
<1> QED  BY <1>1, <1>4, <1>5

(* What a pair is worth after all W iterations.                            *)
LEMMA PairShrinks ==
  ASSUME NEW u \in Nat \ {0}, NEW c \in Nat, NEW d \in Nat,
         NEW e, NEW top, NEW f, NEW tof, NEW p0, NEW p1, NEW q0, NEW q1,
         Pair(W, u, c, d, e, top, f, tof, p0, p1, q0, q1)
  PROVE  /\ e \in Int /\ f \in Int
         /\ -(2 * (c * d)) <= Base * (e * f) /\ Base * (e * f) <= 2 * (c * d)
         /\ \E c0, c1, d0, d1 \in Int : c = e * c0 + f * c1 /\ d = f * d0 + e * d1
         /\ u # 1 /\ e = 0 => f # 1 /\ f # -1
<1>1. PICK k \in Nat, j \in Nat :
        /\ k + j = W
        /\ Factored(Base, k, j, c, d, e, f, p0, p1, q0, q1)
        /\ \/ u = 1 /\ e = top /\ f = tof /\ 0 <= e /\ 0 <= f
           \/ /\ u # 1
              /\ u * Base <= c \/ u * Base <= d
              /\ Approximate(u, k, j, e, top, c \div u, c)
              /\ Approximate(u, j, k, f, tof, d \div u, d)
              /\ 2 ^ (W - W) <= top + tof
              /\ Lag(u, e, top, f, tof, p0, p1) /\ Lag(u, f, tof, e, top, q1, q0)
              /\ Crossed(Base, c, d, e, f)
  BY DEF Pair, Base
<1>2. /\ e \in Int /\ f \in Int /\ Base \in Nat \ {0}
      /\ p0 \in Nat /\ p1 \in Nat /\ q0 \in Nat /\ q1 \in Nat
      /\ p0 + p1 <= Base /\ q0 + q1 <= Base
      /\ c = e * q1 + f * p1 /\ d = f * p0 + e * q0
      /\ 2 ^ k <= q1 /\ 2 ^ k \in Nat \ {0}
  BY <1>1, BaseType, PowerPositive DEF Factored
<1> DEFINE ef == e * f
           cd == c * d
           z  == Base * ef
<1>3. ef \in Int /\ cd \in Nat /\ z \in Int
  BY <1>2
<1>4. -(2 * cd) <= z /\ z <= 2 * cd
  <2>1. CASE e >= 0 /\ f >= 0
    <3>1. z <= cd
      BY <1>1, <1>2, <2>1, FactoredIs
    <3>2. ef \in Nat /\ z \in Nat
      BY <1>2, <2>1
    <3> HIDE DEF z, cd
    <3> QED  BY <1>3, <3>1, <3>2
  <2>2. CASE e < 0 /\ f >= 0
    <3>1. (e * e) * (Base - Base) - Base * (e * f) <= 2 * (c * d)
      BY <1>1, <1>2, <2>2 DEF Crossed
    <3>2. (e * e) * (Base - Base) = 0
      BY <1>2
    <3>3. (-e) * f \in Nat /\ ef = -((-e) * f)
      BY <1>2, <2>2
    <3>4. Base * ((-e) * f) \in Nat /\ z = -(Base * ((-e) * f))
      BY <1>2, <3>3
    <3>5. 0 - z <= 2 * cd
      BY <3>1, <3>2
    <3>6. z <= 0
      BY <3>4
    <3> HIDE DEF z, cd
    <3> QED  BY <1>3, <3>5, <3>6
  <2>3. CASE f < 0 /\ e >= 0
    <3>1. (f * f) * (Base - Base) - Base * (e * f) <= 2 * (c * d)
      BY <1>1, <1>2, <2>3 DEF Crossed
    <3>2. (f * f) * (Base - Base) = 0
      BY <1>2
    <3>3. e * (-f) \in Nat /\ ef = -(e * (-f))
      BY <1>2, <2>3
    <3>4. Base * (e * (-f)) \in Nat /\ z = -(Base * (e * (-f)))
      BY <1>2, <3>3
    <3>5. 0 - z <= 2 * cd
      BY <3>1, <3>2
    <3>6. z <= 0
      BY <3>4
    <3> HIDE DEF z, cd
    <3> QED  BY <1>3, <3>5, <3>6
  <2>4. ASSUME e < 0, f < 0 PROVE FALSE
    <3>1. (-e) * q1 \in Nat /\ e * q1 = -((-e) * q1) /\ -e \in Nat /\ 1 <= -e
      BY <1>2, <2>4
    <3>2. (-f) * p1 \in Nat /\ f * p1 = -((-f) * p1)
      BY <1>2, <2>4
    <3>3. 1 * q1 <= (-e) * q1
      BY <1>2, <3>1, ProductMonotone
    <3> QED  BY <1>2, <3>1, <3>2, <3>3
  <2> QED  BY <1>2, <2>1, <2>2, <2>3, <2>4
<1>5. \E c0, c1, d0, d1 \in Int : c = e * c0 + f * c1 /\ d = f * d0 + e * d1
  <2>1. q1 \in Int /\ p1 \in Int /\ p0 \in Int /\ q0 \in Int
    BY <1>2
  <2> USE <2>1
  <2> WITNESS q1 \in Int, p1 \in Int, p0 \in Int, q0 \in Int
  <2> QED  BY <1>2
<1>6. ASSUME u # 1, e = 0, f = 1 \/ f = -1 PROVE FALSE
  <2>1. u * Base <= c \/ u * Base <= d
    BY <1>1, <1>6
  <2>2. c <= Base /\ d <= Base
    <3>1. e * q1 = 0 /\ e * q0 = 0 /\ f * p1 <= p1 /\ f * p0 <= p0
      BY <1>2, <1>6
    <3>2. f * p1 \in Int /\ f * p0 \in Int
      BY <1>2
    <3> QED  BY <1>2, <3>1, <3>2
  <2>3. 2 * Base <= u * Base
    <3>1. 2 <= u
      BY <1>6
    <3> QED  BY <1>2, <3>1, ProductMonotone
  <2>4. u * Base \in Int
    BY <1>2
  <2> QED  BY <1>2, <2>1, <2>2, <2>3, <2>4
<1> QED  BY <1>2, <1>4, <1>5, <1>6

----------------------------------------------------------------------------
(* The records of the inner loop.                                          *)
FactorState ==
  [al : Int, bl : Int, ah : Int, bh : Int, pa : Int, pb : Int, qa : Int, qb : Int]

(* The invariant of the inner loop: after i iterations the factors make    *)
(* 2^i times the numbers the remainders were halved to, the low words are  *)
(* those of the combinations, the top words estimate the numbers, and the  *)
(* numbers are small.  Where the top words are exact, the first one never  *)
(* becomes 0, because equal numbers are subtracted from the second.        *)
Inner(i, unit, s) ==
  \E e, f :
    /\ Row(2 ^ i, e, s.pa, s.pb, s.al)
    /\ Row(2 ^ i, f, s.qa, s.qb, s.bl)
    /\ Estimates(i, unit, e, s.ah, a, f, s.bh, b)
    /\ Pair(i, unit, a, b, e, s.ah, f, s.bh, s.pa, -s.pb, -s.qa, s.qb)
    /\ unit = 1 /\ 1 <= a => 1 <= e

(* One iteration, seen from the number that is halved.                     *)
LEMMA HalveOne ==
  ASSUME a \in Nat, b \in Nat, NEW i \in 0 .. W - 1, NEW unit \in Nat \ {0},
         NEW d \in {0, 1},
         NEW e, NEW p0, NEW p1, NEW low, Row(2 ^ i, e, p0, p1, low),
         NEW f, NEW q0, NEW q1, NEW lof, Row(2 ^ i, f, q0, q1, lof),
         NEW top, NEW bound, NEW tof, NEW bounf,
         Estimates(i, unit, e, top, bound, f, tof, bounf),
         d = 0 => Bit(low, i) # 1,
         d = 1 => Bit(low, i) = 1 /\ Bit(lof, i) = 1 /\ tof <= top
  PROVE  \E h \in Int :
           /\ 2 * h = e - d * f
           /\ Row(2 ^ (i + 1), h, p0 - d * q0, p1 - d * q1, (low - d * lof) % Base)
           /\ Row(2 ^ (i + 1), f, 2 * q0, 2 * q1, (2 * lof) % Base)
           /\ Estimates(i + 1, unit, h, (top - d * tof) \div 2, bound, f, tof, bounf)
<1>1. i \in Nat /\ 2 ^ i \in Nat /\ 2 ^ (i + 1) = 2 * 2 ^ i
  BY PowerOfTwo
<1>2. e \in Int /\ f \in Int /\ low = (2 ^ i * e) % Base /\ lof = (2 ^ i * f) % Base
  BY DEF Row
<1>3. Bit(low, i) = e % 2 /\ Bit(lof, i) = f % 2
  BY <1>2, BitIsParity
<1>4. PICK h \in Int : 2 * h = e - d * f
  <2>1. e % 2 \in {0, 1}
    BY <1>2
  <2>2. CASE d = 0
    <3>1. e % 2 = 0
      BY <1>3, <2>1, <2>2
    <3>2. e - d * f = 2 * (e \div 2) /\ e \div 2 \in Int
      BY <1>2, <2>2, <3>1
    <3> QED  BY <3>2
  <2>3. CASE d = 1
    <3>1. e % 2 = 1 /\ f % 2 = 1
      BY <1>3, <2>3
    <3>2. e - d * f = 2 * ((e \div 2) - (f \div 2)) /\ (e \div 2) - (f \div 2) \in Int
      BY <1>2, <2>3, <3>1
    <3> QED  BY <3>2
  <2> QED  BY <2>2, <2>3
<1>5. Row(2 ^ (i + 1), h, p0 - d * q0, p1 - d * q1, (low - d * lof) % Base)
  <2> DEFINE n == 2 ^ i
  <2>1. n \in Nat /\ Row(n, e, p0, p1, low) /\ Row(n, f, q0, q1, lof) /\ 2 ^ (i + 1) = 2 * n
    BY <1>1
  <2> HIDE DEF n
  <2> QED  BY <2>1, <1>4, RowHalved
<1>6. Row(2 ^ (i + 1), f, 2 * q0, 2 * q1, (2 * lof) % Base)
  <2> DEFINE n == 2 ^ i
  <2>1. n \in Nat /\ Row(n, f, q0, q1, lof) /\ 2 ^ (i + 1) = 2 * n
    BY <1>1
  <2> HIDE DEF n
  <2> QED  BY <2>1, RowDoubled
<1>7. Estimates(i + 1, unit, h, (top - d * tof) \div 2, bound, f, tof, bounf)
  BY <1>4, EstimatesHalved
<1> QED  BY <1>4, <1>5, <1>6, <1>7

(* Halve yields a record of the inner loop.                                *)
LEMMA HalveType ==
  ASSUME NEW s \in FactorState, NEW i
  PROVE  Halve(s, i) \in FactorState
<1>1. Base \in Nat \ {0}
  BY BaseType
<1>2. ASSUME NEW m \in {0, 1}, NEW n \in {0, 1}, NEW k \in {1, 2}, NEW l \in {1, 2}
      PROVE  [al |-> (k * (s.al - m * s.bl)) % Base,
              bl |-> (l * (s.bl - n * s.al)) % Base,
              ah |-> (s.ah - m * s.bh) \div (3 - k),
              bh |-> (s.bh - n * s.ah) \div (3 - l),
              pa |-> k * (s.pa - m * s.qa), pb |-> k * (s.pb - m * s.qb),
              qa |-> l * (s.qa - n * s.pa), qb |-> l * (s.qb - n * s.pb)] \in FactorState
  <2>0. \A c, e \in Int, h \in {0, 1} : c - h * e \in Int
    OBVIOUS
  <2>1. /\ s.al - m * s.bl \in Int /\ s.bl - n * s.al \in Int
        /\ s.ah - m * s.bh \in Int /\ s.bh - n * s.ah \in Int
        /\ s.pa - m * s.qa \in Int /\ s.pb - m * s.qb \in Int
        /\ s.qa - n * s.pa \in Int /\ s.qb - n * s.pb \in Int
    BY <2>0 DEF FactorState
  <2>2. \A c \in Int, h \in {1, 2} :
          h * c \in Int /\ (h * c) % Base \in Int /\ c \div (3 - h) \in Int
    <3> SUFFICES ASSUME NEW c \in Int, NEW h \in {1, 2}
                 PROVE  h * c \in Int /\ (h * c) % Base \in Int /\ c \div (3 - h) \in Int
      OBVIOUS
    <3>1. h * c \in Int /\ 3 - h \in Nat \ {0}
      OBVIOUS
    <3> QED  BY <1>1, <3>1, Division
  <2> QED  BY <2>1, <2>2 DEF FactorState
<1> QED  BY <1>2 DEF Halve

(* An iteration keeps the invariant of the inner loop.                     *)
LEMMA HalveKeeps ==
  ASSUME a \in Nat, b \in Nat, NEW i \in 0 .. W - 1, NEW unit \in Nat \ {0},
         NEW s \in FactorState, Inner(i, unit, s)
  PROVE  Inner(i + 1, unit, Halve(s, i))
<1>1. PICK e, f :
        /\ Row(2 ^ i, e, s.pa, s.pb, s.al)
        /\ Row(2 ^ i, f, s.qa, s.qb, s.bl)
        /\ Estimates(i, unit, e, s.ah, a, f, s.bh, b)
        /\ Pair(i, unit, a, b, e, s.ah, f, s.bh, s.pa, -s.pb, -s.qa, s.qb)
        /\ unit = 1 /\ 1 <= a => 1 <= e
  BY DEF Inner
<1>0. i \in Nat /\ e \in Int /\ f \in Int /\ (unit = 1 => e = s.ah /\ f = s.bh)
  BY <1>1 DEF Row, Pair
<1> DEFINE oa  == Bit(s.al, i) = 1
           ob  == Bit(s.bl, i) = 1
           cAB == oa /\ ob /\ s.ah > s.bh
           cBA == oa /\ ob /\ ~(s.ah > s.bh)
           n   == Halve(s, i)
<1>2. /\ s.al \in Int /\ s.bl \in Int /\ s.ah \in Int /\ s.bh \in Int
      /\ s.pa \in Int /\ s.pb \in Int /\ s.qa \in Int /\ s.qb \in Int
  BY DEF FactorState
<1>3. ASSUME NEW d \in {0, 1}, d = 1 <=> cAB, cAB \/ ~oa
      PROVE  Inner(i + 1, unit, n)
  <2>1. /\ n.al = (s.al - d * s.bl) % Base /\ n.bl = (2 * s.bl) % Base
        /\ n.ah = (s.ah - d * s.bh) \div 2 /\ n.bh = s.bh
        /\ n.pa = s.pa - d * s.qa /\ n.pb = s.pb - d * s.qb
        /\ n.qa = 2 * s.qa /\ n.qb = 2 * s.qb
    <3>1. n = [al |-> (1 * (s.al - d * s.bl)) % Base,
               bl |-> (2 * (s.bl - 0 * s.al)) % Base,
               ah |-> (s.ah - d * s.bh) \div (3 - 1),
               bh |-> (s.bh - 0 * s.ah) \div (3 - 2),
               pa |-> 1 * (s.pa - d * s.qa), pb |-> 1 * (s.pb - d * s.qb),
               qa |-> 2 * (s.qa - 0 * s.pa), qb |-> 2 * (s.qb - 0 * s.pb)]
      BY <1>3 DEF Halve
    <3>2. /\ 1 * (s.al - d * s.bl) = s.al - d * s.bl /\ 2 * (s.bl - 0 * s.al) = 2 * s.bl
          /\ 3 - 1 = 2 /\ (s.bh - 0 * s.ah) \div (3 - 2) = s.bh
          /\ 1 * (s.pa - d * s.qa) = s.pa - d * s.qa /\ 1 * (s.pb - d * s.qb) = s.pb - d * s.qb
          /\ 2 * (s.qa - 0 * s.pa) = 2 * s.qa /\ 2 * (s.qb - 0 * s.pb) = 2 * s.qb
      BY <1>2
    <3> HIDE DEF n
    <3> QED  BY <3>1, <3>2
  <2>2. /\ d = 0 => Bit(s.al, i) # 1
        /\ d = 1 => Bit(s.al, i) = 1 /\ Bit(s.bl, i) = 1 /\ s.bh <= s.ah
    BY <1>2, <1>3
  <2>3. PICK h \in Int :
           /\ 2 * h = e - d * f
           /\ Row(2 ^ (i + 1), h, s.pa - d * s.qa, s.pb - d * s.qb, (s.al - d * s.bl) % Base)
           /\ Row(2 ^ (i + 1), f, 2 * s.qa, 2 * s.qb, (2 * s.bl) % Base)
           /\ Estimates(i + 1, unit, h, (s.ah - d * s.bh) \div 2, a, f, s.bh, b)
    BY <1>1, <2>2, HalveOne
  <2>4. Pair(i + 1, unit, a, b, h, n.ah, f, n.bh, n.pa, -n.pb, -n.qa, n.qb)
    <3>1. Pair(i + 1, unit, a, b, h, (s.ah - d * s.bh) \div 2, f, s.bh,
               s.pa + d * (-s.qa), -s.pb + d * s.qb, 2 * (-s.qa), 2 * s.qb)
      BY <1>1, <2>2, <2>3, PairHalved
    <3>2. /\ s.pa + d * (-s.qa) = s.pa - d * s.qa /\ -s.pb + d * s.qb = -(s.pb - d * s.qb)
          /\ 2 * (-s.qa) = -(2 * s.qa)
      <4>1. CASE d = 0
        BY <1>2, <4>1
      <4>2. CASE d = 1
        BY <1>2, <4>2
      <4> QED  BY <4>1, <4>2
    <3> HIDE DEF n
    <3> QED  BY <2>1, <3>1, <3>2
  <2>5. unit = 1 /\ 1 <= a => 1 <= h
    <3> SUFFICES ASSUME unit = 1, 1 <= a
                 PROVE  1 <= h
      OBVIOUS
    <3>1. 1 <= e /\ e = s.ah /\ f = s.bh
      BY <1>0, <1>1
    <3>2. CASE d = 0
      BY <1>0, <2>3, <3>1, <3>2
    <3>3. CASE d = 1
      <4>1. s.ah > s.bh
        BY <1>3, <3>3
      <4> QED  BY <1>0, <2>3, <3>1, <3>3, <4>1
    <3> QED  BY <3>2, <3>3
  <2> HIDE DEF n
  <2> QED  BY <2>1, <2>3, <2>4, <2>5 DEF Inner
<1>4. ASSUME NEW d \in {0, 1}, d = 1 <=> cBA, ~(cAB \/ ~oa)
      PROVE  Inner(i + 1, unit, n)
  <2>1. /\ n.bl = (s.bl - d * s.al) % Base /\ n.al = (2 * s.al) % Base
        /\ n.bh = (s.bh - d * s.ah) \div 2 /\ n.ah = s.ah
        /\ n.qa = s.qa - d * s.pa /\ n.qb = s.qb - d * s.pb
        /\ n.pa = 2 * s.pa /\ n.pb = 2 * s.pb
    <3>1. n = [al |-> (2 * (s.al - 0 * s.bl)) % Base,
               bl |-> (1 * (s.bl - d * s.al)) % Base,
               ah |-> (s.ah - 0 * s.bh) \div (3 - 2),
               bh |-> (s.bh - d * s.ah) \div (3 - 1),
               pa |-> 2 * (s.pa - 0 * s.qa), pb |-> 2 * (s.pb - 0 * s.qb),
               qa |-> 1 * (s.qa - d * s.pa), qb |-> 1 * (s.qb - d * s.pb)]
      BY <1>4 DEF Halve
    <3>2. /\ 1 * (s.bl - d * s.al) = s.bl - d * s.al /\ 2 * (s.al - 0 * s.bl) = 2 * s.al
          /\ 3 - 1 = 2 /\ (s.ah - 0 * s.bh) \div (3 - 2) = s.ah
          /\ 1 * (s.qa - d * s.pa) = s.qa - d * s.pa /\ 1 * (s.qb - d * s.pb) = s.qb - d * s.pb
          /\ 2 * (s.pa - 0 * s.qa) = 2 * s.pa /\ 2 * (s.pb - 0 * s.qb) = 2 * s.pb
      BY <1>2
    <3> HIDE DEF n
    <3> QED  BY <3>1, <3>2
  <2>2. /\ d = 0 => Bit(s.bl, i) # 1
        /\ d = 1 => Bit(s.bl, i) = 1 /\ Bit(s.al, i) = 1 /\ s.ah <= s.bh
    BY <1>2, <1>4
  <2>3. Estimates(i, unit, f, s.bh, b, e, s.ah, a)
    BY <1>1, EstimatesSymmetric
  <2>4. PICK h \in Int :
           /\ 2 * h = f - d * e
           /\ Row(2 ^ (i + 1), h, s.qa - d * s.pa, s.qb - d * s.pb, (s.bl - d * s.al) % Base)
           /\ Row(2 ^ (i + 1), e, 2 * s.pa, 2 * s.pb, (2 * s.al) % Base)
           /\ Estimates(i + 1, unit, h, (s.bh - d * s.ah) \div 2, b, e, s.ah, a)
    BY <1>1, <2>2, <2>3, HalveOne
  <2>5. Estimates(i + 1, unit, e, s.ah, a, h, (s.bh - d * s.ah) \div 2, b)
    BY <2>4, EstimatesSymmetric
  <2>6. Pair(i + 1, unit, a, b, e, n.ah, h, n.bh, n.pa, -n.pb, -n.qa, n.qb)
    <3>1. Pair(i, unit, b, a, f, s.bh, e, s.ah, s.qb, -s.qa, -s.pb, s.pa)
      BY <1>0, <1>1, PairSymmetric
    <3>2. Pair(i + 1, unit, b, a, h, (s.bh - d * s.ah) \div 2, e, s.ah,
               s.qb + d * (-s.pb), -s.qa + d * s.pa, 2 * (-s.pb), 2 * s.pa)
      BY <2>2, <2>4, <3>1, PairHalved
    <3>3. /\ s.qb + d * (-s.pb) = s.qb - d * s.pb /\ -s.qa + d * s.pa = -(s.qa - d * s.pa)
          /\ 2 * (-s.pb) = -(2 * s.pb)
      <4>1. CASE d = 0
        BY <1>2, <4>1
      <4>2. CASE d = 1
        BY <1>2, <4>2
      <4> QED  BY <4>1, <4>2
    <3> HIDE DEF n
    <3>4. Pair(i + 1, unit, b, a, h, n.bh, e, n.ah, n.qb, -n.qa, -n.pb, n.pa)
      BY <2>1, <3>2, <3>3
    <3>5. i + 1 \in Nat
      BY <1>0
    <3> QED  BY <3>4, <3>5, PairSymmetric
  <2> HIDE DEF n
  <2> QED  BY <1>1, <2>1, <2>4, <2>5, <2>6 DEF Inner
<1>5. PICK d \in {0, 1} : d = 1 <=> cAB
  <2>1. CASE cAB
    BY <2>1
  <2>2. CASE ~cAB
    BY <2>2
  <2> QED  BY <2>1, <2>2
<1>6. PICK m \in {0, 1} : m = 1 <=> cBA
  <2>1. CASE cBA
    BY <2>1
  <2>2. CASE ~cBA
    BY <2>2
  <2> QED  BY <2>1, <2>2
<1> HIDE DEF n, oa, cAB, cBA
<1>7. CASE cAB \/ ~oa
  <2>1. Inner(i + 1, unit, n)
    BY <1>3, <1>5, <1>7
  <2> QED  BY <2>1 DEF n
<1>8. CASE ~(cAB \/ ~oa)
  <2>1. Inner(i + 1, unit, n)
    BY <1>4, <1>6, <1>8
  <2> QED  BY <2>1 DEF n
<1> QED  BY <1>7, <1>8

(* The unit of the top words: with it they are exact, or a word is full.   *)
LEMMA ShiftIs ==
  ASSUME NEW m \in 0 .. Limit - 1, NEW n \in 0 .. Limit - 1
  PROVE  /\ Shift(m, n) \in Nat \ {0}
         /\ \/ Shift(m, n) = 1
            \/ /\ Base <= (m \div Shift(m, n)) + (n \div Shift(m, n))
               /\ Shift(m, n) * Base <= m \/ Shift(m, n) * Base <= n
<1> DEFINE Holds(k) == m < Words(k) /\ n < Words(k)
           First(k) == Holds(k) /\ \A j \in 1 .. k - 1 : ~Holds(j)
           used == CHOOSE k \in 1 .. len : First(k)
           u == Words(used - 2)
<1>1. len \in Nat \ {0} /\ W \in Nat \ {0} /\ Limit \in Int
  <2>1. W * len \in Nat
    BY WordAssumption
  <2> QED  BY <2>1, WordAssumption, PowerOfTwo DEF Limit, Words
<1>2. \E k \in 1 .. len : First(k)
  <2> DEFINE T == {k \in 1 .. len : Holds(k)}
  <2>1. len \in T
    BY <1>1 DEF Limit
  <2>2. PICK k \in T : \A j \in T : k <= j
    <3>1. T \in SUBSET Nat
      BY <1>1
    <3> HIDE DEF T
    <3> QED  BY <2>1, <3>1, Least
  <2>3. \A j \in 1 .. k - 1 : j \in 1 .. len /\ ~(k <= j)
    BY <1>1
  <2>4. First(k)
    BY <2>2, <2>3
  <2> QED  BY <2>4
<1>3. used \in 1 .. len /\ First(used)
  <2> HIDE DEF First
  <2> QED  BY <1>2
<1>4. Shift(m, n) = IF used >= 2 THEN u ELSE 1
  BY DEF Shift
<1> HIDE DEF used
<1>5. CASE used <= 2
  <2>1. used = 2 => u = 1
    <3>1. W * 0 = 0 /\ 2 - 2 = 0
      BY <1>1
    <3>2. Words(2 - 2) = 1
      BY <3>1, PowerOfTwo DEF Words
    <3> QED  BY <3>2
  <2>2. Shift(m, n) = 1
    BY <1>1, <1>3, <1>4, <1>5, <2>1
  <2> QED  BY <2>2
<1>6. CASE used >= 3
  <2>1. used - 2 \in Nat /\ used - 1 \in 1 .. used - 1 /\ used \in Int
    BY <1>1, <1>3, <1>6
  <2>2. W * (used - 2) \in Nat /\ W * (used - 1) = W + W * (used - 2)
    BY <1>1, <2>1
  <2>3. u \in Nat \ {0} /\ Words(used - 1) = Base * u
    BY <1>1, <2>2, PowerPositive, PowerSum DEF Words, Base
  <2>4. Shift(m, n) = u
    BY <1>4, <1>6, <2>1
  <2>5. ~(m < Base * u /\ n < Base * u)
    BY <1>3, <2>1, <2>3
  <2> HIDE DEF u
  <2>6. /\ m \in Nat /\ n \in Nat /\ Base \in Nat \ {0}
        /\ m \div u \in Nat /\ n \div u \in Nat
    BY <2>3, BaseType
  <2>7. ASSUME NEW z \in Nat, Base * u <= z
        PROVE  Base <= z \div u
    <3>1. z \div u \in Nat /\ z % u \in 0 .. u - 1 /\ z = (z \div u) * u + (z % u)
      BY <2>3, QuotientRemainder
    <3> DEFINE c == z \div u
    <3>2. c \in Nat
      BY <3>1
    <3> HIDE DEF c
    <3>3. CASE c < Base
      <4>1. c * u + u <= Base * u
        BY <2>3, <2>6, <3>2, <3>3, MultipleAbove
      <4>2. c * u \in Int /\ Base * u \in Int
        BY <2>3, <2>6, <3>2
      <4> QED  BY <2>3, <2>7, <3>1, <4>1, <4>2 DEF c
    <3> QED  BY <2>6, <3>2, <3>3 DEF c
  <2>8. Base * u \in Int /\ u * Base = Base * u
    BY <2>3, <2>6
  <2> QED  BY <2>3, <2>4, <2>5, <2>6, <2>7, <2>8
<1> QED  BY <1>1, <1>3, <1>5, <1>6

(* What the inner loop starts from.                                        *)
FirstFactors ==
  [al |-> a % Base, bl |-> b % Base,
   ah |-> a \div Shift(a, b), bh |-> b \div Shift(a, b),
   pa |-> 1, pb |-> 0, qa |-> 0, qb |-> 1]

(* It satisfies the invariant of the inner loop.                           *)
LEMMA InnerInit ==
  ASSUME a \in 0 .. Limit - 1, b \in 0 .. Limit - 1
  PROVE  FirstFactors \in FactorState /\ Inner(0, Shift(a, b), FirstFactors)
<1> DEFINE u == Shift(a, b)
           ah == a \div u
           bh == b \div u
<1>1. /\ u \in Nat \ {0} /\ (u = 1 \/ Base <= ah + bh)
      /\ u = 1 \/ u * Base <= a \/ u * Base <= b
  BY ShiftIs
<1> HIDE DEF u
<1>2. Base \in Nat \ {0} /\ Limit \in Int
  <2>1. W * len \in Nat
    BY WordAssumption
  <2> QED  BY <2>1, BaseType, PowerOfTwo DEF Limit, Words
<1>3. /\ a \in Nat /\ b \in Nat /\ ah \in Nat /\ bh \in Nat
      /\ a % Base \in Int /\ b % Base \in Int
      /\ a = ah * u + (a % u) /\ a % u \in 0 .. u - 1
      /\ b = bh * u + (b % u) /\ b % u \in 0 .. u - 1
  BY <1>1, <1>2
<1>4. FirstFactors \in FactorState
  BY <1>3 DEF FirstFactors, FactorState, u
<1>5. Bounded(1, 0, 1) /\ Bounded(0, 1, 1)
  <2>1. ASSUME NEW k0 \in Nat, NEW k1 \in Nat, k0 + k1 = 1
        PROVE  Bounded(k0, k1, 1)
    <3>1. /\ k0 \in Int /\ k1 \in Int /\ k0 + k1 <= 1
          /\ -k0 <= k0 /\ k0 <= k0 /\ -k1 <= k1 /\ k1 <= k1
      BY <2>1
    <3> QED  BY <3>1 DEF Bounded
  <2>2. 1 \in Nat /\ 0 \in Nat /\ 1 + 0 = 1 /\ 0 + 1 = 1
    OBVIOUS
  <2> QED  BY <2>1, <2>2
<1>6. Row(1, a, 1, 0, a % Base) /\ Row(1, b, 0, 1, b % Base)
  <2>1. a * 1 + b * 0 = 1 * a /\ a * 0 + b * 1 = 1 * b /\ 1 * a = a /\ 1 * b = b
    BY <1>3
  <2> QED  BY <1>3, <1>5, <2>1 DEF Row
<1>7. /\ Approximate(u, 0, 0, a, ah, ah, a) /\ Approximate(u, 0, 0, b, bh, bh, b)
      /\ 2 ^ (W - 0) = Base
  <2>1. \A z \in Nat, h \in Nat : z = h * u + (z % u) /\ z % u \in 0 .. u - 1 =>
          Approximate(u, 0, 0, z, h, h, z)
    <3> SUFFICES ASSUME NEW z \in Nat, NEW h \in Nat,
                        z = h * u + (z % u), z % u \in 0 .. u - 1
                 PROVE  Approximate(u, 0, 0, z, h, h, z)
      OBVIOUS
    <3> DEFINE w == u * h
    <3>1. w \in Nat /\ w = h * u /\ 0 * u = 0 /\ z \in Int
      BY <1>1
    <3> HIDE DEF w
    <3>2. /\ w <= z /\ -z <= z /\ z <= z
          /\ -0 <= 2 * (z - w) /\ 2 * (z - w) <= 2 * u
      BY <1>1, <3>1
    <3>3. 2 ^ 0 * h <= h
      BY PowerOfTwo
    <3>4. /\ -(0 * u) <= 2 * (z - w) /\ 2 * (z - w) <= 0 * u + 2 * u
          /\ -(0 * u + 2 * u) <= 2 * (z - w)
      BY <1>1, <3>1, <3>2
    <3> QED  BY <3>1, <3>2, <3>3, <3>4 DEF Approximate, w
  <2>2. Approximate(u, 0, 0, a, ah, ah, a) /\ Approximate(u, 0, 0, b, bh, bh, b)
    <3> HIDE DEF ah, bh
    <3> QED  BY <1>3, <2>1
  <2>3. 2 ^ (W - 0) = Base
    <3>1. W - 0 = W
      BY BaseType
    <3> QED  BY <3>1 DEF Base
  <2> QED  BY <2>2, <2>3
<1>8. Estimates(0, u, a, ah, a, b, bh, b)
  <2>1. CASE u = 1
    <3>1. ah = a /\ bh = b
      BY <1>3, <2>1
    <3> QED  BY <1>3, <3>1 DEF Estimates
  <2>2. CASE Base <= ah + bh
    <3>4. 0 \in Nat
      OBVIOUS
    <3> QED  BY <1>7, <2>2, <3>4 DEF Estimates
  <2> QED  BY <1>1, <2>1, <2>2
<1>9. Pair(0, u, a, b, a, ah, b, bh, 1, 0, 0, 1)
  <2>1. Factored(2 ^ 0, 0, 0, a, b, a, b, 1, 0, 0, 1)
    <3>1. /\ a \in Int /\ b \in Int /\ 2 ^ 0 = 1 /\ 1 + 0 <= 1 /\ 0 + 1 <= 1
          /\ 1 * 1 = 1 + 0 * 0 /\ a = a * 1 + b * 0 /\ b = b * 1 + a * 0 /\ 1 <= 1
      BY <1>3, PowerOfTwo
    <3> QED  BY <3>1 DEF Factored
  <2>2. 0 + 0 = 0 /\ 0 \in Nat
    OBVIOUS
  <2>3. CASE u = 1
    <3>1. ah = a /\ bh = b
      BY <1>3, <2>3
    <3>2. u = 1 /\ a = ah /\ b = bh /\ 0 <= a /\ 0 <= b
      BY <1>3, <2>3, <3>1
    <3> HIDE DEF ah, bh
    <3> QED  BY <2>1, <2>2, <3>2 DEF Pair
  <2>4. CASE u # 1
    <3>1. /\ u * Base <= a \/ u * Base <= b
          /\ Base <= ah + bh
      BY <1>1, <2>4
    <3>2. Lag(u, a, ah, b, bh, 1, 0) /\ Lag(u, b, bh, a, ah, 1, 0)
      <4>1. /\ u * 0 = 0 /\ u * 1 = u
            /\ 2 * (a - u * ah) \in 0 .. 2 * u /\ 2 * (b - u * bh) \in 0 .. 2 * u
        <5> DEFINE s == u * ah
                   t == u * bh
        <5>1. s \in Nat /\ t \in Nat /\ s = ah * u /\ t = bh * u
          BY <1>1, <1>3
        <5> HIDE DEF s, t, ah, bh
        <5>2. 2 * (a - s) \in 0 .. 2 * u /\ 2 * (b - t) \in 0 .. 2 * u
          BY <1>1, <1>3, <5>1
        <5> QED  BY <1>1, <5>2 DEF s, t
      <4> DEFINE s == 2 * (a - u * ah)
                 t == 2 * (b - u * bh)
      <4>2. s \in 0 .. 2 * u /\ t \in 0 .. 2 * u
        BY <4>1
      <4> HIDE DEF s, t, ah, bh
      <4>3. /\ -0 <= s /\ t <= 0 + 2 * u /\ -(u + 2 * u) <= s /\ t <= u + 2 * u
            /\ -0 <= t /\ s <= 0 + 2 * u /\ -(u + 2 * u) <= t /\ s <= u + 2 * u
        BY <1>1, <4>2
      <4> QED  BY <4>1, <4>3 DEF Lag, s, t
    <3>3. Crossed(2 ^ 0, a, b, a, b)
      BY <1>3 DEF Crossed
    <3> HIDE DEF ah, bh
    <3>4. /\ u # 1
          /\ u * Base <= a \/ u * Base <= b
          /\ Approximate(u, 0, 0, a, ah, a \div u, a)
          /\ Approximate(u, 0, 0, b, bh, b \div u, b)
          /\ 2 ^ (W - 0) <= ah + bh
          /\ Lag(u, a, ah, b, bh, 1, 0) /\ Lag(u, b, bh, a, ah, 1, 0)
          /\ Crossed(2 ^ 0, a, b, a, b)
      BY <1>7, <2>4, <3>1, <3>2, <3>3 DEF ah, bh
    <3> QED  BY <2>1, <2>2, <3>4 DEF Pair
  <2> QED  BY <2>3, <2>4
<1>10. Inner(0, u, FirstFactors)
  <2>0. \A z \in Int : z <= 0 /\ 0 <= z => -z = 0
    <3>1. \A z \in Int : z <= 0 /\ 0 <= z => \E m \in Int : m = -z /\ m <= 0 /\ 0 <= m
      OBVIOUS
    <3>2. \A m \in Int : m <= 0 /\ 0 <= m => m = 0
      OBVIOUS
    <3> QED  BY <3>1, <3>2
  <2>1. 2 ^ 0 = 1
    BY PowerOfTwo
  <2> DEFINE s == FirstFactors
  <2>2. /\ s.al = a % Base /\ s.bl = b % Base /\ s.ah = ah /\ s.bh = bh
        /\ s.pa = 1 /\ s.pb = 0 /\ s.qa = 0 /\ s.qb = 1
    BY DEF FirstFactors, u
  <2> HIDE DEF s, ah, bh
  <2>3. -s.pb = 0 /\ -s.qa = 0
    <3>1. /\ s.pb \in Int /\ s.pb <= 0 /\ 0 <= s.pb
          /\ s.qa \in Int /\ s.qa <= 0 /\ 0 <= s.qa
      BY <2>2
    <3> QED  BY <2>0, <3>1
  <2>4. /\ Row(2 ^ 0, a, s.pa, s.pb, s.al) /\ Row(2 ^ 0, b, s.qa, s.qb, s.bl)
        /\ Estimates(0, u, a, s.ah, a, b, s.bh, b)
        /\ Pair(0, u, a, b, a, s.ah, b, s.bh, s.pa, -s.pb, -s.qa, s.qb)
        /\ u = 1 /\ 1 <= a => 1 <= a
    BY <1>6, <1>8, <1>9, <2>1, <2>2, <2>3
  <2>5. Inner(0, u, s)
    BY <2>4 DEF Inner
  <2> QED  BY <2>5 DEF s
<1> QED  BY <1>4, <1>10 DEF u

(* The inner loop, one iteration after the other.                          *)
LEMMA FactorsLoop ==
  ASSUME a \in 0 .. Limit - 1, b \in 0 .. Limit - 1
  PROVE  \E r : /\ r[0] = FirstFactors /\ r[W] = Factors
                /\ \A i \in 0 .. W - 1 : r[i + 1] = Halve(r[i], i)
<1> DEFINE G == [i \in Nat |-> [s \in FactorState |-> Halve(s, i)]]
           Loop(g) == g = [i \in 0 .. W |->
                            IF i = 0 THEN FirstFactors ELSE Halve(g[i - 1], i - 1)]
           r == CHOOSE g : Loop(g)
<1>1. PICK g : Solves(g, FactorState, FirstFactors, G)
  <2>1. IsStep(G, FactorState)
    BY HalveType DEF IsStep
  <2> HIDE DEF G
  <2> QED  BY <2>1, InnerInit, RecursiveDefinition
<1>2. Loop([i \in 0 .. W |-> g[i]])
  <2> DEFINE h == [i \in 0 .. W |-> g[i]]
  <2>1. ASSUME NEW i \in 0 .. W
        PROVE  h[i] = IF i = 0 THEN FirstFactors ELSE Halve(h[i - 1], i - 1)
    <3>1. CASE i = 0
      BY <1>1, <3>1 DEF Solves
    <3>2. CASE i # 0
      <4>1. i - 1 \in Nat /\ (i - 1) + 1 = i /\ i - 1 \in 0 .. W
        BY <3>2, BaseType
      <4>2. g[i] = G[i - 1][g[i - 1]] /\ g[i - 1] \in FactorState
        <5> HIDE DEF G
        <5>1. g[(i - 1) + 1] = G[i - 1][g[i - 1]] /\ g[i - 1] \in FactorState
          BY <1>1, <4>1 DEF Solves
        <5> QED  BY <4>1, <5>1
      <4>3. g[i] = Halve(g[i - 1], i - 1)
        BY <4>1, <4>2
      <4> QED  BY <3>2, <4>1, <4>3
    <3> QED  BY <3>1, <3>2
  <2>2. h = [i \in 0 .. W |-> h[i]]
    OBVIOUS
  <2> HIDE DEF h
  <2> QED  BY <2>1, <2>2 DEF h
<1>3. Factors = r[W]
  BY DEF Factors, FirstFactors
<1>4. Loop(r)
  <2> HIDE DEF Loop
  <2> QED  BY <1>2
<1> HIDE DEF r
<1>5. r[0] = FirstFactors
  BY <1>4, BaseType
<1>6. ASSUME NEW i \in 0 .. W - 1
      PROVE  r[i + 1] = Halve(r[i], i)
  <2>1. i + 1 \in 0 .. W /\ i + 1 # 0 /\ (i + 1) - 1 = i
    BY BaseType
  <2> QED  BY <1>4, <2>1
<1> QED  BY <1>3, <1>5, <1>6

(* What an iteration makes of a and b, but for the signs: the product is   *)
(* halved W - 1 times, no common divisor is lost, and 0 and 1 are not      *)
(* reached in the wrong order.                                             *)
Shrinks(na, nb) ==
  /\ -(2 * (a * b)) <= Base * (na * nb) /\ Base * (na * nb) <= 2 * (a * b)
  /\ \E c0, c1, d0, d1 \in Int : a = na * c0 + nb * c1 /\ b = nb * d0 + na * d1
  /\ 1 <= a /\ na = 0 => nb # 1 /\ nb # -1

(* The factors of an iteration: they are within the base, the remainders   *)
(* are combined to multiples of it, and neither remainder grows.           *)
LEMMA FactorsAre ==
  ASSUME a \in 0 .. Limit - 1, b \in 0 .. Limit - 1
  PROVE  LET f  == Factors
             na == CoReduce(f.pa, f.pb)
             nb == CoReduce(f.qa, f.qb)
         IN  /\ Bounded(f.pa, f.pb, Base) /\ Bounded(f.qa, f.qb, Base)
             /\ na \in Int /\ a * f.pa + b * f.pb = Base * na /\ -a <= na /\ na <= a
             /\ nb \in Int /\ a * f.qa + b * f.qb = Base * nb /\ -b <= nb /\ nb <= b
             /\ Shrinks(na, nb)
<1>1. PICK r : /\ r[0] = FirstFactors /\ r[W] = Factors
               /\ \A i \in 0 .. W - 1 : r[i + 1] = Halve(r[i], i)
  BY FactorsLoop
<1> DEFINE u == Shift(a, b)
           T == {i \in Nat : i <= W => r[i] \in FactorState /\ Inner(i, u, r[i])}
<1>2. a \in Nat /\ b \in Nat /\ u \in Nat \ {0}
  <2>1. \A z \in 0 .. Limit - 1 : z \in Nat
    <3>1. W * len \in Nat
      BY WordAssumption
    <3> QED  BY <3>1, PowerOfTwo DEF Limit, Words
  <2> QED  BY <2>1, ShiftIs
<1>3. 0 \in T
  BY <1>1, InnerInit
<1>4. ASSUME NEW i \in Nat, i \in T
      PROVE  i + 1 \in T
  <2> SUFFICES ASSUME i + 1 <= W
               PROVE  r[i + 1] \in FactorState /\ Inner(i + 1, u, r[i + 1])
    OBVIOUS
  <2>1. i \in 0 .. W - 1 /\ i <= W
    BY BaseType
  <2>2. r[i] \in FactorState /\ Inner(i, u, r[i]) /\ r[i + 1] = Halve(r[i], i)
    BY <1>1, <1>4, <2>1
  <2> HIDE DEF u, T
  <2> QED  BY <1>2, <2>1, <2>2, HalveType, HalveKeeps
<1>5. Inner(W, u, Factors)
  <2>1. \A i \in Nat : i \in T
    <3> HIDE DEF T
    <3> QED  BY <1>3, <1>4, Induction
  <2>2. W \in Nat /\ W <= W
    BY BaseType
  <2> HIDE DEF u
  <2> QED  BY <1>1, <2>1, <2>2
<1> DEFINE f == Factors
           na == CoReduce(f.pa, f.pb)
           nb == CoReduce(f.qa, f.qb)
<1> HIDE DEF f, u
<1>6. PICK e, g :
        /\ Row(Base, e, f.pa, f.pb, f.al) /\ Row(Base, g, f.qa, f.qb, f.bl)
        /\ Estimates(W, u, e, f.ah, a, g, f.bh, b)
        /\ Pair(W, u, a, b, e, f.ah, g, f.bh, f.pa, -f.pb, -f.qa, f.qb)
        /\ u = 1 /\ 1 <= a => 1 <= e
  BY <1>5 DEF Inner, Base, f
<1>7. -a <= e /\ e <= a /\ -b <= g /\ g <= b
  BY <1>2, <1>6 DEF Estimates, Approximate
<1>8. na = e /\ nb = g
  <2>1. \A c \in Int : Base * c \in Int /\ (Base * c) \div Base = c
    <3> SUFFICES ASSUME NEW c \in Int
                 PROVE  Base * c \in Int /\ (Base * c) \div Base = c
      OBVIOUS
    <3>1. Base * c \in Int
      BY BaseType
    <3> QED  BY <3>1, BaseType, ZeroRemainder
  <2>2. na = (Base * e) \div Base /\ nb = (Base * g) \div Base
    BY <1>6 DEF Row, CoReduce
  <2>3. e \in Int /\ g \in Int
    BY <1>6 DEF Row
  <2> QED  BY <2>1, <2>2, <2>3
<1> HIDE DEF na, nb
<1>9. /\ Bounded(f.pa, f.pb, Base) /\ Bounded(f.qa, f.qb, Base)
      /\ na \in Int /\ a * f.pa + b * f.pb = Base * na /\ -a <= na /\ na <= a
      /\ nb \in Int /\ a * f.qa + b * f.qb = Base * nb /\ -b <= nb /\ nb <= b
  BY <1>6, <1>7, <1>8 DEF Row
<1>10. Shrinks(na, nb)
  <2>1. /\ -(2 * (a * b)) <= Base * (na * nb) /\ Base * (na * nb) <= 2 * (a * b)
        /\ \E c0, c1, d0, d1 \in Int : a = na * c0 + nb * c1 /\ b = nb * d0 + na * d1
        /\ u # 1 /\ na = 0 => nb # 1 /\ nb # -1
    BY <1>2, <1>6, <1>8, PairShrinks
  <2>2. u = 1 /\ 1 <= a => na # 0
    BY <1>6, <1>8
  <2> QED  BY <2>1, <2>2 DEF Shrinks
<1> QED  BY <1>9, <1>10 DEF f, na, nb

----------------------------------------------------------------------------
(* The outer loop.                                                         *)

(* The product of odd numbers is odd.                                      *)
LEMMA OddProduct ==
  ASSUME NEW m \in Int, NEW n \in Int, Odd(m), Odd(n)
  PROVE  m * n \in Int /\ Odd(m * n)
<1>1. PICK h \in Int : m = 2 * h + 1
  BY Halves
<1> DEFINE z == m * n
           c == h * n
<1>2. z = n + c * 2 /\ c \in Int /\ z \in Int
  BY <1>1
<1> HIDE DEF z, c
<1>3. z % 2 = n % 2
  BY <1>2, SameRemainder
<1> QED  BY <1>2, <1>3 DEF Odd, z

(* The same combination of two numbers and of their cofactors, divided by  *)
(* the base, is still a number with its cofactors: the base is a power of  *)
(* two and cancels from a multiple of an odd number.                       *)
LEMMA CombinationKept ==
  ASSUME NEW m \in Nat, Odd(m), NEW n \in Nat, Odd(n),
         NEW c0 \in Int, NEW c1 \in Int, NEW g0 \in Int, NEW g1 \in Int,
         NEW h0 \in Int, NEW h1 \in Int, NEW k0 \in Int, NEW k1 \in Int,
         Divides(m * n, c0 - (m * g0 - n * h0)),
         Divides(m * n, c1 - (m * g1 - n * h1)),
         NEW c \in Int, Base * c = c0 * k0 + c1 * k1,
         NEW g, IsQuotient(g, g0 * k0 + g1 * k1, n),
         NEW h, IsQuotient(h, h0 * k0 + h1 * k1, m)
  PROVE  Divides(m * n, c - (m * g - n * h))
<1>1. PICK d0 \in Int : c0 - (m * g0 - n * h0) = (m * n) * d0
  BY DEF Divides
<1>2. PICK d1 \in Int : c1 - (m * g1 - n * h1) = (m * n) * d1
  BY DEF Divides
<1>3. PICK s \in Int : g \in Int /\ Base * g = (g0 * k0 + g1 * k1) + n * s
  BY DEF IsQuotient
<1>4. PICK t \in Int : h \in Int /\ Base * h = (h0 * k0 + h1 * k1) + m * t
  BY DEF IsQuotient
<1>5. Base \in Int
  BY BaseType
<1> DEFINE z  == c - (m * g - n * h)
           mn == m * n
           e  == d0 * k0 + d1 * k1 + t - s
<1>6. Base * z = mn * e
  <2>1. Base * z = Base * c - m * (Base * g) + n * (Base * h)
    BY <1>3, <1>4, <1>5
  <2>2. m * (Base * g) = (m * g0) * k0 + (m * g1) * k1 + mn * s
    BY <1>3
  <2>3. n * (Base * h) = (n * h0) * k0 + (n * h1) * k1 + mn * t
    BY <1>4
  <2> DEFINE mg0 == m * g0
             mg1 == m * g1
             nh0 == n * h0
             nh1 == n * h1
  <2>4. mg0 \in Int /\ mg1 \in Int /\ nh0 \in Int /\ nh1 \in Int /\ mn \in Int
    OBVIOUS
  <2>5. c0 - (mg0 - nh0) = mn * d0 /\ c1 - (mg1 - nh1) = mn * d1
    BY <1>1, <1>2
  <2>6. m * (Base * g) = mg0 * k0 + mg1 * k1 + mn * s
    BY <2>2
  <2>7. n * (Base * h) = nh0 * k0 + nh1 * k1 + mn * t
    BY <2>3
  <2> HIDE DEF mg0, mg1, nh0, nh1, mn
  <2>8. (c0 - (mg0 - nh0)) * k0 = c0 * k0 - mg0 * k0 + nh0 * k0
    BY <2>4
  <2>9. (c1 - (mg1 - nh1)) * k1 = c1 * k1 - mg1 * k1 + nh1 * k1
    BY <2>4
  <2>10. /\ (mn * d0) * k0 = mn * (d0 * k0) /\ (mn * d1) * k1 = mn * (d1 * k1)
         /\ mn * (d0 * k0 + d1 * k1 + t - s) =
              mn * (d0 * k0) + mn * (d1 * k1) + mn * t - mn * s
    BY <2>4
  <2> DEFINE x1 == c0 * k0
             x2 == c1 * k1
             x3 == mg0 * k0
             x4 == mg1 * k1
             x5 == nh0 * k0
             x6 == nh1 * k1
             x7 == mn * (d0 * k0)
             x8 == mn * (d1 * k1)
             x9 == mn * t
             x10 == mn * s
  <2>11. {x1, x2, x3, x4, x5, x6, x7, x8, x9, x10} \subseteq Int
    BY <2>4
  <2>12. Base * z = (x1 + x2) - (x3 + x4 + x10) + (x5 + x6 + x9)
    BY <2>1, <2>6, <2>7
  <2>13. x1 - x3 + x5 = x7 /\ x2 - x4 + x6 = x8
    BY <2>5, <2>8, <2>9, <2>10
  <2>14. mn * e = x7 + x8 + x9 - x10
    BY <2>10
  <2> HIDE DEF z, e, x1, x2, x3, x4, x5, x6, x7, x8, x9, x10
  <2> QED  BY <2>11, <2>12, <2>13, <2>14
<1>7. z \in Int /\ e \in Int
  BY <1>3, <1>4
<1>8. mn \in Int /\ Odd(mn)
  BY OddProduct
<1>9. W \in Nat /\ 2 ^ W * z = mn * e
  BY <1>6, BaseType DEF Base
<1> HIDE DEF z, mn, e
<1>10. Divides(mn, z)
  BY <1>7, <1>8, <1>9, CancelPower
<1> QED  BY <1>10 DEF z, mn

(* The factors are negated with the remainder.                             *)
LEMMA SignedFactors ==
  ASSUME a \in Nat, b \in Nat, NEW p0, NEW p1, Bounded(p0, p1, Base),
         NEW n \in Int, a * p0 + b * p1 = Base * n,
         NEW m \in Nat, -m <= n, n <= m
  PROVE  /\ Bounded(Sign(n) * p0, Sign(n) * p1, Base)
         /\ a * (Sign(n) * p0) + b * (Sign(n) * p1) = Base * (Sign(n) * n)
         /\ Sign(n) * n \in 0 .. m
<1>1. p0 \in Int /\ p1 \in Int /\ Base \in Int
  BY BaseType DEF Bounded
<1>2. CASE n < 0
  <2>1. Sign(n) = -1 /\ (-1) * p0 = -p0 /\ (-1) * p1 = -p1 /\ (-1) * n = -n
    BY <1>1, <1>2 DEF Sign
  <2>2. Bounded(-p0, -p1, Base)
    <3>1. PICK h0 \in Nat, h1 \in Nat :
            h0 + h1 <= Base /\ -h0 <= p0 /\ p0 <= h0 /\ -h1 <= p1 /\ p1 <= h1
      BY DEF Bounded
    <3>2. /\ -h0 <= -p0 /\ -p0 <= h0 /\ -h1 <= -p1 /\ -p1 <= h1
          /\ -p0 \in Int /\ -p1 \in Int
      BY <1>1, <3>1
    <3> QED  BY <3>1, <3>2 DEF Bounded
  <2>3. a * (-p0) + b * (-p1) = -(a * p0 + b * p1) /\ Base * (-n) = -(Base * n)
    BY <1>1
  <2>4. -n \in 0 .. m
    BY <1>2
  <2> QED  BY <2>1, <2>2, <2>3, <2>4
<1>3. CASE ~(n < 0)
  <2>1. Sign(n) = 1 /\ 1 * p0 = p0 /\ 1 * p1 = p1 /\ 1 * n = n /\ n \in 0 .. m
    BY <1>1, <1>3 DEF Sign
  <2> QED  BY <2>1
<1> QED  BY <1>2, <1>3

(* The remainders and the cofactors of the outer loop.  Where y is 1, the  *)
(* first u0 is not reduced; otherwise all the cofactors but the first u1   *)
(* are.                                                                    *)
Loop ==
  /\ x \in 0 .. Limit - 1 /\ Odd(x) /\ y \in 0 .. Limit - 1 /\ Odd(y)
  /\ a \in 0 .. x /\ b \in 0 .. y
  /\ (a - (x * u0 - y * v0)) % (x * y) = 0
  /\ (b - (x * u1 - y * v1)) % (x * y) = 0
  /\ u0 \in 0 .. y /\ (y # 1 => u0 # y) /\ u1 \in 0 .. y
  /\ v0 \in 0 .. x - 1 /\ v1 \in 0 .. x - 1

(* The ranges in Loop, for the provers.                                    *)
LEMMA LoopTypes ==
  ASSUME Loop
  PROVE  /\ Limit \in Nat \ {0}
         /\ x \in Nat \ {0} /\ y \in Nat \ {0} /\ x * y \in Nat \ {0}
         /\ a \in 0 .. Limit - 1 /\ b \in 0 .. Limit - 1
         /\ a \in Nat /\ b \in Nat /\ u0 \in Nat /\ u1 \in Nat /\ v0 \in Nat /\ v1 \in Nat
         /\ v0 \in 0 .. x /\ v1 \in 0 .. x
<1>1. Limit \in Nat \ {0}
  <2>1. W * len \in Nat
    BY WordAssumption
  <2> QED  BY <2>1, PowerPositive DEF Limit, Words
<1>2. x \in Nat \ {0} /\ y \in Nat \ {0}
  BY <1>1 DEF Loop, Odd
<1>3. x * y \in Nat \ {0}
  BY <1>2
<1>4. /\ a \in 0 .. Limit - 1 /\ b \in 0 .. Limit - 1
      /\ a \in Nat /\ b \in Nat /\ u0 \in Nat /\ u1 \in Nat /\ v0 \in Nat /\ v1 \in Nat
      /\ v0 \in 0 .. x /\ v1 \in 0 .. x
  BY <1>1, <1>2 DEF Loop
<1> QED  BY <1>1, <1>2, <1>3, <1>4

(* What an iteration makes of the numbers and cofactors, for either row of *)
(* its factors.                                                            *)
LEMMA RowReduced ==
  ASSUME Loop, NEW p0, NEW p1, Bounded(p0, p1, Base),
         NEW n \in Int, a * p0 + b * p1 = Base * n,
         NEW m \in Nat, -m <= n, n <= m
  PROVE  LET k0 == Sign(n) * p0
             k1 == Sign(n) * p1
             g  == CoReduceMod(u0, u1, k0, k1, y)
             h  == CoReduceMod(v0, v1, k0, k1, x)
         IN  /\ Sign(n) * n \in 0 .. m
             /\ g \in 0 .. y - 1 /\ h \in 0 .. x - 1
             /\ (Sign(n) * n - (x * g - y * h)) % (x * y) = 0
             /\ -y <= Montgomery(u0, u1, k0, k1, y) /\ Montgomery(u0, u1, k0, k1, y) < 2 * y
             /\ -x <= Montgomery(v0, v1, k0, k1, x) /\ Montgomery(v0, v1, k0, k1, x) < 2 * x
<1> DEFINE k0 == Sign(n) * p0
           k1 == Sign(n) * p1
           g  == CoReduceMod(u0, u1, k0, k1, y)
           h  == CoReduceMod(v0, v1, k0, k1, x)
           c  == Sign(n) * n
<1>1. /\ x \in Nat \ {0} /\ y \in Nat \ {0} /\ x * y \in Nat \ {0} /\ Odd(x) /\ Odd(y)
      /\ a \in Nat /\ b \in Nat /\ a \in Int /\ b \in Int
      /\ u0 \in 0 .. y /\ u1 \in 0 .. y /\ v0 \in 0 .. x /\ v1 \in 0 .. x
      /\ u0 \in Int /\ u1 \in Int /\ v0 \in Int /\ v1 \in Int
  BY LoopTypes DEF Loop
<1>2. Bounded(k0, k1, Base) /\ a * k0 + b * k1 = Base * c /\ c \in 0 .. m
  BY <1>1, SignedFactors
<1>3. k0 \in Int /\ k1 \in Int /\ c \in Int
  BY <1>2 DEF Bounded
<1> HIDE DEF k0, k1, c
<1>4. g \in 0 .. y - 1 /\ IsQuotient(g, u0 * k0 + u1 * k1, y)
  BY <1>1, <1>2, CoReduceModIs
<1>5. h \in 0 .. x - 1 /\ IsQuotient(h, v0 * k0 + v1 * k1, x)
  BY <1>1, <1>2, CoReduceModIs
<1>6. /\ -y <= Montgomery(u0, u1, k0, k1, y) /\ Montgomery(u0, u1, k0, k1, y) < 2 * y
      /\ -x <= Montgomery(v0, v1, k0, k1, x) /\ Montgomery(v0, v1, k0, k1, x) < 2 * x
  BY <1>1, <1>2, MontgomeryIs
<1>7. /\ Divides(x * y, a - (x * u0 - y * v0))
      /\ Divides(x * y, b - (x * u1 - y * v1))
  <2> DEFINE z0 == a - (x * u0 - y * v0)
             z1 == b - (x * u1 - y * v1)
             mn == x * y
  <2>1. z0 \in Int /\ z1 \in Int /\ mn \in Nat \ {0}
    BY <1>1
  <2>2. z0 % mn = 0 /\ z1 % mn = 0
    BY DEF Loop
  <2> HIDE DEF z0, z1, mn
  <2>3. Divides(mn, z0) /\ Divides(mn, z1)
    BY <2>1, <2>2, ZeroRemainder
  <2> QED  BY <2>3 DEF z0, z1, mn
<1> HIDE DEF g, h
<1>8. Divides(x * y, c - (x * g - y * h))
  <2>1. /\ x \in Nat /\ Odd(x) /\ y \in Nat /\ Odd(y)
        /\ a \in Int /\ b \in Int /\ u0 \in Int /\ u1 \in Int /\ v0 \in Int /\ v1 \in Int
        /\ k0 \in Int /\ k1 \in Int /\ c \in Int /\ Base * c = a * k0 + b * k1
    BY <1>1, <1>2, <1>3
  <2>2. IsQuotient(g, u0 * k0 + u1 * k1, y) /\ IsQuotient(h, v0 * k0 + v1 * k1, x)
    BY <1>4, <1>5
  <2> QED  BY ONLY <2>1, <2>2, <1>7, CombinationKept
<1>9. (c - (x * g - y * h)) % (x * y) = 0
  <2> DEFINE z == c - (x * g - y * h)
             mn == x * y
  <2>1. z \in Int /\ mn \in Nat \ {0}
    BY <1>1, <1>3, <1>4, <1>5
  <2>2. Divides(mn, z)
    BY <1>8
  <2> HIDE DEF z, mn
  <2>3. z % mn = 0
    BY <2>1, <2>2, ZeroRemainder
  <2> QED  BY <2>3 DEF z, mn
<1> QED  BY <1>2, <1>4, <1>5, <1>6, <1>9 DEF k0, k1, g, h, c

(* Both rows of an iteration.                                              *)
LEMMA FactorsReduced ==
  ASSUME Loop
  PROVE  LET f  == Factors
             na == CoReduce(f.pa, f.pb)
             nb == CoReduce(f.qa, f.qb)
             sa == Sign(na)
             sb == Sign(nb)
             g0 == CoReduceMod(u0, u1, sa * f.pa, sa * f.pb, y)
             g1 == CoReduceMod(u0, u1, sb * f.qa, sb * f.qb, y)
             h0 == CoReduceMod(v0, v1, sa * f.pa, sa * f.pb, x)
             h1 == CoReduceMod(v0, v1, sb * f.qa, sb * f.qb, x)
             Near(z, m) == -m <= z /\ z < 2 * m
         IN  /\ sa * na \in 0 .. a /\ sb * nb \in 0 .. b
             /\ g0 \in 0 .. y - 1 /\ g1 \in 0 .. y - 1
             /\ h0 \in 0 .. x - 1 /\ h1 \in 0 .. x - 1
             /\ (sa * na - (x * g0 - y * h0)) % (x * y) = 0
             /\ (sb * nb - (x * g1 - y * h1)) % (x * y) = 0
             /\ (a * f.pa + b * f.pb) % Base = 0
             /\ (a * f.qa + b * f.qb) % Base = 0
             /\ Near(Montgomery(u0, u1, sa * f.pa, sa * f.pb, y), y)
             /\ Near(Montgomery(v0, v1, sa * f.pa, sa * f.pb, x), x)
             /\ Near(Montgomery(u0, u1, sb * f.qa, sb * f.qb, y), y)
             /\ Near(Montgomery(v0, v1, sb * f.qa, sb * f.qb, x), x)
<1> DEFINE f  == Factors
           na == CoReduce(f.pa, f.pb)
           nb == CoReduce(f.qa, f.qb)
<1>1. a \in 0 .. Limit - 1 /\ b \in 0 .. Limit - 1 /\ a \in Nat /\ b \in Nat
  BY LoopTypes
<1>2. /\ Bounded(f.pa, f.pb, Base) /\ Bounded(f.qa, f.qb, Base)
      /\ na \in Int /\ a * f.pa + b * f.pb = Base * na /\ -a <= na /\ na <= a
      /\ nb \in Int /\ a * f.qa + b * f.qb = Base * nb /\ -b <= nb /\ nb <= b
  BY <1>1, FactorsAre
<1>3. \A c \in Int : (Base * c) % Base = 0
  <2> SUFFICES ASSUME NEW c \in Int
               PROVE  (Base * c) % Base = 0
    OBVIOUS
  <2>1. Base * c \in Int
    BY BaseType
  <2> QED  BY <2>1, BaseType, ZeroRemainder DEF Divides
<1> HIDE DEF na, nb, f
<1>4. (a * f.pa + b * f.pb) % Base = 0 /\ (a * f.qa + b * f.qb) % Base = 0
  BY <1>2, <1>3
<1> DEFINE ka0 == Sign(na) * f.pa
           ka1 == Sign(na) * f.pb
           kb0 == Sign(nb) * f.qa
           kb1 == Sign(nb) * f.qb
           ga == CoReduceMod(u0, u1, ka0, ka1, y)
           gb == CoReduceMod(u0, u1, kb0, kb1, y)
           ha == CoReduceMod(v0, v1, ka0, ka1, x)
           hb == CoReduceMod(v0, v1, kb0, kb1, x)
<1>5. /\ Sign(na) * na \in 0 .. a
      /\ ga \in 0 .. y - 1 /\ ha \in 0 .. x - 1
      /\ (Sign(na) * na - (x * ga - y * ha)) % (x * y) = 0
      /\ -y <= Montgomery(u0, u1, ka0, ka1, y) /\ Montgomery(u0, u1, ka0, ka1, y) < 2 * y
      /\ -x <= Montgomery(v0, v1, ka0, ka1, x) /\ Montgomery(v0, v1, ka0, ka1, x) < 2 * x
  BY <1>1, <1>2, RowReduced
<1>6. /\ Sign(nb) * nb \in 0 .. b
      /\ gb \in 0 .. y - 1 /\ hb \in 0 .. x - 1
      /\ (Sign(nb) * nb - (x * gb - y * hb)) % (x * y) = 0
      /\ -y <= Montgomery(u0, u1, kb0, kb1, y) /\ Montgomery(u0, u1, kb0, kb1, y) < 2 * y
      /\ -x <= Montgomery(v0, v1, kb0, kb1, x) /\ Montgomery(v0, v1, kb0, kb1, x) < 2 * x
  BY <1>1, <1>2, RowReduced
<1> QED  BY <1>4, <1>5, <1>6 DEF f, na, nb

(* An iteration keeps the invariant of the outer loop.                     *)
LEMMA LoopKept ==
  ASSUME Loop, Reduce
  PROVE  Loop'
<1> DEFINE f  == Factors
           na == CoReduce(f.pa, f.pb)
           nb == CoReduce(f.qa, f.qb)
           sa == Sign(na)
           sb == Sign(nb)
<1>1. /\ a' \in 0 .. a /\ b' \in 0 .. b
      /\ u0' \in 0 .. y - 1 /\ u1' \in 0 .. y - 1
      /\ v0' \in 0 .. x - 1 /\ v1' \in 0 .. x - 1
      /\ (a' - (x * u0' - y * v0')) % (x * y) = 0
      /\ (b' - (x * u1' - y * v1')) % (x * y) = 0
  <2>1. /\ a' = sa * na /\ b' = sb * nb
        /\ u0' = CoReduceMod(u0, u1, sa * f.pa, sa * f.pb, y)
        /\ u1' = CoReduceMod(u0, u1, sb * f.qa, sb * f.qb, y)
        /\ v0' = CoReduceMod(v0, v1, sa * f.pa, sa * f.pb, x)
        /\ v1' = CoReduceMod(v0, v1, sb * f.qa, sb * f.qb, x)
    BY DEF Reduce
  <2> QED  BY <2>1, FactorsReduced
<1>2. x' = x /\ y' = y
  BY DEF Reduce, operands
<1>3. /\ a \in 0 .. x /\ b \in 0 .. y /\ x \in Nat /\ y \in Nat
      /\ x \in 0 .. Limit - 1 /\ Odd(x) /\ y \in 0 .. Limit - 1 /\ Odd(y)
  BY LoopTypes DEF Loop
<1>4. /\ a' \in 0 .. x /\ b' \in 0 .. y
      /\ u0' \in 0 .. y /\ u0' # y /\ u1' \in 0 .. y
  BY <1>1, <1>3
<1> QED  BY <1>1, <1>2, <1>3, <1>4 DEF Loop

----------------------------------------------------------------------------
(* The inductive invariant.                                                *)

Dispatched ==
  /\ Odd(fp) \/ Odd(gp)
  /\ x = Operands[1] /\ y = Operands[2]
  /\ Odd(x) /\ Odd(y)

(* With y = 1 the cofactor u0 is reduced to 0, and what is returned solves *)
(* nothing: see BezoutContract.                                            *)
IInv ==
  /\ TypeOK
  /\ pc \in {"bezout", "combine", "scale", "solved"} => Dispatched
  /\ pc = "bezout" => Loop
  /\ pc = "combine" => /\ Gp \in 0 .. y /\ Fp \in 0 .. x
                       /\ y # 1 => x * Gp - y * Fp = 1
  /\ pc = "scale"  => (y # 1 => fp * Gp - gp * Fp = 1)
  /\ pc = "solved" => (y # 1 => fp * Gp - gp * Fp = q)

(* The types of TypeOK, one by one.                                        *)
LEMMA Types ==
  /\ Limit \in Nat \ {0} /\ q \in Nat /\ 2 * W * len + (W - 1) \in Nat
  /\ TypeOK <=> /\ fp \in Resultants /\ gp \in Resultants
                /\ pc \in Labels
                /\ x \in 0 .. Limit - 1 /\ y \in 0 .. Limit - 1
                /\ a \in 0 .. Limit - 1 /\ b \in 0 .. Limit - 1
                /\ u0 \in 0 .. Limit - 1 /\ v0 \in 0 .. Limit - 1
                /\ u1 \in 0 .. Limit - 1 /\ v1 \in 0 .. Limit - 1
                /\ Gp \in 0 .. Limit - 1 /\ Fp \in 0 .. Limit - 1
                /\ num \in 0 .. 2 * W * len + (W - 1)
  /\ TypeOK => fp \in Nat /\ gp \in Nat
<1>1. Limit \in Nat \ {0} /\ 2 * W * len + (W - 1) \in Nat
  <2>1. W * len \in Nat /\ 2 * W * len \in Nat
    BY WordAssumption
  <2>2. W - 1 \in Nat
    BY WordAssumption
  <2> QED  BY <2>1, <2>2, PowerPositive DEF Limit, Words
<1>2. ASSUME TypeOK PROVE fp \in Nat /\ gp \in Nat
  BY <1>1, <1>2, ResultantAssumption DEF TypeOK
<1> QED  BY <1>1, <1>2, qAssumption DEF TypeOK

(* What is at most a number of this length has this length.                *)
LEMMA Fits ==
  ASSUME NEW n \in 0 .. Limit - 1
  PROVE  /\ \A z \in 0 .. n : z \in 0 .. Limit - 1
         /\ \A z \in 0 .. n - 1 : z \in 0 .. Limit - 1
<1>1. Limit \in Nat /\ n \in Nat
  BY Types
<1> QED  BY <1>1

(* The operands that replace an even resultant.                            *)
LEMMA OperandsAre ==
  ASSUME fp \in Nat, gp \in Nat, Odd(fp) \/ Odd(gp)
  PROVE  /\ Odd(Operands[1]) /\ Odd(Operands[2])
         /\ Odd(fp) /\ Odd(gp)  => Operands[1] = fp /\ Operands[2] = gp
         /\ Odd(fp) /\ ~Odd(gp) => Operands[1] = fp /\ Operands[2] = gp + fp
         /\ ~Odd(fp) /\ Odd(gp) => Operands[1] = fp + gp /\ Operands[2] = gp
<1>1. CASE Odd(fp) /\ Odd(gp)
  <2>1. Operands = <<fp, gp>>
    BY <1>1 DEF Operands
  <2> QED  BY <1>1, <2>1
<1>2. CASE Odd(fp) /\ ~Odd(gp)
  <2>1. Operands = <<fp, gp + fp>>
    BY <1>2 DEF Operands
  <2>2. Odd(gp + fp)
    BY <1>2 DEF Odd
  <2> QED  BY <1>2, <2>1, <2>2
<1>3. CASE ~Odd(fp) /\ Odd(gp)
  <2>1. Operands = <<fp + gp, gp>>
    BY <1>3 DEF Operands
  <2>2. Odd(fp + gp)
    BY <1>3 DEF Odd
  <2> QED  BY <1>3, <2>1, <2>2
<1> QED  BY <1>1, <1>2, <1>3

(* The initial values of zint_bezout satisfy the invariant of its loop.    *)
LEMMA LoopStarts ==
  ASSUME TypeOK, Start
  PROVE  Loop' /\ Dispatched'
<1>1. /\ fp \in Nat /\ gp \in Nat /\ (Odd(fp) \/ Odd(gp))
      /\ x' = Operands[1] /\ y' = Operands[2]
      /\ a' = x' /\ b' = y' /\ u0' = 1 /\ v0' = 0 /\ u1' = y' /\ v1' = x' - 1
      /\ fp' = fp /\ gp' = gp
  BY Types DEF Start
<1>2. x' \in 0 .. Limit - 1 /\ y' \in 0 .. Limit - 1
  <2> DEFINE o == Operands
  <2>1. o \in (0 .. Limit - 1) \X (0 .. Limit - 1)
    BY DEF Start
  <2> HIDE DEF o
  <2>2. o[1] \in 0 .. Limit - 1 /\ o[2] \in 0 .. Limit - 1
    BY <2>1
  <2> QED  BY <1>1, <2>2 DEF o
<1>3. Odd(x') /\ Odd(y')
  BY <1>1, OperandsAre
<1>4. Dispatched'
  <2>1. Operands' = Operands
    BY <1>1 DEF Operands, Odd
  <2> QED  BY <1>1, <1>3, <2>1 DEF Dispatched, Odd
<1>5. x' \in Nat \ {0} /\ y' \in Nat \ {0}
  <2>1. Limit \in Nat /\ 0 % 2 = 0
    BY Types
  <2>2. \A z \in 0 .. Limit - 1 : z \in Nat
    BY <2>1
  <2>3. x' # 0 /\ y' # 0
    BY <1>3, <2>1 DEF Odd
  <2> QED  BY <1>2, <2>2, <2>3
<1>6. /\ (a' - (x' * u0' - y' * v0')) % (x' * y') = 0
      /\ (b' - (x' * u1' - y' * v1')) % (x' * y') = 0
  <2>1. \A m, n \in Nat \ {0} :
          /\ m - (m * 1 - n * 0) = 0 /\ n - (m * n - n * (m - 1)) = 0
          /\ m * n \in Nat \ {0} /\ 0 % (m * n) = 0
    <3> SUFFICES ASSUME NEW m \in Nat \ {0}, NEW n \in Nat \ {0}
                 PROVE  /\ m - (m * 1 - n * 0) = 0 /\ n - (m * n - n * (m - 1)) = 0
                        /\ m * n \in Nat \ {0} /\ 0 % (m * n) = 0
      OBVIOUS
    <3>1. m - (m * 1 - n * 0) = 0 /\ n - (m * n - n * (m - 1)) = 0 /\ m * n \in Nat \ {0}
      OBVIOUS
    <3> DEFINE z == m * n
    <3>2. z \in Nat \ {0}
      BY <3>1
    <3> HIDE DEF z
    <3>3. 0 % z = 0
      BY <3>2
    <3> QED  BY <3>1, <3>3 DEF z
  <2> DEFINE m == x'
             n == y'
  <2>2. m \in Nat \ {0} /\ n \in Nat \ {0}
    BY <1>5
  <2>3. /\ a' = m /\ b' = n /\ u0' = 1 /\ v0' = 0 /\ u1' = n /\ v1' = m - 1
    BY <1>1
  <2>4. /\ m - (m * 1 - n * 0) = 0 /\ n - (m * n - n * (m - 1)) = 0
        /\ 0 % (m * n) = 0
    BY <2>1, <2>2
  <2>5. /\ (a' - (m * u0' - n * v0')) % (m * n) = 0
        /\ (b' - (m * u1' - n * v1')) % (m * n) = 0
    BY <2>3, <2>4
  <2> QED  BY <2>5
<1>7. /\ a' \in 0 .. x' /\ b' \in 0 .. y'
      /\ u0' \in 0 .. y' /\ (y' # 1 => u0' # y') /\ u1' \in 0 .. y'
      /\ v0' \in 0 .. x' - 1 /\ v1' \in 0 .. x' - 1
  BY <1>1, <1>5
<1>8. Loop'
  BY <1>2, <1>3, <1>6, <1>7 DEF Loop, Odd
<1> QED  BY <1>4, <1>8

(* A multiple of x*y in less than its range is 0: the cofactors of 1 that  *)
(* the loop leaves solve the equation and not only a congruence.           *)
LEMMA CofactorsOfOne ==
  ASSUME Loop, a = 1, y # 1
  PROVE  x * u0 - y * v0 = 1
<1> DEFINE mn == x * y
           p  == x * u0
           r  == y * v0
           z  == a - (p - r)
<1>1. /\ x \in Nat \ {0} /\ y \in Nat \ {0} /\ mn \in Nat \ {0}
      /\ u0 \in Nat /\ v0 \in Nat /\ u0 <= y - 1 /\ v0 <= x - 1
      /\ p \in Nat /\ r \in Nat /\ z \in Int
  BY LoopTypes DEF Loop
<1>2. p <= mn - x /\ r <= mn - y
  <2>1. u0 * x <= (y - 1) * x /\ v0 * y <= (x - 1) * y
    BY <1>1, ProductMonotone
  <2>2. /\ u0 * x = p /\ (y - 1) * x = mn - x
        /\ v0 * y = r /\ (x - 1) * y = mn - y
    BY <1>1
  <2> QED  BY <2>1, <2>2
<1>3. z % mn = 0
  BY DEF Loop
<1> HIDE DEF mn, p, r
<1>4. PICK d \in Int : z = mn * d
  <2> HIDE DEF z
  <2> QED  BY <1>1, <1>3, ZeroRemainder DEF Divides
<1>5. -mn < z /\ z < mn
  BY <1>1, <1>2
<1>6. d = 0
  <2> HIDE DEF z
  <2>1. d * mn = z /\ 1 * mn = mn /\ (-1) * mn = -mn
    BY <1>1, <1>4
  <2>2. CASE 1 <= d
    <3>1. 1 * mn <= d * mn
      BY <1>1, <2>2, ProductMonotone
    <3> QED  BY <1>1, <1>5, <2>1, <3>1
  <2>3. CASE d <= -1
    <3>1. d * mn <= (-1) * mn
      BY <1>1, <2>3, ProductMonotone
    <3> QED  BY <1>1, <1>5, <2>1, <3>1
  <2> QED  BY <2>2, <2>3
<1>7. z = 0
  BY <1>1, <1>4, <1>6
<1>8. p - r = 1
  BY <1>1, <1>7
<1> QED  BY <1>8 DEF p, r

(* The invariant holds at the beginning.                                   *)
LEMMA InvInit == Init => IInv
<1> SUFFICES ASSUME Init PROVE IInv
  OBVIOUS
<1>1. TypeOK
  BY Types DEF Init, Labels
<1> QED  BY <1>1 DEF Init, IInv

(* Giving up changes nothing but the label.                                *)
LEMMA FailKeeps ==
  ASSUME IInv, Fail
  PROVE  IInv'
<1>1. /\ pc' = "failed" /\ fp' = fp /\ gp' = gp /\ x' = x /\ y' = y /\ a' = a /\ b' = b
      /\ u0' = u0 /\ v0' = v0 /\ u1' = u1 /\ v1' = v1 /\ num' = num /\ Gp' = Gp /\ Fp' = Fp
  BY DEF Fail, operands, gcdState
<1>2. TypeOK'
  BY <1>1 DEF IInv, TypeOK, Labels
<1> QED  BY <1>1, <1>2 DEF IInv

(* Once chosen, the operands belong to the resultants.                     *)
LEMMA DispatchedKept ==
  ASSUME Dispatched, UNCHANGED operands
  PROVE  Dispatched'
<1>1. fp' = fp /\ gp' = gp /\ x' = x /\ y' = y
  BY DEF operands
<1>2. Operands' = Operands
  BY <1>1 DEF Operands, Odd
<1> QED  BY <1>1, <1>2 DEF Dispatched, Odd

(* zint_bezout starts with x = x*1 - y*0 and y = x*y - y*(x-1).            *)
LEMMA StartKeeps ==
  ASSUME IInv, Start
  PROVE  IInv'
<1>1. TypeOK /\ pc' = "bezout"
  BY DEF IInv, Start
<1>2. Loop' /\ Dispatched'
  BY <1>1, LoopStarts
<1>3. TypeOK'
  <2>1. /\ x' \in 0 .. Limit - 1 /\ y' \in 0 .. Limit - 1
        /\ a' = x' /\ b' = y' /\ u0' = 1 /\ v0' = 0 /\ u1' = y' /\ v1' = x' - 1
        /\ a' \in 0 .. x' /\ b' \in 0 .. y'
        /\ u0' \in 0 .. y' /\ u1' \in 0 .. y' /\ v0' \in 0 .. x' - 1 /\ v1' \in 0 .. x' - 1
    BY <1>2 DEF Loop, Start
  <2>2. /\ fp' = fp /\ gp' = gp /\ Gp' = Gp /\ Fp' = Fp
        /\ num' = 2 * W * len + (W - 1)
    BY DEF Start
  <2>3. num' \in 0 .. 2 * W * len + (W - 1)
    BY <2>2, Types
  <2>4. /\ u0' \in 0 .. Limit - 1 /\ v0' \in 0 .. Limit - 1 /\ v1' \in 0 .. Limit - 1
        /\ u1' \in 0 .. Limit - 1 /\ a' \in 0 .. Limit - 1 /\ b' \in 0 .. Limit - 1
    BY <2>1, Fits
  <2>5. pc' \in Labels /\ fp' \in Resultants /\ gp' \in Resultants
        /\ Gp' \in 0 .. Limit - 1 /\ Fp' \in 0 .. Limit - 1
    BY <1>1, <2>2, Types DEF Labels
  <2> QED  BY <2>1, <2>3, <2>4, <2>5 DEF TypeOK
<1> QED  BY <1>1, <1>2, <1>3 DEF IInv

(* An iteration keeps the types of the cofactors and of the countdown too. *)
LEMMA ReduceKeeps ==
  ASSUME IInv, Reduce
  PROVE  IInv'
<1>1. /\ TypeOK /\ Dispatched /\ Loop /\ pc' = "bezout"
      /\ fp' = fp /\ gp' = gp /\ x' = x /\ y' = y /\ Gp' = Gp /\ Fp' = Fp
      /\ num >= W - 1 /\ num' = num - (W - 1)
  BY DEF IInv, Reduce, operands
<1>2. Loop'
  BY <1>1, LoopKept
<1>3. Dispatched'
  BY <1>1, DispatchedKept DEF operands
<1>4. TypeOK'
  <2>1. num' \in 0 .. 2 * W * len + (W - 1)
    <3>1. num \in 0 .. 2 * W * len + (W - 1) /\ W - 1 \in Nat
      BY <1>1, WordAssumption, Types
    <3> DEFINE n == 2 * W * len + (W - 1)
    <3>2. n \in Nat
      BY Types
    <3> HIDE DEF n
    <3>3. num \in 0 .. n
      BY <3>1 DEF n
    <3>4. num' \in 0 .. n
      BY <1>1, <3>1, <3>2, <3>3
    <3> QED  BY <3>4 DEF n
  <2>2. /\ x' \in 0 .. Limit - 1 /\ y' \in 0 .. Limit - 1
        /\ a' \in 0 .. x' /\ b' \in 0 .. y'
        /\ u0' \in 0 .. y' /\ u1' \in 0 .. y' /\ v0' \in 0 .. x' - 1 /\ v1' \in 0 .. x' - 1
    BY <1>2 DEF Loop
  <2>3. /\ a' \in 0 .. Limit - 1 /\ b' \in 0 .. Limit - 1
        /\ u0' \in 0 .. Limit - 1 /\ v0' \in 0 .. Limit - 1
        /\ u1' \in 0 .. Limit - 1 /\ v1' \in 0 .. Limit - 1
    BY <2>2, Fits
  <2>4. pc' \in Labels /\ fp' \in Resultants /\ gp' \in Resultants
        /\ Gp' \in 0 .. Limit - 1 /\ Fp' \in 0 .. Limit - 1
    BY <1>1, Types DEF Labels
  <2> QED  BY <2>1, <2>2, <2>3, <2>4 DEF TypeOK
<1> QED  BY <1>1, <1>2, <1>3, <1>4 DEF IInv

(* With a = 1 the cofactors of a are a solution for the operands.          *)
LEMMA BezoutSucceedsKeeps ==
  ASSUME IInv, BezoutSucceeds
  PROVE  IInv'
<1>1. /\ TypeOK /\ Dispatched /\ Loop /\ a = 1 /\ pc' = "combine"
      /\ Gp' = u0 /\ Fp' = v0
      /\ fp' = fp /\ gp' = gp /\ x' = x /\ y' = y /\ a' = a /\ b' = b
      /\ u0' = u0 /\ v0' = v0 /\ u1' = u1 /\ v1' = v1 /\ num' = num
  BY DEF IInv, BezoutSucceeds, LoopDone, GcdIsOne, operands, gcdState
<1>2. TypeOK'
  BY <1>1 DEF TypeOK, Labels
<1>3. Dispatched'
  BY <1>1, DispatchedKept DEF operands
<1>4. Gp' \in 0 .. y' /\ Fp' \in 0 .. x'
  BY <1>1, LoopTypes DEF Loop
<1>5. y' # 1 => x' * Gp' - y' * Fp' = 1
  BY <1>1, CofactorsOfOne
<1> QED  BY <1>1, <1>2, <1>3, <1>4, <1>5 DEF IInv

(* Mapping the cofactors back to the resultants.                           *)
LEMMA CombineKeeps ==
  ASSUME IInv, CombineOddOdd \/ CombineEvenY \/ CombineEvenX
  PROVE  IInv'
<1>1. /\ TypeOK /\ Dispatched /\ pc' = "scale"
      /\ fp' = fp /\ gp' = gp /\ x' = x /\ y' = y /\ a' = a /\ b' = b
      /\ u0' = u0 /\ v0' = v0 /\ u1' = u1 /\ v1' = v1 /\ num' = num
      /\ y # 1 => x * Gp - y * Fp = 1
  BY DEF IInv, CombineOddOdd, CombineEvenY, CombineEvenX, operands, gcdState
<1>2. /\ fp \in Nat /\ gp \in Nat /\ Limit \in Nat
      /\ Gp \in 0 .. Limit - 1 /\ Fp \in 0 .. Limit - 1
  BY <1>1, Types
<1>3. Dispatched'
  BY <1>1, DispatchedKept DEF operands
<1>4. /\ Gp' \in 0 .. Limit - 1 /\ Fp' \in 0 .. Limit - 1
      /\ y # 1 => fp * Gp' - gp * Fp' = 1
  <2>1. Odd(fp) \/ Odd(gp)
    BY <1>1 DEF Dispatched
  <2>2. CASE CombineOddOdd
    <3>1. x = fp /\ y = gp /\ Gp' = Gp /\ Fp' = Fp
      BY <1>1, <1>2, <2>1, <2>2, OperandsAre DEF CombineOddOdd, Dispatched
    <3> QED  BY <1>1, <1>2, <3>1
  <2>3. CASE CombineEvenY
    <3>1. /\ x = fp /\ y = gp + fp /\ Gp' = Gp + gp - Fp /\ Fp' = Fp + fp
          /\ Gp + gp < Limit /\ Gp + gp >= Fp /\ Fp + fp < Limit
      BY <1>1, <1>2, <2>1, <2>3, OperandsAre DEF CombineEvenY, FitsEvenY, Dispatched
    <3>2. fp * (Gp + gp - Fp) - gp * (Fp + fp) = fp * Gp - (gp + fp) * Fp
      BY <1>2
    <3>3. Gp' \in 0 .. Limit - 1 /\ Fp' \in 0 .. Limit - 1
      BY <1>2, <3>1
    <3> QED  BY <1>1, <3>1, <3>2, <3>3
  <2>4. CASE CombineEvenX
    <3>1. /\ x = fp + gp /\ y = gp /\ Gp' = Gp + gp /\ Fp' = Fp + fp - Gp
          /\ Gp + gp < Limit /\ Fp + fp < Limit /\ Fp + fp >= Gp
      BY <1>1, <1>2, <2>1, <2>4, OperandsAre DEF CombineEvenX, FitsEvenX, Dispatched
    <3>2. fp * (Gp + gp) - gp * (Fp + fp - Gp) = (fp + gp) * Gp - gp * Fp
      BY <1>2
    <3>3. Gp' \in 0 .. Limit - 1 /\ Fp' \in 0 .. Limit - 1
      BY <1>2, <3>1
    <3> QED  BY <1>1, <3>1, <3>2, <3>3
  <2> QED  BY <2>2, <2>3, <2>4
<1>5. TypeOK'
  BY <1>1, <1>4 DEF TypeOK, Labels
<1> QED  BY <1>1, <1>3, <1>4, <1>5 DEF IInv

(* Both members of a solution are multiplied by q.                         *)
LEMMA ScaleKeeps ==
  ASSUME IInv, Scale
  PROVE  IInv'
<1>1. /\ TypeOK /\ Dispatched /\ pc' = "solved"
      /\ fp' = fp /\ gp' = gp /\ x' = x /\ y' = y /\ a' = a /\ b' = b
      /\ u0' = u0 /\ v0' = v0 /\ u1' = u1 /\ v1' = v1 /\ num' = num
      /\ y # 1 => fp * Gp - gp * Fp = 1
      /\ Fp' = Fp * q /\ Gp' = Gp * q /\ Fp * q < Limit /\ Gp * q < Limit
  BY DEF IInv, Scale, operands, gcdState
<1>2. /\ fp \in Nat /\ gp \in Nat /\ Limit \in Nat /\ q \in Nat
      /\ Gp \in Nat /\ Fp \in Nat
  BY <1>1, Types
<1>3. Dispatched'
  BY <1>1, DispatchedKept DEF operands
<1>4. Gp' \in 0 .. Limit - 1 /\ Fp' \in 0 .. Limit - 1
  <2>1. Fp * q \in Nat /\ Gp * q \in Nat
    BY <1>2
  <2> QED  BY <1>1, <1>2, <2>1
<1>5. y # 1 => fp * Gp' - gp * Fp' = q
  <2>1. fp * (Gp * q) - gp * (Fp * q) = (fp * Gp - gp * Fp) * q /\ 1 * q = q
    BY <1>2
  <2> QED  BY <1>1, <2>1
<1>6. TypeOK'
  BY <1>1, <1>4 DEF TypeOK, Labels
<1> QED  BY <1>1, <1>3, <1>5, <1>6 DEF IInv

(* Every step keeps the invariant.                                         *)
LEMMA InvNext == IInv /\ [Next]_vars => IInv'
<1> SUFFICES ASSUME IInv, [Next]_vars PROVE IInv'
  OBVIOUS
<1>1. CASE Start
  BY <1>1, StartKeeps
<1>2. CASE StartFails
  BY <1>2, FailKeeps DEF StartFails
<1>3. CASE Reduce
  BY <1>3, ReduceKeeps
<1>4. CASE BezoutSucceeds
  BY <1>4, BezoutSucceedsKeeps
<1>5. CASE BezoutFails
  BY <1>5, FailKeeps DEF BezoutFails
<1>6. CASE CombineOddOdd \/ CombineEvenY \/ CombineEvenX
  BY <1>6, CombineKeeps
<1>7. CASE CombineFails
  BY <1>7, FailKeeps DEF CombineFails
<1>8. CASE Scale
  BY <1>8, ScaleKeeps
<1>9. CASE ScaleOverflows
  BY <1>9, FailKeeps DEF ScaleOverflows
<1>10. CASE UNCHANGED vars
  <2>1. /\ pc' = pc /\ fp' = fp /\ gp' = gp /\ x' = x /\ y' = y /\ a' = a /\ b' = b
        /\ u0' = u0 /\ v0' = v0 /\ u1' = u1 /\ v1' = v1 /\ num' = num
        /\ Gp' = Gp /\ Fp' = Fp
    BY <1>10 DEF vars
  <2>2. TypeOK' /\ (Dispatched => Dispatched')
    BY <2>1, DispatchedKept DEF IInv, TypeOK, operands
  <2>3. Loop => Loop'
    BY <2>1 DEF Loop, Odd
  <2> QED  BY <2>1, <2>2, <2>3 DEF IInv
<1> QED  BY <1>1, <1>2, <1>3, <1>4, <1>5, <1>6, <1>7, <1>8, <1>9, <1>10 DEF Next

(* The invariant holds in every state.                                     *)
THEOREM Invariance == Spec => []IInv
BY InvInit, InvNext, PTL DEF Spec

(* Every number of the solver fits its array: no step carries out of it.   *)
THEOREM TypeCorrect == Spec => []TypeOK
<1>1. IInv => TypeOK
  BY DEF IInv
<1> QED  BY Invariance, <1>1, PTL

(* What zint_co_reduce and zint_co_reduce_mod take for granted of their    *)
(* arguments is so in every iteration.                                     *)
THEOREM HelpersApplyHold == Spec => []HelpersApply
<1>1. IInv => HelpersApply
  BY FactorsReduced DEF IInv, HelpersApply
<1> QED  BY Invariance, <1>1, PTL

(* Unless the second operand is 1, the remainders of zint_bezout are the   *)
(* combinations their cofactors say, and all are in range.                 *)
THEOREM CofactorsHold == Spec => [](y # 1 => Cofactors)
<1>1. IInv => (y # 1 => Cofactors)
  <2> SUFFICES ASSUME IInv, y # 1, pc = "bezout"
               PROVE  /\ a \in 0 .. x /\ (a - (x * u0 - y * v0)) % (x * y) = 0
                      /\ b \in 0 .. y /\ (b - (x * u1 - y * v1)) % (x * y) = 0
                      /\ u0 \in 0 .. y - 1 /\ v0 \in 0 .. x - 1
                      /\ u1 \in 0 .. y     /\ v1 \in 0 .. x - 1
    BY DEF Cofactors
  <2>1. Loop
    BY DEF IInv
  <2>2. u0 \in 0 .. y - 1
    BY <2>1, LoopTypes DEF Loop
  <2> QED  BY <2>1, <2>2 DEF Loop
<1> QED  BY Invariance, <1>1, PTL

(* Unless it is 1, what zint_bezout returns with success is as the comment *)
(* above it promises.                                                      *)
THEOREM ContractHolds == Spec => [](y # 1 => BezoutContract)
<1>1. IInv => (y # 1 => BezoutContract)
  BY DEF IInv, BezoutContract
<1> QED  BY Invariance, <1>1, PTL

(* And what solve_NTRU_deepest returns with success solves the equation of *)
(* the deepest level.                                                      *)
THEOREM SolvedHolds == Spec => [](y # 1 => Solved)
<1>1. IInv => (y # 1 => Solved)
  BY DEF IInv, Solved
<1> QED  BY Invariance, <1>1, PTL

(* The second operand is only 1 when a resultant is: without such a pair   *)
(* all of this holds in every state.                                       *)
THEOREM WithoutOne ==
  ASSUME 1 \notin Resultants
  PROVE  Spec => [](Cofactors /\ BezoutContract /\ Solved)
<1>1. IInv => (pc \in {"bezout", "combine", "scale", "solved"} => y # 1)
  <2> SUFFICES ASSUME IInv, Dispatched
               PROVE  y # 1
    BY DEF IInv
  <2>1. fp \in Nat /\ gp \in Nat /\ fp # 1 /\ gp # 1 /\ (Odd(fp) \/ Odd(gp))
    BY Types DEF IInv, TypeOK, Dispatched
  <2>2. y = gp \/ (Odd(fp) /\ y = gp + fp)
    BY <2>1, OperandsAre DEF Dispatched
  <2>3. Odd(fp) => fp # 0
    BY <2>1 DEF Odd
  <2> QED  BY <2>1, <2>2, <2>3
<1>2. (pc \in {"bezout", "combine", "scale", "solved"} => y # 1) =>
        ((y # 1 => Cofactors) /\ (y # 1 => BezoutContract) /\ (y # 1 => Solved)
           => Cofactors /\ BezoutContract /\ Solved)
  BY DEF Cofactors, BezoutContract, Solved
<1> QED  BY Invariance, CofactorsHold, ContractHolds, SolvedHolds, <1>1, <1>2, PTL

(* The subtractions that map the cofactors back.                           *)
NoBorrow ==
  pc = "combine" /\ y # 1 =>
    /\ Odd(fp) /\ ~Odd(gp) => Gp + gp >= Fp
    /\ ~Odd(fp) /\ Odd(gp) => Fp + fp >= Gp

(* They do not borrow, because the cofactors solve the operands.           *)
LEMMA Unborrowed == IInv => NoBorrow
<1> SUFFICES ASSUME IInv, pc = "combine", y # 1
             PROVE  /\ Odd(fp) /\ ~Odd(gp) => Gp + gp >= Fp
                    /\ ~Odd(fp) /\ Odd(gp) => Fp + fp >= Gp
  BY DEF NoBorrow
<1>1. /\ fp \in Nat /\ gp \in Nat /\ x * Gp - y * Fp = 1 /\ Dispatched
      /\ Gp \in Nat /\ Fp \in Nat
  BY Types DEF IInv
<1>2. ASSUME Odd(fp), ~Odd(gp), Gp < Fp
      PROVE  FALSE
  <2>1. x = fp /\ y = gp + fp
    BY <1>1, <1>2, OperandsAre DEF Dispatched
  <2>2. Gp * fp <= Fp * fp
    BY <1>1, <1>2, ProductMonotone
  <2>3. /\ x * Gp = Gp * fp /\ y * Fp = gp * Fp + Fp * fp
        /\ gp * Fp \in Nat /\ Gp * fp \in Nat /\ Fp * fp \in Nat
    BY <1>1, <2>1
  <2> QED  BY <1>1, <2>2, <2>3
<1>3. ASSUME ~Odd(fp), Odd(gp), Fp + fp < Gp
      PROVE  FALSE
  <2>1. x = fp + gp /\ y = gp
    BY <1>1, <1>3, OperandsAre DEF Dispatched
  <2>2. (Fp + fp + 1) * gp <= Gp * gp
    <3>1. Fp + fp + 1 \in Int /\ Fp + fp + 1 <= Gp
      BY <1>1, <1>3
    <3> QED  BY <1>1, <3>1, ProductMonotone
  <2>3. /\ (Fp + fp + 1) * gp = Fp * gp + fp * gp + gp
        /\ x * Gp = fp * Gp + Gp * gp /\ y * Fp = Fp * gp
        /\ Fp * gp \in Nat /\ fp * gp \in Nat /\ fp * Gp \in Nat /\ Gp * gp \in Nat
    BY <1>1, <2>1
  <2>4. gp # 0 /\ gp # 1
    BY <1>3, <2>1 DEF Odd
  <2> QED  BY <1>1, <2>2, <2>3, <2>4
<1> QED  BY <1>1, <1>2, <1>3

(* z31_sub never borrows: the mapping fails for want of room only.         *)
THEOREM MappingNeverBorrows == Spec => []NoBorrow
BY Invariance, Unborrowed, PTL

----------------------------------------------------------------------------
(* The length of the loop.                                                 *)

(* What the countdown of zint_bezout starts from.                          *)
Total == 2 * W * len + (W - 1)

(* What the loop has done when num of the Total is left: the product of    *)
(* the remainders has lost a bit for every unit, no common divisor was     *)
(* gained, and a is not the one of the two that reaches 0.                 *)
Progress ==
  /\ num \in 0 .. Total
  /\ (a * b) * 2 ^ (Total - num) <= x * y
  /\ \A m \in Nat : Divides(m, a) /\ Divides(m, b) => Divides(m, x) /\ Divides(m, y)
  /\ Coprime(fp, gp) => 1 <= a
  /\ num = Total \/ u0 < y

(* The ranges of the countdown, for the provers.                          *)
LEMMA TotalType == Total \in Nat /\ W - 1 \in Nat /\ 2 * W * len \in Nat
<1>1. W * len \in Nat /\ 2 * W * len \in Nat /\ W - 1 \in Nat
  BY WordAssumption
<1> QED  BY <1>1 DEF Total

(* Replacing the even resultant adds no common divisor.                    *)
LEMMA CoprimeOperands ==
  ASSUME TypeOK, Dispatched, Coprime(fp, gp),
         NEW m \in Nat, Divides(m, x), Divides(m, y)
  PROVE  m = 1
<1>1. /\ fp \in Nat /\ gp \in Nat /\ Limit \in Nat
      /\ x \in Nat /\ x <= Limit - 1 /\ y \in Nat
      /\ Odd(x) /\ (Odd(fp) \/ Odd(gp))
  BY Types DEF Dispatched
<1>2. PICK c \in Int, d \in Int : x = m * c /\ y = m * d
  BY DEF Divides
<1>3. Divides(m, fp) /\ Divides(m, gp)
  <2>1. /\ m * (d - c) = y - x /\ m * (c - d) = x - y
        /\ d - c \in Int /\ c - d \in Int
    BY <1>2
  <2>2. \/ x = fp /\ y = gp
        \/ x = fp /\ gp = y - x
        \/ fp = x - y /\ y = gp
    BY <1>1, OperandsAre DEF Dispatched
  <2> QED  BY <1>2, <2>1, <2>2 DEF Divides
<1>4. m # 0
  <2>1. ASSUME m = 0 PROVE FALSE
    <3>1. x = 0
      BY <1>2, <2>1
    <3> QED  BY <1>1, <3>1 DEF Odd
  <2> QED  BY <2>1
<1>5. m <= Limit - 1
  <2>1. 1 <= c
    <3>1. ASSUME c <= 0 PROVE FALSE
      <4>1. c * m <= 0 * m
        BY <1>2, <3>1, ProductMonotone
      <4>2. x = c * m /\ 0 * m = 0
        BY <1>2
      <4>3. x = 0
        BY <1>1, <4>1, <4>2
      <4> QED  BY <1>1, <4>3 DEF Odd
    <3> QED  BY <1>2, <3>1
  <2>2. 1 * m <= c * m
    BY <1>2, <2>1, ProductMonotone
  <2>3. 1 * m = m /\ c * m = x
    BY <1>2
  <2> QED  BY <1>1, <2>2, <2>3
<1>6. fp % m = 0 /\ gp % m = 0
  <2>1. m \in Nat \ {0} /\ fp \in Int /\ gp \in Int
    BY <1>1, <1>4
  <2> QED  BY <1>3, <2>1, ZeroRemainder
<1>7. m \notin 2 .. Limit - 1
  BY <1>6 DEF Coprime
<1> QED  BY <1>1, <1>4, <1>5, <1>7

(* Before the first iteration the remainders are the operands.             *)
LEMMA ProgressStarts ==
  ASSUME TypeOK, Start
  PROVE  Progress'
<1>1. a' = x' /\ b' = y' /\ num' = Total /\ x' \in Nat \ {0} /\ y' \in Nat
  <2>1. Loop'
    BY LoopStarts
  <2>2. x' \in Nat \ {0} /\ y' \in Nat
    <3>1. x' \in 0 .. Limit - 1 /\ y' \in 0 .. Limit - 1
      BY <2>1 DEF Loop
    <3>2. Odd(x') /\ 0 % 2 = 0
      BY <2>1 DEF Loop
    <3>3. x' # 0 /\ Limit \in Nat
      BY <3>2, Types DEF Odd
    <3> QED  BY <3>1, <3>3
  <2> QED  BY <2>2 DEF Start, Total
<1>2. Total - num' = 0 /\ num' \in 0 .. Total
  BY <1>1, TotalType
<1>3. (a' * b') * 2 ^ (Total - num') <= x' * y'
  <2> DEFINE z == x' * y'
  <2>1. z \in Nat /\ a' * b' = z
    <3>1. \A m \in Nat \ {0}, n \in Nat : m * n \in Nat
      OBVIOUS
    <3> QED  BY <1>1, <3>1
  <2> HIDE DEF z
  <2>2. z * 2 ^ 0 <= z
    BY <2>1, PowerOfTwo
  <2> QED  BY <1>2, <2>1, <2>2 DEF z
<1>4. \A m \in Nat : Divides(m, a') /\ Divides(m, b') => Divides(m, x') /\ Divides(m, y')
  BY <1>1
<1>5. (Coprime(fp, gp))' => 1 <= a'
  BY <1>1
<1>6. num' = Total \/ u0' < y'
  BY <1>1
<1> QED  BY <1>2, <1>3, <1>4, <1>5, <1>6 DEF Progress

(* What Sign(z) * z is: the size of z.                                     *)
LEMMA SizeIs ==
  ASSUME NEW z \in Int
  PROVE  /\ Sign(z) * z \in Nat /\ (Sign(z) * z = z \/ Sign(z) * z = -z)
         /\ Divides(Sign(z) * z, z)
         /\ \A m \in Nat : Divides(m, Sign(z) * z) => Divides(m, z)
<1> DEFINE s == Sign(z) * z
<1>1. s \in Nat /\ (s = z \/ s = -z)
  BY DEF Sign
<1> HIDE DEF s
<1>2. \A m \in Nat : Divides(m, s) => Divides(m, z)
  <2> SUFFICES ASSUME NEW m \in Nat, NEW c \in Int, s = m * c
               PROVE  Divides(m, z)
    BY DEF Divides
  <2>1. m * (-c) = -(m * c) /\ -c \in Int /\ m * c \in Int
    OBVIOUS
  <2>2. z = m * c \/ z = m * (-c)
    BY <1>1, <2>1
  <2> QED  BY <2>1, <2>2 DEF Divides
<1>3. Divides(s, s)
  <2>1. s = s * 1 /\ 1 \in Int
    BY <1>1
  <2> QED  BY <2>1 DEF Divides
<1> QED  BY <1>1, <1>2, <1>3 DEF s

(* A common divisor of two numbers divides their combinations.             *)
LEMMA DividesCombination ==
  ASSUME NEW m \in Nat, NEW z0 \in Int, NEW z1 \in Int, Divides(m, z0), Divides(m, z1),
         NEW c0 \in Int, NEW c1 \in Int
  PROVE  Divides(m, z0 * c0 + z1 * c1)
<1>1. PICK d0 \in Int, d1 \in Int : z0 = m * d0 /\ z1 = m * d1
  BY DEF Divides
<1>2. z0 * c0 + z1 * c1 = m * (d0 * c0 + d1 * c1) /\ d0 * c0 + d1 * c1 \in Int
  BY <1>1
<1> QED  BY <1>2 DEF Divides

(* An iteration takes W - 1 bits off the product.                          *)
LEMMA ProductShrinks ==
  ASSUME a \in Nat, b \in Nat, NEW na \in Int, NEW nb \in Int, Shrinks(na, nb)
  PROVE  ((Sign(na) * na) * (Sign(nb) * nb)) * 2 ^ (W - 1) <= a * b
<1> DEFINE sa == Sign(na) * na
           sb == Sign(nb) * nb
<1>1. /\ sa \in Nat /\ (sa = na \/ sa = -na)
      /\ sb \in Nat /\ (sb = nb \/ sb = -nb)
  BY SizeIs
<1> HIDE DEF sa, sb
<1> DEFINE p == na * nb
           r == sa * sb
           z == a * b
           h == 2 ^ (W - 1)
<1>2. p \in Int /\ r \in Nat /\ z \in Nat /\ (r = p \/ r = -p)
  <2>1. na * nb \in Int /\ (-na) * nb = -(na * nb) /\ na * (-nb) = -(na * nb)
        /\ (-na) * (-nb) = na * nb /\ sa * sb \in Nat /\ a * b \in Nat
    BY <1>1
  <2>2. sa * sb = na * nb \/ sa * sb = -(na * nb)
    BY <1>1, <2>1
  <2> QED  BY <2>1, <2>2
<1>3. h \in Nat /\ Base = 2 * h
  <2>1. W - 1 \in Nat /\ (W - 1) + 1 = W
    BY TotalType, WordAssumption
  <2> QED  BY <2>1, PowerOfTwo DEF Base
<1>4. -(2 * z) <= Base * p /\ Base * p <= 2 * z
  BY DEF Shrinks
<1> HIDE DEF p, r, z, h
<1>5. (2 * h) * p = 2 * (p * h) /\ (-p) * h = -(p * h) /\ p * h \in Int
  BY <1>2, <1>3
<1>6. r * h = p * h \/ r * h = -(p * h)
  BY <1>2, <1>5
<1>7. r * h <= z
  <2> DEFINE t == p * h
             w == r * h
  <2>1. t \in Int /\ (w = t \/ w = -t) /\ -(2 * z) <= 2 * t /\ 2 * t <= 2 * z
    BY <1>3, <1>4, <1>5, <1>6
  <2> HIDE DEF t, w
  <2>2. w <= z
    BY <1>2, <2>1
  <2> QED  BY <2>2 DEF w
<1> QED  BY <1>7 DEF sa, sb, r, z, h

(* An iteration keeps what the loop has done so far.  Were a to reach 0    *)
(* first, b would be a common divisor of the operands and thus 1.          *)
LEMMA ProgressKept ==
  ASSUME TypeOK, Dispatched, Loop, Progress, Reduce
  PROVE  Progress'
<1> DEFINE f  == Factors
           na == CoReduce(f.pa, f.pb)
           nb == CoReduce(f.qa, f.qb)
<1>1. /\ a \in Nat /\ b \in Nat /\ x \in Nat /\ y \in Nat
      /\ a \in 0 .. Limit - 1 /\ b \in 0 .. Limit - 1
  BY LoopTypes
<1>2. na \in Int /\ nb \in Int /\ Shrinks(na, nb)
  BY <1>1, FactorsAre
<1>3. /\ a' = Sign(na) * na /\ b' = Sign(nb) * nb
      /\ x' = x /\ y' = y /\ fp' = fp /\ gp' = gp
      /\ num >= W - 1 /\ num' = num - (W - 1)
  BY DEF Reduce, operands
<1>4. u0' < y'
  <2>1. u0' \in 0 .. y - 1
    BY FactorsReduced DEF Reduce
  <2> QED  BY <1>1, <1>3, <2>1
<1> HIDE DEF na, nb
<1>5. /\ num \in 0 .. Total /\ num' \in 0 .. Total
      /\ Total - num \in Nat /\ Total - num' = (Total - num) + (W - 1)
  <2>1. num \in 0 .. Total
    BY DEF Progress
  <2> QED  BY <1>3, <2>1, TotalType
<1>6. (a' * b') * 2 ^ (Total - num') <= x' * y'
  <2> DEFINE r == a' * b'
             z == a * b
             d == Total - num
             h == 2 ^ (W - 1)
             k == 2 ^ d
  <2>1. r \in Nat /\ z \in Nat /\ h \in Nat /\ k \in Nat
    <3>1. a' \in Nat /\ b' \in Nat
      BY <1>2, <1>3, SizeIs
    <3>2. \A m, n \in Nat : m * n \in Nat
      OBVIOUS
    <3> QED  BY <1>1, <1>5, <3>1, <3>2, TotalType, PowerOfTwo
  <2>2. r * h <= z
    BY <1>1, <1>2, <1>3, ProductShrinks
  <2>3. z * k <= x * y
    BY DEF Progress
  <2>4. 2 ^ (Total - num') = k * h
    BY <1>5, TotalType, PowerSum
  <2> HIDE DEF r, z, h, k
  <2>5. r * (k * h) = (r * h) * k /\ (r * h) * k <= z * k
    <3>1. r * h \in Int /\ z \in Int
      BY <2>1
    <3>2. (r * h) * k <= z * k
      BY <2>1, <2>2, <3>1, ProductMonotone
    <3> QED  BY <2>1, <3>2
  <2>6. r * (k * h) <= x * y
    <3> DEFINE t0 == r * (k * h)
               t1 == z * k
               t2 == x * y
    <3>1. t0 \in Int /\ t1 \in Int /\ t2 \in Int /\ t0 <= t1 /\ t1 <= t2
      BY <1>1, <2>1, <2>3, <2>5
    <3> HIDE DEF t0, t1, t2
    <3>2. t0 <= t2
      BY <3>1
    <3> QED  BY <3>2 DEF t0, t2
  <2> QED  BY <1>3, <2>4, <2>6 DEF r
<1>7. ASSUME NEW m \in Nat, Divides(m, a'), Divides(m, b')
      PROVE  Divides(m, x) /\ Divides(m, y)
  <2>1. Divides(m, na) /\ Divides(m, nb)
    BY <1>2, <1>3, <1>7, SizeIs
  <2>2. PICK c0 \in Int, c1 \in Int, d0 \in Int, d1 \in Int :
          a = na * c0 + nb * c1 /\ b = nb * d0 + na * d1
    BY <1>2 DEF Shrinks
  <2>3. Divides(m, a) /\ Divides(m, b)
    BY <1>2, <2>1, <2>2, DividesCombination
  <2> QED  BY <2>3 DEF Progress
<1>8. ASSUME Coprime(fp, gp)
      PROVE  1 <= a'
  <2>1. a' \in Nat /\ b' \in Nat /\ (a' = na \/ a' = -na) /\ (b' = nb \/ b' = -nb)
    BY <1>2, <1>3, SizeIs
  <2>2. ASSUME a' = 0
        PROVE  FALSE
    <3>1. Divides(b', a') /\ Divides(b', b')
      <4>1. \A n \in Nat : Divides(n, 0) /\ Divides(n, n)
        <5>1. \A n \in Nat : 0 = n * 0 /\ n = n * 1
          OBVIOUS
        <5>2. 0 \in Int /\ 1 \in Int
          OBVIOUS
        <5> QED  BY <5>1, <5>2 DEF Divides
      <4> QED  BY <2>1, <2>2, <4>1
    <3>2. b' = 1
      BY <1>7, <1>8, <2>1, <3>1, CoprimeOperands
    <3>3. 1 <= a
      BY <1>8 DEF Progress
    <3>4. na = 0
      BY <1>2, <2>1, <2>2
    <3>5. nb # 1 /\ nb # -1
      BY <1>2, <3>3, <3>4 DEF Shrinks
    <3> QED  BY <1>2, <2>1, <3>2, <3>5
  <2> QED  BY <2>1, <2>2
<1>9. \A m \in Nat : Divides(m, a') /\ Divides(m, b') => Divides(m, x') /\ Divides(m, y')
  BY <1>3, <1>7
<1>10. (Coprime(fp, gp))' => 1 <= a'
  BY <1>3, <1>8 DEF Coprime
<1> QED  BY <1>4, <1>5, <1>6, <1>9, <1>10 DEF Progress

(* When the countdown is over, the product is below 1 and b is 0: a is     *)
(* then a common divisor of the operands.                                  *)
LEMMA LoopEnds ==
  ASSUME TypeOK, Dispatched, Loop, Progress, num < W - 1
  PROVE  u0 < y /\ (Coprime(fp, gp) => a = 1)
<1>1. /\ a \in Nat /\ b \in Nat /\ x \in Nat /\ y \in Nat /\ Limit \in Nat \ {0}
      /\ x <= Limit - 1 /\ y <= Limit - 1
  BY LoopTypes DEF Loop
<1>2. /\ num \in 0 .. Total /\ (a * b) * 2 ^ (Total - num) <= x * y
      /\ num = Total \/ u0 < y
  BY DEF Progress
<1>3. PICK k \in Nat : Total - num = 2 * W * len + k /\ num # Total
  <2> DEFINE n == 2 * W * len
  <2>1. n \in Nat /\ Total = n + (W - 1) /\ W - 1 \in Nat
    BY TotalType DEF Total
  <2> HIDE DEF n
  <2>2. Total - num - n \in Nat /\ Total - num = n + (Total - num - n) /\ num # Total
    BY <1>2, <2>1
  <2> QED  BY <2>2 DEF n
<1>4. 2 ^ (Total - num) = (Limit * Limit) * 2 ^ k
  <2> DEFINE n == W * len
  <2>1. n \in Nat /\ 2 * W * len = n + n /\ Limit = 2 ^ n
    BY WordAssumption DEF Limit, Words
  <2> HIDE DEF n
  <2>2. 2 ^ (n + n) = 2 ^ n * 2 ^ n /\ n + n \in Nat
    BY <2>1, PowerSum
  <2>3. 2 ^ ((n + n) + k) = 2 ^ (n + n) * 2 ^ k
    BY <2>2, PowerSum
  <2> QED  BY <1>3, <2>1, <2>2, <2>3
<1>5. 2 ^ k \in Nat /\ 1 <= 2 ^ k
  BY PowerPositive
<1>6. a * b = 0
  <2> DEFINE z == a * b
             s == Limit * Limit
             h == 2 ^ k
             t == x * y
  <2>1. z \in Nat /\ s \in Nat /\ t \in Nat /\ h \in Nat /\ 1 <= h
    BY <1>1, <1>5
  <2>2. t < s
    <3>1. x * y <= Limit * y
      BY <1>1, ProductMonotone
    <3>2. y * Limit + Limit <= Limit * Limit
      BY <1>1, MultipleAbove
    <3>3. y * Limit = Limit * y /\ y * Limit \in Nat
      BY <1>1
    <3> DEFINE w == y * Limit
    <3>4. w \in Nat /\ t <= w /\ w + Limit <= s
      BY <3>1, <3>2, <3>3
    <3> HIDE DEF w, t, s
    <3> QED  BY <1>1, <2>1, <3>4
  <2>3. z * (s * h) <= t
    BY <1>2, <1>4
  <2> HIDE DEF z, s, h, t
  <2>4. ASSUME 1 <= z PROVE FALSE
    <3> DEFINE r == s * h
    <3>1. r \in Nat /\ s <= r
      <4>1. 1 * s <= h * s
        BY <2>1, ProductMonotone
      <4> QED  BY <2>1, <4>1
    <3>2. 1 * r <= z * r
      BY <2>1, <2>4, <3>1, ProductMonotone
    <3>3. z * r <= t
      BY <2>3
    <3> HIDE DEF r
    <3> DEFINE w == z * r
    <3>4. w \in Nat /\ r <= w /\ w <= t
      BY <2>1, <3>1, <3>2, <3>3
    <3> HIDE DEF w
    <3> QED  BY <2>1, <2>2, <3>1, <3>4
  <2>5. z = 0
    BY <2>1, <2>4
  <2> QED  BY <2>5 DEF z
<1>7. ASSUME Coprime(fp, gp)
      PROVE  a = 1
  <2>1. 1 <= a
    BY <1>7 DEF Progress
  <2>2. b = 0
    <3>1. \A m, n \in Nat : 1 <= m /\ m * n = 0 => n = 0
      <4> SUFFICES ASSUME NEW m \in Nat, NEW n \in Nat, 1 <= m, m * n = 0
                   PROVE  n = 0
        OBVIOUS
      <4>1. 1 * n <= m * n
        BY ProductMonotone
      <4> QED  BY <4>1
    <3> QED  BY <1>1, <1>6, <2>1, <3>1
  <2>3. Divides(a, a) /\ Divides(a, b)
    <3>1. a = a * 1 /\ 0 = a * 0 /\ 0 \in Int /\ 1 \in Int
      BY <1>1
    <3> QED  BY <2>2, <3>1 DEF Divides
  <2>4. Divides(a, x) /\ Divides(a, y)
    BY <1>1, <2>3 DEF Progress
  <2> QED  BY <1>1, <1>7, <2>4, CoprimeOperands
<1> QED  BY <1>2, <1>3, <1>7

----------------------------------------------------------------------------
(* Giving up.                                                              *)

(* The invariant, strengthened by what the loop has done and by bounds on  *)
(* the cofactors: what is given up then had no solution, or no room.       *)
GInv ==
  /\ IInv
  /\ pc = "bezout"  => Progress
  /\ pc = "combine" => Gp <= y - 1 /\ Fp <= x - 1
  /\ pc = "scale"   => Gp <= 2 * gp /\ Fp <= 2 * fp
  /\ GivesUpOnlyWhenItMust

(* Two even numbers are not coprime, and what overflows in a sum is large. *)
LEMMA StartFailsRightly ==
  ASSUME TypeOK, StartFails, q # 1
  PROVE  ~Coprime(fp, gp) \/ 2 * q * fp >= Limit \/ 2 * q * gp >= Limit
<1>1. fp \in Nat /\ gp \in Nat /\ Limit \in Nat /\ q \in Nat /\ 2 <= q
  BY Types, qAssumption
<1>2. CASE ~Odd(fp) /\ ~Odd(gp)
  <2>1. fp % 2 = 0 /\ gp % 2 = 0
    BY <1>1, <1>2 DEF Odd
  <2>2. 3 <= Limit
    <3>1. W * len \in Nat /\ 2 <= W * len
      <4>1. 1 * W <= len * W /\ W \in Nat /\ 2 <= W /\ len \in Nat
        BY WordAssumption, ProductMonotone
      <4> QED  BY <4>1
    <3> QED  BY <3>1, PowerPositive DEF Limit, Words
  <2>3. 2 \in 2 .. Limit - 1
    BY <1>1, <2>2
  <2> QED  BY <2>1, <2>3 DEF Coprime
<1>3. CASE fp + gp >= Limit
  <2>1. 2 * fp <= q * fp /\ 2 * gp <= q * gp /\ q * fp \in Nat /\ q * gp \in Nat
    BY <1>1, ProductMonotone
  <2>2. 2 * q * fp = 2 * (q * fp) /\ 2 * q * gp = 2 * (q * gp)
    BY <1>1
  <2> DEFINE m == q * fp
             n == q * gp
  <2> HIDE DEF m, n
  <2>3. 2 * m >= Limit \/ 2 * n >= Limit
    BY <1>1, <1>3, <2>1 DEF m, n
  <2> QED  BY <2>2, <2>3 DEF m, n
<1> QED  BY <1>2, <1>3 DEF StartFails

(* The bounds of the cofactors leave room for the mapping, unless there is *)
(* none for its result.                                                    *)
LEMMA CombineFailsRightly ==
  ASSUME IInv, pc = "combine", Gp <= y - 1, Fp <= x - 1, CombineFails, q # 1
  PROVE  2 * q * fp >= Limit \/ 2 * q * gp >= Limit
<1>1. /\ fp \in Nat /\ gp \in Nat /\ Limit \in Nat /\ q \in Nat /\ 2 <= q
      /\ Gp \in Nat /\ Fp \in Nat /\ Dispatched
  BY Types, qAssumption DEF IInv
<1> SUFFICES ASSUME 4 * fp < Limit, 4 * gp < Limit
             PROVE  FALSE
  <2>1. 2 * fp <= q * fp /\ 2 * gp <= q * gp /\ q * fp \in Nat /\ q * gp \in Nat
    BY <1>1, ProductMonotone
  <2>2. 2 * q * fp = 2 * (q * fp) /\ 2 * q * gp = 2 * (q * gp)
    BY <1>1
  <2> DEFINE m == q * fp
             n == q * gp
  <2> HIDE DEF m, n
  <2>3. (2 * m >= Limit \/ 2 * n >= Limit) \/ (4 * fp < Limit /\ 4 * gp < Limit)
    BY <1>1, <2>1 DEF m, n
  <2> QED  BY <2>2, <2>3 DEF m, n
<1>2. NoBorrow
  BY Unborrowed
<1>3. ASSUME Odd(fp), ~Odd(gp)
      PROVE  FitsEvenY
  <2>1. x = fp /\ y = gp + fp
    BY <1>1, <1>3, OperandsAre DEF Dispatched
  <2>2. Gp + gp < Limit /\ Fp + fp < Limit
    BY <1>1, <2>1
  <2>3. Gp + gp >= Fp
    <3>1. CASE y # 1
      BY <1>2, <1>3, <3>1 DEF NoBorrow
    <3>2. CASE y = 1
      <4>1. fp # 0
        BY <1>3 DEF Odd
      <4>2. Fp = 0
        BY <1>1, <2>1, <3>2, <4>1
      <4> QED  BY <1>1, <4>2
    <3> QED  BY <3>1, <3>2
  <2> QED  BY <2>2, <2>3 DEF FitsEvenY
<1>4. ASSUME ~Odd(fp), Odd(gp)
      PROVE  FitsEvenX
  <2>1. x = fp + gp /\ y = gp
    BY <1>1, <1>4, OperandsAre DEF Dispatched
  <2>2. Gp + gp < Limit /\ Fp + fp < Limit
    BY <1>1, <2>1
  <2>3. Fp + fp >= Gp
    <3>1. CASE y # 1
      BY <1>2, <1>4, <3>1 DEF NoBorrow
    <3>2. CASE y = 1
      BY <1>1, <3>2
    <3> QED  BY <3>1, <3>2
  <2> QED  BY <2>2, <2>3 DEF FitsEvenX
<1> QED  BY <1>3, <1>4 DEF CombineFails

(* A quotient of a smaller product is smaller.                             *)
LEMMA FactorBelow ==
  ASSUME NEW m \in Nat, NEW n \in Int, NEW k \in Int, m * n < m * k + m
  PROVE  n <= k
<1> SUFFICES ASSUME k + 1 <= n PROVE FALSE
  OBVIOUS
<1>1. (k + 1) * m <= n * m
  BY ProductMonotone
<1>2. (k + 1) * m = m * k + m /\ n * m = m * n /\ m * k \in Int /\ m * n \in Int
  OBVIOUS
<1> DEFINE r == m * k
           s == m * n
<1>3. r \in Int /\ s \in Int /\ r + m <= s /\ s < r + m
  BY <1>1, <1>2
<1> HIDE DEF r, s
<1> QED  BY <1>3

(* The mapped cofactors are within twice the resultants.                   *)
LEMMA CombineBounds ==
  ASSUME IInv, pc = "combine", Gp <= y - 1, Fp <= x - 1,
         CombineOddOdd \/ CombineEvenY \/ CombineEvenX
  PROVE  Gp' <= 2 * gp /\ Fp' <= 2 * fp
<1>1. /\ fp \in Nat /\ gp \in Nat /\ Gp \in Nat /\ Fp \in Nat /\ Dispatched
      /\ y # 1 => x * Gp - y * Fp = 1
  BY Types DEF IInv
<1>2. CASE CombineOddOdd
  <2>1. x = fp /\ y = gp /\ Gp' = Gp /\ Fp' = Fp
    BY <1>1, <1>2, OperandsAre DEF CombineOddOdd, Dispatched
  <2> QED  BY <1>1, <2>1
<1>3. CASE CombineEvenY
  <2>1. /\ x = fp /\ y = gp + fp /\ Gp' = Gp + gp - Fp /\ Fp' = Fp + fp
        /\ Gp + gp >= Fp /\ Odd(fp) /\ ~Odd(gp)
    BY <1>1, <1>3, OperandsAre DEF CombineEvenY, FitsEvenY, Dispatched
  <2>2. fp # 0 /\ gp # 1
    BY <2>1 DEF Odd
  <2>3. Fp' \in Nat /\ Gp' \in Nat /\ Fp' <= 2 * fp - 1
    BY <1>1, <2>1
  <2>4. CASE y = 1
    <3>1. gp = 0 /\ Gp = 0 /\ Fp = 0
      BY <1>1, <2>1, <2>2, <2>4
    <3> QED  BY <1>1, <2>1, <2>3, <3>1
  <2>5. CASE y # 1
    <3>1. fp * Gp' - gp * Fp' = 1
      <4>1. fp * (Gp + gp - Fp) - gp * (Fp + fp) = fp * Gp - (gp + fp) * Fp
        BY <1>1
      <4> QED  BY <1>1, <2>1, <2>5, <4>1
    <3>2. Fp' * gp <= (2 * fp - 1) * gp
      <4>1. 2 * fp - 1 \in Int /\ Fp' \in Int
        BY <1>1, <2>3
      <4> QED  BY <1>1, <2>3, <4>1, ProductMonotone
    <3>3. (2 * fp - 1) * gp = fp * (2 * gp) - gp /\ Fp' * gp = gp * Fp'
      BY <1>1, <2>3
    <3>4. gp # 0
      <4>1. ASSUME gp = 0 PROVE FALSE
        <5>1. gp * Fp' = 0 /\ fp * Gp' = 1 /\ 2 <= fp
          BY <1>1, <2>1, <2>2, <2>3, <2>5, <3>1, <4>1
        <5>2. \A m, n \in Nat : 2 <= m => m * n # 1
          <6> SUFFICES ASSUME NEW m \in Nat, NEW n \in Nat, 2 <= m, m * n = 1
                       PROVE  FALSE
            OBVIOUS
          <6>1. 2 * n <= m * n
            BY ProductMonotone
          <6>2. n # 0
            OBVIOUS
          <6> QED  BY <6>1, <6>2
        <5> QED  BY <1>1, <2>3, <5>1, <5>2
      <4> QED  BY <4>1
    <3>5. fp * Gp' < fp * (2 * gp) + fp
      <4> DEFINE r == fp * Gp'
                 s == gp * Fp'
                 t == fp * (2 * gp)
      <4>1. r \in Int /\ s \in Int /\ t \in Int
        BY <1>1, <2>3
      <4>2. r - s = 1 /\ s <= t - gp
        BY <3>1, <3>2, <3>3
      <4> HIDE DEF r, s, t
      <4>3. r < t + fp
        BY <1>1, <2>2, <3>4, <4>1, <4>2
      <4> QED  BY <4>3 DEF r, t
    <3>6. Gp' <= 2 * gp
      <4>1. Gp' \in Int /\ 2 * gp \in Int
        BY <1>1, <2>3
      <4> QED  BY <1>1, <3>5, <4>1, FactorBelow
    <3> QED  BY <1>1, <2>3, <3>6
  <2> QED  BY <2>4, <2>5
<1>4. CASE CombineEvenX
  <2>1. /\ x = fp + gp /\ y = gp /\ Gp' = Gp + gp /\ Fp' = Fp + fp - Gp
        /\ Fp + fp >= Gp /\ ~Odd(fp) /\ Odd(gp)
    BY <1>1, <1>4, OperandsAre DEF CombineEvenX, FitsEvenX, Dispatched
  <2>2. gp # 0
    BY <2>1 DEF Odd
  <2>3. Fp' \in Nat /\ Gp' \in Nat /\ Gp' <= 2 * gp - 1
    BY <1>1, <2>1
  <2>4. CASE y = 1
    <3>1. Gp = 0 /\ Fp <= fp
      BY <1>1, <2>1, <2>4
    <3> QED  BY <1>1, <2>1, <2>3, <3>1
  <2>5. CASE y # 1
    <3>1. fp * Gp' - gp * Fp' = 1
      <4>1. fp * (Gp + gp) - gp * (Fp + fp - Gp) = (fp + gp) * Gp - gp * Fp
        BY <1>1
      <4> QED  BY <1>1, <2>1, <2>5, <4>1
    <3>2. Gp' * fp <= (2 * gp) * fp
      <4>1. 2 * gp \in Int /\ Gp' \in Int /\ Gp' <= 2 * gp
        BY <1>1, <2>3
      <4> QED  BY <1>1, <4>1, ProductMonotone
    <3>3. (2 * gp) * fp = gp * (2 * fp) /\ Gp' * fp = fp * Gp'
      BY <1>1, <2>3
    <3>4. gp * Fp' < gp * (2 * fp) + gp
      <4> DEFINE r == fp * Gp'
                 s == gp * Fp'
                 t == gp * (2 * fp)
      <4>1. r \in Int /\ s \in Int /\ t \in Int
        BY <1>1, <2>3
      <4>2. r - s = 1 /\ r <= t
        BY <3>1, <3>2, <3>3
      <4> HIDE DEF r, s, t
      <4>3. s < t + gp
        BY <1>1, <2>2, <4>1, <4>2
      <4> QED  BY <4>3 DEF s, t
    <3>5. Fp' <= 2 * fp
      <4>1. Fp' \in Int /\ 2 * fp \in Int
        BY <1>1, <2>3
      <4> QED  BY <1>1, <3>4, <4>1, FactorBelow
    <3> QED  BY <1>1, <2>3, <3>5
  <2> QED  BY <2>4, <2>5
<1> QED  BY <1>2, <1>3, <1>4

(* So scaling only overflows for large resultants.                         *)
LEMMA ScaleOverflowsRightly ==
  ASSUME TypeOK, Gp <= 2 * gp, Fp <= 2 * fp, ScaleOverflows
  PROVE  2 * q * fp >= Limit \/ 2 * q * gp >= Limit
<1>1. /\ fp \in Nat /\ gp \in Nat /\ Limit \in Nat /\ q \in Nat
      /\ Gp \in Nat /\ Fp \in Nat
  BY Types
<1>2. Fp * q <= (2 * fp) * q /\ Gp * q <= (2 * gp) * q
  <2>1. 2 * fp \in Int /\ 2 * gp \in Int
    BY <1>1
  <2> QED  BY <1>1, <2>1, ProductMonotone
<1>3. /\ (2 * fp) * q = 2 * q * fp /\ (2 * gp) * q = 2 * q * gp
      /\ Fp * q \in Nat /\ Gp * q \in Nat
      /\ 2 * q * fp \in Nat /\ 2 * q * gp \in Nat
  BY <1>1
<1> DEFINE r == Fp * q
           s == Gp * q
           m == 2 * q * fp
           n == 2 * q * gp
<1>4. /\ r \in Nat /\ s \in Nat /\ m \in Nat /\ n \in Nat
      /\ r <= m /\ s <= n /\ (r >= Limit \/ s >= Limit)
  BY <1>2, <1>3 DEF ScaleOverflows
<1> HIDE DEF r, s, m, n
<1>5. m >= Limit \/ n >= Limit
  BY <1>1, <1>4
<1> QED  BY <1>5 DEF m, n

(* Where the deepest level gives up, it does so for a reason.              *)
LEMMA GivesUpRightly ==
  ASSUME GInv, q # 1,
         StartFails \/ BezoutFails \/ CombineFails \/ ScaleOverflows
  PROVE  ~Coprime(fp, gp) \/ 2 * q * fp >= Limit \/ 2 * q * gp >= Limit
<1>1. IInv /\ TypeOK
  BY DEF GInv, IInv
<1>2. CASE StartFails
  BY <1>1, <1>2, StartFailsRightly
<1>3. CASE BezoutFails
  <2>1. /\ pc = "bezout" /\ num < W - 1 /\ ~GcdIsOne
        /\ Dispatched /\ Loop /\ Progress
    BY <1>1, <1>3 DEF BezoutFails, LoopDone, GInv, IInv
  <2>2. a # 1
    BY <2>1 DEF GcdIsOne, Loop
  <2> QED  BY <1>1, <2>1, <2>2, LoopEnds
<1>4. CASE CombineFails
  <2>1. pc = "combine" /\ Gp <= y - 1 /\ Fp <= x - 1
    BY <1>4 DEF CombineFails, GInv
  <2> QED  BY <1>1, <1>4, <2>1, CombineFailsRightly
<1>5. CASE ScaleOverflows
  <2>1. Gp <= 2 * gp /\ Fp <= 2 * fp
    BY <1>5 DEF ScaleOverflows, GInv
  <2> QED  BY <1>1, <1>5, <2>1, ScaleOverflowsRightly
<1> QED  BY <1>2, <1>3, <1>4, <1>5

(* Every step keeps the strengthened invariant.                            *)
LEMMA GInvNext ==
  ASSUME GInv, q # 1, [Next]_vars
  PROVE  GInv'
<1>1. IInv /\ TypeOK /\ IInv'
  BY InvNext DEF GInv, IInv
<1>2. CASE Start
  <2>1. pc' = "bezout" /\ Progress'
    BY <1>1, <1>2, ProgressStarts DEF Start
  <2> QED  BY <1>1, <2>1 DEF GInv, GivesUpOnlyWhenItMust
<1>3. CASE Reduce
  <2>1. Dispatched /\ Loop /\ Progress /\ pc' = "bezout"
    BY <1>1, <1>3 DEF Reduce, GInv, IInv
  <2>2. Progress'
    BY <1>1, <1>3, <2>1, ProgressKept
  <2> QED  BY <1>1, <2>1, <2>2 DEF GInv, GivesUpOnlyWhenItMust
<1>4. CASE BezoutSucceeds
  <2>1. /\ pc = "bezout" /\ num < W - 1 /\ pc' = "combine"
        /\ Gp' = u0 /\ Fp' = v0 /\ x' = x /\ y' = y
        /\ Dispatched /\ Loop /\ Progress
    BY <1>1, <1>4 DEF BezoutSucceeds, LoopDone, GInv, IInv, operands
  <2>2. u0 < y
    BY <1>1, <2>1, LoopEnds
  <2>3. u0 <= y - 1 /\ v0 <= x - 1
    BY <2>1, <2>2, LoopTypes DEF Loop
  <2> QED  BY <1>1, <2>1, <2>3 DEF GInv, GivesUpOnlyWhenItMust
<1>5. CASE CombineOddOdd \/ CombineEvenY \/ CombineEvenX
  <2>1. /\ pc = "combine" /\ Gp <= y - 1 /\ Fp <= x - 1 /\ pc' = "scale"
        /\ fp' = fp /\ gp' = gp
    BY <1>5 DEF CombineOddOdd, CombineEvenY, CombineEvenX, GInv, operands
  <2>2. Gp' <= 2 * gp /\ Fp' <= 2 * fp
    BY <1>1, <1>5, <2>1, CombineBounds
  <2> QED  BY <1>1, <2>1, <2>2 DEF GInv, GivesUpOnlyWhenItMust
<1>6. CASE Scale
  <2>1. pc' = "solved"
    BY <1>6 DEF Scale
  <2> QED  BY <1>1, <2>1 DEF GInv, GivesUpOnlyWhenItMust
<1>7. CASE StartFails \/ BezoutFails \/ CombineFails \/ ScaleOverflows
  <2>1. ~Coprime(fp, gp) \/ 2 * q * fp >= Limit \/ 2 * q * gp >= Limit
    BY <1>7, GivesUpRightly
  <2>2. pc' = "failed" /\ fp' = fp /\ gp' = gp
    BY <1>7 DEF StartFails, BezoutFails, CombineFails, ScaleOverflows, Fail, operands
  <2>3. GivesUpOnlyWhenItMust'
    BY <2>1, <2>2 DEF GivesUpOnlyWhenItMust, Coprime
  <2> QED  BY <1>1, <2>2, <2>3 DEF GInv
<1>8. CASE UNCHANGED vars
  <2>1. /\ pc' = pc /\ fp' = fp /\ gp' = gp /\ x' = x /\ y' = y /\ a' = a /\ b' = b
        /\ u0' = u0 /\ num' = num /\ Gp' = Gp /\ Fp' = Fp
    BY <1>8 DEF vars
  <2>2. (Progress => Progress') /\ (GivesUpOnlyWhenItMust => GivesUpOnlyWhenItMust')
    BY <2>1 DEF Progress, GivesUpOnlyWhenItMust, Coprime
  <2> QED  BY <1>1, <2>1, <2>2 DEF GInv
<1> QED  BY <1>2, <1>3, <1>4, <1>5, <1>6, <1>7, <1>8 DEF Next

(* The loop runs long enough to find a GCD of 1, and neither the mapping   *)
(* nor the multiplication by q overflows without need: a pair of           *)
(* resultants is only given up when it has no solution or the arrays have  *)
(* no room.  The mapping alone may need more room than a result that is    *)
(* not scaled: hence the condition on q, which is 12289 in the code.       *)
THEOREM KeepsSolvablePairs ==
  ASSUME q # 1
  PROVE  Spec => []GivesUpOnlyWhenItMust
<1>1. Init => GInv
  BY InvInit DEF Init, GInv, GivesUpOnlyWhenItMust
<1>2. GInv /\ [Next]_vars => GInv'
  BY GInvNext
<1>3. GInv => GivesUpOnlyWhenItMust
  BY DEF GInv
<1> QED  BY <1>1, <1>2, <1>3, PTL DEF Spec

=============================================================================
