-------------------------------- MODULE ModP --------------------------------
(***************************************************************************)
(* Arithmetic modulo the small primes of crypto/keygen.c, in Montgomery    *)
(* form, and the number-theoretic transform built from it.  The NTRU       *)
(* solver does all its polynomial products this way.                       *)
(*                                                                         *)
(* A word of a big integer has W bits (31 in the code) and a machine word  *)
(* W + 1 (32).  A polynomial is an array indexed from 0; stride and place  *)
(* of an array in memory are left out.  P is what a function computes      *)
(* before it works modulo a prime p: p0i = -1/p modulo Word, R2 = Word^2   *)
(* modulo p, and the tables gm and igm of every degree.                    *)
(***************************************************************************)
EXTENDS Integers, TLC

CONSTANTS
  q,         (* 12289                                                      *)
  W,         (* bits per word: 31, one less than a power of two            *)
  MaxLogn,   (* largest degree: 10                                         *)
  NumPrimes, (* length of PRIMES: 521                                      *)
  Prime      (* PrimeTable: PRIMES with what every use of a prime computes *)

Word == 2 ^ W
MaxN == 2 ^ MaxLogn

ASSUME WordAssumption ==
  W \in Nat /\ MaxLogn \in Nat \ {0} /\ NumPrimes \in Nat \ {0}
ASSUME RootAssumption == \E k \in 1 .. W : 2 ^ k = W + 1

(* An array of n elements.  Merging it with the empty function has its     *)
(* elements computed once and not at each use.                             *)
Array(n, Element(_)) == [i \in 0 .. n - 1 |-> Element(i)] @@ << >>

----------------------------------------------------------------------------
(* The table of primes.                                                    *)

(* The largest primes of W bits with roots of X^N + 1, decreasing, each    *)
(* with a root and the inverse of the product of those before it, in       *)
(* Montgomery form.                                                        *)
IsPrime(n) == \A d \in 2 .. 2 ^ ((W + 1) \div 2) : d < n => n % d # 0

PrimeBelow(n) ==
  LET At(k) == Word + 1 - 2 * MaxN * k
      Fits(k) == At(k) < n /\ IsPrime(At(k))
  IN  At(CHOOSE k \in 1 .. Word : Fits(k) /\ \A j \in 1 .. k - 1 : ~Fits(j))

Root(p) ==
  LET pw(x) == LET r[k \in 0 .. MaxLogn] == IF k = 0 THEN x ELSE
                     LET y == r[k - 1] IN (y * y) % p
               IN  r[MaxLogn]
  IN  CHOOSE x \in 2 .. p - 1 : pw(x) = p - 1

PRIMES ==
  LET rec[u \in 0 .. NumPrimes - 1] ==
        LET prev == IF u = 0 THEN [p |-> Word, prod |-> 1] ELSE rec[u - 1]
            p    == PrimeBelow(prev.p)
        IN  [p |-> p, prod |-> prev.prod * p, before |-> prev.prod % p]
  IN  Array(NumPrimes, LAMBDA u :
        LET r == rec[u]
        IN  [p |-> r.p, g |-> Root(r.p),
             s |-> CHOOSE x \in 1 .. r.p - 1 : (x * r.before) % r.p = Word % r.p])

----------------------------------------------------------------------------
(* Operators modulo p.                                                     *)

(* d += p & -(d >> 31): p is added to what a subtraction made negative.    *)
IfBorrow(u, p) == IF u >= Word THEN (u + p) % (2 * Word) ELSE u
AddBack(d, p)  == IfBorrow(d % (2 * Word), p)

modp_set(x, p)    == AddBack(x, p)
modp_norm(x, p)   == IF x >= (p + 1) \div 2 THEN x - p ELSE x
modp_R(p)         == Word - p
modp_add(a, b, p) == AddBack(a + b - p, p)
modp_sub(a, b, p) == AddBack(a - b, p)

(* -1/p modulo Word by Newton's iteration: 2, 4, 8, 16, 32 exact bits.    *)
modp_ninv31(p) ==
  LET y[k \in 0 .. 4] == IF k = 0 THEN (2 - p) % Word ELSE
        LET z == y[k - 1] IN (z * ((2 - p * z) % Word)) % Word
  IN  (-y[4]) % Word

MontyReduce(z, P) ==
  AddBack((z + (((z % Word) * P.p0i) % Word) * P.p) \div Word - P.p, P.p)
modp_montymul(a, b, P) == MontyReduce(a * b, P)

(* 2^(2*W): from the Montgomery form of 2 by squarings up to 2^(W + 1).    *)
modp_R2(P) ==
  LET last == CHOOSE k \in 1 .. W : 2 ^ k = W + 1
      z[k \in 0 .. last] ==
        IF k = 0 THEN modp_add(modp_R(P.p), modp_R(P.p), P.p)
        ELSE LET y == z[k - 1] IN modp_montymul(y, y, P)
      Half(t) == (t + (IF t % 2 = 1 THEN P.p ELSE 0)) \div 2
  IN  Half(z[last])

(* Square and multiply: bit i of e, from the lowest for modp_Rx, from the  *)
(* highest for modp_div.                                                   *)
Bit(e, i) == (e \div 2 ^ i) % 2 = 1

RxStep(t, i, x, P) ==
  [r |-> modp_montymul(t.r, t.r, P),
   z |-> IF Bit(x - 1, i) THEN modp_montymul(t.z, t.r, P) ELSE t.z]

(* 2^(W*x).                                                                *)
modp_Rx(x, P) ==
  LET s[i \in 0 .. W] == IF i = 0 THEN [r |-> P.R2, z |-> modp_R(P.p)]
                         ELSE LET t == s[i - 1] IN RxStep(t, i - 1, x, P)
  IN  s[CHOOSE i \in 0 .. W : 2 ^ i > x - 1].z

(* a / b: b to the power p - 2.                                            *)
modp_div(a, b, P) ==
  LET z[i \in 0 .. W] ==
        IF i = 0 THEN modp_R(P.p)
        ELSE LET y  == z[i - 1]
                 y2 == modp_montymul(y, y, P)
             IN  IF Bit(P.p - 2, W - i) THEN modp_montymul(y2, b, P) ELSE y2
  IN  modp_montymul(a, modp_montymul(z[W], 1, P), P)

----------------------------------------------------------------------------
(* The transform.                                                          *)

(* Bit reversal of MaxLogn bits (10 in the code).                          *)
REV10 ==
  Array(MaxN, LAMBDA i :
    LET r[k \in 0 .. MaxLogn] == IF k = 0 THEN 0 ELSE
          (2 * r[k - 1]) + ((i \div 2 ^ (k - 1)) % 2)
    IN  r[MaxLogn])

(* Tables of the powers of g and 1/g, in bit-reversed order.               *)
modp_mkgm2(logn, g0, P) ==
  LET n == 2 ^ logn
      k == MaxLogn - logn
      Powers(x) == LET r[i \in 0 .. n - 1] == IF i = 0 THEN modp_R(P.p)
                                              ELSE modp_montymul(r[i - 1], x, P)
                   IN  r
      At(pw) == Array(n, LAMBDA v :
                  pw[CHOOSE u \in 0 .. n - 1 : REV10[u * 2 ^ k] = v])
      Both(g) == [gm |-> At(Powers(g)), igm |-> At(Powers(modp_div(P.R2, g, P)))]
      r[i \in 0 .. k] == IF i = 0 THEN modp_montymul(g0, P.R2, P) ELSE
                           LET y == r[i - 1] IN modp_montymul(y, y, P)
  IN  Both(r[k])

(* What precedes any work modulo the prime r of PRIMES.                    *)
SetUp(r) ==
  LET P1 == [p |-> r.p, s |-> r.s, p0i |-> modp_ninv31(r.p)]
      P2 == [R2 |-> modp_R2(P1)] @@ P1
  IN  [gm |-> Array(MaxLogn + 1, LAMBDA logn : modp_mkgm2(logn, r.g, P2))] @@ P2

PrimeTable == Array(NumPrimes, LAMBDA u : SetUp(PRIMES[u]))

ASSUME PrimeAssumption == Prime = PrimeTable

(* Stage k of the loop has 2^(k-1) groups of t.                            *)
NTTStage(b, m, t, w, P, logn) ==
  Array(2 ^ logn, LAMBDA j :
    IF j % t < t \div 2
    THEN modp_add(b[j], modp_montymul(b[j + t \div 2], w[m + j \div t], P), P.p)
    ELSE modp_sub(b[j - t \div 2], modp_montymul(b[j], w[m + j \div t], P), P.p))

modp_NTT2(a, P, logn) ==
  LET s[k \in 0 .. logn] ==
        IF k = 0 THEN a
        ELSE LET b == s[k - 1] IN
             NTTStage(b, 2 ^ (k - 1), 2 ^ (logn - k + 1), P.gm[logn].gm, P, logn)
  IN  s[logn]

iNTTStage(b, hm, t, w, P, logn) ==
  Array(2 ^ logn, LAMBDA j :
    IF j % (2 * t) < t
    THEN modp_add(b[j], b[j + t], P.p)
    ELSE modp_montymul(modp_sub(b[j - t], b[j], P.p), w[hm + j \div (2 * t)], P))

modp_iNTT2(a, P, logn) ==
  LET s[k \in 0 .. logn] ==
        IF k = 0 THEN a
        ELSE LET b == s[k - 1] IN
             iNTTStage(b, 2 ^ (logn - k), 2 ^ (k - 1), P.gm[logn].igm, P, logn)
      Scaled(b) == Array(2 ^ logn, LAMBDA j : modp_montymul(b[j], 2 ^ (W - logn), P))
  IN  IF logn = 0 THEN a ELSE Scaled(s[logn])

(* From f to its field norm, both in NTT form: roots come in pairs (x, -x).*)
modp_poly_rec_res(f, P, logn) ==
  Array(2 ^ (logn - 1), LAMBDA u :
    modp_montymul(modp_montymul(f[2 * u], f[2 * u + 1], P), P.R2, P))
=============================================================================
