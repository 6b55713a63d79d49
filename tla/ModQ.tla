-------------------------------- MODULE ModQ --------------------------------
(***************************************************************************)
(* crypto/vrfy.c: arithmetic modulo q, its number-theoretic transform, and *)
(* the functions on keys and signatures built from it.                     *)
(*                                                                         *)
(* Elements are stored in 0 .. q - 1, in Montgomery form where noted: x is *)
(* kept as x*R with R = 2^RBits mod q.  Polynomials are arrays from 0.     *)
(***************************************************************************)
EXTENDS ModP

CONSTANTS
  RBits,   (* 16                                                           *)
  GMax,    (* 127: greatest coefficient complete_private accepts           *)
  NormMax  (* greatest squared norm of a signature, for each logn          *)

R   == (2 ^ RBits) % q
RR  == (R * R) % q
Q0I == CHOOSE x \in 0 .. 2 ^ RBits - 1 : (x * q + 1) % 2 ^ RBits = 0

(* q is a prime and X^MaxN + 1 has roots.                                  *)
ASSUME ModulusAssumption ==
  /\ q \in Nat /\ q % (2 * MaxN) = 1 /\ IsPrime(q)
  /\ RBits \in Nat /\ q < 2 ^ RBits

----------------------------------------------------------------------------
(* Elements.                                                               *)

(* Conditional addition of q: the operands keep the sum in range.          *)
mq_conv_small(x) == IF x < 0 THEN x + q ELSE x
mq_add(x, y)     == mq_conv_small(x + y - q)
mq_sub(x, y)     == mq_conv_small(x - y)
mq_rshift1(x)    == (x + (IF x % 2 = 1 THEN q ELSE 0)) \div 2

MqReduce(z) ==
  mq_conv_small((z + ((z * Q0I) % 2 ^ RBits) * q) \div 2 ^ RBits - q)
mq_montymul(x, y) == MqReduce(x * y)

(* x / y: y^(q - 2), here by square and multiply.  0 when y is 0.          *)
mq_div_12289(x, y) ==
  LET y0 == mq_montymul(y, RR)
      z[i \in 0 .. RBits] ==
        IF i = 0 THEN R
        ELSE LET z1 == z[i - 1]
                 z2 == mq_montymul(z1, z1)
             IN  IF Bit(q - 2, RBits - i) THEN mq_montymul(z2, y0) ELSE z2
  IN  mq_montymul(z[RBits], x)

(* The tables GMb and iGMb: R * g^rev(x) and R * (1/g)^rev(x).             *)
PowersTable(x) ==
  LET pw[i \in 0 .. MaxN] == IF i = 0 THEN R ELSE (pw[i - 1] * x) % q
  IN  Array(MaxN, LAMBDA i : pw[REV10[i]])
GMb  == PowersTable(Root(q))
iGMb == PowersTable(CHOOSE x \in 1 .. q - 1 : (x * Root(q)) % q = 1)

----------------------------------------------------------------------------
(* The transform and polynomials.                                          *)

MqStage(b, m, t, n) ==
  Array(n, LAMBDA j :
    IF j % t < t \div 2
    THEN mq_add(b[j], mq_montymul(b[j + t \div 2], GMb[m + j \div t]))
    ELSE mq_sub(b[j - t \div 2], mq_montymul(b[j], GMb[m + j \div t])))

mq_NTT(a, logn) ==
  LET s[k \in 0 .. logn] ==
        IF k = 0 THEN a
        ELSE LET b == s[k - 1] IN MqStage(b, 2 ^ (k - 1), 2 ^ (logn - k + 1), 2 ^ logn)
  IN  s[logn]

MqStageBack(b, hm, t, n) ==
  Array(n, LAMBDA j :
    IF j % (2 * t) < t
    THEN mq_add(b[j], b[j + t])
    ELSE mq_montymul(mq_sub(b[j - t], b[j]), iGMb[hm + j \div (2 * t)]))

(* 1/n in Montgomery form, from R by logn halvings.                        *)
InverseOfN(logn) ==
  LET ni[k \in 0 .. logn] == IF k = 0 THEN R ELSE LET r == ni[k - 1] IN mq_rshift1(r)
  IN  ni[logn]

mq_iNTT(a, logn) ==
  LET s[k \in 0 .. logn] ==
        IF k = 0 THEN a
        ELSE LET b == s[k - 1] IN MqStageBack(b, 2 ^ (logn - k), 2 ^ (k - 1), 2 ^ logn)
      Scaled(b) == Array(2 ^ logn, LAMBDA j : mq_montymul(b[j], InverseOfN(logn)))
  IN  Scaled(s[logn])

mq_poly_tomonty(f, logn)         == Array(2 ^ logn, LAMBDA u : mq_montymul(f[u], RR))
mq_poly_montymul_ntt(f, g, logn) == Array(2 ^ logn, LAMBDA u : mq_montymul(f[u], g[u]))
mq_poly_sub(f, g, logn)          == Array(2 ^ logn, LAMBDA u : mq_sub(f[u], g[u]))

to_ntt_monty(h, logn) == mq_poly_tomonty(mq_NTT(h, logn), logn)

(* A polynomial of small integers, in NTT form.                            *)
SmallNTT(a, logn) ==
  mq_NTT(Array(2 ^ logn, LAMBDA u : mq_conv_small(a[u])), logn)

Divide(a, b, logn)  == Array(2 ^ logn, LAMBDA u : mq_div_12289(a[u], b[u]))
NonZero(a)          == \A u \in DOMAIN a : a[u] # 0

----------------------------------------------------------------------------
(* Keys.  A function that may fail returns a set: its result, or nothing.  *)

compute_public(f, g, logn) ==
  IF NonZero(SmallNTT(f, logn))
  THEN {mq_iNTT(Divide(SmallNTT(g, logn), SmallNTT(f, logn), logn), logn)}
  ELSE {}

(* Deliberate bug, for the runs' mutants: g*F is left divided by R.        *)
ForgetMonty(f, g, F, logn) ==
  {mq_iNTT(Divide(mq_poly_montymul_ntt(SmallNTT(g, logn), SmallNTT(F, logn), logn),
                  SmallNTT(f, logn), logn), logn)}

(* g*F/f modulo q.                                                         *)
QuotientGF(f, g, F, logn) ==
  IF NonZero(SmallNTT(f, logn))
  THEN {mq_iNTT(Divide(mq_poly_montymul_ntt(mq_poly_tomonty(SmallNTT(g, logn), logn),
                                            SmallNTT(F, logn), logn),
                       SmallNTT(f, logn), logn), logn)}
  ELSE {}

(* From q >> 1 on, an element stands for a negative coefficient.           *)
complete_private(f, g, F, logn) ==
  LET Centred(a) == Array(2 ^ logn, LAMBDA u : IF a[u] >= q \div 2 THEN a[u] - q ELSE a[u])
  IN  {G \in {Centred(a) : a \in QuotientGF(f, g, F, logn)} :
         \A u \in DOMAIN G : G[u] \in -GMax .. GMax}

----------------------------------------------------------------------------
(* Signatures.                                                             *)

SqNorm(a, logn) ==
  LET s[u \in 0 .. 2 ^ logn] == IF u = 0 THEN 0 ELSE s[u - 1] + a[u - 1] * a[u - 1]
  IN  s[2 ^ logn]
is_short(s1, s2, logn) == SqNorm(s1, logn) + SqNorm(s2, logn) <= NormMax[logn]

(* Above q >> 1, an element stands for a negative coefficient.             *)
Normalize(a, logn) ==
  Array(2 ^ logn, LAMBDA u : IF a[u] > q \div 2 THEN a[u] - q ELSE a[u])

(* h in NTT and Montgomery form; -s1 = s2*h - c0 is recomputed.            *)
verify_raw(c0, s2, h, logn) ==
  is_short(Normalize(mq_poly_sub(mq_iNTT(mq_poly_montymul_ntt(
             SmallNTT(s2, logn), h, logn), logn), c0, logn), logn),
           s2, logn)

is_invertible(s2, logn) == NonZero(SmallNTT(s2, logn))

count_nttzero(sig, logn) ==
  LET a == SmallNTT(sig, logn)
      s[u \in 0 .. 2 ^ logn] == IF u = 0 THEN 0 ELSE s[u - 1] + (IF a[u - 1] = 0 THEN 1 ELSE 0)
  IN  s[2 ^ logn]

(* (c0 - s1) / s2 in NTT form, and whether the signature is acceptable.    *)
RecoveredNTT(c0, s1, s2, logn) ==
  Divide(mq_NTT(Array(2 ^ logn, LAMBDA u : mq_sub(c0[u], mq_conv_small(s1[u]))), logn),
         SmallNTT(s2, logn), logn)
Recoverable(s1, s2, logn) == NonZero(SmallNTT(s2, logn)) /\ is_short(s1, s2, logn)

verify_recover(c0, s1, s2, logn) ==
  [h |-> mq_iNTT(RecoveredNTT(c0, s1, s2, logn), logn), ok |-> Recoverable(s1, s2, logn)]

(* The public key stays in NTT form.                                       *)
verify_recover_epervier(c0, s1, s2, logn) ==
  [h |-> RecoveredNTT(c0, s1, s2, logn), ok |-> Recoverable(s1, s2, logn)]

(* The inverse of the product of the NTT coefficients of s2.               *)
hint_epervier(s2, logn) ==
  LET a == mq_poly_tomonty(SmallNTT(s2, logn), logn)
      hint[u \in 0 .. 2 ^ logn] ==
        IF u = 0 THEN 1 ELSE LET x == hint[u - 1] IN mq_montymul(x, a[u - 1])
  IN  mq_div_12289(1, hint[2 ^ logn])
=============================================================================
