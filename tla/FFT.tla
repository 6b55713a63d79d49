--------------------------------- MODULE FFT ---------------------------------
(***************************************************************************)
(* The fast Fourier transform of crypto/fft.c and its operators on         *)
(* transformed polynomials.                                                *)
(*                                                                         *)
(* Abstraction: exact arithmetic.  Instead of double-precision numbers,    *)
(* the reals are the integers modulo a prime p that is 3 modulo 4 and has  *)
(* a root of unity w, so that the complex numbers are the field of p^2     *)
(* elements and conjugation has its usual laws.  Every identity between    *)
(* rational expressions of the inputs can be observed there; order and     *)
(* rounding errors cannot.                                                 *)
(*                                                                         *)
(* An array has the layout of the code: of n = 2^logn reals, the real      *)
(* parts of n/2 complex numbers come first and the imaginary parts follow. *)
(***************************************************************************)
EXTENDS Integers, FiniteSets, TLC

CONSTANTS
  q,         (* 12289                                                      *)
  MaxLogn,   (* largest degree: 10                                         *)
  p,         (* stands for the reals                                       *)
  w          (* exp(i*pi/N) for the largest N                              *)

MaxN == 2 ^ MaxLogn

Array(n, Element(_)) == [i \in 0 .. n - 1 |-> Element(i)] @@ << >>

----------------------------------------------------------------------------
(* Reals.                                                                  *)

fpr_of(i)     == i % p
fpr_add(x, y) == (x + y) % p
fpr_sub(x, y) == (x - y) % p
fpr_neg(x)    == (-x) % p
fpr_mul(x, y) == (x * y) % p

Bits == CHOOSE k \in 1 .. 15 : 2 ^ k > p /\ 2 ^ (k - 1) <= p

(* x to the power p - 2.                                                   *)
fpr_inv(x) ==
  LET r[k \in 0 .. Bits] == IF k = Bits THEN 1 ELSE
        LET h == r[k + 1] IN
        (((h * h) % p) * (IF ((p - 2) \div 2 ^ k) % 2 = 1 THEN x ELSE 1)) % p
  IN  r[0]

half         == fpr_inv(2)
fpr_half(x)  == fpr_mul(x, half)
fpr_inverse_of_q == fpr_inv(q)

(* The integer of least absolute value.                                    *)
fpr_rint(x) == IF 2 * x > p THEN x - p ELSE x

(* 2/n for each logn.                                                      *)
fpr_p2_tab == Array(MaxLogn + 1, LAMBDA logn : fpr_mul(2, fpr_inv(2 ^ logn)))

----------------------------------------------------------------------------
(* Complex numbers.                                                        *)

FPC_ADD(x, y) == [re |-> fpr_add(x.re, y.re), im |-> fpr_add(x.im, y.im)]
FPC_SUB(x, y) == [re |-> fpr_sub(x.re, y.re), im |-> fpr_sub(x.im, y.im)]
FPC_MUL(x, y) == [re |-> ((x.re * y.re) - (x.im * y.im)) % p,
                  im |-> ((x.re * y.im) + (x.im * y.re)) % p]
Conj(x)       == [re |-> x.re, im |-> fpr_neg(x.im)]
FPC_HALF(x)   == [re |-> fpr_half(x.re), im |-> fpr_half(x.im)]
AbsSqr(x)     == ((x.re * x.re) + (x.im * x.im)) % p
Scale(x, c)   == [re |-> fpr_mul(x.re, c), im |-> fpr_mul(x.im, c)]
Real(x)       == [re |-> x, im |-> 0]
FPC_DIV(x, y) == Scale(FPC_MUL(x, Conj(y)), fpr_inv(AbsSqr(y)))

(* w^rev(k): one table, in bit-reversed order, serves every degree.        *)
fpr_gm_tab ==
  LET pw[e \in 0 .. MaxN] == IF e = 0 THEN Real(1) ELSE FPC_MUL(pw[e - 1], w)
      rev(k) == LET r[b \in 0 .. MaxLogn] == IF b = 0 THEN 0 ELSE
                      (2 * r[b - 1]) + ((k \div 2 ^ (b - 1)) % 2)
                IN  r[MaxLogn]
  IN  Array(MaxN, LAMBDA k : pw[rev(k)])

fpr_invsqrt2 == fpr_gm_tab[2].re
fpr_invsqrt8 == fpr_half(fpr_invsqrt2)

ASSUME RootAssumption ==
  /\ p % 4 = 3 /\ AbsSqr(w) = 1 /\ MaxLogn \in Nat \ {0}
  /\ fpr_gm_tab[1] = [re |-> 0, im |-> 1]
  /\ MaxN > 2 => (2 * fpr_invsqrt2 * fpr_invsqrt2) % p = 1

----------------------------------------------------------------------------
(* Between n reals and n/2 complex numbers.                                *)

Load(a, hn) == Array(hn, LAMBDA u : [re |-> a[u], im |-> a[u + hn]])
Store(c, hn) == Array(2 * hn, LAMBDA u : IF u < hn THEN c[u].re ELSE c[u - hn].im)

(* Stage u of the loop: 2^(u-1) groups of t, m = 2^u.                      *)
FFTStage(c, m, t, hn) ==
  Array(hn, LAMBDA j :
    LET s == fpr_gm_tab[m + (j \div t)] IN
    IF j % t < t \div 2 THEN FPC_ADD(c[j], FPC_MUL(c[j + (t \div 2)], s))
                        ELSE FPC_SUB(c[j - (t \div 2)], FPC_MUL(c[j], s)))

(* The first stage is a no-op in this layout.                              *)
Transform(f, logn) ==
  LET hn == 2 ^ (logn - 1)
      c[u \in 0 .. logn - 1] ==
        IF u = 0 THEN Load(f, hn)
        ELSE LET b == c[u - 1] IN FFTStage(b, 2 ^ u, 2 ^ (logn - u), hn)
  IN  IF logn = 0 THEN f ELSE Store(c[logn - 1], hn)

iFFTStage(c, hm, t, hn) ==
  Array(hn, LAMBDA j :
    IF j % (2 * t) < t
    THEN FPC_ADD(c[j], c[j + t])
    ELSE FPC_MUL(FPC_SUB(c[j - t], c[j]), Conj(fpr_gm_tab[hm + (j \div (2 * t))])))

(* So is the last one, which leaves n/2 to divide by.                      *)
iFFT(f, logn) ==
  LET hn == 2 ^ (logn - 1)
      c[u \in 0 .. logn - 1] ==
        IF u = 0 THEN Load(f, hn)
        ELSE LET b == c[u - 1] IN iFFTStage(b, 2 ^ (logn - u), 2 ^ (u - 1), hn)
      r == Store(c[logn - 1], hn)
  IN  IF logn = 0 THEN f
      ELSE Array(2 ^ logn, LAMBDA j : fpr_mul(r[j], fpr_p2_tab[logn]))

----------------------------------------------------------------------------
(* Operators.                                                              *)

(* Complex number u of the result.                                         *)
PointWise(logn, C(_)) ==
  LET hn == 2 ^ (logn - 1) IN Store(Array(hn, C), hn)

At(a, u, logn) == [re |-> a[u], im |-> a[u + 2 ^ (logn - 1)]]

poly_add(a, b) == Array(Cardinality(DOMAIN a), LAMBDA u : fpr_add(a[u], b[u]))
poly_sub(a, b) == Array(Cardinality(DOMAIN a), LAMBDA u : fpr_sub(a[u], b[u]))
poly_neg(a)    == Array(Cardinality(DOMAIN a), LAMBDA u : fpr_neg(a[u]))
poly_mulconst(a, x) == Array(Cardinality(DOMAIN a), LAMBDA u : fpr_mul(a[u], x))

poly_adj_fft(a, logn) ==
  Array(2 ^ logn, LAMBDA u : IF u < 2 ^ (logn - 1) THEN a[u] ELSE fpr_neg(a[u]))

poly_mul_fft(a, b, logn) ==
  PointWise(logn, LAMBDA u : FPC_MUL(At(a, u, logn), At(b, u, logn)))

poly_muladj_fft(a, b, logn) ==
  PointWise(logn, LAMBDA u : FPC_MUL(At(a, u, logn), Conj(At(b, u, logn))))

poly_mulselfadj_fft(a, logn) ==
  PointWise(logn, LAMBDA u : Real(AbsSqr(At(a, u, logn))))

(* Deliberate bug: the second polynomial is left out.                      *)
NormOfFirst(a, b, logn) ==
  Array(2 ^ (logn - 1), LAMBDA u : fpr_inv(AbsSqr(At(a, u, logn))))

(* 1/(a*adj(a) + b*adj(b)): n/2 reals.                                     *)
poly_invnorm2_fft(a, b, logn) ==
  Array(2 ^ (logn - 1), LAMBDA u :
    fpr_inv(fpr_add(AbsSqr(At(a, u, logn)), AbsSqr(At(b, u, logn)))))

(* b is such a half array.                                                 *)
poly_mul_autoadj_fft(a, b, logn) ==
  PointWise(logn, LAMBDA u : Scale(At(a, u, logn), b[u]))

(* Of the matrix [[g00, g01], [adj(g01), g11]]: d00 is g00.                *)
poly_LDL_fft(g00, g01, g11, logn) ==
  LET mu == Array(2 ^ (logn - 1), LAMBDA u : FPC_DIV(At(g01, u, logn), At(g00, u, logn)))
  IN  [d11 |-> PointWise(logn, LAMBDA u :
                 FPC_SUB(At(g11, u, logn), FPC_MUL(mu[u], Conj(At(g01, u, logn))))),
       l10 |-> PointWise(logn, LAMBDA u : Conj(mu[u]))]

(* Deliberate bug: the root itself and not its inverse.                    *)
SplitWithRoot(f, logn) ==
  LET hn == 2 ^ (logn - 1)
      qn == hn \div 2
      D(u) == FPC_SUB(At(f, 2 * u, logn), At(f, 2 * u + 1, logn))
  IN  IF logn = 1 THEN <<Array(1, LAMBDA u : f[0]), Array(1, LAMBDA u : f[hn])>>
      ELSE <<PointWise(logn - 1, LAMBDA u :
               FPC_HALF(FPC_ADD(At(f, 2 * u, logn), At(f, 2 * u + 1, logn)))),
             PointWise(logn - 1, LAMBDA u : FPC_HALF(FPC_MUL(D(u), fpr_gm_tab[u + hn])))>>

(* f = f0(x^2) + x*f1(x^2), on transforms: <<f0, f1>>.                     *)
poly_split_fft(f, logn) ==
  LET hn == 2 ^ (logn - 1)
      Sum(u) == FPC_ADD(At(f, 2 * u, logn), At(f, 2 * u + 1, logn))
      Dif(u) == FPC_SUB(At(f, 2 * u, logn), At(f, 2 * u + 1, logn))
  IN  IF logn = 1 THEN <<Array(1, LAMBDA u : f[0]), Array(1, LAMBDA u : f[1])>>
      ELSE <<PointWise(logn - 1, LAMBDA u : FPC_HALF(Sum(u))),
             PointWise(logn - 1, LAMBDA u :
               FPC_HALF(FPC_MUL(Dif(u), Conj(fpr_gm_tab[u + hn]))))>>

poly_merge_fft(f0, f1, logn) ==
  LET hn == 2 ^ (logn - 1)
      b(u) == FPC_MUL(At(f1, u, logn - 1), fpr_gm_tab[u + hn])
  IN  IF logn = 1 THEN Array(2, LAMBDA u : IF u = 0 THEN f0[0] ELSE f1[0])
      ELSE PointWise(logn, LAMBDA u :
             IF u % 2 = 0 THEN FPC_ADD(At(f0, u \div 2, logn - 1), b(u \div 2))
                          ELSE FPC_SUB(At(f0, u \div 2, logn - 1), b(u \div 2)))
=============================================================================
