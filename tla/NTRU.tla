-------------------------------- MODULE NTRU --------------------------------
(***************************************************************************)
(* solve_NTRU of crypto/keygen.c: from short polynomials f and g to short  *)
(* F and G with f*G - g*F = q modulo X^N + 1.                              *)
(*                                                                         *)
(* The solver descends to degree 1 by field norms, solves the equation     *)
(* there (module Bezout), and comes back level by level: each level lifts  *)
(* the solution to twice the degree, which makes it long, and then reduces *)
(* it by multiples k of (f, g) until it fits its arrays again.  k is a     *)
(* floating-point approximation, and the sizes of the arrays are estimates *)
(* from statistics; only the check at the end is exact.                    *)
(*                                                                         *)
(* Abstractions.  The quotient k approximates is computed exactly and its  *)
(* rounding may be off by one in the last iteration; BITLENGTH is given as *)
(* its least and greatest estimate.  Where things lie in tmp[] is left out.*)
(***************************************************************************)
EXTENDS Zint, FiniteSets

CONSTANTS
  MAX_BL_SMALL,  (* words of a coefficient of f, g, F, G at each depth     *)
  MAX_BL_LARGE,  (* words of F and G before their reduction                *)
  MinBl, MaxBl,  (* avg -/+ 6*std of BITLENGTH at each depth               *)
  Step,          (* 25: bits gained by an iteration of the reduction       *)
  Slack,         (* 10: bits an iteration may fall short                   *)
  KBits,         (* 31: coefficients of k stay within 2^KBits - 1          *)
  RintBits,      (* 63: the same at depth 1                                *)
  DEPTH_INT_FG   (* 4: greatest depth that reduces with the NTT            *)

ASSUME ScaleAssumption ==
  /\ {q, Step, Slack, KBits, RintBits, DEPTH_INT_FG} \subseteq Nat
  /\ Step > 0
  /\ MAX_BL_SMALL[0] = 1

VARIABLES
  logn_top, f, g,  (* the arguments                                        *)
  lim,
  pc, depth,       (* where the solver is                                  *)
  ft, gt,          (* f and g of this depth                                *)
  Ft, Gt,          (* F and G of this depth                                *)
  scale_k, maxbl_FG, FGlen,  (* locals of the reduction loop               *)
  F, G,            (* the results                                          *)
  exact            (* history: every value so far fitted its array         *)

solverVars == <<logn_top, f, g, lim, pc, depth, ft, gt, Ft, Gt,
                scale_k, maxbl_FG, FGlen, F, G, exact>>
arguments  == <<logn_top, f, g, lim>>
loop       == <<scale_k, maxbl_FG, FGlen>>

logn == logn_top - depth
n    == 2 ^ logn

----------------------------------------------------------------------------
(* Polynomials over the integers, modulo X^n + 1.                          *)

Len(a) == Cardinality(DOMAIN a)
PolyMap(a, Op(_)) == Array(Len(a), LAMBDA i : Op(a[i]))

Coefficient(a, b, i, len) ==
  LET s[j \in 0 .. len] ==
        IF j = 0 THEN 0
        ELSE s[j - 1] + (IF j - 1 <= i THEN a[j - 1] * b[i - j + 1]
                         ELSE -(a[j - 1] * b[len + i - j + 1]))
  IN  s[len]
Mul(a, b) == Array(Len(a), LAMBDA i : Coefficient(a, b, i, Len(a)))

Plus(a, b)  == Array(Len(a), LAMBDA i : a[i] + b[i])
Minus(a, b) == Array(Len(a), LAMBDA i : a[i] - b[i])

(* a(1/X); a(-X); a(X^2) of twice the degree; the even coefficients.       *)
Adj(a) == Array(Len(a), LAMBDA i : IF i = 0 THEN a[0] ELSE -a[Len(a) - i])
Conjugate(a, s) ==
  Array(Len(a), LAMBDA i : IF (i \div s) % 2 = 1 THEN -a[i] ELSE a[i])
Spread(a) ==
  Array(2 * Len(a), LAMBDA i : IF i % 2 = 0 THEN a[i \div 2] ELSE 0)
Evens(a) == Array(Len(a) \div 2, LAMBDA i : a[2 * i])

Norm(a) == Evens(Mul(a, Conjugate(a, 1)))
FieldNorm(a, d) ==
  LET r[i \in 0 .. d] == IF i = 0 THEN a ELSE LET b == r[i - 1] IN Norm(b)
  IN  r[d]

(* A fraction of polynomials with an integer as denominator: both parts    *)
(* are multiplied by the conjugates of the denominator.                    *)
TimesConjugate(t, s) ==
  IF \A j \in DOMAIN t.den \ {0} : t.den[j] = 0 THEN t
  ELSE [num |-> Mul(t.num, Conjugate(t.den, s)), den |-> Mul(t.den, Conjugate(t.den, s))]
Quotient(num, den, lg) ==
  LET r[i \in 0 .. lg] == IF i = 0 THEN [num |-> num, den |-> den]
                          ELSE LET t == r[i - 1] IN TimesConjugate(t, 2 ^ (i - 1))
  IN  r[lg]

Rounded(t) == PolyMap(t.num, LAMBDA v : (2 * v + t.den[0]) \div (2 * t.den[0]))

(* (F*adj(f) + G*adj(g)) / (f*adj(f) + g*adj(g)) / 2^sc, rounded: what the *)
(* floating-point code of the levels computes.                             *)
Babai(sc) ==
  PolyMap(Rounded(Quotient(Plus(Mul(Ft, Adj(ft)), Mul(Gt, Adj(gt))),
                           Plus(Mul(ft, Adj(ft)), Mul(gt, Adj(gt))), logn)),
          LAMBDA v : IF sc = 0 THEN v ELSE (v + 2 ^ (sc - 1)) \div 2 ^ sc)

(* The approximations k may take: the first coefficient may be off by one  *)
(* when nothing is scaled.                                                 *)
OffByOne(k) == {k, Array(Len(k), LAMBDA i : IF i = 0 THEN k[0] + 1 ELSE k[i])}
Approximations(sc) == IF sc = 0 THEN OffByOne(Babai(0)) ELSE {Babai(sc)}

(* Every coefficient has room in len signed words.                         *)
Fits(a, len) ==
  \A i \in DOMAIN a : a[i] \in -(2 ^ (W * len - 1)) .. 2 ^ (W * len - 1) - 1

PrimesProduct(len) ==
  LET m[u \in 0 .. len] == IF u = 0 THEN 1 ELSE m[u - 1] * Prime[u - 1].p IN m[len]

FitsPrimes(a, len) ==
  \A i \in DOMAIN a : 2 * a[i] < PrimesProduct(len) /\ -2 * a[i] < PrimesProduct(len)

----------------------------------------------------------------------------
(* f and g of a depth, as residues.                                        *)

(* One halving of the degree: residues modulo the primes of the source are *)
(* multiplied in pairs, those modulo further primes come from the rebuilt  *)
(* integers.                                                               *)
Plain(rows, len, in_ntt, lg) ==
  RebuildPoly(Array(len, LAMBDA u : IF in_ntt THEN modp_iNTT2(rows[u], Prime[u], lg)
                                    ELSE rows[u]), len, lg, TRUE)

(* Row u in NTT form, whether or not rows has it.                          *)
RowInNTT(rows, u, len, in_ntt, lg) ==
  IF u < len /\ in_ntt THEN rows[u]
  ELSE modp_NTT2(IF u < len THEN rows[u]
                 ELSE ModPoly(Plain(rows, len, in_ntt, lg), len, Prime[u], lg), Prime[u], lg)

make_fg_step(rows, lg, d, in_ntt, out_ntt) ==
  LET Out(fd, P) == IF out_ntt THEN fd ELSE modp_iNTT2(fd, P, lg - 1)
  IN  Array(MAX_BL_SMALL[d + 1], LAMBDA u :
        Out(modp_poly_rec_res(RowInNTT(rows, u, MAX_BL_SMALL[d], in_ntt, lg), Prime[u], lg),
            Prime[u]))

make_fg(a, lg, d, out_ntt) ==
  LET r[i \in 0 .. d] ==
        IF i = 0 THEN Array(1, LAMBDA u :
                        IF d = 0 /\ out_ntt THEN NTTOf(a, Prime[u], lg)
                        ELSE PolyMap(a, LAMBDA v : modp_set(v, Prime[u].p)))
        ELSE LET rows == r[i - 1] IN
             make_fg_step(rows, lg - (i - 1), i - 1, i - 1 # 0, i < d \/ out_ntt)
  IN  r[d]

(* The same modulo one prime at once from the top, as depth 1 does.        *)
RecRes(a, P, d) ==
  LET r[i \in 0 .. d] == IF i = 0 THEN NTTOf(a, P, logn_top)
                         ELSE LET b == r[i - 1] IN
                              modp_poly_rec_res(b, P, logn_top - (i - 1))
  IN  r[d]

----------------------------------------------------------------------------
(* The deepest level.                                                      *)

Failed ==
  /\ pc' = "failed"
  /\ UNCHANGED <<arguments, depth, ft, gt, Ft, Gt, loop, F, G, exact>>

(* The resultants, never negative.                                         *)
Resultant(a) ==
  RebuildPoly(make_fg(a, logn_top, logn_top, FALSE), MAX_BL_SMALL[logn_top], 0, FALSE)[0]

Coprime(x, y) == x > 0 /\ y > 0 /\ ~\E d \in 2 .. x : x % d = 0 /\ y % d = 0

(* The cofactors zint_bezout returns, each reduced by itself: x*u - y*v = 1*)
(* unless y is 1 (module Bezout).                                          *)
Cofactors(x, y) ==
  [u |-> CHOOSE u \in 0 .. y - 1 : (x * u - 1) % y = 0,
   v |-> CHOOSE v \in 0 .. x - 1 : (y * v + 1) % x = 0]

(* The GCD runs on odd operands: x + y takes the place of an even one.     *)
OneEven(x, y) == x % 2 # y % 2
OddCofactors(x, y) ==
  IF OneEven(x, y) THEN IF x % 2 = 1 THEN Cofactors(x, x + y) ELSE Cofactors(x + y, y)
  ELSE Cofactors(x, y)

(* Its result mapped back to x and y.                                      *)
DeepestPair(x, y) ==
  LET c == OddCofactors(x, y)
  IN  CASE ~OneEven(x, y) -> c
        [] OneEven(x, y) /\ x % 2 = 1 -> [u |-> c.u + y - c.v, v |-> c.v + x]
        [] OneEven(x, y) /\ y % 2 = 1 -> [u |-> c.u + y, v |-> c.v + x - c.u]

DeepestWords == MAX_BL_SMALL[logn_top]
HasRoom(v)   == v < 2 ^ (W * DeepestWords)

(* Sums and products that leave their arrays end the attempt.              *)
DeepestSolvable(x, y) ==
  /\ x % 2 = 1 \/ y % 2 = 1
  /\ Coprime(x, y)
  /\ OneEven(x, y) => LET c == OddCofactors(x, y)
                      IN  HasRoom(x + y) /\ HasRoom(c.u + y) /\ HasRoom(c.v + x)
  /\ LET c == DeepestPair(x, y) IN HasRoom(q * c.u) /\ HasRoom(q * c.v)

DeepestSolution(x, y, c) ==
  LET One(v) == Array(1, LAMBDA i : v)
  IN  /\ ft' = One(x) /\ gt' = One(y)
      /\ Ft' = One(Wrap(q * c.v, DeepestWords))
      /\ Gt' = One(Wrap(q * c.u, DeepestWords))
      /\ exact' = /\ x = FieldNorm(f, logn_top)[0]
                  /\ y = FieldNorm(g, logn_top)[0]
                  /\ y # 1
                  /\ Ft' = One(q * c.v) /\ Gt' = One(q * c.u)

solve_NTRU_deepest ==
  /\ pc = "deepest"
  /\ \E x \in {Resultant(f)}, y \in {Resultant(g)} :
       /\ DeepestSolvable(x, y)
       /\ DeepestSolution(x, y, DeepestPair(x, y))
  /\ depth' = logn_top
  /\ pc' = "lift"
  /\ UNCHANGED <<arguments, loop, F, G>>

DeepestFails ==
  /\ pc = "deepest"
  /\ ~DeepestSolvable(Resultant(f), Resultant(g))
  /\ Failed

----------------------------------------------------------------------------
(* One level up.                                                           *)

(* Modulo p: with f(x) and f(-x) next to each other in NTT form, F is      *)
(* F'(x^2) * g(-x) and G is G'(x^2) * f(-x).                               *)
CrossProduct(Fd, gx, P, lg) ==
  LET Other(v) == IF v % 2 = 0 THEN v + 1 ELSE v - 1
      Of(Fp) == modp_iNTT2(Array(2 ^ lg, LAMBDA v :
                  modp_montymul(gx[Other(v)], modp_montymul(Fp[v \div 2], P.R2, P), P)),
                  P, lg)
  IN  Of(modp_NTT2(Fd, P, lg - 1))

(* What F and G of depth d are before their reduction, as integers.        *)
Lifted(Fd, g1) == Mul(Spread(Fd), Conjugate(g1, 1))

(* Is there a further level above, and which function handles it?          *)
Handler(d) == IF logn_top <= 2 \/ d >= 2 THEN "intermediate"
              ELSE IF d = 1 THEN "depth1" ELSE "depth0"

(* F and G of depth d from those below, f and g being given by residues in *)
(* NTT form modulo llen primes: the first half of either function.         *)
LiftTo(d, fRow, gRow) ==
  LET lg   == logn_top - d
      slen == MAX_BL_SMALL[d]
      dlen == MAX_BL_SMALL[d + 1]
      llen == MAX_BL_LARGE[d]
      Cross(Fd, row) ==
        RebuildPoly(Array(llen, LAMBDA u :
                      CrossProduct(ModPoly(Fd, dlen, Prime[u], lg - 1), row[u], Prime[u], lg)),
                    llen, lg, TRUE)
  IN  /\ ft' = Plain(fRow, slen, TRUE, lg) /\ gt' = Plain(gRow, slen, TRUE, lg)
      /\ Ft' = Cross(Ft, gRow) /\ Gt' = Cross(Gt, fRow)
      /\ exact' = /\ exact
                  /\ FitsPrimes(FieldNorm(f, d), slen) /\ FitsPrimes(FieldNorm(g, d), slen)
                  /\ FitsPrimes(Lifted(Ft, FieldNorm(g, d)), llen)
                  /\ FitsPrimes(Lifted(Gt, FieldNorm(f, d)), llen)
      /\ depth' = d
      /\ FGlen' = llen
      /\ pc' = "reduce"
      /\ UNCHANGED <<arguments, F, G>>

(* solve_NTRU_intermediate: residues modulo the primes past slen come from *)
(* the rebuilt integers.                                                   *)
AllRows(rows, d) ==
  Array(MAX_BL_LARGE[d], LAMBDA u : RowInNTT(rows, u, MAX_BL_SMALL[d], TRUE, logn_top - d))

LiftIntermediate ==
  /\ pc = "lift" /\ depth > 0
  /\ Handler(depth - 1) = "intermediate"
  /\ LiftTo(depth - 1,
            AllRows(make_fg(f, logn_top, depth - 1, TRUE), depth - 1),
            AllRows(make_fg(g, logn_top, depth - 1, TRUE), depth - 1))
  /\ maxbl_FG' = W * MAX_BL_LARGE[depth - 1]
  /\ scale_k' = W * MAX_BL_LARGE[depth - 1] - MinBl[depth - 1]

(* solve_NTRU_binary_depth1: all residues come from f and g themselves.    *)
LiftDepth1 ==
  /\ pc = "lift" /\ depth > 0
  /\ Handler(depth - 1) = "depth1"
  /\ LiftTo(1, Array(MAX_BL_LARGE[1], LAMBDA u : RecRes(f, Prime[u], 1)),
               Array(MAX_BL_LARGE[1], LAMBDA u : RecRes(g, Prime[u], 1)))
  /\ scale_k' = 0
  /\ UNCHANGED maxbl_FG

(* A coefficient of k that is out of bounds ends the attempt.  The test is *)
(* made before rounding: what rounds to the bound may lie on either side.  *)
Bound == 2 ^ (IF Handler(depth) = "depth1" THEN RintBits ELSE KBits) - 1
Within(k, m) == \A i \in DOMAIN k : k[i] \in -m .. m
InBounds(k)  == Within(k, Bound)

ReduceFails ==
  /\ pc = "reduce"
  /\ ~Within(Babai(scale_k), Bound - 1)
  /\ Failed

(* One iteration of the reduction loop: subtract k*(f, g)*2^scale_k, then  *)
(* lower the estimates, the length and the scale; after the unscaled       *)
(* iteration the solution is cut to slen words.                            *)
SubScaled(a, b, k) ==
  IF depth <= DEPTH_INT_FG
  THEN poly_sub_scaled_ntt(a, FGlen, b, MAX_BL_SMALL[depth], k, scale_k, logn)
  ELSE poly_sub_scaled(a, FGlen, b, k, scale_k, logn)

Reduced(a, b, k) == Minus(a, PolyMap(Mul(k, b), LAMBDA v : v * 2 ^ scale_k))

ReduceIntermediate ==
  /\ pc = "reduce"
  /\ Handler(depth) = "intermediate"
  /\ \E k \in Approximations(scale_k) :
       LET slen  == MAX_BL_SMALL[depth]
           bl    == scale_k + MaxBl[depth] + Slack
           len   == IF bl < maxbl_FG /\ FGlen * W >= bl + W THEN FGlen - 1 ELSE FGlen
           last  == scale_k <= 0
           kept  == IF last /\ slen < len THEN slen ELSE len
       IN  /\ InBounds(k)
           /\ Ft' = PolyMap(SubScaled(Ft, ft, k), LAMBDA v : Wrap(v, kept))
           /\ Gt' = PolyMap(SubScaled(Gt, gt, k), LAMBDA v : Wrap(v, kept))
           /\ exact' = /\ exact
                       /\ FitsPrimes(Mul(k, ft), slen + 1) /\ FitsPrimes(Mul(k, gt), slen + 1)
                       /\ Fits(Reduced(Ft, ft, k), kept) /\ Fits(Reduced(Gt, gt, k), kept)
           /\ maxbl_FG' = IF bl < maxbl_FG THEN bl ELSE maxbl_FG
           /\ FGlen' = len
           /\ scale_k' = IF scale_k > Step THEN scale_k - Step ELSE 0
           /\ pc' = IF last THEN "lift" ELSE "reduce"
  /\ UNCHANGED <<arguments, depth, ft, gt, F, G>>

(* Depth 1: a single pass in floating point, and one machine word each.    *)
ReduceDepth1 ==
  /\ pc = "reduce"
  /\ Handler(depth) = "depth1"
  /\ \E k \in Approximations(0) :
       LET OneWord(a) == PolyMap(a, zint_one_to_plain)
       IN  /\ InBounds(k)
           /\ Ft' = OneWord(Reduced(Ft, ft, k)) /\ Gt' = OneWord(Reduced(Gt, gt, k))
           /\ exact' = (exact /\ Ft' = Reduced(Ft, ft, k) /\ Gt' = Reduced(Gt, gt, k))
  /\ pc' = "lift"
  /\ UNCHANGED <<arguments, depth, ft, gt, loop, F, G>>

----------------------------------------------------------------------------
(* The top level, modulo the first prime only.                             *)

P0 == Prime[0]

SetP(a)  == PolyMap(a, LAMBDA v : modp_set(v, P0.p))
NormP(a) == PolyMap(a, LAMBDA v : modp_norm(v, P0.p))
NTTP(a)  == NTTOf(a, P0, logn_top)
MulP(a, b) == NTTProduct(a, b, P0, logn_top)
AddP(a, b) == Array(2 ^ logn_top, LAMBDA v : modp_add(a[v], b[v], P0.p))
SubP(a, b) == Array(2 ^ logn_top, LAMBDA v : modp_sub(a[v], b[v], P0.p))
InnerP(a, b, c, d) == AddP(MulP(NTTP(a), NTTP(Adj(b))), MulP(NTTP(c), NTTP(Adj(d))))

solve_NTRU_binary_depth0 ==
  /\ pc = "lift" /\ depth > 0
  /\ Handler(depth - 1) = "depth0"
  /\ LET Half(a) == SetP(PolyMap(a, zint_one_to_plain))
     IN  \E F0 \in {CrossProduct(Half(Ft), NTTP(g), P0, logn_top)},
            G0 \in {CrossProduct(Half(Gt), NTTP(f), P0, logn_top)} :
         \E k \in OffByOne(Rounded(Quotient(NormP(InnerP(F0, f, G0, g)),
                                            NormP(InnerP(f, f, g, g)), logn_top))) :
           /\ Ft' = NormP(SubP(F0, MulP(NTTP(k), NTTP(f))))
           /\ Gt' = NormP(SubP(G0, MulP(NTTP(k), NTTP(g))))
           /\ exact' = /\ exact
                       /\ Ft' = Minus(Lifted(Ft, g), Mul(k, f))
                       /\ Gt' = Minus(Lifted(Gt, f), Mul(k, g))
  /\ ft' = f /\ gt' = g
  /\ depth' = 0
  /\ UNCHANGED <<arguments, pc, loop, F, G>>

----------------------------------------------------------------------------
(* The end of solve_NTRU: F and G have to be small, and the equation has   *)
(* to hold modulo the first prime.                                         *)

(* Deliberate bug, for the runs' mutants: no check.                        *)
TakenOnTrust(F1, G1) == TRUE

Verified(F1, G1) ==
  LET Product(a, b) == Array(2 ^ logn_top, LAMBDA v : modp_montymul(a[v], b[v], P0))
      z == SubP(Product(NTTP(f), NTTP(G1)), Product(NTTP(g), NTTP(F1)))
  IN  \A v \in DOMAIN z : z[v] = modp_montymul(q, 1, P0)

Small(a) == poly_big_to_small(a, lim, logn_top)

Acceptable == \E F1 \in Small(Ft), G1 \in Small(Gt) : Verified(F1, G1)

Finish ==
  /\ pc = "lift" /\ depth = 0
  /\ Acceptable
  /\ F' \in Small(Ft) /\ G' \in Small(Gt)
  /\ pc' = "solved"
  /\ UNCHANGED <<arguments, depth, ft, gt, Ft, Gt, loop, exact>>

FinishFails ==
  /\ pc = "lift" /\ depth = 0
  /\ ~Acceptable
  /\ Failed

----------------------------------------------------------------------------
(* A call of solve_NTRU.                                                   *)

Zero == Array(1, LAMBDA i : 0)

SolverIdle ==
  /\ logn_top = 0 /\ f = Zero /\ g = Zero /\ lim = 0
  /\ pc = "idle" /\ depth = 0
  /\ ft = Zero /\ gt = Zero /\ Ft = Zero /\ Gt = Zero
  /\ scale_k = 0 /\ maxbl_FG = 0 /\ FGlen = 0
  /\ F = Zero /\ G = Zero
  /\ exact = TRUE

ResetSolver ==
  /\ logn_top' = 0 /\ f' = Zero /\ g' = Zero /\ lim' = 0
  /\ pc' = "idle" /\ depth' = 0
  /\ ft' = Zero /\ gt' = Zero /\ Ft' = Zero /\ Gt' = Zero
  /\ scale_k' = 0 /\ maxbl_FG' = 0 /\ FGlen' = 0
  /\ exact' = TRUE
  /\ UNCHANGED <<F, G>>

CallSolver(lg, f1, g1, lim1) ==
  /\ logn_top' = lg /\ f' = f1 /\ g' = g1 /\ lim' = lim1
  /\ pc' = "deepest" /\ depth' = lg
  /\ UNCHANGED <<ft, gt, Ft, Gt, loop, F, G, exact>>

SolverNext ==
  \/ solve_NTRU_deepest \/ DeepestFails
  \/ LiftIntermediate \/ LiftDepth1
  \/ ReduceIntermediate \/ ReduceDepth1 \/ ReduceFails
  \/ solve_NTRU_binary_depth0
  \/ Finish \/ FinishFails
=============================================================================
