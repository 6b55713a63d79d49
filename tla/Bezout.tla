------------------------------- MODULE Bezout -------------------------------
(***************************************************************************)
(* solve_NTRU_deepest of crypto/keygen.c: the bottom of the NTRU solver.   *)
(*                                                                         *)
(* From the resultants x of f and y of g it computes big integers F and G  *)
(* with x*G - y*F = q.  The GCD it uses (zint_bezout) works on odd numbers *)
(* only, while new_keygen produces resultants of opposite parity: the even *)
(* one is replaced by the sum of the two and the cofactors are mapped back *)
(* afterwards.                                                             *)
(*                                                                         *)
(* Integers are arrays of len words of W bits (31 in the code); an array   *)
(* is modelled by its value, and a carry out of it is an overflow.         *)
(***************************************************************************)
EXTENDS Integers

CONSTANTS
  W,          (* bits per word                                             *)
  len,        (* words per integer                                         *)
  q,          (* 12289                                                     *)
  Resultants  (* values the resultants take                                *)

(* What k words hold.                                                      *)
Words(k) == 2 ^ (W * k)

Base  == 2 ^ W
Limit == Words(len)

ASSUME WordAssumption == W \in Nat \ {0, 1} /\ len \in Nat \ {0}
ASSUME qAssumption    == q \in Nat \ {0} /\ q < Base
ASSUME ResultantAssumption == Resultants \subseteq 0 .. Limit - 1

VARIABLES
  fp, gp,            (* the resultants x and y                             *)
  pc,                (* where solve_NTRU_deepest is                        *)
  x, y,              (* the operands given to zint_bezout                  *)
  a, b,              (* its remainders                                     *)
  u0, v0, u1, v1,    (* its cofactors                                      *)
  num,               (* its iteration countdown                            *)
  Gp, Fp             (* the result arrays                                  *)

vars == <<fp, gp, pc, x, y, a, b, u0, v0, u1, v1, num, Gp, Fp>>
operands == <<fp, gp, x, y>>
gcdState == <<a, b, u0, v0, u1, v1, num>>

Labels == {"start", "bezout", "combine", "scale", "solved", "failed"}

Odd(n)  == n % 2 = 1

----------------------------------------------------------------------------
(* One outer iteration of zint_bezout.                                     *)

(* The number of words in use, at least two of them where there are two:   *)
(* a_hi and b_hi are the top two words of both numbers, aligned.           *)
Shift(m, n) ==
  LET used == CHOOSE k \in 1 .. len :
                /\ m < Words(k) /\ n < Words(k)
                /\ \A j \in 1 .. k - 1 : ~(m < Words(j) /\ n < Words(j))
  IN  IF used >= 2 THEN Words(used - 2) ELSE 1

Bit(n, i) == (n \div 2 ^ i) % 2

(* Deliberate bug, for the runs' mutants: both numbers are halved.         *)
HalveBoth(s, i) ==
  LET cAB == Bit(s.al, i) = 1 /\ Bit(s.bl, i) = 1 /\ s.ah > s.bh
      d   == IF cAB THEN 1 ELSE 0
  IN  [al |-> (s.al - d * s.bl) % Base, bl |-> s.bl,
       ah |-> (s.ah - d * s.bh) \div 2, bh |-> s.bh \div 2,
       pa |-> s.pa - d * s.qa, pb |-> s.pb - d * s.qb, qa |-> s.qa, qb |-> s.qb]

(* Inner iteration i: subtract if both are odd, then halve one of the two  *)
(* (the low words are doubled on the other side instead), and record what  *)
(* was done in the factors.                                                *)
Halve(s, i) ==
  LET oa  == Bit(s.al, i) = 1
      ob  == Bit(s.bl, i) = 1
      cAB == oa /\ ob /\ s.ah > s.bh
      cBA == oa /\ ob /\ ~(s.ah > s.bh)
      cA  == cAB \/ ~oa
      da  == IF cAB THEN 1 ELSE 0
      db  == IF cBA THEN 1 ELSE 0
      (* a doubles when b is halved, and the other way round *)
      ka  == IF cA THEN 1 ELSE 2
      kb  == IF cA THEN 2 ELSE 1
  IN  [al |-> (ka * (s.al - da * s.bl)) % Base,
       bl |-> (kb * (s.bl - db * s.al)) % Base,
       ah |-> (s.ah - da * s.bh) \div (3 - ka),
       bh |-> (s.bh - db * s.ah) \div (3 - kb),
       pa |-> ka * (s.pa - da * s.qa), pb |-> ka * (s.pb - da * s.qb),
       qa |-> kb * (s.qa - db * s.pa), qb |-> kb * (s.qb - db * s.pb)]

Factors ==
  LET r[i \in 0 .. W] ==
        IF i = 0
        THEN [al |-> a % Base, bl |-> b % Base,
              ah |-> a \div Shift(a, b), bh |-> b \div Shift(a, b),
              pa |-> 1, pb |-> 0, qa |-> 0, qb |-> 1]
        ELSE Halve(r[i - 1], i - 1)
  IN  r[W]

(* -1/m mod Base, for an odd m.                                            *)
ninv(m) == CHOOSE i \in 0 .. Base - 1 : (m * i + 1) % Base = 0

(* zint_co_reduce_mod: (c0*k0 + c1*k1) / Base modulo m by a Montgomery     *)
(* step, before zint_finish_mod.                                           *)
Montgomery(c0, c1, k0, k1, m) ==
  LET z == c0 * k0 + c1 * k1 IN (z + m * ((z * ninv(m)) % Base)) \div Base

(* Deliberate bug: a negative value stays negative.                        *)
FinishModHigh(z, m) == IF z >= m THEN z - m ELSE z

FinishMod(z, m) == IF z < 0 THEN z + m ELSE IF z >= m THEN z - m ELSE z

CoReduceMod(c0, c1, k0, k1, m) == FinishMod(Montgomery(c0, c1, k0, k1, m), m)

(* Deliberate bug: the factors are not negated with the remainder.         *)
SignPlus(n) == 1

Sign(n) == IF n < 0 THEN -1 ELSE 1

(* zint_co_reduce: what replaces a number, before the negation.            *)
CoReduce(k0, k1) == (a * k0 + b * k1) \div Base

----------------------------------------------------------------------------
Init ==
  /\ fp \in Resultants /\ gp \in Resultants
  /\ pc = "start"
  /\ x = 0 /\ y = 0
  /\ a = 0 /\ b = 0
  /\ u0 = 0 /\ v0 = 0 /\ u1 = 0 /\ v1 = 0
  /\ num = 0
  /\ Gp = 0 /\ Fp = 0

(* Every "return 0" of the function.                                       *)
Fail ==
  /\ pc' = "failed"
  /\ UNCHANGED <<operands, gcdState, Gp, Fp>>

(* The even operand is replaced by the sum of the two.                     *)
Operands ==
  CASE Odd(fp) /\ Odd(gp) -> <<fp, gp>>
    [] Odd(fp) /\ ~Odd(gp) -> <<fp, gp + fp>>
    [] ~Odd(fp) /\ Odd(gp) -> <<fp + gp, gp>>

(* Deliberate bug: an iteration count that ignores the length.             *)
StartShort ==
  /\ pc = "start"
  /\ Odd(fp) \/ Odd(gp)
  /\ Operands \in (0 .. Limit - 1) \X (0 .. Limit - 1)
  /\ pc' = "bezout"
  /\ x' = Operands[1] /\ y' = Operands[2]
  /\ a' = x' /\ u0' = 1  /\ v0' = 0
  /\ b' = y' /\ u1' = y' /\ v1' = x' - 1
  /\ num' = 2 * W
  /\ UNCHANGED <<fp, gp, Gp, Fp>>

(* The parity dispatch, and the initial values of zint_bezout.             *)
Start ==
  /\ pc = "start"
  /\ Odd(fp) \/ Odd(gp)
  /\ Operands \in (0 .. Limit - 1) \X (0 .. Limit - 1)
  /\ pc' = "bezout"
  /\ x' = Operands[1] /\ y' = Operands[2]
  /\ a' = x' /\ u0' = 1  /\ v0' = 0
  /\ b' = y' /\ u1' = y' /\ v1' = x' - 1
  /\ num' = 2 * W * len + (W - 1)
  /\ UNCHANGED <<fp, gp, Gp, Fp>>

StartFails ==
  /\ pc = "start"
  /\ \/ ~Odd(fp) /\ ~Odd(gp)
     \/ Odd(fp) # Odd(gp) /\ fp + gp >= Limit
  /\ Fail

(* One iteration of the outer loop.                                        *)
Reduce ==
  /\ pc = "bezout"
  /\ num >= W - 1
  /\ LET f  == Factors
         na == CoReduce(f.pa, f.pb)
         nb == CoReduce(f.qa, f.qb)
         sa == Sign(na)
         sb == Sign(nb)
     IN  /\ a' = sa * na
         /\ b' = sb * nb
         /\ u0' = CoReduceMod(u0, u1, sa * f.pa, sa * f.pb, y)
         /\ u1' = CoReduceMod(u0, u1, sb * f.qa, sb * f.qb, y)
         /\ v0' = CoReduceMod(v0, v1, sa * f.pa, sa * f.pb, x)
         /\ v1' = CoReduceMod(v0, v1, sb * f.qa, sb * f.qb, x)
  /\ num' = num - (W - 1)
  /\ UNCHANGED <<operands, pc, Gp, Fp>>

LoopDone == pc = "bezout" /\ num < W - 1
GcdIsOne == a = 1 /\ Odd(x) /\ Odd(y)

BezoutSucceeds ==
  /\ LoopDone
  /\ GcdIsOne
  /\ pc' = "combine"
  /\ Gp' = u0 /\ Fp' = v0
  /\ UNCHANGED <<operands, gcdState>>

BezoutFails ==
  /\ LoopDone
  /\ ~GcdIsOne
  /\ Fail

(* Mapping the cofactors back to (fp, gp), with z31_add and z31_sub.       *)
CombineOddOdd ==
  /\ pc = "combine" /\ Odd(fp) /\ Odd(gp)
  /\ pc' = "scale"
  /\ UNCHANGED <<operands, gcdState, Gp, Fp>>

(* u - v and v - u may be negative: one multiple of (y, x) is added first. *)
FitsEvenY == Gp + gp < Limit /\ Gp + gp >= Fp /\ Fp + fp < Limit
FitsEvenX == Gp + gp < Limit /\ Fp + fp < Limit /\ Fp + fp >= Gp

(* Deliberate bug: v'' without the multiple of x that u'' has of y.        *)
CombineEvenYHalf ==
  /\ pc = "combine" /\ Odd(fp) /\ ~Odd(gp)
  /\ FitsEvenY
  /\ Gp' = Gp + gp - Fp
  /\ pc' = "scale"
  /\ UNCHANGED <<operands, gcdState, Fp>>

CombineEvenY ==
  /\ pc = "combine" /\ Odd(fp) /\ ~Odd(gp)
  /\ FitsEvenY
  /\ Gp' = Gp + gp - Fp
  /\ Fp' = Fp + fp
  /\ pc' = "scale"
  /\ UNCHANGED <<operands, gcdState>>

CombineEvenX ==
  /\ pc = "combine" /\ ~Odd(fp) /\ Odd(gp)
  /\ FitsEvenX
  /\ Gp' = Gp + gp
  /\ Fp' = Fp + fp - Gp
  /\ pc' = "scale"
  /\ UNCHANGED <<operands, gcdState>>

CombineFails ==
  /\ pc = "combine"
  /\ \/ Odd(fp) /\ ~Odd(gp) /\ ~FitsEvenY
     \/ ~Odd(fp) /\ Odd(gp) /\ ~FitsEvenX
  /\ Fail

(* zint_mul_small by q on both.                                            *)
Scale ==
  /\ pc = "scale"
  /\ Fp * q < Limit /\ Gp * q < Limit
  /\ Fp' = Fp * q /\ Gp' = Gp * q
  /\ pc' = "solved"
  /\ UNCHANGED <<operands, gcdState>>

ScaleOverflows ==
  /\ pc = "scale"
  /\ Fp * q >= Limit \/ Gp * q >= Limit
  /\ Fail

Next ==
  \/ Start \/ StartFails
  \/ Reduce \/ BezoutSucceeds \/ BezoutFails
  \/ CombineOddOdd \/ CombineEvenY \/ CombineEvenX \/ CombineFails
  \/ Scale \/ ScaleOverflows

Spec == Init /\ [][Next]_vars

----------------------------------------------------------------------------
(* Properties.                                                             *)

TypeOK ==
  /\ fp \in Resultants /\ gp \in Resultants
  /\ pc \in Labels
  /\ {x, y, a, b, u0, v0, u1, v1, Gp, Fp} \subseteq 0 .. Limit - 1
  /\ num \in 0 .. 2 * W * len + (W - 1)

(* The remainders stay in range and remain the combinations of x and y     *)
(* that their cofactors say, up to a multiple of x*y, although they are    *)
(* driven by truncated top words and the cofactors are reduced separately. *)
Cofactors ==
  pc = "bezout" =>
    /\ a \in 0 .. x /\ (a - (x * u0 - y * v0)) % (x * y) = 0
    /\ b \in 0 .. y /\ (b - (x * u1 - y * v1)) % (x * y) = 0
    /\ u0 \in 0 .. y - 1 /\ v0 \in 0 .. x - 1
    /\ u1 \in 0 .. y     /\ v1 \in 0 .. x - 1

(* What the helpers of an iteration take for granted of its factors: the   *)
(* bits zint_co_reduce drops are zero, and what zint_finish_mod is given   *)
(* is within one modulus of being reduced.                                 *)
HelpersApply ==
  pc = "bezout" /\ num >= W - 1 =>
    LET f  == Factors
        sa == Sign(CoReduce(f.pa, f.pb))
        sb == Sign(CoReduce(f.qa, f.qb))
        Near(z, m) == -m <= z /\ z < 2 * m
    IN  /\ (a * f.pa + b * f.pb) % Base = 0
        /\ (a * f.qa + b * f.qb) % Base = 0
        /\ Near(Montgomery(u0, u1, sa * f.pa, sa * f.pb, y), y)
        /\ Near(Montgomery(v0, v1, sa * f.pa, sa * f.pb, x), x)
        /\ Near(Montgomery(u0, u1, sb * f.qa, sb * f.qb, y), y)
        /\ Near(Montgomery(v0, v1, sb * f.qa, sb * f.qb, x), x)

(* When the function returns 1, (F, G) solves the equation of the deepest  *)
(* level, whatever the parities of the resultants were.                    *)
Solved == pc = "solved" => fp * Gp - gp * Fp = q

Coprime(m, n) == ~\E d \in 2 .. Limit - 1 : m % d = 0 /\ n % d = 0

(* A pair is only given up when it has no solution or the arrays no room:  *)
(* the loop runs long enough, and no subtraction of the mapping borrows.   *)
GivesUpOnlyWhenItMust ==
  pc = "failed" => ~Coprime(fp, gp) \/ 2 * q * fp >= Limit \/ 2 * q * gp >= Limit

(* keygen.c:1606, of zint_bezout: "When 1 is returned, arrays u and v are  *)
(* filled with values such that: 0 <= u <= y, 0 <= v <= x, x*u - y*v = 1". *)
BezoutContract ==
  pc = "combine" => Gp \in 0 .. y /\ Fp \in 0 .. x /\ x * Gp - y * Fp = 1
=============================================================================
