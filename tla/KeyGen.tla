------------------------------- MODULE KeyGen -------------------------------
(***************************************************************************)
(* A key from its generation to its use: new_keygen of crypto/keygen.c,    *)
(* the coding of keys by falcon_keygen_make and falcon_make_public, the    *)
(* recovery of G by falcon_sign_dyn, the lattice point of do_sign_dyn and  *)
(* do_sign_tree, and the verifiers of crypto/vrfy.c.                       *)
(*                                                                         *)
(* Abstractions.  The samplers are inputs: Draws are the pairs (f, g) that *)
(* poly_small_mkgauss_choose may return, Offsets the distance of the       *)
(* sampled integers from the rounded target.  An encoded key is the values *)
(* it holds.                                                               *)
(***************************************************************************)
EXTENDS NTRU, ModQ

CONSTANTS
  Draws,         (* <<logn, f, g>>                                         *)
  SmallMax,      (* 127: greatest coefficient of f and g                   *)
  max_fg_bits, max_FG_bits,  (* of each logn                               *)
  KeyNormMax,    (* 16822: greatest squared norm of (f, g)                 *)
  BNormMax,      (* 16822.4121: bound on that of the orthogonalized vector *)
  Targets,       (* hashed messages: polynomials of any degree             *)
  Offsets        (* polynomials of any degree                              *)

VARIABLES
  stage,         (* "draw", "solve", "made", "loaded", "signed"            *)
  h,             (* the public key, as falcon_make_public gives it         *)
  sk,            (* the encoded private key: f, g and F                    *)
  G1,            (* G as the signer recovers it                            *)
  c0, s1, s2,    (* hashed message and signature                           *)
  short          (* what the signer's norm test said                       *)

keyVars == <<stage, h, sk, G1, c0, s1, s2, short>>
signature == <<c0, s1, s2, short>>
vars == <<solverVars, keyVars>>

Cut(a, lg) == Array(2 ^ lg, LAMBDA i : a[i])

----------------------------------------------------------------------------
(* Generation.                                                             *)

Parity(a, lg) ==
  LET s[i \in 0 .. 2 ^ lg] == IF i = 0 THEN 0 ELSE (s[i - 1] + a[i - 1]) % 2
  IN  s[2 ^ lg]

(* poly_small_mkgauss_choose, for either value of the bit drawn before: f  *)
(* and g have sums of opposite parities.                                   *)
Drawn == {d \in Draws : /\ \A i \in 0 .. 2 ^ d[1] - 1 : {d[2][i], d[3][i]} \subseteq -SmallMax .. SmallMax
                        /\ Parity(d[2], d[1]) # Parity(d[3], d[1])}

(* Strictly inside the range trim_i8_encode accepts.                       *)
InRange(a, bits) == \A i \in DOMAIN a : a[i] \in -(2 ^ (bits - 1) - 1) .. 2 ^ (bits - 1) - 1

(* The squared norm of q*(f, g)/(f*adj(f) + g*adj(g)): q^2 times the       *)
(* constant term of the inverse of the denominator.                        *)
OrthogonalizedShort(a, b, lg) ==
  LET One == Array(2 ^ lg, LAMBDA i : IF i = 0 THEN 1 ELSE 0)
      t   == Quotient(One, Plus(Mul(a, Adj(a)), Mul(b, Adj(b))), lg)
  IN  q * q * t.num[0] < BNormMax * t.den[0]

GoodPair(a, b, lg) ==
  /\ InRange(a, max_fg_bits[lg]) /\ InRange(b, max_fg_bits[lg])
  /\ SqNorm(a, lg) + SqNorm(b, lg) <= KeyNormMax
  /\ OrthogonalizedShort(a, b, lg)
  /\ compute_public(a, b, lg) # {}

(* The loop of new_keygen up to the solver; a pair that is not good is     *)
(* drawn again.                                                            *)
DrawPair ==
  /\ stage = "draw"
  /\ \E d \in Drawn :
       /\ GoodPair(d[2], d[3], d[1])
       /\ CallSolver(d[1], d[2], d[3], 2 ^ (max_FG_bits[d[1]] - 1) - 1)
  /\ stage' = "solve"
  /\ UNCHANGED <<h, sk, G1, signature>>

Solve ==
  /\ stage = "solve"
  /\ SolverNext
  /\ UNCHANGED keyVars

TryAgain ==
  /\ stage = "solve" /\ pc = "failed"
  /\ ResetSolver
  /\ stage' = "draw"
  /\ UNCHANGED <<h, sk, G1, signature>>

(* falcon_keygen_make after the generation: encode f, g and F, and compute *)
(* the public key again; G is dropped.                                     *)
EncodeKey ==
  /\ stage = "solve" /\ pc = "solved"
  /\ InRange(f, max_fg_bits[logn_top]) /\ InRange(g, max_fg_bits[logn_top])
  /\ InRange(F, max_FG_bits[logn_top])
  /\ sk' = [f |-> f, g |-> g, F |-> F]
  /\ h' \in compute_public(f, g, logn_top)
  /\ stage' = "made"
  /\ UNCHANGED <<solverVars, G1, signature>>

----------------------------------------------------------------------------
(* Use of the private key.                                                 *)

(* falcon_sign_dyn: decode f, g and F, and recompute G.                    *)
LoadKey ==
  /\ stage = "made"
  /\ G1' \in complete_private(sk.f, sk.g, sk.F, logn_top)
  /\ stage' = "loaded"
  /\ UNCHANGED <<solverVars, h, sk, signature>>

(* Deliberate bug: the second vector with the sign of the lattice point.   *)
PointUnsigned(c, z0, z1) ==
  [s1 |-> Minus(c, Plus(Mul(z0, sk.g), Mul(z1, G1))),
   s2 |-> Minus(Array(2 ^ logn_top, LAMBDA i : 0), Plus(Mul(z0, sk.f), Mul(z1, sk.F)))]

(* With B = [[g, -f], [G, -F]], (s1, s2) is (c, 0) - (z0, z1)*B.           *)
SignaturePoint(c, z0, z1) ==
  [s1 |-> Minus(c, Plus(Mul(z0, sk.g), Mul(z1, G1))),
   s2 |-> Plus(Mul(z0, sk.f), Mul(z1, sk.F))]

(* do_sign_dyn and do_sign_tree: the target is (c, 0) in the basis, that   *)
(* is, -c*F/q and c*f/q; the sampler returns integers near it.             *)
Near(a, e) == Array(2 ^ logn_top, LAMBDA i : ((2 * a[i] + q) \div (2 * q)) + e[i])

Sign ==
  /\ stage = "loaded"
  /\ \E c \in Targets, e0 \in Offsets, e1 \in Offsets :
       /\ c0' = Cut(c, logn_top)
       /\ \E s \in {SignaturePoint(c0', Near(Mul(PolyMap(sk.F, LAMBDA v : -v), c0'), e0),
                                        Near(Mul(sk.f, c0'), e1))} :
            /\ s1' = s.s1 /\ s2' = s.s2
            /\ short' = is_short(s.s1, s.s2, logn_top)
  /\ stage' = "signed"
  /\ UNCHANGED <<solverVars, h, sk, G1>>

(* A point that is not short is not released: the signer samples again.    *)
SampleAgain ==
  /\ stage = "signed" /\ ~short
  /\ c0' = Zero /\ s1' = Zero /\ s2' = Zero /\ short' = FALSE
  /\ stage' = "loaded"
  /\ UNCHANGED <<solverVars, h, sk, G1>>

----------------------------------------------------------------------------
Init ==
  /\ SolverIdle
  /\ stage = "draw"
  /\ h = Zero /\ sk = [f |-> Zero, g |-> Zero, F |-> Zero] /\ G1 = Zero
  /\ c0 = Zero /\ s1 = Zero /\ s2 = Zero /\ short = FALSE

Next ==
  \/ DrawPair \/ Solve \/ TryAgain \/ EncodeKey
  \/ LoadKey \/ Sign \/ SampleAgain

Spec == Init /\ [][Next]_vars

----------------------------------------------------------------------------
(* Properties.                                                             *)

Constant(v, lg) == Array(2 ^ lg, LAMBDA i : IF i = 0 THEN v ELSE 0)

(* At every depth of the solver, and at every step of the reduction there, *)
(* F and G solve the equation of the depth over the integers, for the      *)
(* field norms of f and g, as long as no value has outgrown its array:     *)
(* whatever k the floating-point code comes up with, and however residues, *)
(* rebuilt integers and truncated lengths follow each other.  Of values    *)
(* that did outgrow their arrays it says nothing: KeyEquation covers them. *)
LevelEquation ==
  (pc \in {"lift", "reduce"} /\ exact) =>
    /\ ft = FieldNorm(f, depth) /\ gt = FieldNorm(g, depth)
    /\ Minus(Mul(ft, Gt), Mul(gt, Ft)) = Constant(q, logn)

(* What solve_NTRU returns is right even if values did outgrow their       *)
(* arrays on the way: the last check, modulo a single prime, is enough for *)
(* coefficients this short.  The key can be encoded, and its public part   *)
(* is the quotient the lattice is built on.                                *)
KeyEquation ==
  pc = "solved" =>
    /\ Minus(Mul(f, G), Mul(g, F)) = Constant(q, logn_top)
    /\ InRange(F, max_FG_bits[logn_top]) /\ InRange(G, max_FG_bits[logn_top])
    /\ stage # "solve" => \A i \in DOMAIN h : (Mul(f, h)[i] - g[i]) % q = 0

(* The signer works with the G the generator dropped: recomputed modulo q  *)
(* from f, g and F, it is the same polynomial and not just congruent.      *)
KeyRestored == stage \in {"loaded", "signed"} => G1 = G

(* What passes the signer's norm test passes the verifier's, which has to  *)
(* find s1 again modulo q; the verifier with key recovery finds h, and the *)
(* hint is the inverse of the product of the NTT coefficients of s2.       *)
SignatureVerifies ==
  (stage = "signed" /\ short) =>
    /\ verify_raw(c0, s2, to_ntt_monty(h, logn_top), logn_top)
    /\ is_invertible(s2, logn_top) <=> count_nttzero(s2, logn_top) = 0
    /\ is_invertible(s2, logn_top) =>
         /\ verify_recover(c0, s1, s2, logn_top) = [h |-> h, ok |-> TRUE]
         /\ verify_recover_epervier(c0, s1, s2, logn_top) =
              [h |-> mq_NTT(h, logn_top), ok |-> TRUE]
         /\ LET a == SmallNTT(s2, logn_top)
                prod[u \in 0 .. 2 ^ logn_top] ==
                  IF u = 0 THEN hint_epervier(s2, logn_top) ELSE (prod[u - 1] * a[u - 1]) % q
            IN  prod[2 ^ logn_top] = 1
=============================================================================
