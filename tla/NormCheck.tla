----------------------------- MODULE NormCheck -----------------------------
(***************************************************************************)
(* The signature norm test, on the signer's side and the verifier's.       *)
(*                                                                         *)
(* Both decide ||(s1, s2)||^2 <= l2bound with 32-bit unsigned accumulators *)
(* that may wrap around; `ng` remembers whether bit 31 was ever set, and a *)
(* sum that reached it is saturated.  The signer works in two passes       *)
(* (do_sign_*, then is_short_half), the verifier in one (is_short).  Here  *)
(* one vector goes through the signer's test and then the verifier's.      *)
(*                                                                         *)
(* ng is a 32-bit OR of accumulators of which only bit 31 is ever used: it *)
(* is modelled as that bit.                                                *)
(***************************************************************************)
EXTENDS Integers

CONSTANTS
  Half,    (* 2^31: the accumulators count modulo 2 * Half                 *)
  Bound,   (* l2bound[logn]                                                *)
  N,       (* 2^logn: the length of s1 and of s2                           *)
  Coeffs   (* values of a coefficient                                      *)

ASSUME HalfAssumption  == Half \in Nat \ {0}
ASSUME BoundAssumption == Bound \in Nat /\ Bound < Half
ASSUME NAssumption     == N \in Nat \ {0}

(* The square of a coefficient is at most 2^31.  What is_short and         *)
(* is_short_half read is an int16_t, with a square of at most 2^30.  What  *)
(* do_sign_dyn and do_sign_tree add up is an int32_t that is narrowed only *)
(* afterwards (sign.c:860 and 1067): there the bound, |z| <= 46340, is an  *)
(* assumption about the sampler, whose vectors are as long as l2bound      *)
(* allows when their coefficients are about 180.  The code does not check  *)
(* it: a larger square overflows the product and may wrap unnoticed.       *)
ASSUME CoeffAssumption ==
  /\ Coeffs \subseteq Int
  /\ \A z \in Coeffs : z * z \in 0 .. Half

VARIABLES
  s1, s2,    (* the candidate vector                                       *)
  pc,        (* the pass in progress                                       *)
  u,         (* index of the next coefficient in it                        *)
  acc,       (* the accumulator: sqn, then s                               *)
  ng,        (* bit 31 of ng                                               *)
  norm,      (* history: exact sum of the squares added in this test       *)
  signerOk,  (* what the signer's test returned                            *)
  verifierOk (* what the verifier's test returned                          *)

vars == <<s1, s2, pc, u, acc, ng, norm, signerOk, verifierOk>>

Passes == {"signer_s1", "signer_s2", "verifier", "done"}

TypeOK ==
  /\ s1 \in [1 .. N -> Coeffs]
  /\ s2 \in [1 .. N -> Coeffs]
  /\ pc \in Passes
  /\ u \in 1 .. N + 1
  /\ acc \in 0 .. 2 * Half - 1
  /\ ng \in BOOLEAN
  /\ norm \in Nat
  /\ signerOk \in BOOLEAN
  /\ verifierOk \in BOOLEAN

----------------------------------------------------------------------------
(* Deliberate bugs, for the runs' mutants: no wrap-around, no saturation.  *)
PlusUnbounded(s, z)    == s + z * z
SaturateNot(s, over)   == s

Plus(s, z)   == (s + z * z) % (2 * Half)
TopBit(s)    == s >= Half
Saturate(s, over) == IF over THEN 2 * Half - 1 ELSE s

Init ==
  /\ s1 \in [1 .. N -> Coeffs]
  /\ s2 \in [1 .. N -> Coeffs]
  /\ pc = "signer_s1"
  /\ u = 1
  /\ acc = 0
  /\ ng = FALSE
  /\ norm = 0
  /\ signerOk = FALSE
  /\ verifierOk = FALSE

(* do_sign_dyn, do_sign_tree: one coefficient of s1.                       *)
SignerAddS1 ==
  /\ pc = "signer_s1" /\ u <= N
  /\ acc' = Plus(acc, s1[u])
  /\ ng' = (ng \/ TopBit(acc'))
  /\ norm' = norm + s1[u] * s1[u]
  /\ u' = u + 1
  /\ UNCHANGED <<s1, s2, pc, signerOk, verifierOk>>

(* Deliberate bug: sqn is handed over as it wrapped.                       *)
SignerHandOverWrapped ==
  /\ pc = "signer_s1" /\ u = N + 1
  /\ ng' = TopBit(acc)
  /\ pc' = "signer_s2"
  /\ u' = 1
  /\ UNCHANGED <<s1, s2, acc, norm, signerOk, verifierOk>>

(* do_sign_*: sqn |= -(ng >> 31), and the entry of is_short_half, whose ng *)
(* starts from bit 31 of the sqn it is given.                              *)
SignerHandOver ==
  /\ pc = "signer_s1" /\ u = N + 1
  /\ acc' = Saturate(acc, ng)
  /\ ng' = TopBit(acc')
  /\ pc' = "signer_s2"
  /\ u' = 1
  /\ UNCHANGED <<s1, s2, norm, signerOk, verifierOk>>

(* Deliberate bug: is_short_half does not watch bit 31.                    *)
SignerAddS2Unwatched ==
  /\ pc = "signer_s2" /\ u <= N
  /\ acc' = Plus(acc, s2[u])
  /\ norm' = norm + s2[u] * s2[u]
  /\ u' = u + 1
  /\ UNCHANGED <<s1, s2, pc, ng, signerOk, verifierOk>>

(* is_short_half: one coefficient of s2.                                   *)
SignerAddS2 ==
  /\ pc = "signer_s2" /\ u <= N
  /\ acc' = Plus(acc, s2[u])
  /\ ng' = (ng \/ TopBit(acc'))
  /\ norm' = norm + s2[u] * s2[u]
  /\ u' = u + 1
  /\ UNCHANGED <<s1, s2, pc, signerOk, verifierOk>>

(* is_short_half: the decision.  The verifier's test starts from nothing.  *)
SignerDecide ==
  /\ pc = "signer_s2" /\ u = N + 1
  /\ signerOk' = (Saturate(acc, ng) <= Bound)
  /\ pc' = "verifier"
  /\ u' = 1
  /\ acc' = 0
  /\ ng' = FALSE
  /\ norm' = 0
  /\ UNCHANGED <<s1, s2, verifierOk>>

(* is_short: a coefficient of s1 and one of s2 per iteration.              *)
VerifierAdd ==
  /\ pc = "verifier" /\ u <= N
  /\ LET half == Plus(acc, s1[u]) IN
       /\ acc' = Plus(half, s2[u])
       /\ ng' = (ng \/ TopBit(half) \/ TopBit(acc'))
  /\ norm' = norm + s1[u] * s1[u] + s2[u] * s2[u]
  /\ u' = u + 1
  /\ UNCHANGED <<s1, s2, pc, signerOk, verifierOk>>

VerifierDecide ==
  /\ pc = "verifier" /\ u = N + 1
  /\ verifierOk' = (Saturate(acc, ng) <= Bound)
  /\ pc' = "done"
  /\ UNCHANGED <<s1, s2, u, acc, ng, norm, signerOk>>

Next ==
  \/ SignerAddS1
  \/ SignerHandOver
  \/ SignerAddS2
  \/ SignerDecide
  \/ VerifierAdd
  \/ VerifierDecide

Spec == Init /\ [][Next]_vars

----------------------------------------------------------------------------
(* Properties.                                                             *)

(* common.c: the accumulator is the exact sum until bit 31 has been seen,  *)
(* and once it has, the exact sum is over every bound.  A sum that wraps   *)
(* back below the bound is not forgotten, in neither test, nor between the *)
(* signer's two passes.                                                    *)
NothingForgotten ==
  pc # "done" => IF ng THEN norm >= Half ELSE acc = norm

(* Each test accepts exactly the vectors whose norm is within the bound.   *)
ExactDecisions ==
  [][/\ SignerDecide => (signerOk' <=> norm <= Bound)
     /\ VerifierDecide => (verifierOk' <=> norm <= Bound)]_vars

(* A signature the signer releases is never refused by the verifier for    *)
(* its norm, and one the signer would discard is never accepted.           *)
SignerVerifierAgree == pc = "done" => (signerOk <=> verifierOk)
=============================================================================
