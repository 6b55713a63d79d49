------------------------------ MODULE Sampling ------------------------------
(***************************************************************************)
(* The core of the signer in crypto/sign.c: a private key is expanded to   *)
(* its basis and Falcon tree, and a hashed message is signed by fast       *)
(* Fourier sampling, either over the tree (do_sign_tree) or with the tree  *)
(* rebuilt on the fly from the Gram matrix (do_sign_dyn).  The norm that   *)
(* new_keygen of crypto/keygen.c computes to accept f and g is that of     *)
(* the same tree.                                                          *)
(*                                                                         *)
(* Abstractions.  Reals are exact (see FFT).  The integer sampler may      *)
(* return any integer: a tape holds what it returns, in the order of its   *)
(* calls, and stands for the generator that sign_tree and sign_dyn seed at *)
(* each attempt.  A leaf of the normalized tree is sqrt(x)/sigma: it is    *)
(* kept as its square.  Buffers that share memory are values of their own. *)
(***************************************************************************)
EXTENDS FFT, Sequences

CONSTANTS
  Keys,            (* [logn, f, g, F, G], G and F solving f*G - g*F = q     *)
  Messages,        (* hashed messages, of the largest degree               *)
  Tapes,           (* what the sampler returns: sequences of 2*N integers  *)
  fpr_inv_sigma2,  (* squares of fpr_inv_sigma, indexed by logn            *)
  l2bound          (* greatest squared norm released, indexed by logn      *)

VARIABLES
  key,       (* the key in use                                             *)
  expanded,  (* the expanded private key: basis and tree                   *)
  bnorm,     (* the norm new_keygen computed                               *)
  hm, tape,  (* the request being signed and the generator's state         *)
  sig        (* what "tree" and "dyn" answered: the attempt that ended     *)

vars == <<key, expanded, bnorm, hm, tape, sig>>

None == [logn |-> 0]
Ways == {"tree", "dyn"}

----------------------------------------------------------------------------
(* The tree: a node l10 of n numbers, the subtree of d00, that of d11.     *)

ffLDL_treesize(logn) == (logn + 1) * 2 ^ logn

Join(a, na, b, nb) == Array(na + nb, LAMBDA u : IF u < na THEN a[u] ELSE b[u - na])

(* The first row of a matrix that is auto-adjoint and quasicyclic.         *)
RECURSIVE ffLDL_fft_inner(_, _, _)
ffLDL_fft_inner(g0, g1, logn) ==
  IF logn = 0 THEN Array(1, LAMBDA u : g0[0])
  ELSE LET n  == 2 ^ logn
           ts == ffLDL_treesize(logn - 1)
           r  == poly_LDL_fft(g0, g1, g0, logn)
           s0 == poly_split_fft(g0, logn)
           s1 == poly_split_fft(r.d11, logn)
       IN  Join(r.l10, n,
                Join(ffLDL_fft_inner(s0[1], s0[2], logn - 1), ts,
                     ffLDL_fft_inner(s1[1], s1[2], logn - 1), ts), 2 * ts)

ffLDL_fft(g00, g01, g11, logn) ==
  LET ts == ffLDL_treesize(logn - 1)
      r  == poly_LDL_fft(g00, g01, g11, logn)
      s0 == poly_split_fft(g00, logn)
      s1 == poly_split_fft(r.d11, logn)
  IN  Join(r.l10, 2 ^ logn,
           Join(ffLDL_fft_inner(s0[1], s0[2], logn - 1), ts,
                ffLDL_fft_inner(s1[1], s1[2], logn - 1), ts), 2 * ts)

(* Deliberate bug: the standard deviation of the subtree's degree.         *)
NormalizeByDepth(x, orig_logn) == fpr_mul(x, fpr_inv_sigma2[1])

NormalizeLeaf(x, orig_logn) == fpr_mul(x, fpr_inv_sigma2[orig_logn])

(* Positions of the leaves of the subtree at position `at`.                *)
RECURSIVE Leaves(_, _)
Leaves(at, logn) ==
  IF logn = 0 THEN {at}
  ELSE Leaves(at + 2 ^ logn, logn - 1)
         \cup Leaves(at + 2 ^ logn + ffLDL_treesize(logn - 1), logn - 1)

ffLDL_binary_normalize(tree, logn) ==
  LET leaves == Leaves(0, logn) IN
  Array(ffLDL_treesize(logn), LAMBDA u :
    IF u \in leaves THEN NormalizeLeaf(tree[u], logn) ELSE tree[u])

----------------------------------------------------------------------------
(* The basis [[g, -f], [G, -F]] and its Gram matrix.                       *)

smallints_to_fpr(t, logn) == Array(2 ^ logn, LAMBDA u : fpr_of(t[u]))

Basis(k) ==
  LET T(t) == Transform(smallints_to_fpr(t, k.logn), k.logn)
  IN  [b00 |-> T(k.g), b01 |-> poly_neg(T(k.f)),
       b10 |-> T(k.G), b11 |-> poly_neg(T(k.F))]

Gram(B, logn) ==
  LET Row(a, b)        == poly_add(poly_mulselfadj_fft(a, logn), poly_mulselfadj_fft(b, logn))
      Cross(a, b, c, d) == poly_add(poly_muladj_fft(a, c, logn), poly_muladj_fft(b, d, logn))
  IN  [g00 |-> Row(B.b00, B.b01),
       g01 |-> Cross(B.b00, B.b01, B.b10, B.b11),
       g11 |-> Row(B.b10, B.b11)]

expand_privkey(k) ==
  LET B == Basis(k)
      M == Gram(B, k.logn)
  IN  [basis |-> B,
       tree  |-> ffLDL_binary_normalize(ffLDL_fft(M.g00, M.g01, M.g11, k.logn), k.logn)]

----------------------------------------------------------------------------
(* Sampling.  calls is the sequence of the calls made to the sampler: each *)
(* with its center, its leaf and the integer returned.                     *)

samp(calls, tp, mu, leaf) ==
  Append(calls, [mu |-> mu, leaf |-> leaf, z |-> tp[Len(calls) + 1]])

Last(calls) == fpr_of(calls[Len(calls)].z)

(* The two calls made for a pair of centers; the answers are complex.      *)
SampPair(calls, tp, x, leaf) ==
  LET c1 == samp(calls, tp, x.re, leaf)
      c2 == samp(c1, tp, x.im, leaf)
  IN  [calls |-> c2, z |-> [re |-> Last(c1), im |-> Last(c2)]]

(* The two halves of a target and two leaves: y1 is sampled around w1, and *)
(* y0 around w0 + (w1 - y1)*l10.                                           *)
SampLeaves(calls, tp, w0, w1, l10, left, right) ==
  LET r == SampPair(calls, tp, w1, right)
      s == SampPair(r.calls, tp,
                    FPC_ADD(FPC_MUL(FPC_SUB(w1, r.z), l10), w0), left)
  IN  [calls |-> s.calls, y0 |-> s.z, y1 |-> r.z]

(* logn = 2: one of the two halves, of two complex numbers; the roots of   *)
(* the split and the merge are written out, as (1 -/+ i)/sqrt(2).          *)
HalfOfFour(calls, tp, tree, at, t) ==
  LET a  == At(t, 0, 2)
      b  == At(t, 1, 2)
      c  == FPC_SUB(a, b)
      w1 == [re |-> fpr_mul(fpr_add(c.re, c.im), fpr_invsqrt8),
             im |-> fpr_mul(fpr_sub(c.im, c.re), fpr_invsqrt8)]
      s  == SampLeaves(calls, tp, FPC_HALF(FPC_ADD(a, b)), w1,
                       At(tree, at, 1), tree[at + 2], tree[at + 3])
      d  == [re |-> fpr_mul(fpr_sub(s.y1.re, s.y1.im), fpr_invsqrt2),
             im |-> fpr_mul(fpr_add(s.y1.re, s.y1.im), fpr_invsqrt2)]
  IN  [calls |-> s.calls,
       z |-> PointWise(2, LAMBDA u : IF u = 0 THEN FPC_ADD(s.y0, d) ELSE FPC_SUB(s.y0, d))]

(* t0 + (t1 - z1)*l10, with l10 in the node at position `at`.              *)
Residue(t0, t1, z1, tree, at, logn) ==
  poly_add(poly_mul_fft(poly_sub(t1, z1),
                        Array(2 ^ logn, LAMBDA u : tree[at + u]), logn), t0)

ffSampling_four(calls, tp, tree, at, t0, t1) ==
  LET r == HalfOfFour(calls, tp, tree, at + 8, t1)
      s == HalfOfFour(r.calls, tp, tree, at + 4, Residue(t0, t1, r.z, tree, at, 2))
  IN  [calls |-> s.calls, z0 |-> s.z, z1 |-> r.z]

(* logn = 1: one complex number.                                           *)
ffSampling_two(calls, tp, tree, at, t0, t1) ==
  LET s == SampLeaves(calls, tp, [re |-> t0[0], im |-> t0[1]],
                      [re |-> t1[0], im |-> t1[1]],
                      [re |-> tree[at], im |-> tree[at + 1]], tree[at + 2], tree[at + 3])
      P(y) == Array(2, LAMBDA u : IF u = 0 THEN y.re ELSE y.im)
  IN  [calls |-> s.calls, z0 |-> P(s.y0), z1 |-> P(s.y1)]

RECURSIVE ffSampling_fft(_, _, _, _, _, _, _)
ffSampling_fft(calls, tp, tree, at, t0, t1, logn) ==
  IF logn = 1 THEN ffSampling_two(calls, tp, tree, at, t0, t1)
  ELSE IF logn = 2 THEN ffSampling_four(calls, tp, tree, at, t0, t1)
  ELSE LET left  == at + 2 ^ logn
           right == left + ffLDL_treesize(logn - 1)
           s1 == poly_split_fft(t1, logn)
           r1 == ffSampling_fft(calls, tp, tree, right, s1[1], s1[2], logn - 1)
           z1 == poly_merge_fft(r1.z0, r1.z1, logn)
           s0 == poly_split_fft(Residue(t0, t1, z1, tree, at, logn), logn)
           r0 == ffSampling_fft(r1.calls, tp, tree, left, s0[1], s0[2], logn - 1)
       IN  [calls |-> r0.calls, z0 |-> poly_merge_fft(r0.z0, r0.z1, logn), z1 |-> z1]

(* The same sampling from the Gram matrix, split along the way.            *)
RECURSIVE ffSampling_fft_dyntree(_, _, _, _, _, _, _, _, _)
ffSampling_fft_dyntree(calls, tp, t0, t1, g00, g01, g11, orig_logn, logn) ==
  IF logn = 0
  THEN LET r == SampPair(calls, tp, [re |-> t0[0], im |-> t1[0]],
                         fpr_mul(g00[0], fpr_inv_sigma2[orig_logn]))
       IN  [calls |-> r.calls, z0 |-> Array(1, LAMBDA u : r.z.re),
            z1 |-> Array(1, LAMBDA u : r.z.im)]
  ELSE LET D  == poly_LDL_fft(g00, g01, g11, logn)
           d0 == poly_split_fft(g00, logn)
           d1 == poly_split_fft(D.d11, logn)
           s1 == poly_split_fft(t1, logn)
           r1 == ffSampling_fft_dyntree(calls, tp, s1[1], s1[2], d1[1], d1[2], d1[1],
                                        orig_logn, logn - 1)
           z1 == poly_merge_fft(r1.z0, r1.z1, logn)
           s0 == poly_split_fft(
                   poly_add(t0, poly_mul_fft(D.l10, poly_sub(t1, z1), logn)), logn)
           r0 == ffSampling_fft_dyntree(r1.calls, tp, s0[1], s0[2], d0[1], d0[2], d0[1],
                                        orig_logn, logn - 1)
       IN  [calls |-> r0.calls, z0 |-> poly_merge_fft(r0.z0, r0.z1, logn), z1 |-> z1]

----------------------------------------------------------------------------
(* Signing.                                                                *)

(* The target (hm, 0) in the basis: (hm*b11/q, -hm*b01/q).                 *)
Target(c, B, logn) ==
  LET t == Transform(Array(2 ^ logn, LAMBDA u : fpr_of(c[u])), logn)
  IN  [t0 |-> poly_mulconst(poly_mul_fft(t, B.b11, logn), fpr_inverse_of_q),
       t1 |-> poly_mulconst(poly_mul_fft(t, B.b01, logn), fpr_neg(fpr_inverse_of_q))]

(* What follows the sampling: the lattice point (z0, z1)*B, the signature, *)
(* and the test that lets it out.                                          *)
Answer(c, s, B, logn) ==
  LET row(a, b) == iFFT(poly_add(poly_mul_fft(s.z0, a, logn),
                                 poly_mul_fft(s.z1, b, logn)), logn)
      x  == row(B.b00, B.b10)
      y  == row(B.b01, B.b11)
      v1 == Array(2 ^ logn, LAMBDA u : c[u] - fpr_rint(x[u]))
      v2 == Array(2 ^ logn, LAMBDA u : -fpr_rint(y[u]))
      sqn[u \in 0 .. 2 ^ logn] ==
        IF u = 0 THEN 0 ELSE sqn[u - 1] + (v1[u - 1] * v1[u - 1]) + (v2[u - 1] * v2[u - 1])
      norm == sqn[2 ^ logn]
  IN  [s1 |-> v1, s2 |-> v2, sqn |-> norm, short |-> norm <= l2bound[logn], calls |-> s.calls]

do_sign_tree(c, tp) ==
  LET B == expanded.basis
      t == Target(c, B, key.logn)
  IN  Answer(c, ffSampling_fft(<<>>, tp, expanded.tree, 0, t.t0, t.t1, key.logn), B, key.logn)

do_sign_dyn(c, tp) ==
  LET B == Basis(key)
      M == Gram(B, key.logn)
      t == Target(c, B, key.logn)
  IN  Answer(c, ffSampling_fft_dyntree(<<>>, tp, t.t0, t.t1, M.g00, M.g01, M.g11,
                                       key.logn, key.logn), B, key.logn)

----------------------------------------------------------------------------
(* Generation: the squared norm of the orthogonalized second vector.       *)

OrthogonalizedNorm(k) ==
  LET T(t)  == Transform(smallints_to_fpr(t, k.logn), k.logn)
      inv   == poly_invnorm2_fft(T(k.f), T(k.g), k.logn)
      part(t) == iFFT(poly_mul_autoadj_fft(
                        poly_mulconst(poly_adj_fft(T(t), k.logn), fpr_of(q)), inv, k.logn), k.logn)
      rt1   == part(k.f)
      rt2   == part(k.g)
      sum[u \in 0 .. 2 ^ k.logn] ==
        IF u = 0 THEN 0
        ELSE (sum[u - 1] + fpr_mul(rt1[u - 1], rt1[u - 1]) + fpr_mul(rt2[u - 1], rt2[u - 1])) % p
  IN  sum[2 ^ k.logn]

----------------------------------------------------------------------------
(* Actions.                                                                *)

Init ==
  /\ key = None /\ expanded = None /\ bnorm = 0
  /\ hm = <<>> /\ tape = <<>> /\ sig = <<>>

Generate ==
  /\ key = None
  /\ key' \in Keys
  /\ bnorm' = OrthogonalizedNorm(key')
  /\ UNCHANGED <<expanded, hm, tape, sig>>

Expand ==
  /\ key # None /\ expanded = None
  /\ expanded' = expand_privkey(key)
  /\ UNCHANGED <<key, bnorm, hm, tape, sig>>

(* The generator is seeded from the same state for the two ways.           *)
Request ==
  /\ key # None /\ hm = <<>>
  /\ \E c \in Messages : hm' = Array(2 ^ key.logn, LAMBDA u : c[u])
  /\ tape' \in Tapes
  /\ UNCHANGED <<key, expanded, bnorm, sig>>

SignTree ==
  /\ expanded # None /\ hm # <<>> /\ "tree" \notin DOMAIN sig
  /\ sig' = ("tree" :> do_sign_tree(hm, tape)) @@ sig
  /\ UNCHANGED <<key, expanded, bnorm, hm, tape>>

SignDyn ==
  /\ hm # <<>> /\ "dyn" \notin DOMAIN sig
  /\ sig' = ("dyn" :> do_sign_dyn(hm, tape)) @@ sig
  /\ UNCHANGED <<key, expanded, bnorm, hm, tape>>

(* The loops of sign_tree and sign_dyn: same message, fresh generator.     *)
Retry ==
  /\ DOMAIN sig = Ways /\ \A v \in Ways : ~sig[v].short
  /\ tape' \in Tapes \ {tape}
  /\ sig' = <<>>
  /\ UNCHANGED <<key, expanded, bnorm, hm>>

Next == Generate \/ Expand \/ Request \/ SignTree \/ SignDyn \/ Retry

Spec == Init /\ [][Next]_vars

----------------------------------------------------------------------------
(* Properties.                                                             *)

(* Signing with an expanded key and signing with the tree rebuilt on the   *)
(* fly are the same computation: with the same seed the sampler sees the   *)
(* same centers and the same leaves in the same order, and the signature   *)
(* is the same.                                                            *)
SameSignature == DOMAIN sig = Ways => sig["tree"] = sig["dyn"]

(* The product in Z[X]/(X^n + 1).                                          *)
Times(a, b, n) ==
  LET term(i, j) == IF j <= i THEN a[j] * b[i - j] ELSE -(a[j] * b[n + i - j])
  IN  [i \in 0 .. n - 1 |->
         LET s[j \in 0 .. n] == IF j = 0 THEN 0 ELSE s[j - 1] + term(i, j - 1) IN s[n]]

(* The signature differs from the target by a lattice point, and lies as   *)
(* far from it as nearest-plane rounding says: whatever integers the       *)
(* sampler returned, the squared norm of (s1, s2) is the sum of the        *)
(* squared distances to the centers it was given, each weighted by the     *)
(* leaf it was given.  Sampling each integer narrowly is thus sampling a   *)
(* short signature.                                                        *)
NearestPlane ==
  \A v \in DOMAIN sig :
    LET r == sig[v]
        n == 2 ^ key.logn
        a == Times(key.f, r.s1, n)
        b == Times(key.g, r.s2, n)
        c == Times(key.f, hm, n)
        Dist(x) == fpr_sub(fpr_of(x.z), x.mu)
        d[k \in 0 .. 2 * n] ==
          IF k = 0 THEN 0
          ELSE fpr_add(d[k - 1], fpr_mul(r.calls[k].leaf, fpr_mul(Dist(r.calls[k]), Dist(r.calls[k]))))
    IN  /\ \A i \in 0 .. n - 1 : (a[i] + b[i] - c[i]) % q = 0
        /\ Len(r.calls) = 2 * n
        /\ fpr_of(r.sqn * fpr_inv_sigma2[key.logn]) = d[2 * n]

(* What key generation bounded is what the signer's tree holds: the first  *)
(* leaf of each half is the squared norm of (g, -f) and that of its        *)
(* orthogonalized companion, the two norms new_keygen tests; and the       *)
(* product of the leaves, each of which serves two integers, is q^n, the   *)
(* determinant of the lattice.                                             *)
LeavesOfTheKey ==
  expanded # None =>
    LET lg   == key.logn
        n    == 2 ^ lg
        sigma2 == fpr_inv(fpr_inv_sigma2[lg])
        Leaf(at) == fpr_mul(expanded.tree[at], sigma2)
        first(at) == at + (2 * n - 2)
        sqn[u \in 0 .. n] == IF u = 0 THEN 0 ELSE
          sqn[u - 1] + (key.f[u - 1] * key.f[u - 1]) + (key.g[u - 1] * key.g[u - 1])
        leaves == Leaves(0, lg)
        prod[u \in 0 .. ffLDL_treesize(lg)] == IF u = 0 THEN 1 ELSE
          IF u - 1 \in leaves THEN fpr_mul(prod[u - 1], Leaf(u - 1)) ELSE prod[u - 1]
        det[u \in 0 .. n] == IF u = 0 THEN 1 ELSE fpr_mul(det[u - 1], q)
    IN  /\ Leaf(first(0)) = fpr_of(sqn[n])
        /\ Leaf(n + ffLDL_treesize(lg - 1) + (n - 2)) = bnorm
        /\ prod[ffLDL_treesize(lg)] = det[n]
=============================================================================
