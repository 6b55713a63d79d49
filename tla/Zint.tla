-------------------------------- MODULE Zint --------------------------------
(***************************************************************************)
(* The big integers of crypto/keygen.c that the NTRU solver works on, and  *)
(* their conversions to and from residues modulo the small primes.         *)
(*                                                                         *)
(* An integer of len words is modelled by its value, signed by its top bit *)
(* (two's complement over W*len bits); carries from word to word are       *)
(* abstracted, the wrap-around at the last word is not.  A polynomial is   *)
(* an array of such values.                                                *)
(***************************************************************************)
EXTENDS ModP

(* The value of the low len words of v, and word number i of v.            *)
Signed(u, m)  == IF u >= m \div 2 THEN u - m ELSE u
Wrap(v, len) == Signed(v % 2 ^ (W * len), 2 ^ (W * len))

WordAt(v, i) == (v \div 2 ^ (W * i)) % Word

(* Horner's rule from the top word; w = d[u] - p is made non-negative.     *)
zint_mod_small_unsigned(d, dlen, P) ==
  LET x[k \in 0 .. dlen] ==
        IF k = 0 THEN 0
        ELSE modp_add(modp_montymul(x[k - 1], P.R2, P),
                      AddBack(WordAt(d, dlen - k) - P.p, P.p), P.p)
  IN  x[dlen]

(* Deliberate bug, for the runs' mutants: the sign is not looked at.       *)
ModSmallSignless(d, dlen, P) == zint_mod_small_unsigned(d, dlen, P)

zint_mod_small_signed(d, dlen, P) ==
  IF WordAt(d, dlen - 1) >= Word \div 2
  THEN modp_sub(zint_mod_small_unsigned(d, dlen, P), modp_Rx(dlen, P), P.p)
  ELSE zint_mod_small_unsigned(d, dlen, P)

(* From 0 .. m - 1 to the residue nearest zero.                            *)
zint_norm_zero(x, m) == IF x > m \div 2 THEN x - m ELSE x

(* The integer with the given residues modulo the first xlen primes, by    *)
(* Garner's method: zint_add_mul_small appends one word at a time.         *)
AppendWord(t, xr, P) == [x |-> t.x + t.prod * xr, prod |-> t.prod * P.p]
CRTStep(t, len, residue, P) ==
  AppendWord(t, modp_montymul(P.s,
                  modp_sub(residue, zint_mod_small_unsigned(t.x, len, P), P.p), P), P)

zint_rebuild_CRT(residues, xlen, normalize_signed) ==
  LET r[u \in 1 .. xlen] ==
        IF u = 1 THEN [x |-> residues[0], prod |-> Prime[0].p]
        ELSE LET t == r[u - 1] IN CRTStep(t, u - 1, residues[u - 1], Prime[u - 1])
      Result(t) == IF normalize_signed THEN zint_norm_zero(t.x, t.prod) ELSE t.x
  IN  Result(r[xlen])

(* A polynomial, coefficient by coefficient: rows[u] holds its residues    *)
(* modulo prime u.                                                         *)
RebuildPoly(rows, len, lg, normalize_signed) ==
  Array(2 ^ lg, LAMBDA v :
    zint_rebuild_CRT([u \in 0 .. len - 1 |-> rows[u][v]], len, normalize_signed))

ModPoly(a, len, P, lg) ==
  Array(2 ^ lg, LAMBDA v : zint_mod_small_signed(a[v], len, P))

(* One machine word as a signed value: bit W - 1 is copied to bit W above  *)
(* it, which a word of depth 1 may also have set by itself.                *)
OneToPlain(u) == IF u >= Word \div 2 THEN (u % Word) - Word ELSE u
zint_one_to_plain(x) == OneToPlain(x % (2 * Word))

(* x + k*y*2^sc and x - y*2^sc in the xlen words of x.                     *)
zint_add_scaled_mul_small(x, xlen, y, k, sc) == Wrap(x + k * y * 2 ^ sc, xlen)
zint_sub_scaled(x, xlen, y, sc)              == Wrap(x - y * 2 ^ sc, xlen)

----------------------------------------------------------------------------
(* F - k*f*2^sc modulo X^n + 1.                                            *)

(* Deep levels: every product of coefficients is subtracted from its own   *)
(* place, with the sign turned once it has passed the end.                 *)
poly_sub_scaled(F, Flen, f, k, sc, logn) ==
  LET n == 2 ^ logn
      Sum(i) ==
        LET x[u \in 0 .. n] ==
              IF u = 0 THEN F[i]
              ELSE zint_add_scaled_mul_small(x[u - 1], Flen, f[(i - (u - 1)) % n],
                     IF u - 1 <= i THEN -k[u - 1] ELSE k[u - 1], sc)
        IN  x[n]
  IN  Array(n, Sum)

(* Other levels: k*f from its residues modulo one prime more than the      *)
(* length of f, then a single subtraction.                                 *)
NTTProduct(a, b, P, lg) ==
  modp_iNTT2(Array(2 ^ lg, LAMBDA v :
    modp_montymul(modp_montymul(a[v], b[v], P), P.R2, P)), P, lg)

NTTOf(a, P, lg) == modp_NTT2(Array(2 ^ lg, LAMBDA v : modp_set(a[v], P.p)), P, lg)

SubtractScaled(F, Flen, fk, sc, n) ==
  Array(n, LAMBDA u : zint_sub_scaled(F[u], Flen, fk[u], sc))

poly_sub_scaled_ntt(F, Flen, f, flen, k, sc, logn) ==
  SubtractScaled(F, Flen,
    RebuildPoly(Array(flen + 1, LAMBDA u :
        NTTProduct(NTTOf(k, Prime[u], logn),
                   modp_NTT2(ModPoly(f, flen, Prime[u], logn), Prime[u], logn),
                   Prime[u], logn)),
      flen + 1, logn, TRUE),
    sc, 2 ^ logn)

(* The coefficients as small integers, or nothing if one exceeds lim.      *)
poly_big_to_small(s, lim, logn) ==
  LET z == Array(2 ^ logn, LAMBDA u : zint_one_to_plain(s[u]))
  IN  IF \A u \in DOMAIN z : z[u] \in -lim .. lim THEN {z} ELSE {}
=============================================================================
