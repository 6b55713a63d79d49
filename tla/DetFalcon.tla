----------------------------- MODULE DetFalcon -----------------------------
(***************************************************************************)
(* The deterministic Falcon-512 signature API: what its calls compute.     *)
(*                                                                         *)
(* crypto/deterministic.c on top of crypto/falcon.c, behind the Go         *)
(* bindings of crypto/falcon.go.  Two backends ("modes") sign and verify:  *)
(* SHAKE (fixed versioned salt) and Keccak (a 40-byte nonce derived from   *)
(* key and data).  A SHAKE signature can be converted to the fixed-length  *)
(* CT format.  The calls keep no state, so this module holds operators     *)
(* only; VRF.tla is the system of callers, wire and verifiers around them. *)
(*                                                                         *)
(* Abstractions.  A digest is the record of what was absorbed into it, so  *)
(* equal digests mean equal inputs.  A signature value s2 is the record    *)
(* of the key, hash point and sampler seed it was made from: verify_raw    *)
(* accepts it for exactly that key and that hash point.  A byte string is  *)
(* its header, its salt field, its s2 and how its s2 bytes are encoded.    *)
(***************************************************************************)
EXTENDS Integers

CONSTANTS
  Keys,     (* key pairs, one per key generation seed                      *)
  NoKey,    (* the key field of data that names no public key              *)
  Msgs,     (* messages callers sign directly or evaluate the VRF on       *)
  Empty,    (* the empty message                                           *)
  MsgLen,   (* length in bytes of every message                            *)
  Versions  (* salt versions that occur in byte 1 of a SHAKE signature     *)

ASSUME KeyAssumption == NoKey \notin Keys
ASSUME MsgAssumption == /\ MsgLen \in [Msgs -> Nat]
                        /\ Empty \in Msgs
                        /\ MsgLen[Empty] = 0
ASSUME VersionAssumption == 0 \in Versions

Modes == {"shake", "keccak"}

MAX_BUFFER_SIZE == 4096      (* input buffer of a Keccak context           *)
PRIVKEY_SIZE    == 1281
NONCE_SIZE      == 40
TRANSCRIPT_SIZE == 64        (* SHA-512 output                             *)
CURRENT_SALT_VERSION == 0

(* Headers: 0x39|0x80, 0x39, 0x59|0x80, and any other byte.                *)
Headers   == {"det_comp", "comp", "det_ct", "other"}

(* The s2 bytes: the one canonical encoding; that encoding followed by     *)
(* further bytes; or bytes the decoder refuses (truncated, out of range,   *)
(* minus zero, unused bits set).                                           *)
Encodings == {"exact", "longer", "bad"}

----------------------------------------------------------------------------
(* What is signed: raw caller data, or the VRF transcript of (pk, msg).    *)

Raw(m) == [kind |-> "raw", pk |-> NoKey, msg |-> m]

(* makeVRFProveTranscript: SHA-512 over domain, public key and message.    *)
Transcript(k, m) == [kind |-> "transcript", pk |-> k, msg |-> m]

Data == {Raw(m) : m \in Msgs} \cup {Transcript(k, m) : k \in Keys, m \in Msgs}

DataLen(d) == IF d.kind = "transcript" THEN TRANSCRIPT_SIZE ELSE MsgLen[d.msg]

NoData == Raw(Empty)

(* inject into a Keccak context that already holds `used` bytes: an input  *)
(* that does not fit is refused, the callers ignore the refusal, and the   *)
(* digest is that of the bytes absorbed before it.                         *)
Absorbed(used, d) == IF used + DataLen(d) > MAX_BUFFER_SIZE THEN NoData ELSE d

(* SHAKE(salt || data), the salt being fixed by its version byte.          *)
SaltedHash(version, d) ==
  [alg |-> "shake", pre |-> <<"salt", version>>, data |-> d]

(* SHAKE(logn || privkey || data): the sampler's seed in SHAKE mode.       *)
SignSeed(k, d) == [alg |-> "shake", pre |-> <<"sk", k>>, data |-> d]

(* Keccak(sk[0] || privkey || data), 40 bytes of it.                       *)
Nonce(k, d) == [alg  |-> "keccak", pre |-> <<"sk", k>>,
                data |-> Absorbed(1 + PRIVKEY_SIZE, d)]

(* Keccak(nonce || data), expanded to the hash point.                      *)
NonceHash(nonce, d) == [alg  |-> "keccak", pre |-> <<"nonce", nonce>>,
                        data |-> Absorbed(NONCE_SIZE, d)]

(* The sampler's seed in Keccak mode is the nonce alone.                   *)
NonceSeed(nonce) == [alg |-> "shake", pre |-> <<"nonce", nonce>>, data |-> NoData]

Nonces == {Nonce(k, d) : k \in Keys, d \in Data}

(* The salt field of a signature: a version byte, or the 40-byte nonce.    *)
Version(v)    == <<"version", v>>
NonceField(v) == <<"nonce", v>>

Salts == {Version(v) : v \in Versions} \cup {NonceField(v) : v \in Nonces}

----------------------------------------------------------------------------
(* Signing.                                                                *)

(* sign_dyn: the short vector found for a hash point with a seeded sampler *)
ShortVector(k, hm, seed) == [key |-> k, hm |-> hm, seed |-> seed]

ShakeBody(k, d) ==
  ShortVector(k, SaltedHash(CURRENT_SALT_VERSION, d), SignSeed(k, d))

KeccakBody(k, d) ==
  LET nonce == Nonce(k, d) IN ShortVector(k, NonceHash(nonce, d), NonceSeed(nonce))

Bodies == {ShakeBody(k, d) : k \in Keys, d \in Data}
            \cup {KeccakBody(k, d) : k \in Keys, d \in Data}

Sigs == [hdr : Headers, salt : Salts, body : Bodies, enc : Encodings]

(* Deliberate bug, for the runs' mutants: the version byte of another salt. *)
SignShakeOtherVersion(k, d) ==
  [hdr |-> "det_comp", salt |-> Version(CURRENT_SALT_VERSION + 1),
   body |-> ShakeBody(k, d), enc |-> "exact"]

(* falcon_det512_sign_compressed: salt dropped, version byte kept.         *)
SignShake(k, d) ==
  [hdr |-> "det_comp", salt |-> Version(CURRENT_SALT_VERSION),
   body |-> ShakeBody(k, d), enc |-> "exact"]

(* falcon_det512_sign_compressed_keccak: the nonce travels in the proof.   *)
SignKeccak(k, d) ==
  [hdr |-> "comp", salt |-> NonceField(Nonce(k, d)),
   body |-> KeccakBody(k, d), enc |-> "exact"]

(* SignCompressedWithMode: dispatch on the mode.                           *)
Sign(k, d, mode) == IF mode = "keccak" THEN SignKeccak(k, d) ELSE SignShake(k, d)

----------------------------------------------------------------------------
(* Verification.                                                           *)

(* Deliberate bug: the public key plays no part.                           *)
VerifyRawAnyKey(hm, s2, pk) == s2.hm = hm

VerifyRaw(hm, s2, pk) == s2.key = pk /\ s2.hm = hm

(* Deliberate bug: trailing bytes are accepted.                            *)
VerifyShakeTrailing(sig, pk, d) ==
  /\ sig.hdr = "det_comp"
  /\ sig.salt[1] = "version"
  /\ sig.enc # "bad"
  /\ VerifyRaw(SaltedHash(sig.salt[2], d), sig.body, pk)

(* falcon_det512_verify_compressed: header, resalt with the signature's    *)
(* own version byte, then verify_finish, which refuses trailing bytes in   *)
(* the compressed format.  A nonce-format string with a SHAKE header is    *)
(* cut at the wrong place, so its s2 is not the signer's.                  *)
VerifyShake(sig, pk, d) ==
  /\ sig.hdr = "det_comp"
  /\ sig.salt[1] = "version"
  /\ sig.enc = "exact"
  /\ VerifyRaw(SaltedHash(sig.salt[2], d), sig.body, pk)

(* falcon_det512_verify_compressed_keccak: header, exact length, then the  *)
(* hash point from the nonce in the signature.                             *)
VerifyKeccak(sig, pk, d) ==
  /\ sig.hdr = "comp"
  /\ sig.salt[1] = "nonce"
  /\ sig.enc = "exact"
  /\ VerifyRaw(NonceHash(sig.salt[2], d), sig.body, pk)

(* Deliberate bug: the header chooses the backend, not the mode.           *)
VerifyByHeader(sig, pk, d, mode) ==
  IF sig.hdr = "comp" THEN VerifyKeccak(sig, pk, d) ELSE VerifyShake(sig, pk, d)

Verify(sig, pk, d, mode) ==
  IF mode = "keccak" THEN VerifyKeccak(sig, pk, d) ELSE VerifyShake(sig, pk, d)

(* Deliberate bug: the current salt instead of the signature's.            *)
VerifyCTCurrentSalt(ct, pk, d) ==
  /\ ct.hdr = "det_ct"
  /\ ct.enc = "exact"
  /\ VerifyRaw(SaltedHash(CURRENT_SALT_VERSION, d), ct.body, pk)

(* falcon_det512_verify_ct: fixed length, so there are no trailing bytes.  *)
VerifyCT(ct, pk, d) ==
  /\ ct.hdr = "det_ct"
  /\ ct.enc = "exact"
  /\ VerifyRaw(SaltedHash(ct.salt[2], d), ct.body, pk)

----------------------------------------------------------------------------
(* Conversion to the CT format: the header is checked and the s2 bytes     *)
(* must decode, but bytes behind them are not looked at.                   *)
Convertible(sig) ==
  /\ sig.hdr = "det_comp"
  /\ sig.salt[1] = "version"
  /\ sig.enc # "bad"

ConvertToCT(sig) ==
  [hdr |-> "det_ct", salt |-> sig.salt, body |-> sig.body, enc |-> "exact"]

----------------------------------------------------------------------------
(* Deliberate bug: hashes the s2 bytes, not the whole proof.               *)
BetaOfBody(pk, m, sig) == [pk |-> pk, msg |-> m, proof |-> sig.body]

(* VRFProofToHash: SHA-512 over domain, public key, message and the exact  *)
(* bytes of the proof, without verifying it.                               *)
Beta(pk, m, sig) == [pk |-> pk, msg |-> m, proof |-> sig]

=============================================================================
