----------------------------- MODULE VRF_proofs -----------------------------
(***************************************************************************)
(* Proofs about VRF: types, provability, one output per point, binding of  *)
(* SHAKE signatures, and the refinement of VRFSpec, for every set of keys  *)
(* and messages, every message length and every alteration on the wire.    *)
(***************************************************************************)
EXTENDS VRF, TLAPS

----------------------------------------------------------------------------
(* Lemmas about the signature operators.                                   *)

(* A transcript is data that can be signed.                                *)
LEMMA TranscriptInData ==
  ASSUME NEW k \in Keys, NEW m \in Msgs
  PROVE  Transcript(k, m) \in Data
BY DEF Data

(* Both signing functions return well-formed signatures.                   *)
LEMMA SignType ==
  ASSUME NEW k \in Keys, NEW d \in Data, NEW mode \in Modes
  PROVE  Sign(k, d, mode) \in Sigs
<1>1. SignShake(k, d) \in Sigs
  <2>1. Version(CURRENT_SALT_VERSION) \in Salts
    BY VersionAssumption DEF Salts, CURRENT_SALT_VERSION
  <2>2. ShakeBody(k, d) \in Bodies
    BY DEF Bodies
  <2> QED  BY <2>1, <2>2 DEF SignShake, Sigs, Headers, Encodings
<1>2. SignKeccak(k, d) \in Sigs
  <2>1. NonceField(Nonce(k, d)) \in Salts
    BY DEF Salts, Nonces
  <2>2. KeccakBody(k, d) \in Bodies
    BY DEF Bodies
  <2> QED  BY <2>1, <2>2 DEF SignKeccak, Sigs, Headers, Encodings
<1> QED  BY <1>1, <1>2 DEF Sign

(* A fresh signature verifies for its key, data and mode, at any length.   *)
LEMMA SignVerifies ==
  ASSUME NEW k \in Keys, NEW d \in Data, NEW mode \in Modes
  PROVE  Verify(Sign(k, d, mode), k, d, mode)
<1>1. CASE mode = "keccak"
  BY <1>1 DEF Verify, Sign, VerifyKeccak, SignKeccak, NonceField, VerifyRaw,
              KeccakBody, ShortVector
<1>2. CASE mode # "keccak"
  BY <1>2 DEF Verify, Sign, VerifyShake, SignShake, Version, VerifyRaw,
              ShakeBody, ShortVector
<1> QED  BY <1>1, <1>2

(* A transcript always fits into a Keccak context behind the nonce.        *)
LEMMA TranscriptAbsorbed ==
  ASSUME NEW k, NEW m
  PROVE  Absorbed(NONCE_SIZE, Transcript(k, m)) = Transcript(k, m)
BY DEF Absorbed, Transcript, DataLen, NONCE_SIZE, TRANSCRIPT_SIZE, MAX_BUFFER_SIZE

(* What a Keccak context absorbs is a transcript only when the data was.   *)
LEMMA AbsorbedTranscript ==
  ASSUME NEW used, NEW d, NEW k, NEW m, Absorbed(used, d) = Transcript(k, m)
  PROVE  d = Transcript(k, m)
<1>1. NoData # Transcript(k, m)
  <2>1. NoData.kind = "raw" /\ Transcript(k, m).kind = "transcript"
    BY DEF NoData, Raw, Transcript
  <2> QED  BY <2>1
<1> QED  BY <1>1 DEF Absorbed

(* Digests are equal only when what was absorbed is.                       *)
LEMMA SaltedHashInjective ==
  ASSUME NEW v, NEW w, NEW d, NEW e, SaltedHash(v, d) = SaltedHash(w, e)
  PROVE  v = w /\ d = e
<1>1. SaltedHash(v, d).pre = <<"salt", v>> /\ SaltedHash(v, d).data = d
  BY DEF SaltedHash
<1>2. SaltedHash(w, e).pre = <<"salt", w>> /\ SaltedHash(w, e).data = e
  BY DEF SaltedHash
<1> QED  BY <1>1, <1>2

(* Equal Keccak hash points come from the same nonce and absorbed data.    *)
LEMMA NonceHashInjective ==
  ASSUME NEW v, NEW w, NEW d, NEW e, NonceHash(v, d) = NonceHash(w, e)
  PROVE  v = w /\ Absorbed(NONCE_SIZE, d) = Absorbed(NONCE_SIZE, e)
<1>1. /\ NonceHash(v, d).pre = <<"nonce", v>>
      /\ NonceHash(v, d).data = Absorbed(NONCE_SIZE, d)
  BY DEF NonceHash
<1>2. /\ NonceHash(w, e).pre = <<"nonce", w>>
      /\ NonceHash(w, e).data = Absorbed(NONCE_SIZE, e)
  BY DEF NonceHash
<1> QED  BY <1>1, <1>2

(* A hash point of one mode is none of the other.                          *)
LEMMA ModesHashApart ==
  ASSUME NEW v, NEW w, NEW d, NEW e
  PROVE  SaltedHash(v, d) # NonceHash(w, e)
<1>1. SaltedHash(v, d).alg = "shake" /\ NonceHash(w, e).alg = "keccak"
  BY DEF SaltedHash, NonceHash
<1> QED  BY <1>1

(* A signature value names its key and its hash point.                     *)
LEMMA BodyFields ==
  ASSUME NEW k, NEW d
  PROVE  /\ ShakeBody(k, d).key = k
         /\ ShakeBody(k, d).hm = SaltedHash(CURRENT_SALT_VERSION, d)
         /\ KeccakBody(k, d).key = k
         /\ KeccakBody(k, d).hm = NonceHash(Nonce(k, d), d)
BY DEF ShakeBody, KeccakBody, ShortVector

----------------------------------------------------------------------------
(* Type correctness.                                                       *)

(* What the wire makes of a signature is a well-formed one.                *)
LEMMA AlteredType ==
  ASSUME wire \subseteq Sigs, NEW s \in wire, NEW t \in Altered(s)
  PROVE  t \in Sigs
<1>1. \A v \in Versions : Version(v) \in Salts
  BY DEF Salts
<1> QED  BY <1>1 DEF Altered, Sigs

(* Conversion returns a well-formed signature.                             *)
LEMMA ConvertType ==
  ASSUME NEW s \in Sigs
  PROVE  ConvertToCT(s) \in Sigs
BY DEF ConvertToCT, Sigs, Headers, Encodings

(* A signing call records itself and puts a well-formed signature on the   *)
(* wire.                                                                   *)
LEMMA EmitType ==
  ASSUME TypeOK, NEW k \in Keys, NEW d \in Data, NEW mode \in Modes, Emit(k, d, mode)
  PROVE  signed' \subseteq Calls /\ wire' \subseteq Sigs
BY SignType DEF Emit, TypeOK, Calls

(* Every state holds well-formed signatures, and every signature value in  *)
(* circulation is one that some key can produce.                           *)
THEOREM TypeCorrect == Spec => []TypeOK
<1>1. Init => TypeOK
  BY DEF Init, TypeOK
<1>2. TypeOK /\ [Next]_vars => TypeOK'
  <2> SUFFICES ASSUME TypeOK, [Next]_vars PROVE TypeOK'
    OBVIOUS
  <2>1. ASSUME NEW k \in Keys, GenerateKey(k) PROVE TypeOK'
    BY <2>1 DEF GenerateKey, TypeOK
  <2>2. ASSUME NEW k \in Keys, NEW d \in Data, NEW mode \in Modes,
               SignCompressedWithMode(k, d, mode)
        PROVE  TypeOK'
    <3>1. Emit(k, d, mode)
      BY <2>2 DEF SignCompressedWithMode
    <3> QED  BY <2>2, <3>1, EmitType DEF SignCompressedWithMode, TypeOK
  <2>3. ASSUME NEW k \in Keys, NEW pk \in Keys, NEW m \in Msgs, NEW mode \in Modes,
               VRFProveWithMode(k, pk, m, mode)
        PROVE  TypeOK'
    <3>1. Emit(k, Transcript(pk, m), mode)
      BY <2>3 DEF VRFProveWithMode
    <3>2. Sign(k, Transcript(pk, m), mode) \in Sigs
      BY SignType, TranscriptInData
    <3>3. <<pk, m, mode>> \in Points
      BY DEF Points
    <3>4. Beta(pk, m, Sign(k, Transcript(pk, m), mode)) \in Betas
      BY <3>2 DEF Beta, Betas
    <3>5. evals' \subseteq (Keys \X Points \X Betas)
      BY <2>3, <3>3, <3>4 DEF VRFProveWithMode, TypeOK
    <3> QED  BY <2>3, <3>1, <3>5, EmitType, TranscriptInData DEF VRFProveWithMode, TypeOK
  <2>4. ASSUME AlterOnWire PROVE TypeOK'
    BY <2>4, AlteredType DEF AlterOnWire, TypeOK
  <2>5. ASSUME NEW pk \in Keys, NEW s \in wire, NEW m \in Msgs, NEW mode \in Modes,
               VRFVerifyWithMode(pk, s, m, mode)
        PROVE  TypeOK'
    <3>1. <<pk, m, mode>> \in Points
      BY DEF Points
    <3>2. Beta(pk, m, s) \in Betas
      BY DEF Beta, Betas, TypeOK
    <3> QED  BY <2>5, <3>1, <3>2 DEF VRFVerifyWithMode, TypeOK
  <2>6. ASSUME NEW s \in wire, Convert(s) PROVE TypeOK'
    BY <2>6, ConvertType DEF Convert, TypeOK
  <2>7. CASE UNCHANGED vars
    BY <2>7 DEF vars, TypeOK
  <2> QED  BY <2>1, <2>2, <2>3, <2>4, <2>5, <2>6, <2>7 DEF Next
<1> QED  BY <1>1, <1>2, PTL DEF Spec

----------------------------------------------------------------------------
(* The inductive invariant.  What is on the wire may be altered in every   *)
(* field, but the signature value in it was made by a signing call; what a *)
(* key holder was given and what a consumer accepted is the output over    *)
(* the untouched proof.                                                    *)

BodySigned(s) ==
  \E c \in signed : s.body = Sign(c.key, c.data, c.mode).body

WireBodiesSigned == \A s \in wire : BodySigned(s)

EvalsHonest ==
  \A e \in evals :
    \E k, pk \in Keys, m \in Msgs, mode \in Modes :
      e = <<k, <<pk, m, mode>>, Beta(pk, m, Sign(k, Transcript(pk, m), mode))>>

OutputsHonest ==
  \A o \in outputs :
    \E pk \in Keys, m \in Msgs, mode \in Modes :
      o = <<<<pk, m, mode>>, Beta(pk, m, Sign(pk, Transcript(pk, m), mode))>>

IInv == TypeOK /\ WireBodiesSigned /\ EvalsHonest /\ OutputsHonest

(* A recorded call is its key, data and mode.                              *)
LEMMA CallFields ==
  ASSUME TypeOK, NEW c \in signed
  PROVE  /\ c.key \in Keys /\ c.data \in Data /\ c.mode \in Modes
         /\ c = [key |-> c.key, data |-> c.data, mode |-> c.mode]
BY DEF TypeOK, Calls

(* A SHAKE verification that succeeds names a signing call.                *)
LEMMA ShakeAccepts ==
  ASSUME TypeOK, NEW s, BodySigned(s), NEW pk, NEW d, VerifyShake(s, pk, d)
  PROVE  /\ [key |-> pk, data |-> d, mode |-> "shake"] \in signed
         /\ s.body = ShakeBody(pk, d)
         /\ s.salt[2] = CURRENT_SALT_VERSION
<1>1. PICK c \in signed : s.body = Sign(c.key, c.data, c.mode).body
  BY DEF BodySigned
<1>2. s.body.key = pk /\ s.body.hm = SaltedHash(s.salt[2], d)
  BY DEF VerifyShake, VerifyRaw
<1>3. c.mode # "keccak"
  <2> SUFFICES ASSUME c.mode = "keccak" PROVE FALSE
    OBVIOUS
  <2>1. s.body = KeccakBody(c.key, c.data)
    BY <1>1 DEF Sign, SignKeccak
  <2>2. s.body.hm = NonceHash(Nonce(c.key, c.data), c.data)
    BY <2>1, BodyFields
  <2> QED  BY <1>2, <2>2, ModesHashApart
<1>4. s.body = ShakeBody(c.key, c.data)
  BY <1>1, <1>3 DEF Sign, SignShake
<1>5. s.body.key = c.key /\ s.body.hm = SaltedHash(CURRENT_SALT_VERSION, c.data)
  BY <1>4, BodyFields
<1>6. c.key = pk
  BY <1>2, <1>5
<1>7. c.data = d /\ s.salt[2] = CURRENT_SALT_VERSION
  <2>1. SaltedHash(s.salt[2], d) = SaltedHash(CURRENT_SALT_VERSION, c.data)
    BY <1>2, <1>5
  <2> QED  BY <2>1, SaltedHashInjective
<1>8. c.mode = "shake"
  BY <1>3, CallFields DEF Modes
<1> QED  BY <1>4, <1>6, <1>7, <1>8, CallFields

(* A Keccak verification that succeeds names a signing call of that key,   *)
(* on data whose absorbed part is the same.                                *)
LEMMA KeccakSigner ==
  ASSUME TypeOK, NEW s, BodySigned(s), NEW pk, NEW d, VerifyKeccak(s, pk, d)
  PROVE  \E c \in signed :
           /\ c = [key |-> pk, data |-> c.data, mode |-> "keccak"]
           /\ s.body = KeccakBody(pk, c.data)
           /\ s.salt[2] = Nonce(pk, c.data)
           /\ Absorbed(NONCE_SIZE, d) = Absorbed(NONCE_SIZE, c.data)
<1>1. PICK c \in signed : s.body = Sign(c.key, c.data, c.mode).body
  BY DEF BodySigned
<1>2. s.body.key = pk /\ s.body.hm = NonceHash(s.salt[2], d)
  BY DEF VerifyKeccak, VerifyRaw
<1>3. c.mode = "keccak"
  <2> SUFFICES ASSUME c.mode # "keccak" PROVE FALSE
    OBVIOUS
  <2>1. s.body = ShakeBody(c.key, c.data)
    BY <1>1 DEF Sign, SignShake
  <2>2. s.body.hm = SaltedHash(CURRENT_SALT_VERSION, c.data)
    BY <2>1, BodyFields
  <2> QED  BY <1>2, <2>2, ModesHashApart
<1>4. s.body = KeccakBody(c.key, c.data)
  BY <1>1, <1>3 DEF Sign, SignKeccak
<1>5. s.body.key = c.key /\ s.body.hm = NonceHash(Nonce(c.key, c.data), c.data)
  BY <1>4, BodyFields
<1>6. c.key = pk
  BY <1>2, <1>5
<1>7. /\ s.salt[2] = Nonce(c.key, c.data)
      /\ Absorbed(NONCE_SIZE, d) = Absorbed(NONCE_SIZE, c.data)
  <2>1. NonceHash(s.salt[2], d) = NonceHash(Nonce(c.key, c.data), c.data)
    BY <1>2, <1>5
  <2> QED  BY <2>1, NonceHashInjective
<1>8. c = [key |-> pk, data |-> c.data, mode |-> "keccak"]
  BY <1>3, <1>6, CallFields
<1> QED  BY <1>4, <1>6, <1>7, <1>8

(* Of a transcript, it names the signing call itself.                      *)
LEMMA KeccakAccepts ==
  ASSUME TypeOK, NEW s, BodySigned(s), NEW pk, NEW m,
         VerifyKeccak(s, pk, Transcript(pk, m))
  PROVE  /\ [key |-> pk, data |-> Transcript(pk, m), mode |-> "keccak"] \in signed
         /\ s.body = KeccakBody(pk, Transcript(pk, m))
         /\ s.salt[2] = Nonce(pk, Transcript(pk, m))
<1> DEFINE d == Transcript(pk, m)
<1>1. PICK c \in signed :
        /\ c = [key |-> pk, data |-> c.data, mode |-> "keccak"]
        /\ s.body = KeccakBody(pk, c.data)
        /\ s.salt[2] = Nonce(pk, c.data)
        /\ Absorbed(NONCE_SIZE, d) = Absorbed(NONCE_SIZE, c.data)
  <2> HIDE DEF d
  <2> QED  BY KeccakSigner DEF d
<1>2. c.data = d
  <2>1. Absorbed(NONCE_SIZE, c.data) = Transcript(pk, m)
    BY <1>1, TranscriptAbsorbed
  <2> QED  BY <2>1, AbsorbedTranscript
<1> QED  BY <1>1, <1>2

(* A transcript signature that verifies is, byte for byte, the proof its   *)
(* key holder makes, and its key holder has made it.                       *)
LEMMA AcceptedIsHonest ==
  ASSUME TypeOK, NEW s \in wire, BodySigned(s),
         NEW pk \in Keys, NEW m \in Msgs, NEW mode \in Modes,
         Verify(s, pk, Transcript(pk, m), mode)
  PROVE  /\ s = Sign(pk, Transcript(pk, m), mode)
         /\ [key |-> pk, data |-> Transcript(pk, m), mode |-> mode] \in signed
<1> DEFINE d == Transcript(pk, m)
<1>0. s = [hdr |-> s.hdr, salt |-> s.salt, body |-> s.body, enc |-> s.enc]
      /\ s.salt \in Salts
  BY DEF TypeOK, Sigs
<1>1. s.salt = <<s.salt[1], s.salt[2]>>
  BY <1>0 DEF Salts, Version, NonceField
<1>2. CASE mode = "keccak"
  <2>1. VerifyKeccak(s, pk, d)
    BY <1>2 DEF Verify
  <2>2. s.hdr = "comp" /\ s.salt[1] = "nonce" /\ s.enc = "exact"
    BY <2>1 DEF VerifyKeccak
  <2>3. /\ s.body = KeccakBody(pk, d) /\ s.salt[2] = Nonce(pk, d)
        /\ [key |-> pk, data |-> d, mode |-> "keccak"] \in signed
    BY <2>1, KeccakAccepts
  <2>4. s = SignKeccak(pk, d)
    BY <1>0, <1>1, <2>2, <2>3 DEF SignKeccak, NonceField
  <2> QED  BY <1>2, <2>3, <2>4 DEF Sign
<1>3. CASE mode # "keccak"
  <2>1. VerifyShake(s, pk, d) /\ mode = "shake"
    BY <1>3 DEF Verify, Modes
  <2>2. s.hdr = "det_comp" /\ s.salt[1] = "version" /\ s.enc = "exact"
    BY <2>1 DEF VerifyShake
  <2>3. /\ s.body = ShakeBody(pk, d) /\ s.salt[2] = CURRENT_SALT_VERSION
        /\ [key |-> pk, data |-> d, mode |-> "shake"] \in signed
    BY <2>1, ShakeAccepts
  <2>4. s = SignShake(pk, d)
    BY <1>0, <1>1, <2>2, <2>3 DEF SignShake, Version
  <2> QED  BY <2>1, <2>3, <2>4 DEF Sign
<1> QED  BY <1>2, <1>3

(* A signature that is emitted stems from the call that is recorded with   *)
(* it.                                                                     *)
LEMMA EmitKeepsBodies ==
  ASSUME IInv, NEW k \in Keys, NEW d \in Data, NEW mode \in Modes, Emit(k, d, mode)
  PROVE  WireBodiesSigned'
<1> DEFINE c == [key |-> k, data |-> d, mode |-> mode]
<1>1. c \in signed' /\ signed \subseteq signed' /\ wire' = wire \cup {Sign(k, d, mode)}
  BY DEF Emit
<1>2. \A s \in wire : BodySigned(s)'
  BY <1>1 DEF IInv, WireBodiesSigned, BodySigned
<1>3. BodySigned(Sign(k, d, mode))'
  BY <1>1 DEF BodySigned
<1> QED  BY <1>1, <1>2, <1>3 DEF WireBodiesSigned

(* An alteration exchanges signature values at most, and creates none.     *)
LEMMA AlterKeepsBodies ==
  ASSUME IInv, AlterOnWire
  PROVE  WireBodiesSigned'
<1>1. PICK s \in wire : \E t \in Altered(s) : wire' = wire \cup {t}
  BY DEF AlterOnWire
<1>2. PICK t \in Altered(s) : wire' = wire \cup {t}
  BY <1>1
<1>3. \E w \in wire : t.body = w.body
  <2>1. s = [hdr |-> s.hdr, salt |-> s.salt, body |-> s.body, enc |-> s.enc]
    BY DEF IInv, TypeOK, Sigs
  <2> QED  BY <2>1, <1>2 DEF Altered
<1>4. signed' = signed
  BY DEF AlterOnWire
<1> QED  BY <1>2, <1>3, <1>4 DEF IInv, WireBodiesSigned, BodySigned

(* The three parts above are maintained by every step.                     *)
THEOREM Invariance == Spec => []IInv
<1>1. Init => IInv
  BY DEF Init, IInv, TypeOK, WireBodiesSigned, EvalsHonest, OutputsHonest
<1>2. IInv /\ [Next]_vars /\ TypeOK' => IInv'
  <2> SUFFICES ASSUME IInv, [Next]_vars, TypeOK'
               PROVE  WireBodiesSigned' /\ EvalsHonest' /\ OutputsHonest'
    BY DEF IInv
  <2> USE DEF IInv
  <2>1. ASSUME NEW k \in Keys, GenerateKey(k)
        PROVE  WireBodiesSigned' /\ EvalsHonest' /\ OutputsHonest'
    BY <2>1 DEF GenerateKey, WireBodiesSigned, BodySigned, EvalsHonest, OutputsHonest
  <2>2. ASSUME NEW k \in Keys, NEW d \in Data, NEW mode \in Modes,
               SignCompressedWithMode(k, d, mode)
        PROVE  WireBodiesSigned' /\ EvalsHonest' /\ OutputsHonest'
    <3>1. WireBodiesSigned'
      BY <2>2, EmitKeepsBodies DEF SignCompressedWithMode
    <3> QED  BY <2>2, <3>1 DEF SignCompressedWithMode, EvalsHonest, OutputsHonest
  <2>3. ASSUME NEW k \in Keys, NEW pk \in Keys, NEW m \in Msgs, NEW mode \in Modes,
               VRFProveWithMode(k, pk, m, mode)
        PROVE  WireBodiesSigned' /\ EvalsHonest' /\ OutputsHonest'
    <3>1. WireBodiesSigned'
      BY <2>3, EmitKeepsBodies, TranscriptInData DEF VRFProveWithMode
    <3>2. EvalsHonest'
      BY <2>3 DEF VRFProveWithMode, EvalsHonest
    <3>3. OutputsHonest'
      BY <2>3 DEF VRFProveWithMode, OutputsHonest
    <3> QED  BY <3>1, <3>2, <3>3
  <2>4. ASSUME AlterOnWire
        PROVE  WireBodiesSigned' /\ EvalsHonest' /\ OutputsHonest'
    <3>1. WireBodiesSigned'
      BY <2>4, AlterKeepsBodies
    <3> QED  BY <2>4, <3>1 DEF AlterOnWire, EvalsHonest, OutputsHonest
  <2>5. ASSUME NEW pk \in Keys, NEW s \in wire, NEW m \in Msgs, NEW mode \in Modes,
               VRFVerifyWithMode(pk, s, m, mode)
        PROVE  WireBodiesSigned' /\ EvalsHonest' /\ OutputsHonest'
    <3>1. s = Sign(pk, Transcript(pk, m), mode)
      BY <2>5, AcceptedIsHonest DEF VRFVerifyWithMode, WireBodiesSigned
    <3>2. OutputsHonest'
      BY <2>5, <3>1 DEF VRFVerifyWithMode, OutputsHonest
    <3>3. WireBodiesSigned' /\ EvalsHonest'
      BY <2>5 DEF VRFVerifyWithMode, WireBodiesSigned, BodySigned, EvalsHonest
    <3> QED  BY <3>2, <3>3
  <2>6. ASSUME NEW s \in wire, Convert(s)
        PROVE  WireBodiesSigned' /\ EvalsHonest' /\ OutputsHonest'
    BY <2>6 DEF Convert, WireBodiesSigned, BodySigned, EvalsHonest, OutputsHonest
  <2>7. CASE UNCHANGED vars
    BY <2>7 DEF vars, WireBodiesSigned, BodySigned, EvalsHonest, OutputsHonest
  <2> QED  BY <2>1, <2>2, <2>3, <2>4, <2>5, <2>6, <2>7 DEF Next
<1> QED  BY <1>1, <1>2, TypeCorrect, PTL DEF Spec

----------------------------------------------------------------------------
(* The properties of the runs, for every instance.                         *)

(* Prove then verify succeeds in both modes for every key, message and     *)
(* length, and both sides compute the same output.                         *)
THEOREM ProvabilityHolds == Spec => []Provability
<1>1. IInv => Provability
  <2> SUFFICES ASSUME IInv, NEW e \in evals, e[1] = e[2][1]
               PROVE  LET pk == e[2][1]  m == e[2][2]  mode == e[2][3]
                          s == Sign(e[1], Transcript(pk, m), mode)
                      IN  Verify(s, pk, Transcript(pk, m), mode) /\ e[3] = Beta(pk, m, s)
    BY DEF Provability
  <2>1. PICK k \in Keys, pk \in Keys, m \in Msgs, mode \in Modes :
          e = <<k, <<pk, m, mode>>, Beta(pk, m, Sign(k, Transcript(pk, m), mode))>>
    BY DEF IInv, EvalsHonest
  <2>2. k = pk
    BY <2>1
  <2>3. Verify(Sign(k, Transcript(pk, m), mode), k, Transcript(pk, m), mode)
    BY SignVerifies, TranscriptInData
  <2> QED  BY <2>1, <2>2, <2>3
<1> QED  BY <1>1, Invariance, PTL

(* No replay, alteration or re-encoding makes a second output acceptable   *)
(* at a point.                                                             *)
THEOREM OneOutputHolds == Spec => []OneOutput
<1>1. IInv => OneOutput
  <2> DEFINE Honest(o) ==
        \E pk \in Keys, m \in Msgs, mode \in Modes :
          o = <<<<pk, m, mode>>, Beta(pk, m, Sign(pk, Transcript(pk, m), mode))>>
  <2> SUFFICES ASSUME IInv,
                      NEW x \in outputs \cup
                            {<<e[2], e[3]>> : e \in {z \in evals : z[1] = z[2][1]}},
                      NEW y \in outputs \cup
                            {<<e[2], e[3]>> : e \in {z \in evals : z[1] = z[2][1]}},
                      x[1] = y[1]
               PROVE  x[2] = y[2]
    BY DEF OneOutput
  <2>1. ASSUME NEW o \in outputs \cup
                     {<<e[2], e[3]>> : e \in {z \in evals : z[1] = z[2][1]}}
        PROVE  Honest(o)
    <3>1. CASE o \in outputs
      BY <3>1 DEF IInv, OutputsHonest
    <3>2. ASSUME NEW e \in evals, e[1] = e[2][1], o = <<e[2], e[3]>> PROVE Honest(o)
      <4>1. PICK k \in Keys, pk \in Keys, m \in Msgs, mode \in Modes :
              e = <<k, <<pk, m, mode>>, Beta(pk, m, Sign(k, Transcript(pk, m), mode))>>
        BY DEF IInv, EvalsHonest
      <4> QED  BY <3>2, <4>1
    <3> QED  BY <3>1, <3>2
  <2>2. Honest(x) /\ Honest(y)
    BY <2>1
  <2> QED  BY <2>2
<1> QED  BY <1>1, Invariance, PTL

(* A SHAKE signature that verifies was made by its key for its data.       *)
THEOREM ShakeBindingHolds == Spec => []ShakeBinding
<1>1. IInv => ShakeBinding
  BY ShakeAccepts DEF IInv, WireBodiesSigned, ShakeBinding
<1> QED  BY <1>1, Invariance, PTL

----------------------------------------------------------------------------
(* A CT signature carries a signature value that was signed, and the       *)
(* version byte of the compressed signature it was converted from.         *)
CTsConverted ==
  \A c \in cts : BodySigned(c) /\ c.salt[1] = "version" /\ c \in Sigs

(* A recorded call stays recorded.                                         *)
LEMMA SignedGrows == TypeOK /\ [Next]_vars => signed \subseteq signed'
BY DEF Next, vars, GenerateKey, SignCompressedWithMode, VRFProveWithMode, Emit,
       AlterOnWire, VRFVerifyWithMode, Convert

(* What conversion produced stems from signing calls with the salt         *)
(* version kept.                                                           *)
LEMMA ConvertedBodies == Spec => []CTsConverted
<1>1. Init => CTsConverted
  BY DEF Init, CTsConverted
<1>2. CTsConverted /\ IInv /\ [Next]_vars => CTsConverted'
  <2> SUFFICES ASSUME CTsConverted, IInv, [Next]_vars PROVE CTsConverted'
    OBVIOUS
  <2>1. signed \subseteq signed'
    BY SignedGrows DEF IInv
  <2>2. \A c \in cts : BodySigned(c)' /\ c.salt[1] = "version" /\ c \in Sigs
    BY <2>1 DEF CTsConverted, BodySigned
  <2>3. ASSUME NEW s \in wire, Convert(s) PROVE CTsConverted'
    <3> DEFINE c == ConvertToCT(s)
    <3>1. cts' = cts \cup {c} /\ signed' = signed /\ Convertible(s)
      BY <2>3 DEF Convert
    <3>2. c.body = s.body /\ c.salt = s.salt /\ c \in Sigs
      BY ConvertType DEF ConvertToCT, IInv, TypeOK
    <3>3. BodySigned(s) /\ s.salt[1] = "version"
      BY <3>1 DEF IInv, WireBodiesSigned, Convertible
    <3> HIDE DEF c
    <3>4. BodySigned(c)'
      BY <3>1, <3>2, <3>3 DEF BodySigned
    <3> QED  BY <2>2, <3>1, <3>2, <3>3, <3>4 DEF CTsConverted
  <2>4. ASSUME UNCHANGED cts PROVE CTsConverted'
    BY <2>2, <2>4 DEF CTsConverted
  <2> QED  BY <2>3, <2>4 DEF Next, vars, GenerateKey, SignCompressedWithMode,
              VRFProveWithMode, AlterOnWire, VRFVerifyWithMode
<1> QED  BY <1>1, <1>2, Invariance, PTL DEF Spec

(* A CT signature that verifies was signed by that key for that data in    *)
(* SHAKE mode, and with the compressed header it verifies there too.       *)
THEOREM CTBindingHolds == Spec => []CTBinding
<1>1. CTsConverted /\ IInv => CTBinding
  <2> SUFFICES ASSUME CTsConverted, IInv, NEW c \in cts, NEW pk \in Keys, NEW d \in Data,
                      VerifyCT(c, pk, d)
               PROVE  /\ [key |-> pk, data |-> d, mode |-> "shake"] \in signed
                      /\ VerifyShake([c EXCEPT !.hdr = "det_comp"], pk, d)
    BY DEF CTBinding
  <2> DEFINE s == [c EXCEPT !.hdr = "det_comp"]
  <2>1. s.hdr = "det_comp" /\ s.salt = c.salt /\ s.body = c.body /\ s.enc = c.enc
    BY DEF CTsConverted, Sigs
  <2>2. BodySigned(c) /\ c.salt[1] = "version"
    BY DEF CTsConverted
  <2> HIDE DEF s
  <2>3. VerifyShake(s, pk, d)
    BY <2>1, <2>2 DEF VerifyCT, VerifyShake
  <2>4. BodySigned(s)
    BY <2>1, <2>2 DEF BodySigned
  <2>5. [key |-> pk, data |-> d, mode |-> "shake"] \in signed
    BY <2>3, <2>4, ShakeAccepts DEF IInv
  <2> QED  BY <2>3, <2>5 DEF s
<1> QED  BY <1>1, ConvertedBodies, Invariance, PTL

----------------------------------------------------------------------------
(* DataBinding fails for Keccak signatures of data that do not fit behind  *)
(* the nonce.  It holds for all other data, the empty data aside, for      *)
(* which a signature of refused, longer data verifies as well.             *)
Absorbable(d) == NONCE_SIZE + DataLen(d) <= MAX_BUFFER_SIZE /\ d # NoData

DataBindingInBuffer ==
  \A s \in wire, pk \in Keys, d \in Data, mode \in Modes :
    Verify(s, pk, d, mode) /\ (mode = "keccak" => Absorbable(d)) =>
      [key |-> pk, data |-> d, mode |-> mode] \in signed

(* Data have a length.                                                     *)
LEMMA DataLenType ==
  ASSUME NEW d \in Data
  PROVE  DataLen(d) \in Nat
<1>1. CASE d.kind = "transcript"
  BY <1>1 DEF DataLen, TRANSCRIPT_SIZE
<1>2. CASE d.kind # "transcript"
  <2>1. d.msg \in Msgs
    BY <1>2 DEF Data, Raw, Transcript
  <2> QED  BY <1>2, <2>1, MsgAssumption DEF DataLen
<1> QED  BY <1>1, <1>2

(* Of other absorbable data, it does so too.                               *)
LEMMA KeccakBinds ==
  ASSUME TypeOK, NEW s, BodySigned(s), NEW pk, NEW d \in Data, Absorbable(d),
         VerifyKeccak(s, pk, d)
  PROVE  [key |-> pk, data |-> d, mode |-> "keccak"] \in signed
<1>1. PICK c \in signed :
        /\ c = [key |-> pk, data |-> c.data, mode |-> "keccak"]
        /\ Absorbed(NONCE_SIZE, d) = Absorbed(NONCE_SIZE, c.data)
  BY KeccakSigner
<1>2. Absorbed(NONCE_SIZE, d) = d
  <2>1. DataLen(d) \in Nat
    BY DataLenType
  <2> QED  BY <2>1 DEF Absorbed, Absorbable, NONCE_SIZE, MAX_BUFFER_SIZE
<1>3. c.data = d
  BY <1>1, <1>2 DEF Absorbed, Absorbable
<1> QED  BY <1>1, <1>3

(* What verifies was signed, in both modes, except over Keccak data longer *)
(* than the input buffer holds.                                            *)
THEOREM DataBindingInBufferHolds == Spec => []DataBindingInBuffer
<1>1. IInv => DataBindingInBuffer
  <2> SUFFICES ASSUME IInv, NEW s \in wire, NEW pk \in Keys, NEW d \in Data,
                      NEW mode \in Modes, Verify(s, pk, d, mode),
                      mode = "keccak" => Absorbable(d)
               PROVE  [key |-> pk, data |-> d, mode |-> mode] \in signed
    BY DEF DataBindingInBuffer
  <2>1. TypeOK /\ BodySigned(s)
    BY DEF IInv, WireBodiesSigned
  <2>2. CASE mode = "keccak"
    BY <2>1, <2>2, KeccakBinds DEF Verify
  <2>3. CASE mode # "keccak"
    BY <2>1, <2>3, ShakeAccepts DEF Verify, Modes
  <2> QED  BY <2>2, <2>3
<1> QED  BY <1>1, Invariance, PTL

----------------------------------------------------------------------------
(* Every step of the system is a step of the abstract VRF or a stutter.    *)
THEOREM Refinement == Spec => ImplementsVRF
<1>1. Init => Abstract!Init
  BY DEF Init, Abstract!Init, EvaluatedPoints
<1>2. IInv /\ TypeOK' /\ [Next]_vars => [Abstract!Next]_(Abstract!vars)
  <2> SUFFICES ASSUME IInv, TypeOK', [Next]_vars PROVE [Abstract!Next]_(Abstract!vars)
    OBVIOUS
  <2>1. ASSUME NEW k \in Keys, NEW d \in Data, NEW mode \in Modes, Emit(k, d, mode),
               UNCHANGED outputs
        PROVE  [Abstract!Next]_(Abstract!vars)
    <3> DEFINE c == [key |-> k, data |-> d, mode |-> mode]
    <3>1. signed' = signed \cup {c}
      BY <2>1 DEF Emit
    <3>2. CASE d.kind = "transcript" /\ d.pk = k
      <4>1. d.msg \in Msgs
        BY <3>2 DEF Data, Raw, Transcript
      <4>2. <<k, d.msg, mode>> \in Points
        BY <4>1 DEF Points
      <4>3. EvaluatedPoints' = EvaluatedPoints \cup {<<k, d.msg, mode>>}
        <5> HIDE DEF c
        <5>1. /\ c.data.kind = "transcript" /\ c.data.pk = c.key
              /\ <<c.key, c.data.msg, c.mode>> = <<k, d.msg, mode>>
          BY <3>2 DEF c
        <5>2. {x \in signed' : x.data.kind = "transcript" /\ x.data.pk = x.key}
              = {x \in signed : x.data.kind = "transcript" /\ x.data.pk = x.key}
                  \cup {c}
          BY <3>1, <5>1
        <5> QED  BY <5>1, <5>2 DEF EvaluatedPoints
      <4> QED  BY <2>1, <4>2, <4>3 DEF Abstract!Next, Abstract!Evaluate
    <3>3. CASE ~(d.kind = "transcript" /\ d.pk = k)
      <4>1. EvaluatedPoints' = EvaluatedPoints
        BY <3>1, <3>3 DEF EvaluatedPoints
      <4> QED  BY <2>1, <4>1 DEF Abstract!vars
    <3> QED  BY <3>2, <3>3
  <2>2. ASSUME NEW pk \in Keys, NEW s \in wire, NEW m \in Msgs, NEW mode \in Modes,
               VRFVerifyWithMode(pk, s, m, mode)
        PROVE  [Abstract!Next]_(Abstract!vars)
    <3> DEFINE p == <<pk, m, mode>>
               d == Transcript(pk, m)
    <3>1. /\ s = Sign(pk, d, mode)
          /\ [key |-> pk, data |-> d, mode |-> mode] \in signed
      BY <2>2, AcceptedIsHonest DEF VRFVerifyWithMode, IInv, WireBodiesSigned
    <3>2. p \in Points
      BY DEF Points
    <3>3. p \in EvaluatedPoints
      <4>1. d.kind = "transcript" /\ d.pk = pk /\ d.msg = m
        BY DEF Transcript
      <4> HIDE DEF d
      <4> QED  BY <3>1, <4>1 DEF EvaluatedPoints
    <3>4. VRFValue[p] = Beta(pk, m, s)
      BY <3>1, <3>2 DEF VRFValue
    <3>5. outputs' = outputs \cup {<<p, VRFValue[p]>>}
      BY <2>2, <3>4 DEF VRFVerifyWithMode
    <3>6. EvaluatedPoints' = EvaluatedPoints
      BY <2>2 DEF VRFVerifyWithMode, EvaluatedPoints
    <3> QED  BY <3>2, <3>3, <3>5, <3>6 DEF Abstract!Next, Abstract!Accept
  <2>3. ASSUME UNCHANGED <<signed, outputs>>
        PROVE  [Abstract!Next]_(Abstract!vars)
    BY <2>3 DEF Abstract!vars, EvaluatedPoints
  <2>4. ASSUME NEW k \in Keys, GenerateKey(k) PROVE UNCHANGED <<signed, outputs>>
    BY <2>4 DEF GenerateKey
  <2>5. ASSUME NEW s \in wire, Convert(s) PROVE UNCHANGED <<signed, outputs>>
    BY <2>5 DEF Convert
  <2>6. CASE AlterOnWire
    BY <2>3, <2>6 DEF AlterOnWire
  <2>7. ASSUME NEW k \in Keys, NEW d \in Data, NEW mode \in Modes,
               SignCompressedWithMode(k, d, mode)
        PROVE  [Abstract!Next]_(Abstract!vars)
    BY <2>1, <2>7 DEF SignCompressedWithMode
  <2>8. ASSUME NEW k \in Keys, NEW pk \in Keys, NEW m \in Msgs, NEW mode \in Modes,
               VRFProveWithMode(k, pk, m, mode)
        PROVE  [Abstract!Next]_(Abstract!vars)
    BY <2>1, <2>8, TranscriptInData DEF VRFProveWithMode
  <2>9. CASE UNCHANGED vars
    BY <2>3, <2>9 DEF vars
  <2> QED  BY <2>2, <2>3, <2>4, <2>5, <2>6, <2>7, <2>8, <2>9 DEF Next
<1> QED  BY <1>1, <1>2, Invariance, TypeCorrect, PTL DEF Spec, ImplementsVRF, Abstract!Spec

=============================================================================
