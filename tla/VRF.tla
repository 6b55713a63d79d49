-------------------------------- MODULE VRF --------------------------------
(***************************************************************************)
(* The VRF of crypto/df_vrf.go in use: key holders that evaluate it and    *)
(* sign other data with the same keys, a wire on which proofs are copied,  *)
(* replayed and damaged, and consumers that verify what reaches them.      *)
(***************************************************************************)
EXTENDS DetFalcon, FiniteSets

CONSTANTS
  MaxSigned,  (* bound: how many signing calls a behaviour makes           *)
  MaxWire     (* bound: how many signatures are in circulation             *)

VARIABLES
  made,     (* keys that GenerateKey has produced                          *)
  signed,   (* every signing call that returned: key, data and mode        *)
  evals,    (* what VRFProve returned to key holders: point and output     *)
  wire,     (* compressed signatures and proofs in circulation             *)
  cts,      (* CT signatures obtained by conversion                        *)
  outputs   (* what VRFVerify returned to consumers: point and output      *)

vars == <<made, signed, evals, wire, cts, outputs>>

Points == Keys \X Msgs \X Modes
Betas  == [pk : Keys, msg : Msgs, proof : Sigs]
Calls  == [key : Keys, data : Data, mode : Modes]

TypeOK ==
  /\ made \subseteq Keys
  /\ signed \subseteq Calls
  /\ evals \subseteq (Keys \X Points \X Betas)
  /\ wire \subseteq Sigs
  /\ cts \subseteq Sigs
  /\ outputs \subseteq (Points \X Betas)

----------------------------------------------------------------------------
Init ==
  /\ made = {}
  /\ signed = {}
  /\ evals = {}
  /\ wire = {}
  /\ cts = {}
  /\ outputs = {}

(* GenerateKey: a key pair for a seed; the same seed yields the same pair. *)
GenerateKey(k) ==
  /\ k \notin made
  /\ made' = made \cup {k}
  /\ UNCHANGED <<signed, evals, wire, cts, outputs>>

(* A signing call that succeeds: its signature enters circulation.         *)
Emit(k, d, mode) ==
  /\ k \in made
  /\ Cardinality(signed) < MaxSigned
  /\ Cardinality(wire) < MaxWire
  /\ signed' = signed \cup {[key |-> k, data |-> d, mode |-> mode]}
  /\ wire' = wire \cup {Sign(k, d, mode)}

(* SignCompressedWithMode on caller data, which may be a transcript.       *)
SignCompressedWithMode(k, d, mode) ==
  /\ Emit(k, d, mode)
  /\ UNCHANGED <<made, evals, cts, outputs>>

(* VRFProveWithMode.  The public key is a parameter that nothing compares  *)
(* with the private key.                                                   *)
VRFProveWithMode(k, pk, m, mode) ==
  LET d == Transcript(pk, m) IN
  /\ Emit(k, d, mode)
  /\ evals' = evals \cup {<<k, <<pk, m, mode>>, Beta(pk, m, Sign(k, d, mode))>>}
  /\ UNCHANGED <<made, cts, outputs>>

(* The wire: one field of a signature is replaced, by damage or by a field *)
(* of another signature in circulation.                                    *)
Altered(s) ==
  {[s EXCEPT !.hdr = h] : h \in Headers}
    \cup {[s EXCEPT !.enc = e] : e \in Encodings}
    \cup {[s EXCEPT !.salt = Version(v)] : v \in Versions}
    \cup {[s EXCEPT !.salt = t.salt] : t \in wire}
    \cup {[s EXCEPT !.body = t.body] : t \in wire}

AlterOnWire ==
  /\ Cardinality(wire) < MaxWire
  /\ \E s \in wire : \E t \in Altered(s) : wire' = wire \cup {t}
  /\ UNCHANGED <<made, signed, evals, cts, outputs>>

(* VRFVerifyWithMode: verify the transcript signature, then hash to beta.  *)
VRFVerifyWithMode(pk, s, m, mode) ==
  /\ pk \in made
  /\ Verify(s, pk, Transcript(pk, m), mode)
  /\ outputs' = outputs \cup {<<<<pk, m, mode>>, Beta(pk, m, s)>>}
  /\ UNCHANGED <<made, signed, evals, wire, cts>>

(* CompressedSignature.ConvertToCT: a new CT signature from one in hand.    *)
Convert(s) ==
  /\ Convertible(s)
  /\ cts' = cts \cup {ConvertToCT(s)}
  /\ UNCHANGED <<made, signed, evals, wire, outputs>>

Next ==
  \/ \E k \in Keys : GenerateKey(k)
  \/ \E k \in Keys, d \in Data, mode \in Modes : SignCompressedWithMode(k, d, mode)
  \/ \E k, pk \in Keys, m \in Msgs, mode \in Modes : VRFProveWithMode(k, pk, m, mode)
  \/ AlterOnWire
  \/ \E pk \in Keys, s \in wire, m \in Msgs, mode \in Modes :
       VRFVerifyWithMode(pk, s, m, mode)
  \/ \E s \in wire : Convert(s)

Spec == Init /\ [][Next]_vars

----------------------------------------------------------------------------
(* Properties.                                                             *)

(* Provability (README "Correctness"): a proof made with matching keys     *)
(* verifies, under the mode it was made in, for the message it was made    *)
(* for, and the consumer computes the output the key holder was given.     *)
Provability ==
  \A e \in evals :
    LET k == e[1]  pk == e[2][1]  m == e[2][2]  mode == e[2][3]
    IN  k = pk => LET s == Sign(k, Transcript(pk, m), mode)
                  IN  Verify(s, pk, Transcript(pk, m), mode) /\ e[3] = Beta(pk, m, s)

(* Uniqueness as the code can give it (README "Uniqueness"): at one point  *)
(* of one mode, consumers and the key holder only ever see one output, so  *)
(* no accepted re-encoding of a proof yields a second one.                 *)
OneOutput ==
  LET seen == outputs \cup {<<e[2], e[3]>> : e \in {x \in evals : x[1] = x[2][1]}}
  IN  \A x, y \in seen : x[1] = y[1] => x[2] = y[2]

(* A SHAKE-mode signature that any verifier would accept for some key and  *)
(* data, raw or transcript, comes from a signing call on that key and data *)
(* whatever was altered on the wire.                                       *)
ShakeBinding ==
  \A s \in wire, pk \in Keys, d \in Data :
    VerifyShake(s, pk, d) => [key |-> pk, data |-> d, mode |-> "shake"] \in signed

(* CT conversion forgets how the s2 bytes were framed; even so, a CT       *)
(* signature that verifies was signed by that key, for that data, in SHAKE *)
(* mode, and the compressed original verifies for the same data.           *)
CTBinding ==
  \A c \in cts, pk \in Keys, d \in Data :
    VerifyCT(c, pk, d) =>
      /\ [key |-> pk, data |-> d, mode |-> "shake"] \in signed
      /\ VerifyShake([c EXCEPT !.hdr = "det_comp"], pk, d)

(* deterministic.h: verification is "with respect to the public key ...    *)
(* and the data provided in data[] (of length data_len bytes)".  For every *)
(* mode and every length: what verifies was signed.                        *)
DataBinding ==
  \A s \in wire, pk \in Keys, d \in Data, mode \in Modes :
    Verify(s, pk, d, mode) => [key |-> pk, data |-> d, mode |-> mode] \in signed

(* The system implements the abstract VRF: a point counts as evaluated     *)
(* once its owner has signed its transcript, and the value there is the    *)
(* output over the owner's proof.                                          *)
EvaluatedPoints ==
  {<<r.key, r.data.msg, r.mode>> :
     r \in {c \in signed : c.data.kind = "transcript" /\ c.data.pk = c.key}}

VRFValue ==
  [p \in Points |-> Beta(p[1], p[2], Sign(p[1], Transcript(p[1], p[2]), p[3]))]

Abstract == INSTANCE VRFSpec WITH Value <- VRFValue, evaluated <- EvaluatedPoints

ImplementsVRF == Abstract!Spec
=============================================================================
