--------------------------- MODULE Falcon_proofs ---------------------------
(***************************************************************************)
(* Proofs about the Falcon library under the VRF.                          *)
(*                                                                         *)
(* The streamed signing calls, module SignVerify: for every length of the  *)
(* formats, every set of buffer sizes, every set of data and every number  *)
(* of retries.                                                             *)
(*                                                                         *)
(* The integer arithmetic under key generation and verification, modules   *)
(* ModP, Zint and ModQ: for every width of a word, every modulus in the    *)
(* range of the table and every length of the integers.                    *)
(***************************************************************************)
EXTENDS SignVerify, ModQ, Zint, NumberLemmas, TLAPS

----------------------------------------------------------------------------
(* The streamed signing calls.                                             *)

(* A signing call that got past its checks works on the context it saved,  *)
(* which was flipped once and never drawn from, and on the buffer its      *)
(* caller described.                                                       *)
InCall ==
  pc \in {"hash", "sample", "encode"} =>
    /\ ~Refused(call)
    /\ sigLen = call.cap
    /\ ctx.nonce = saved.nonce /\ ctx.msg = saved.msg
    /\ saved.flips = 1 /\ saved.drawn = 0

(* Before the call the context takes data; in it the shared array holds    *)
(* what the step at pc expects.                                            *)
Contents ==
  /\ pc = "input"  => ctx.flips = 0 /\ ctx.drawn = 0
  /\ pc = "sample" => array = saved
  /\ pc = "encode" => array.hm = saved

SeedsTaken == \A i \in DOMAIN seeds : seeds[i] < rng

IInv == TypeOK /\ InCall /\ Contents /\ InsideBuffer /\ ReleasedVerifies

(* The lengths are numbers, and each format is longer than its prefix.     *)
LEMMA SizeTypes ==
  /\ Prefix \in Nat /\ PaddedSize \in Nat /\ CTSize \in Nat /\ MaxRng \in Nat
  /\ Prefix < PaddedSize /\ Prefix < CTSize
  /\ \A n \in Lengths : n \in Nat
  /\ \A n \in Capacities : n \in Nat
  /\ Wide \notin Lengths
BY SizeAssumption

(* The highest capacity is the highest.                                    *)
LEMMA HighestCapacity ==
  /\ Highest \in Nat
  /\ \A n \in Capacities : n <= Highest
BY CapacityAssumption, SizeTypes DEF Highest

(* Some call is possible.                                                  *)
LEMMA CallsExist == (CHOOSE c \in Calls : TRUE) \in Calls
<1>1. PICK n \in Capacities : TRUE
  BY CapacityAssumption
<1> DEFINE c == [api |-> "dyn", type |-> "ct", cap |-> n, key |-> "good", tmp |-> TRUE]
<1>2. c \in Calls
  BY DEF Calls, Types
<1> QED  BY <1>2

(* A hash context is its four fields.                                      *)
LEMMA ContextFields ==
  ASSUME NEW c \in Contexts
  PROVE  /\ c.nonce \in Nat /\ c.msg \in Seq(Msgs) /\ c.flips \in Nat /\ c.drawn \in Nat
         /\ c = Context(c.nonce, c.msg, c.flips, c.drawn)
BY DEF Contexts, Context

(* Hashing more data, flipping and drawing change one field each.          *)
LEMMA ContextUpdates ==
  ASSUME NEW c \in Contexts
  PROVE  /\ \A x : [c EXCEPT !.msg = x] = Context(c.nonce, x, c.flips, c.drawn)
         /\ [c EXCEPT !.flips = @ + 1] = Context(c.nonce, c.msg, c.flips + 1, c.drawn)
         /\ [c EXCEPT !.drawn = @ + 1] = Context(c.nonce, c.msg, c.flips, c.drawn + 1)
BY DEF Contexts, Context

(* A call that is not refused has room for its prefix and its format.      *)
LEMMA Accepted ==
  ASSUME NEW c \in Calls, ~Refused(c)
  PROVE  /\ c.type \in Types
         /\ c.cap \in Capacities
         /\ Prefix <= c.cap
         /\ c.type = "padded" => PaddedSize <= c.cap
         /\ c.type = "ct" => CTSize <= c.cap
BY SizeTypes DEF Calls, Refused, Types

(* A sampled vector names its hash point, its seed and its length.         *)
LEMMA VectorFields ==
  ASSUME NEW v \in Vectors
  PROVE  /\ v.hm \in Contexts /\ v.seed \in Nat
         /\ v.enc \in Lengths \cup {Wide}
         /\ v.enc # Wide => v.enc \in Nat
BY SizeTypes DEF Vectors

----------------------------------------------------------------------------
(* One extraction from the generator.                                      *)
LEMMA ExtractTypes ==
  ASSUME rng \in 0 .. MaxRng, seeds \in Seq(0 .. MaxRng), Extract
  PROVE  /\ rng \in Nat
         /\ rng' \in 0 .. MaxRng
         /\ seeds' \in Seq(0 .. MaxRng)
<1>1. rng < MaxRng /\ rng' = rng + 1 /\ seeds' = Append(seeds, rng)
  BY DEF Extract
<1>2. seeds' \in Seq(0 .. MaxRng)
  BY <1>1, AppendProperties
<1> QED  BY <1>1, <1>2, SizeTypes

(* What the verifier makes of a signature the signer formed from an intact *)
(* vector.                                                                 *)
LEMMA FormedVerifies ==
  ASSUME NEW v \in Vectors, NEW msg, NEW type \in Types, NEW s,
         v.enc # Wide,
         v.hm = Context(s.nonce, msg, 1, 0),
         s.vec = v, s.junk = FALSE,
         \/ type = "compressed" /\ s.hdr = "comp" /\ s.zeros = 0
         \/ /\ type = "padded" /\ s.hdr = "comp"
            /\ s.zeros = PaddedSize - Prefix - v.enc
         \/ type = "ct" /\ s.hdr = "ct" /\ s.zeros = 0
  PROVE  /\ Verify(s, type, msg)
         /\ Verify(s, "any", msg)
<1>1. v.enc \in Nat
  BY VectorFields
<1>2. type = "padded" => ByteLen(s) = PaddedSize
  BY <1>1, SizeTypes DEF ByteLen
<1>3. s.hdr = "ct" => ByteLen(s) = CTSize
  BY <1>1, SizeTypes DEF ByteLen
<1> QED  BY <1>2, <1>3 DEF Verify, FormatOK, TailOK

(* The length of a formed signature, and the room it was formed in.        *)
LEMMA FormedLength ==
  ASSUME TypeOK, InCall, pc = "encode", Fits,
         NEW hdr, NEW zeros,
         \/ call.type = "compressed" /\ hdr = "comp" /\ zeros = 0
         \/ /\ call.type = "padded" /\ hdr = "comp"
            /\ zeros = PaddedSize - Prefix - array.enc
         \/ call.type = "ct" /\ hdr = "ct" /\ zeros = 0
  PROVE  /\ array.enc \in Nat
         /\ zeros \in Nat
         /\ ByteLen(Signature(hdr, ctx.nonce, array, zeros)) \in Prefix .. call.cap
<1>1. array \in Vectors /\ array.enc # Wide
  BY DEF TypeOK, Fits
<1>2. array.enc \in Nat
  BY <1>1, VectorFields
<1>3. ~Refused(call) /\ sigLen = call.cap /\ call \in Calls
  BY DEF InCall, TypeOK
<1>4. /\ call.cap \in Nat /\ Prefix <= call.cap
      /\ call.type = "padded" => PaddedSize <= call.cap
      /\ call.type = "ct" => CTSize <= call.cap
  BY <1>3, Accepted, SizeTypes
<1>5. ByteLen(Signature(hdr, ctx.nonce, array, zeros)) =
        Prefix + (IF hdr = "ct" THEN CTSize - Prefix ELSE array.enc) + zeros + 0
  BY DEF ByteLen, Signature
<1>6. CASE call.type = "compressed"
  <2>1. array.enc <= call.cap - Prefix
    BY <1>3, <1>6 DEF Fits, Room
  <2> QED  BY <1>2, <1>4, <1>5, <1>6, <2>1, SizeTypes
<1>7. CASE call.type = "padded"
  <2>1. array.enc <= PaddedSize - Prefix
    BY <1>7 DEF Fits, Room
  <2> QED  BY <1>2, <1>4, <1>5, <1>7, <2>1, SizeTypes
<1>8. CASE call.type = "ct"
  BY <1>2, <1>4, <1>5, <1>8, SizeTypes
<1> QED  BY <1>6, <1>7, <1>8

(* A released signature satisfies everything IInv says of it.              *)
LEMMA ReleaseKeeps ==
  ASSUME IInv, pc = "encode", Fits, NEW hdr, NEW zeros,
         \/ call.type = "compressed" /\ hdr = "comp" /\ zeros = 0
         \/ /\ call.type = "padded" /\ hdr = "comp"
            /\ zeros = PaddedSize - Prefix - array.enc
         \/ call.type = "ct" /\ hdr = "ct" /\ zeros = 0,
         Return(Signature(hdr, ctx.nonce, array, zeros))
  PROVE  IInv'
<1> DEFINE s == Signature(hdr, ctx.nonce, array, zeros)
<1>1. /\ array \in Vectors /\ array.enc # Wide
      /\ call \in Calls /\ call.type \in Types /\ call.cap \in Capacities
      /\ array.hm = saved /\ saved \in Contexts
      /\ saved = Context(ctx.nonce, ctx.msg, 1, 0)
  <2>1. /\ array \in Vectors /\ array.enc # Wide /\ call \in Calls
        /\ array.hm = saved /\ saved \in Contexts
    BY DEF IInv, TypeOK, Fits, Contents
  <2>2. call.type \in Types /\ call.cap \in Capacities
    BY <2>1, Accepted DEF IInv, InCall
  <2>3. saved = Context(ctx.nonce, ctx.msg, 1, 0)
    BY <2>1, ContextFields DEF IInv, InCall
  <2> QED  BY <2>1, <2>2, <2>3
<1>2. ByteLen(s) \in Prefix .. call.cap
  BY FormedLength DEF IInv
<1>3. /\ s.nonce = ctx.nonce /\ s.vec = array /\ s.junk = FALSE
      /\ s.hdr = hdr /\ s.zeros = zeros
  BY DEF Signature
<1> HIDE DEF s
<1>4. \A type \in {"any", call.type} : Verify(s, type, ctx.msg)
  BY <1>1, <1>3, FormedVerifies
<1>5. /\ sig' = {s} /\ ret' = "ok" /\ sigLen' = ByteLen(s) /\ pc' = "idle"
      /\ written' = IF ByteLen(s) > written THEN ByteLen(s) ELSE written
      /\ UNCHANGED <<rng, ctx, saved, array, call, seeds>>
  BY DEF Return, Write, s
<1>6. call.cap \in 0 .. Highest /\ Prefix \in Nat /\ Highest \in Nat
  BY <1>1, HighestCapacity, SizeTypes
<1>7. written' <= call.cap /\ written' \in 0 .. Highest /\ sigLen' \in 0 .. Highest
  BY <1>2, <1>5, <1>6 DEF IInv, TypeOK, InsideBuffer
<1>8. TypeOK'
  <2>1. \E t \in sig' : sig' = {t} /\ t.vec \in Vectors
    BY <1>1, <1>3, <1>5
  <2>2. ret' \in Returns /\ pc' # "encode" /\ pc' \in {"idle", "input", "hash", "sample", "encode"}
    BY <1>5 DEF Returns
  <2> QED  BY <1>1, <1>5, <1>7, <2>1, <2>2 DEF IInv, TypeOK
<1>9. ReleasedVerifies'
  <2>1. s \in sig' /\ sigLen' = ByteLen(s) /\ call' = call /\ ctx' = ctx
    BY <1>5
  <2> QED  BY <1>4, <2>1 DEF ReleasedVerifies
<1>10. InCall' /\ Contents' /\ InsideBuffer'
  BY <1>5, <1>7 DEF InCall, Contents, InsideBuffer
<1> QED  BY <1>8, <1>9, <1>10 DEF IInv

----------------------------------------------------------------------------
(* Between the checks of a call and its return, context, shared array and  *)
(* buffer are what its steps expect, whatever the retries.                 *)
THEOREM Invariance == Spec => []IInv
<1>1. Init => IInv
  <2> SUFFICES ASSUME Init PROVE IInv
    OBVIOUS
  <2>1. /\ ctx \in Contexts /\ saved \in Contexts /\ array \in Contexts
        /\ rng \in 0 .. MaxRng /\ seeds \in Seq(0 .. MaxRng)
    BY SizeTypes, EmptySeq DEF Init, Context, Contexts
  <2>2. call \in Calls /\ call.cap \in Nat
    <3>1. call \in Calls
      BY CallsExist DEF Init
    <3> QED  BY <3>1, SizeTypes DEF Calls
  <2>3. sigLen \in 0 .. Highest /\ written \in 0 .. Highest
    BY HighestCapacity DEF Init
  <2>4. TypeOK
    BY <2>1, <2>2, <2>3 DEF Init, TypeOK, Returns
  <2> QED  BY <2>2, <2>4 DEF Init, IInv, InCall, Contents, InsideBuffer, ReleasedVerifies
<1>2. IInv /\ [Next]_vars => IInv'
  <2> SUFFICES ASSUME IInv, [Next]_vars PROVE IInv'
    OBVIOUS
  <2>1. TypeOK /\ InCall /\ Contents /\ InsideBuffer /\ ReleasedVerifies
    BY DEF IInv
  <2>2. /\ rng \in 0 .. MaxRng /\ ctx \in Contexts /\ saved \in Contexts
        /\ call \in Calls /\ call.cap \in Nat /\ seeds \in Seq(0 .. MaxRng)
        /\ sigLen \in 0 .. Highest /\ written \in 0 .. Highest
        /\ written <= call.cap
    <3>1. call \in Calls /\ call.cap \in Nat
      BY <2>1, SizeTypes DEF TypeOK, Calls
    <3> QED  BY <2>1, <3>1 DEF TypeOK, InsideBuffer
  <2>3. CASE SignStart
    <3>1. Extract /\ pc' = "input" /\ ctx' = Context(rng, <<>>, 0, 0)
          /\ UNCHANGED <<saved, array, call, ret, sig, sigLen, written>>
      BY <2>3 DEF SignStart
    <3>2. rng \in Nat /\ rng' \in 0 .. MaxRng /\ seeds' \in Seq(0 .. MaxRng)
      BY <2>2, <3>1, ExtractTypes
    <3>3. ctx' \in Contexts /\ ctx'.flips = 0 /\ ctx'.drawn = 0
      BY <3>1, <3>2, EmptySeq DEF Context, Contexts
    <3>4. TypeOK'
      BY <2>1, <3>1, <3>2, <3>3 DEF TypeOK, SignStart
    <3> QED  BY <2>1, <3>1, <3>3, <3>4 DEF IInv, InCall, Contents, InsideBuffer, ReleasedVerifies
  <2>4. ASSUME NEW m \in Msgs, Inject(m)
        PROVE  IInv'
    <3>1. /\ pc = "input" /\ pc' = pc
          /\ ctx' = [ctx EXCEPT !.msg = <<m>>]
          /\ UNCHANGED <<rng, saved, array, call, ret, sig, sigLen, written, seeds>>
      BY <2>4 DEF Inject
    <3>2. ctx' \in Contexts /\ ctx'.flips = ctx.flips /\ ctx'.drawn = ctx.drawn
      <4>1. <<m>> \in Seq(Msgs)
        BY <2>4
      <4>2. ctx' = Context(ctx.nonce, <<m>>, ctx.flips, ctx.drawn)
        BY <2>2, <3>1, ContextUpdates
      <4>3. ctx.nonce \in Nat /\ ctx.flips \in Nat /\ ctx.drawn \in Nat
        BY <2>2, ContextFields
      <4> QED  BY <4>1, <4>2, <4>3 DEF Context, Contexts
    <3>3. TypeOK'
      BY <2>1, <3>1, <3>2 DEF TypeOK
    <3> QED  BY <2>1, <3>1, <3>2, <3>3 DEF IInv, InCall, Contents, InsideBuffer, ReleasedVerifies
  <2>5. ASSUME NEW c \in Calls, FinishRefused(c)
        PROVE  IInv'
    <3>1. pc = "input" /\ pc' = pc /\ ret' = "refused"
          /\ UNCHANGED <<rng, ctx, saved, array, call, sig, sigLen, written, seeds>>
      BY <2>5 DEF FinishRefused
    <3>2. TypeOK'
      BY <2>1, <3>1 DEF TypeOK, Returns
    <3> QED  BY <2>1, <3>1, <3>2 DEF IInv, InCall, Contents, InsideBuffer, ReleasedVerifies
  <2>6. ASSUME NEW c \in Calls, Finish(c)
        PROVE  IInv'
    <3>1. /\ pc = "input" /\ ~Refused(c) /\ call' = c
          /\ sigLen' = c.cap /\ written' = 0 /\ sig' = {} /\ pc' = "hash"
          /\ ctx' = [ctx EXCEPT !.flips = @ + 1] /\ saved' = ctx'
          /\ UNCHANGED <<rng, array, ret, seeds>>
      BY <2>6 DEF Finish
    <3>2. ctx' \in Contexts /\ ctx'.flips = 1 /\ ctx'.drawn = 0
      <4>1. ctx' = Context(ctx.nonce, ctx.msg, ctx.flips + 1, ctx.drawn)
        BY <2>2, <3>1, ContextUpdates
      <4>2. ctx.flips = 0 /\ ctx.drawn = 0
        BY <2>1, <3>1 DEF Contents
      <4>3. ctx.nonce \in Nat /\ ctx.msg \in Seq(Msgs) /\ 1 \in Nat /\ 0 \in Nat
        BY <2>2, ContextFields
      <4>4. ctx' = Context(ctx.nonce, ctx.msg, 1, 0)
        BY <4>1, <4>2
      <4> QED  BY <4>3, <4>4 DEF Context, Contexts
    <3>3. c.cap \in 0 .. Highest /\ 0 \in 0 .. Highest
      BY <3>1, Accepted, HighestCapacity, SizeTypes
    <3>4. TypeOK'
      BY <2>1, <2>6, <3>1, <3>2, <3>3 DEF TypeOK
    <3> QED  BY <3>1, <3>2, <3>3, <3>4 DEF IInv, InCall, Contents, InsideBuffer, ReleasedVerifies
  <2>7. CASE HashToPoint
    <3>1. /\ pc = "hash" /\ pc' = "sample" /\ array' = saved
          /\ ctx' = [saved EXCEPT !.drawn = @ + 1]
          /\ UNCHANGED <<rng, saved, call, ret, sig, sigLen, written, seeds>>
      BY <2>7 DEF HashToPoint
    <3>2. ctx' \in Contexts /\ ctx'.nonce = saved.nonce /\ ctx'.msg = saved.msg
      <4>1. ctx' = Context(saved.nonce, saved.msg, saved.flips, saved.drawn + 1)
        BY <2>2, <3>1, ContextUpdates
      <4>2. /\ saved.nonce \in Nat /\ saved.msg \in Seq(Msgs)
            /\ saved.flips \in Nat /\ saved.drawn + 1 \in Nat
        BY <2>2, ContextFields
      <4> QED  BY <4>1, <4>2 DEF Context, Contexts
    <3>3. TypeOK'
      BY <2>1, <2>2, <3>1, <3>2 DEF TypeOK
    <3> QED  BY <2>1, <3>1, <3>2, <3>3 DEF IInv, InCall, Contents, InsideBuffer, ReleasedVerifies
  <2>8. CASE SampleLong
    <3>1. Extract /\ pc = "sample"
          /\ UNCHANGED <<ctx, saved, array, call, pc, ret, sig, sigLen, written>>
      BY <2>8 DEF SampleLong
    <3>2. rng' \in 0 .. MaxRng /\ seeds' \in Seq(0 .. MaxRng)
      BY <2>2, <3>1, ExtractTypes
    <3>3. TypeOK'
      BY <2>1, <3>1, <3>2 DEF TypeOK
    <3> QED  BY <2>1, <3>1, <3>3 DEF IInv, InCall, Contents, InsideBuffer, ReleasedVerifies, Refused
  <2>9. ASSUME NEW enc \in Lengths \cup {Wide}, SampleShort(enc)
        PROVE  IInv'
    <3>1. Extract /\ pc = "sample" /\ pc' = "encode" /\ array' = Vector(enc)
          /\ UNCHANGED <<ctx, saved, call, ret, sig, sigLen, written>>
      BY <2>9 DEF SampleShort
    <3>2. rng \in Nat /\ rng' \in 0 .. MaxRng /\ seeds' \in Seq(0 .. MaxRng)
      BY <2>2, <3>1, ExtractTypes
    <3>3. array' \in Vectors /\ array'.hm = saved
      BY <2>1, <2>2, <3>1, <3>2 DEF Contents, Vector, Vectors
    <3>4. TypeOK'
      BY <2>1, <3>1, <3>2, <3>3 DEF TypeOK
    <3> QED  BY <2>1, <3>1, <3>3, <3>4 DEF IInv, InCall, Contents, InsideBuffer, ReleasedVerifies
  <2>10. CASE EncodeCompressed
    BY <2>10, ReleaseKeeps DEF EncodeCompressed
  <2>11. CASE EncodePadded
    BY <2>11, ReleaseKeeps DEF EncodePadded
  <2>12. CASE EncodeCT
    BY <2>12, ReleaseKeeps DEF EncodeCT
  <2>13. ASSUME pc = "encode", Overrun
         PROVE  written' \in 0 .. Highest /\ written' <= call.cap
    <3>1. ~Refused(call) /\ sigLen = call.cap
      BY <2>1, <2>13 DEF InCall
    <3>2. /\ call.cap \in 0 .. Highest /\ Prefix \in 0 .. call.cap
          /\ call.type = "padded" => PaddedSize <= call.cap
      BY <2>2, <3>1, Accepted, HighestCapacity, SizeTypes
    <3>3. Prefix + (IF array.enc = Wide THEN 0 ELSE Room) \in 0 .. call.cap
      BY <3>1, <3>2, SizeTypes DEF Room
    <3> HIDE DEF Room
    <3>4. written' = written \/ written' \in 0 .. call.cap
      BY <2>13, <3>3 DEF Overrun, Write
    <3> QED  BY <2>2, <3>2, <3>4, HighestCapacity
  <2>14. CASE EncodeRetry
    <3>1. /\ pc = "encode" /\ pc' = "hash" /\ Overrun
          /\ UNCHANGED <<rng, ctx, saved, array, call, ret, sig, sigLen, seeds>>
      BY <2>14 DEF EncodeRetry
    <3>2. written' \in 0 .. Highest /\ written' <= call.cap
      BY <2>13, <3>1
    <3>3. TypeOK'
      BY <2>1, <3>1, <3>2 DEF TypeOK
    <3> QED  BY <2>1, <3>1, <3>2, <3>3 DEF IInv, InCall, Contents, InsideBuffer, ReleasedVerifies, Refused
  <2>15. CASE EncodeFails
    <3>1. /\ pc = "encode" /\ pc' = "idle" /\ ret' = "size" /\ Overrun
          /\ UNCHANGED <<rng, ctx, saved, array, call, sig, sigLen, seeds>>
      BY <2>15 DEF EncodeFails
    <3>2. written' \in 0 .. Highest /\ written' <= call.cap
      BY <2>13, <3>1
    <3>3. TypeOK'
      BY <2>1, <3>1, <3>2 DEF TypeOK, Returns
    <3> QED  BY <2>1, <3>1, <3>2, <3>3 DEF IInv, InCall, Contents, InsideBuffer, ReleasedVerifies
  <2>16. CASE UNCHANGED vars
    <3>1. TypeOK'
      BY <2>1, <2>16 DEF TypeOK, vars
    <3> QED  BY <2>1, <2>16, <3>1 DEF IInv, InCall, Contents, InsideBuffer, ReleasedVerifies,
                                      Refused, Verify, FormatOK, TailOK, ByteLen, vars
  <2> QED  BY <2>3, <2>4, <2>5, <2>6, <2>7, <2>8, <2>9, <2>10, <2>11, <2>12, <2>14,
              <2>15, <2>16 DEF Next
<1> QED  BY <1>1, <1>2, PTL DEF Spec

(* Every value has its type, and no length exceeds the largest buffer.     *)
THEOREM TypeCorrect == Spec => []TypeOK
<1>1. IInv => TypeOK
  BY DEF IInv
<1> QED  BY <1>1, Invariance, PTL

(* No call writes outside the buffer it was given, retries included.       *)
THEOREM InsideBufferHolds == Spec => []InsideBuffer
<1>1. IInv => InsideBuffer
  BY DEF IInv
<1> QED  BY <1>1, Invariance, PTL

(* What is released, the verifier accepts: for its type and for type 0.    *)
THEOREM ReleasedVerifiesHolds == Spec => []ReleasedVerifies
<1>1. IInv => ReleasedVerifies
  BY DEF IInv
<1> QED  BY <1>1, Invariance, PTL

----------------------------------------------------------------------------
(* For a definite type the verifier accepts one header and one number of   *)
(* zero bytes, whatever vector, nonce and data.                            *)
LEMMA FormDetermined ==
  ASSUME NEW v \in Vectors, NEW msg, NEW type \in Types,
         NEW t, t.vec = v, t.zeros \in Nat, t.junk \in BOOLEAN, t.hdr \in {"comp", "ct"},
         Verify(t, type, msg)
  PROVE  /\ t.hdr = IF type = "ct" THEN "ct" ELSE "comp"
         /\ t.zeros = IF type = "padded" THEN PaddedSize - Prefix - v.enc ELSE 0
         /\ t.junk = FALSE
<1>1. FormatOK(t, type) /\ TailOK(t, type) /\ v.enc \in Nat
  BY VectorFields DEF Verify
<1>2. t.hdr = IF type = "ct" THEN "ct" ELSE "comp"
  BY <1>1 DEF FormatOK, Types
<1>3. ~t.junk
  BY <1>1 DEF TailOK
<1>4. type # "padded" => t.zeros = 0
  BY <1>1 DEF TailOK, Types
<1>5. type = "padded" => t.zeros = PaddedSize - Prefix - v.enc
  <2>1. ByteLen(t) = Prefix + (IF t.hdr = "ct" THEN CTSize - Prefix ELSE v.enc) + t.zeros + 0
    BY <1>3 DEF ByteLen
  <2> QED  BY <1>1, <1>2, <2>1, SizeTypes DEF FormatOK
<1> QED  BY <1>2, <1>3, <1>4, <1>5

(* Of all the ways to write down a released vector, each definite type     *)
(* accepts at most one.                                                    *)
THEOREM OneFormPerTypeHolds == Spec => []OneFormPerType
<1>1. TypeOK => OneFormPerType
  <2> SUFFICES ASSUME TypeOK, NEW s \in sig, NEW type \in Types
               PROVE  Cardinality({t \in Rewritten(s) : Verify(t, type, ctx.msg)}) <= 1
    BY DEF OneFormPerType
  <2> DEFINE Accepts == {t \in Rewritten(s) : Verify(t, type, ctx.msg)}
             only == [hdr |-> IF type = "ct" THEN "ct" ELSE "comp", nonce |-> s.nonce,
                      vec |-> s.vec,
                      zeros |-> IF type = "padded" THEN PaddedSize - Prefix - s.vec.enc ELSE 0,
                      junk |-> FALSE]
  <2>1. s.vec \in Vectors
    BY DEF TypeOK
  <2>2. ASSUME NEW t \in Accepts
        PROVE  t = only
    <3>1. /\ t = [hdr |-> t.hdr, nonce |-> t.nonce, vec |-> t.vec, zeros |-> t.zeros,
                  junk |-> t.junk]
          /\ t.nonce = s.nonce /\ t.vec = s.vec /\ t.zeros \in Nat /\ t.junk \in BOOLEAN
          /\ t.hdr \in {"comp", "ct"}
          /\ Verify(t, type, ctx.msg)
      BY SizeTypes DEF Rewritten
    <3>2. /\ t.hdr = IF type = "ct" THEN "ct" ELSE "comp"
          /\ t.zeros = IF type = "padded" THEN PaddedSize - Prefix - s.vec.enc ELSE 0
          /\ t.junk = FALSE
      BY <2>1, <3>1, FormDetermined
    <3> QED  BY <3>1, <3>2
  <2>3. Accepts \in SUBSET {only}
    BY <2>2
  <2> HIDE DEF Accepts, only
  <2>4. IsFiniteSet({only}) /\ Cardinality({only}) = 1
    BY FS_Singleton
  <2>5. Cardinality(Accepts) <= 1
    BY <2>3, <2>4, FS_Subset
  <2> QED  BY <2>5 DEF Accepts
<1> QED  BY <1>1, TypeCorrect, PTL

----------------------------------------------------------------------------
(* SeedsFresh is inductive only with SeedsTaken: what was taken was taken  *)
(* before now, so the next extraction is none of it.                       *)
LEMMA ExtractFresh ==
  ASSUME TypeOK, SeedsTaken, SeedsFresh, Extract
  PROVE  SeedsTaken' /\ SeedsFresh'
<1>1. /\ rng \in Nat /\ rng' = rng + 1 /\ seeds' = Append(seeds, rng)
      /\ seeds \in Seq(0 .. MaxRng) /\ rng \in 0 .. MaxRng
  BY SizeTypes DEF Extract, TypeOK
<1>2. /\ DOMAIN seeds = 1 .. Len(seeds) /\ Len(seeds) \in Nat
      /\ DOMAIN seeds' = 1 .. Len(seeds) + 1
      /\ \A i \in 1 .. Len(seeds) : seeds'[i] = seeds[i] /\ seeds[i] \in 0 .. MaxRng
      /\ seeds'[Len(seeds) + 1] = rng
  <2>1. /\ Append(seeds, rng) \in Seq(0 .. MaxRng)
        /\ Len(Append(seeds, rng)) = Len(seeds) + 1
        /\ \A i \in 1 .. Len(seeds) : Append(seeds, rng)[i] = seeds[i]
        /\ Append(seeds, rng)[Len(seeds) + 1] = rng
    BY <1>1, AppendProperties
  <2>2. \A i \in 1 .. Len(seeds) : seeds[i] \in 0 .. MaxRng
    BY <1>1, ElementOfSeq
  <2>3. /\ DOMAIN seeds = 1 .. Len(seeds) /\ Len(seeds) \in Nat
        /\ DOMAIN seeds' = 1 .. Len(seeds')
    BY <1>1, <2>1, LenProperties
  <2> QED  BY <1>1, <2>1, <2>2, <2>3
<1>3. \A i \in 1 .. Len(seeds) : seeds[i] \in Nat /\ seeds[i] < rng
  BY <1>2, SizeTypes DEF SeedsTaken
<1>4. SeedsTaken'
  BY <1>1, <1>2, <1>3 DEF SeedsTaken
<1>5. SeedsFresh'
  BY <1>1, <1>2, <1>3 DEF SeedsFresh
<1> QED  BY <1>4, <1>5

(* No retry, and no other call that shares the generator, draws a nonce or *)
(* a sampler seed a second time.                                           *)
THEOREM SeedsFreshHolds == Spec => []SeedsFresh
<1>1. Init => SeedsTaken /\ SeedsFresh
  BY DEF Init, SeedsTaken, SeedsFresh
<1>2. SeedsTaken /\ SeedsFresh /\ TypeOK /\ [Next]_vars => (SeedsTaken /\ SeedsFresh)'
  <2> SUFFICES ASSUME SeedsTaken, SeedsFresh, TypeOK, [Next]_vars
               PROVE  SeedsTaken' /\ SeedsFresh'
    OBVIOUS
  <2>1. Extract \/ UNCHANGED <<rng, seeds>>
    BY DEF Next, vars, SignStart, Inject, FinishRefused, Finish, HashToPoint, SampleLong,
           SampleShort, EncodeCompressed, EncodePadded, EncodeCT, Return, EncodeRetry,
           EncodeFails
  <2> QED  BY <2>1, ExtractFresh DEF SeedsTaken, SeedsFresh
<1> QED  BY <1>1, <1>2, TypeCorrect, PTL DEF Spec

----------------------------------------------------------------------------
(* Congruence.                                                             *)

Same(z, w, m) == \E k \in Int : z = w + m * k

(* It is an equivalence.                                                   *)
LEMMA SameIs ==
  ASSUME NEW m \in Int
  PROVE  /\ \A z \in Int : Same(z, z, m)
         /\ \A z, w \in Int : Same(z, w, m) => Same(w, z, m)
         /\ \A z, w, v \in Int : Same(z, w, m) /\ Same(w, v, m) => Same(z, v, m)
<1>1. ASSUME NEW z \in Int
      PROVE  Same(z, z, m)
  <2>1. z = z + m * 0 /\ 0 \in Int
    OBVIOUS
  <2> QED  BY <2>1 DEF Same
<1>2. ASSUME NEW z \in Int, NEW w \in Int, Same(z, w, m)
      PROVE  Same(w, z, m)
  <2>1. PICK k \in Int : z = w + m * k
    BY <1>2 DEF Same
  <2>2. w = z + m * (-k) /\ -k \in Int
    BY <2>1
  <2> QED  BY <2>2 DEF Same
<1>3. ASSUME NEW z \in Int, NEW w \in Int, NEW v \in Int, Same(z, w, m), Same(w, v, m)
      PROVE  Same(z, v, m)
  <2>1. PICK k \in Int, j \in Int : z = w + m * k /\ w = v + m * j
    BY <1>3 DEF Same
  <2>2. m * (j + k) = m * j + m * k /\ j + k \in Int /\ m * j \in Int /\ m * k \in Int
    OBVIOUS
  <2>3. z = v + m * (j + k)
    BY <2>1, <2>2
  <2> QED  BY <2>2, <2>3 DEF Same
<1> QED  BY <1>1, <1>2, <1>3

(* Sums and products keep it.                                              *)
LEMMA SameOperations ==
  ASSUME NEW m \in Int, NEW z \in Int, NEW w \in Int, NEW x \in Int, NEW y \in Int,
         Same(z, w, m), Same(x, y, m)
  PROVE  Same(z + x, w + y, m) /\ Same(z - x, w - y, m) /\ Same(z * x, w * y, m)
<1>1. PICK k \in Int, j \in Int : z = w + m * k /\ x = y + m * j
  BY DEF Same
<1>2. z + x = (w + y) + m * (k + j) /\ k + j \in Int
  BY <1>1
<1>3. z - x = (w - y) + m * (k - j) /\ k - j \in Int
  BY <1>1
<1>4. z * x = w * y + m * (w * j + k * y + k * (m * j)) /\ w * j + k * y + k * (m * j) \in Int
  <2>1. (w + m * k) * (y + m * j) = w * y + m * (w * j + k * y + k * (m * j))
    OBVIOUS
  <2> QED  BY <1>1, <2>1
<1> QED  BY <1>2, <1>3, <1>4 DEF Same

(* Multiples of the modulus may be added.                                  *)
LEMMA SameMultiple ==
  ASSUME NEW m \in Int, NEW z \in Int, NEW k \in Int
  PROVE  Same(z + m * k, z, m) /\ Same(z - m * k, z, m)
<1>1. z - m * k = z + m * (-k) /\ -k \in Int
  OBVIOUS
<1> QED  BY <1>1 DEF Same

(* Remainders are congruent, and a class has one of them.                  *)
LEMMA SameRemainder ==
  ASSUME NEW m \in Nat \ {0}, NEW z \in Int
  PROVE  /\ z % m \in 0 .. m - 1 /\ Same(z % m, z, m)
         /\ \A w \in Int : Same(z, w, m) => z % m = w % m
         /\ \A r \in 0 .. m - 1 : Same(r, z, m) => z % m = r
<1>1. z % m \in 0 .. m - 1 /\ Same(z % m, z, m)
  <2>1. z \div m \in Int /\ z % m \in 0 .. m - 1 /\ z = (z \div m) * m + (z % m)
    OBVIOUS
  <2> DEFINE k == z \div m
             r == z % m
  <2>2. k \in Int /\ r \in Int /\ z = k * m + r
    BY <2>1
  <2> HIDE DEF k, r
  <2>3. r = z + m * (-k) /\ -k \in Int
    BY <2>2
  <2>4. Same(r, z, m)
    BY <2>3 DEF Same
  <2> QED  BY <2>1, <2>4 DEF r
<1>2. ASSUME NEW r \in 0 .. m - 1, NEW w \in Int, Same(r, w, m)
      PROVE  w % m = r
  <2>1. PICK k \in Int : r = w + m * k
    BY <1>2 DEF Same
  <2>2. w = (-k) * m + r /\ -k \in Int
    BY <2>1
  <2> QED  BY <2>2, QuotientUnique
<1>3. ASSUME NEW w \in Int, Same(z, w, m)
      PROVE  z % m = w % m
  <2>1. z % m \in Int
    BY <1>1
  <2>2. Same(z % m, w, m)
    BY <1>1, <1>3, <2>1, SameIs
  <2> QED  BY <1>1, <1>2, <2>2
<1> QED  BY <1>1, <1>2, <1>3

----------------------------------------------------------------------------
(* Addition and subtraction modulo p.                                      *)

(* "2^30 < p < 2^31", and p is odd.                                        *)
Modulus(p) == p \in Nat /\ p % 2 = 1 /\ p < Word /\ Word < 2 * p

(* Word is even.                                                           *)
LEMMA WordType == W \in Nat /\ 1 <= W /\ Word \in Nat \ {0} /\ Word % 2 = 0
<1>1. W \in Nat /\ 1 <= W
  BY WordAssumption, RootAssumption
<1>2. Word \in Nat \ {0}
  BY <1>1, PowerPositive DEF Word
<1>3. Word = 2 * 2 ^ (W - 1) /\ 2 ^ (W - 1) \in Nat
  <2>1. W - 1 \in Nat /\ (W - 1) + 1 = W
    BY <1>1
  <2> QED  BY <2>1, PowerOfTwo DEF Word
<1> QED  BY <1>1, <1>2, <1>3

(* What is added to a negative number is the modulus.                      *)
LEMMA AddBackIs ==
  ASSUME NEW p \in Nat, p < Word, NEW d \in Int, -p <= d, d < p
  PROVE  /\ AddBack(d, p) = IF d < 0 THEN d + p ELSE d
         /\ AddBack(d, p) \in 0 .. p - 1 /\ Same(AddBack(d, p), d, p)
<1> DEFINE m == 2 * Word
<1>1. m \in Nat \ {0} /\ Word \in Nat
  BY WordType
<1>2. \A k \in Int, r \in 0 .. m - 1 : (k * m + r) % m = r
  <2> HIDE DEF m
  <2> QED  BY <1>1, QuotientUnique
<1>3. AddBack(d, p) = IF d < 0 THEN d + p ELSE d
  <2>1. CASE d < 0
    <3>1. (-1) * m + (d + m) = d /\ d + m \in 0 .. m - 1 /\ -1 \in Int
      BY <1>1, <2>1
    <3>2. d % m = d + m
      BY <1>2, <3>1
    <3>3. d + m >= Word /\ 1 * m + (d + p) = d + m + p /\ d + p \in 0 .. m - 1
      BY <1>1, <2>1
    <3>4. (d + m + p) % m = d + p
      BY <1>2, <3>3
    <3> QED  BY <2>1, <3>2, <3>3, <3>4 DEF AddBack, IfBorrow
  <2>2. CASE ~(d < 0)
    <3>1. 0 * m + d = d /\ d \in 0 .. m - 1 /\ d < Word
      BY <1>1, <2>2
    <3>2. d % m = d
      BY <1>2, <3>1
    <3> QED  BY <1>1, <2>2, <3>1, <3>2 DEF AddBack, IfBorrow
  <2> QED  BY <2>1, <2>2
<1>4. Same(d + p, d, p) /\ Same(d, d, p)
  <2>1. d + p = d + p * 1 /\ d = d + p * 0 /\ 0 \in Int /\ 1 \in Int
    OBVIOUS
  <2> QED  BY <2>1 DEF Same
<1> QED  BY <1>3, <1>4

(* The operators on residues return residues, of the number meant.         *)
THEOREM SmallArithmetic ==
  ASSUME NEW p \in Nat, p < Word
  PROVE  /\ \A a, b \in 0 .. p - 1 :
              /\ modp_add(a, b, p) \in 0 .. p - 1 /\ Same(modp_add(a, b, p), a + b, p)
              /\ modp_sub(a, b, p) \in 0 .. p - 1 /\ Same(modp_sub(a, b, p), a - b, p)
         /\ \A x \in -(p - 1) .. p - 1 :
              /\ modp_set(x, p) \in 0 .. p - 1 /\ Same(modp_set(x, p), x, p)
              /\ 2 * x \in -(p - 1) .. p - 1 /\ p % 2 = 1 => modp_norm(modp_set(x, p), p) = x
<1>1. ASSUME NEW a \in 0 .. p - 1, NEW b \in 0 .. p - 1
      PROVE  /\ modp_add(a, b, p) \in 0 .. p - 1 /\ Same(modp_add(a, b, p), a + b, p)
             /\ modp_sub(a, b, p) \in 0 .. p - 1 /\ Same(modp_sub(a, b, p), a - b, p)
  <2>1. /\ a + b - p \in Int /\ -p <= a + b - p /\ a + b - p < p
        /\ a - b \in Int /\ -p <= a - b /\ a - b < p
    OBVIOUS
  <2>2. Same(a + b - p, a + b, p)
    <3>1. a + b - p = (a + b) + p * (-1) /\ -1 \in Int
      OBVIOUS
    <3> QED  BY <3>1 DEF Same
  <2> DEFINE s == modp_add(a, b, p)
  <2>3. s \in 0 .. p - 1 /\ Same(s, a + b - p, p)
    BY <2>1, AddBackIs DEF modp_add
  <2> HIDE DEF s
  <2>4. Same(s, a + b, p)
    <3>1. s \in Int /\ a + b - p \in Int /\ a + b \in Int
      BY <2>3
    <3> QED  BY <2>2, <2>3, <3>1, SameIs
  <2>5. modp_sub(a, b, p) \in 0 .. p - 1 /\ Same(modp_sub(a, b, p), a - b, p)
    BY <2>1, AddBackIs DEF modp_sub
  <2> QED  BY <2>3, <2>4, <2>5 DEF s
<1>2. ASSUME NEW x \in -(p - 1) .. p - 1
      PROVE  /\ modp_set(x, p) \in 0 .. p - 1 /\ Same(modp_set(x, p), x, p)
             /\ 2 * x \in -(p - 1) .. p - 1 /\ p % 2 = 1 => modp_norm(modp_set(x, p), p) = x
  <2>1. /\ modp_set(x, p) = IF x < 0 THEN x + p ELSE x
        /\ modp_set(x, p) \in 0 .. p - 1 /\ Same(modp_set(x, p), x, p)
    BY AddBackIs DEF modp_set
  <2>2. ASSUME 2 * x \in -(p - 1) .. p - 1, p % 2 = 1
        PROVE  modp_norm(modp_set(x, p), p) = x
    <3> DEFINE h == (p + 1) \div 2
    <3>1. h \in Int /\ 2 * h = p + 1
      BY <2>2
    <3> HIDE DEF h
    <3>2. CASE x < 0
      <4>1. modp_set(x, p) = x + p /\ x + p >= h
        BY <2>1, <2>2, <3>1, <3>2
      <4> QED  BY <4>1 DEF modp_norm, h
    <3>3. CASE ~(x < 0)
      <4>1. modp_set(x, p) = x /\ ~(x >= h)
        BY <2>1, <2>2, <3>1, <3>3
      <4> QED  BY <4>1 DEF modp_norm, h
    <3> QED  BY <3>2, <3>3
  <2> QED  BY <2>1, <2>2
<1> QED  BY <1>1, <1>2

----------------------------------------------------------------------------
(* Montgomery multiplication.                                              *)

(* Newton's iteration, and one step of it.                                 *)
NinvState == 0 .. Word - 1
NinvStep(z, p) == (z * ((2 - p * z) % Word)) % Word

(* z is 1/p up to multiples of A and of Word.                              *)
InverseUpTo(z, p, A) == \E c, e \in Int : p * z = 1 + c * A + e * Word

(* One of Newton's steps: the square of the error, modulo Word.            *)
LEMMA NewtonStep ==
  ASSUME NEW p \in Int, NEW z \in Int, NEW A \in Int, InverseUpTo(z, p, A)
  PROVE  NinvStep(z, p) \in 0 .. Word - 1 /\ InverseUpTo(NinvStep(z, p), p, A * A)
<1> DEFINE m == Word
           r == (2 - p * z) % m
           y == (z * r) % m
<1>0. PICK c \in Int, e \in Int : p * z = 1 + c * A + e * m
  BY DEF InverseUpTo
<1>1. m \in Nat \ {0}
  BY WordType
<1> HIDE DEF m
<1>2. r \in 0 .. m - 1 /\ Same(r, 2 - p * z, m)
  <2>1. 2 - p * z \in Int
    OBVIOUS
  <2> QED  BY <1>1, <2>1, SameRemainder
<1>3. PICK k \in Int : r = 2 - p * z + m * k
  BY <1>2 DEF Same
<1>4. y \in 0 .. m - 1 /\ Same(y, z * r, m)
  <2>1. z * r \in Int
    BY <1>2
  <2> QED  BY <1>1, <2>1, SameRemainder
<1>5. PICK j \in Int : y = z * r + m * j
  BY <1>4 DEF Same
<1> HIDE DEF r, y
<1> DEFINE u == p * z
           E == c * A
<1>6. u \in Int /\ E \in Int /\ u = 1 + E + e * m
  BY <1>0, <1>1
<1>7. p * y = u * r + m * (p * j)
  <2>1. p * (z * r + m * j) = (p * z) * r + m * (p * j)
    BY <1>1, <1>2
  <2> QED  BY <1>5, <2>1
<1>8. r = 1 - E - e * m + m * k
  BY <1>1, <1>2, <1>3, <1>6
<1> HIDE DEF u, E
<1>9. u * r = 1 - E * E + m * (k + E * k + e * m * k - 2 * (E * e) - e * e * m)
  <2>1. (1 + E + e * m) * (1 - E - e * m + m * k)
          = 1 - E * E + m * (k + E * k + e * m * k - 2 * (E * e) - e * e * m)
    BY <1>1, <1>6
  <2> QED  BY <1>6, <1>8, <2>1
<1> DEFINE t == k + E * k + e * m * k - 2 * (E * e) - e * e * m
<1>10. t \in Int
  BY <1>1, <1>6
<1> HIDE DEF t
<1>11. E * E = (c * c) * (A * A)
  BY DEF E
<1>12. p * y = 1 + (-(c * c)) * (A * A) + (t + p * j) * m /\ -(c * c) \in Int /\ t + p * j \in Int
  <2> DEFINE C == c * c
             B == A * A
             h == p * j
  <2>1. C \in Int /\ B \in Int /\ h \in Int
    OBVIOUS
  <2>2. p * y = 1 - C * B + m * t + m * h
    BY <1>7, <1>9, <1>11 DEF t
  <2> HIDE DEF C, B, h
  <2>3. 1 - C * B + m * t + m * h = 1 + (-C) * B + (t + h) * m /\ -C \in Int
    BY <1>1, <1>10, <2>1
  <2> QED  BY <1>10, <2>1, <2>2, <2>3 DEF C, B, h
<1>13. InverseUpTo(y, p, A * A)
  BY <1>12 DEF InverseUpTo, m
<1> QED  BY <1>4, <1>13 DEF m, y, r, NinvStep

(* The variable of the loop after every step.                              *)
LEMMA NinvLoop ==
  ASSUME NEW p \in Nat
  PROVE  \E y : /\ y[0] = (2 - p) % Word /\ modp_ninv31(p) = (-y[4]) % Word
                /\ \A i \in 0 .. 4 : y[i] \in NinvState
                /\ \A i \in 0 .. 3 : y[i + 1] = NinvStep(y[i], p)
<1> DEFINE f0 == (2 - p) % Word
           G == [i \in Nat |-> [z \in NinvState |-> NinvStep(z, p)]]
           Loop(y) == y = [k \in 0 .. 4 |-> IF k = 0 THEN f0 ELSE
                             LET z == y[k - 1] IN (z * ((2 - p * z) % Word)) % Word]
           r == CHOOSE y : Loop(y)
<1>1. f0 \in NinvState
  BY WordType DEF NinvState
<1>2. IsStep(G, NinvState)
  <2>1. ASSUME NEW z \in NinvState
        PROVE  NinvStep(z, p) \in NinvState
    <3>1. (2 - p * z) % Word \in Int
      BY WordType DEF NinvState
    <3> DEFINE v == z * ((2 - p * z) % Word)
    <3>2. v \in Int
      BY <3>1 DEF NinvState
    <3> HIDE DEF v
    <3>3. v % Word \in 0 .. Word - 1
      BY <3>2, WordType
    <3> QED  BY <3>3 DEF v, NinvState, NinvStep
  <2> QED  BY <2>1 DEF IsStep
<1>3. PICK g : Obeys(g, 4, NinvState, f0, G)
  <2> HIDE DEF f0, G
  <2> QED  BY <1>1, <1>2, FiniteRecursion
<1>4. \A i \in 0 .. 3 : g[i + 1] = NinvStep(g[i], p) /\ g[i] \in NinvState
  <2>1. ASSUME NEW i \in 0 .. 3
        PROVE  g[i + 1] = NinvStep(g[i], p) /\ g[i] \in NinvState
    <3>1. i \in 0 .. 4 - 1 /\ i \in Nat /\ i \in 0 .. 4
      OBVIOUS
    <3> HIDE DEF f0
    <3>2. g[i + 1] = G[i][g[i]] /\ g[i] \in NinvState
      <4> HIDE DEF G
      <4> QED  BY <1>3, <3>1 DEF Obeys
    <3> QED  BY <3>1, <3>2
  <2> QED  BY <2>1
<1>5. Loop(g)
  <2>1. ASSUME NEW k \in 0 .. 4
        PROVE  g[k] = IF k = 0 THEN f0 ELSE NinvStep(g[k - 1], p)
    <3>1. CASE k = 0
      <4> HIDE DEF f0, G
      <4> QED  BY <1>3, <3>1 DEF Obeys
    <3>2. CASE k # 0
      <4>1. k - 1 \in 0 .. 3 /\ (k - 1) + 1 = k
        BY <3>2
      <4> HIDE DEF f0, G
      <4> QED  BY <1>4, <3>2, <4>1
    <3> QED  BY <3>1, <3>2
  <2>2. g = [k \in 0 .. 4 |-> g[k]]
    <3> HIDE DEF f0, G
    <3> QED  BY <1>3 DEF Obeys
  <2> HIDE DEF f0, G
  <2> QED  BY <2>1, <2>2 DEF NinvStep
<1>6. Loop(r)
  <2> HIDE DEF Loop
  <2> QED  BY <1>5
<1>7. modp_ninv31(p) = (-r[4]) % Word
  BY DEF modp_ninv31
<1> HIDE DEF r
<1>8. r[0] = f0
  BY <1>6
<1>9. ASSUME NEW i \in 0 .. 3
      PROVE  r[i + 1] = NinvStep(r[i], p)
  <2>1. i + 1 \in 0 .. 4 /\ i + 1 # 0 /\ (i + 1) - 1 = i
    OBVIOUS
  <2> QED  BY <1>6, <2>1 DEF NinvStep
<1>10. r[0] \in NinvState /\ r[1] \in NinvState /\ r[2] \in NinvState
       /\ r[3] \in NinvState /\ r[4] \in NinvState
  <2>1. \A z \in NinvState : NinvStep(z, p) \in NinvState
    <3>1. ASSUME NEW z \in NinvState
          PROVE  NinvStep(z, p) \in NinvState
      <4> HIDE DEF f0
      <4>1. G[0] \in [NinvState -> NinvState] /\ G[0][z] = NinvStep(z, p)
        BY <1>2 DEF IsStep
      <4> HIDE DEF G
      <4> QED  BY <4>1
    <3> QED  BY <3>1
  <2>2. r[0 + 1] = NinvStep(r[0], p) /\ r[1 + 1] = NinvStep(r[1], p)
        /\ r[2 + 1] = NinvStep(r[2], p) /\ r[3 + 1] = NinvStep(r[3], p)
    BY <1>9
  <2>3. 0 + 1 = 1 /\ 1 + 1 = 2 /\ 2 + 1 = 3 /\ 3 + 1 = 4
    OBVIOUS
  <2> HIDE DEF f0, G
  <2> QED  BY <1>1, <1>8, <2>1, <2>2, <2>3
<1>11. \A i \in 0 .. 4 : r[i] \in NinvState
  BY <1>10
<1> QED  BY <1>7, <1>8, <1>9, <1>11

(* Newton's iteration inverts every odd number, up to 32 bits.             *)
THEOREM NegInverse ==
  ASSUME NEW p \in Nat, p % 2 = 1, W <= 32
  PROVE  modp_ninv31(p) \in 0 .. Word - 1 /\ (p * modp_ninv31(p) + 1) % Word = 0
<1> DEFINE Right(z, A) == z \in 0 .. Word - 1 /\ InverseUpTo(z, p, A)
<1>0. PICK y : /\ y[0] = (2 - p) % Word /\ modp_ninv31(p) = (-y[4]) % Word
               /\ \A i \in 0 .. 4 : y[i] \in NinvState
               /\ \A i \in 0 .. 3 : y[i + 1] = NinvStep(y[i], p)
  BY NinvLoop
<1>1. Right(y[0], 4)
  <2>1. PICK a \in Nat : p = 2 * a + 1
    <3>1. p \div 2 \in Nat /\ p = 2 * (p \div 2) + 1
      OBVIOUS
    <3> QED  BY <3>1
  <2>2. y[0] \in 0 .. Word - 1 /\ Same(y[0], 2 - p, Word)
    <3>1. 2 - p \in Int
      OBVIOUS
    <3>2. (2 - p) % Word \in 0 .. Word - 1 /\ Same((2 - p) % Word, 2 - p, Word)
      <4> DEFINE m == Word
      <4>1. m \in Nat \ {0}
        BY WordType
      <4> HIDE DEF m
      <4>2. (2 - p) % m \in 0 .. m - 1 /\ Same((2 - p) % m, 2 - p, m)
        BY <3>1, <4>1, SameRemainder
      <4> QED  BY <4>2 DEF m
    <3> QED  BY <1>0, <3>2
  <2>3. PICK k \in Int : y[0] = 2 - p + Word * k
    BY <2>2 DEF Same
  <2> DEFINE m == Word
  <2>4. m \in Int
    BY WordType
  <2>5. p * y[0] = 1 + (-(a * a)) * 4 + (p * k) * m
    <3> HIDE DEF m
    <3>1. p * (2 - p + m * k) = 1 + (-(a * a)) * 4 + (p * k) * m
      <4>1. (2 * a + 1) * (2 - (2 * a + 1)) = 1 + (-(a * a)) * 4
        BY <2>1
      <4>2. p * (2 - p + m * k) = p * (2 - p) + (p * k) * m
        BY <2>4
      <4> QED  BY <2>1, <4>1, <4>2
    <3> QED  BY <2>3, <3>1 DEF m
  <2>6. -(a * a) \in Int /\ p * k \in Int
    BY <2>1
  <2>7. InverseUpTo(y[0], p, 4)
    BY <2>5, <2>6 DEF InverseUpTo
  <2> QED  BY <2>2, <2>7
<1>2. ASSUME NEW z \in Int, NEW A \in Int, Right(z, A)
      PROVE  Right(NinvStep(z, p), A * A)
  <2>1. p \in Int /\ InverseUpTo(z, p, A)
    BY <1>2
  <2>2. NinvStep(z, p) \in 0 .. Word - 1 /\ InverseUpTo(NinvStep(z, p), p, A * A)
    <3> HIDE DEF Right
    <3> QED  BY <2>1, NewtonStep
  <2> QED  BY <2>2
<1>3. \A i \in 0 .. 4 : y[i] \in Int
  BY <1>0, WordType DEF NinvState
<1>4. Right(y[4], 4294967296)
  <2>1. y[0 + 1] = NinvStep(y[0], p) /\ y[1 + 1] = NinvStep(y[1], p)
        /\ y[2 + 1] = NinvStep(y[2], p) /\ y[3 + 1] = NinvStep(y[3], p)
    BY <1>0
  <2>2. 0 + 1 = 1 /\ 1 + 1 = 2 /\ 2 + 1 = 3 /\ 3 + 1 = 4
    OBVIOUS
  <2>3. y[1] = NinvStep(y[0], p) /\ y[2] = NinvStep(y[1], p)
        /\ y[3] = NinvStep(y[2], p) /\ y[4] = NinvStep(y[3], p)
    BY <2>1, <2>2
  <2> HIDE DEF Right
  <2>4. Right(y[1], 4 * 4)
    BY <1>1, <1>2, <1>3, <2>3
  <2>5. 4 * 4 = 16 /\ 16 * 16 = 256 /\ 256 * 256 = 65536 /\ 65536 * 65536 = 4294967296
    OBVIOUS
  <2>6. Right(y[2], 16 * 16)
    BY <1>2, <1>3, <2>3, <2>4, <2>5
  <2>7. Right(y[3], 256 * 256)
    BY <1>2, <1>3, <2>3, <2>6, <2>5
  <2>8. Right(y[4], 65536 * 65536)
    BY <1>2, <1>3, <2>3, <2>7, <2>5
  <2> QED  BY <2>5, <2>8
<1>5. PICK h \in Nat : 4294967296 = Word * h
  <2>1. 2 ^ (1 + 1) = 2 ^ 1 * 2 ^ 1 /\ 2 ^ (2 + 2) = 2 ^ 2 * 2 ^ 2 /\ 2 ^ (4 + 4) = 2 ^ 4 * 2 ^ 4
        /\ 2 ^ (8 + 8) = 2 ^ 8 * 2 ^ 8 /\ 2 ^ (16 + 16) = 2 ^ 16 * 2 ^ 16
    BY PowerSum
  <2>2. 2 ^ 1 = 2
    <3>1. 2 ^ (0 + 1) = 2 * 2 ^ 0 /\ 2 ^ 0 = 1 /\ 0 + 1 = 1
      BY PowerOfTwo
    <3> QED  BY <3>1
  <2>3. 1 + 1 = 2 /\ 2 + 2 = 4 /\ 4 + 4 = 8 /\ 8 + 8 = 16 /\ 16 + 16 = 32
    OBVIOUS
  <2>4. 2 ^ 2 = 4 /\ 2 ^ 4 = 16 /\ 2 ^ 8 = 256
    BY <2>1, <2>2, <2>3
  <2>5. 2 ^ 16 = 65536
    BY <2>1, <2>4, <2>3
  <2>6. 2 ^ 32 = 4294967296
    BY <2>1, <2>5, <2>3
  <2>7. W \in Nat /\ 32 - W \in Nat /\ W + (32 - W) = 32
    BY WordType
  <2>8. 2 ^ 32 = 2 ^ W * 2 ^ (32 - W) /\ 2 ^ (32 - W) \in Nat
    <3> DEFINE n == 32 - W
    <3>1. n \in Nat /\ W + n = 32 /\ W \in Nat
      BY <2>7
    <3> HIDE DEF n
    <3>2. 2 ^ (W + n) = 2 ^ W * 2 ^ n /\ 2 ^ n \in Nat
      BY <3>1, PowerSum, PowerPositive
    <3> QED  BY <3>1, <3>2 DEF n
  <2> QED  BY <2>6, <2>8 DEF Word
<1> DEFINE m == Word
           z == y[4]
           n == (-z) % m
<1>6. m \in Nat \ {0} /\ z \in Int
  BY <1>3, WordType
<1>7. PICK c \in Int, e \in Int : p * z = 1 + c * 4294967296 + e * m
  BY <1>4 DEF InverseUpTo
<1>8. modp_ninv31(p) = n
  BY <1>0
<1> HIDE DEF Right, m, z
<1>9. n \in 0 .. m - 1 /\ Same(n, -z, m)
  <2>1. -z \in Int
    BY <1>6
  <2> QED  BY <1>6, <2>1, SameRemainder
<1>10. PICK k \in Int : n = -z + m * k
  BY <1>9 DEF Same
<1> HIDE DEF n
<1>11. p * n + 1 = (p * k - c * h - e) * m + 0 /\ p * k - c * h - e \in Int
  <2>1. p * (-z + m * k) = -(p * z) + m * (p * k)
    BY <1>6
  <2>2. c * (m * h) = m * (c * h)
    BY <1>6
  <2> DEFINE u == p * z
             v == p * k
             w == c * h
  <2>3. u \in Int /\ v \in Int /\ w \in Int
    BY <1>6
  <2>4. p * n = -u + m * v /\ u = 1 + m * w + e * m
    BY <1>5, <1>7, <1>10, <2>1, <2>2 DEF m
  <2> HIDE DEF u, v, w
  <2>5. p * n + 1 = m * v - m * w - e * m
    <3> DEFINE a == m * v
               b == m * w
               d == e * m
    <3>1. a \in Int /\ b \in Int /\ d \in Int
      BY <1>6, <2>3
    <3>2. p * n = -u + a /\ u = 1 + b + d
      BY <2>4
    <3> HIDE DEF a, b, d
    <3>3. p * n + 1 = a - b - d
      BY <3>1, <3>2, <2>3
    <3> QED  BY <3>3 DEF a, b, d
  <2>6. m * v - m * w - e * m = (v - w - e) * m + 0 /\ v - w - e \in Int
    BY <1>6, <2>3
  <2> QED  BY <2>5, <2>6 DEF v, w
<1>12. (p * n + 1) % m = 0
  <2> DEFINE t == p * k - c * h - e
  <2>1. t \in Int /\ p * n + 1 = t * m + 0
    BY <1>11
  <2> HIDE DEF t
  <2>2. 0 \in 0 .. m - 1
    BY <1>6
  <2>3. (t * m + 0) % m = 0
    BY <1>6, <2>1, <2>2, QuotientUnique
  <2> QED  BY <2>1, <2>3
<1> QED  BY <1>8, <1>9, <1>12 DEF m, n

(* What precedes any work modulo p, R2 apart.                              *)
Ready(P) == /\ Modulus(P.p) /\ P.p0i \in 0 .. Word - 1
            /\ (P.p * P.p0i + 1) % Word = 0

(* A number without a remainder is a multiple.                             *)
LEMMA WholeQuotient ==
  ASSUME NEW m \in Nat \ {0}, NEW z \in Int, z % m = 0
  PROVE  \E g \in Int : z = m * g
<1> DEFINE h == z \div m
<1>1. h \in Int /\ z = h * m + 0
  OBVIOUS
<1> HIDE DEF h
<1>2. z = m * h
  BY <1>1
<1> QED  BY <1>1, <1>2

(* Word has an inverse modulo p, and may be cancelled.                     *)
LEMMA CancelWord ==
  ASSUME NEW P, Ready(P), NEW a \in Int, NEW b \in Int, Same(Word * a, Word * b, P.p)
  PROVE  Same(a, b, P.p)
<1> DEFINE p == P.p
           n == P.p0i
           m == Word
<1>1. p \in Nat /\ n \in Nat /\ m \in Nat \ {0} /\ (p * n + 1) % m = 0
  BY WordType DEF Ready, Modulus
<1>2. PICK k \in Int : m * a = m * b + p * k
  BY DEF Same
<1> HIDE DEF p, n, m
<1>3. PICK g \in Int : p * n + 1 = m * g
  BY <1>1, WholeQuotient
<1>4. g * (m * a) = a + p * (n * a) /\ g * (m * b) = b + p * (n * b)
  <2>1. ASSUME NEW c \in Int
        PROVE  g * (m * c) = c + p * (n * c)
    <3>1. g * (m * c) = (m * g) * c /\ (p * n + 1) * c = c + p * (n * c)
      BY <1>1
    <3> QED  BY <1>3, <3>1
  <2> QED  BY <2>1
<1>5. g * (m * a) = g * (m * b) + p * (g * k)
  <2> DEFINE x == m * a
             y == m * b
  <2>1. x \in Int /\ y \in Int /\ x = y + p * k
    BY <1>1, <1>2
  <2> HIDE DEF x, y
  <2>2. g * (y + p * k) = g * y + p * (g * k)
    BY <1>1, <2>1
  <2> QED  BY <2>1, <2>2 DEF x, y
<1>6. a = b + p * (n * b - n * a + g * k) /\ n * b - n * a + g * k \in Int
  <2> DEFINE x == n * a
             y == n * b
             z == g * k
  <2>1. x \in Int /\ y \in Int /\ z \in Int
    BY <1>1
  <2>2. a + p * x = b + p * y + p * z
    BY <1>4, <1>5
  <2> HIDE DEF x, y, z
  <2>3. a = b + p * (y - x + z)
    <3> DEFINE X == p * x
               Y == p * y
               Z == p * z
    <3>1. X \in Int /\ Y \in Int /\ Z \in Int /\ a + X = b + Y + Z /\ p * (y - x + z) = Y - X + Z
      BY <1>1, <2>1, <2>2
    <3> HIDE DEF X, Y, Z
    <3> QED  BY <3>1
  <2> QED  BY <2>1, <2>3 DEF x, y, z
<1> QED  BY <1>6 DEF Same, p

(* n is -1/p modulo m, and w times p is what Montgomery reduction adds to z. *)
Cancels(n, p, m)     == (p * n + 1) % m = 0
Adds(w, z, n, p, m)  == z \in 0 .. p * m - 1 /\ w \in 0 .. m - 1 /\ Same(w, z * n, m)
Quotient(b, t, m)    == t = b * m /\ t \div m = b

(* What Montgomery reduction adds to z makes it a multiple of m, below 2p  *)
(* times m.                                                                *)
LEMMA ExactQuotient ==
  ASSUME NEW p \in Nat \ {0}, NEW n \in Nat, NEW m \in Nat \ {0}, Cancels(n, p, m),
         NEW z, NEW w, Adds(w, z, n, p, m)
  PROVE  \E b \in 0 .. 2 * p - 1 : Quotient(b, z + w * p, m)
<1> DEFINE t == z + w * p
<1>1. z \in Nat /\ z < p * m /\ p * m \in Nat /\ w \in 0 .. m - 1
  <2> DEFINE y == p * m
  <2>1. y \in Nat /\ z \in 0 .. y - 1 /\ w \in 0 .. m - 1
    BY DEF Adds
  <2> HIDE DEF y
  <2>2. z \in Nat /\ z < y
    BY <2>1
  <2> QED  BY <2>1, <2>2 DEF y
<1>2. PICK g \in Int : p * n + 1 = m * g
  <2> DEFINE x == p * n + 1
  <2>1. x \in Int /\ x % m = 0
    BY DEF Cancels
  <2> HIDE DEF x
  <2>2. \E g \in Int : x = m * g
    BY <2>1, WholeQuotient
  <2> QED  BY <2>2 DEF x
<1>3. PICK k \in Int : w = z * n + m * k
  BY DEF Same, Adds
<1> DEFINE b == z * g + k * p
<1>4. b \in Int /\ t = b * m
  <2>1. (z * n + m * k) * p = z * (p * n) + m * (k * p)
    BY <1>1
  <2>2. z * (p * n) + z = z * (m * g)
    <3>1. z * (p * n) + z = z * (p * n + 1)
      BY <1>1
    <3> QED  BY <1>2, <3>1
  <2>3. (z * g + k * p) * m = z * (m * g) + m * (k * p) /\ b \in Int
    BY <1>1
  <2> DEFINE x == z * (p * n)
             y == z * (m * g)
             u == m * (k * p)
             B == b * m
             C == w * p
  <2>4. x \in Int /\ y \in Int /\ u \in Int /\ C \in Int
    BY <1>1
  <2>5. C = x + u /\ x + z = y /\ B = y + u
    BY <1>3, <2>1, <2>2, <2>3
  <2> HIDE DEF x, y, u, B, C
  <2>6. z + C = B
    BY <1>1, <2>4, <2>5
  <2> QED  BY <2>3, <2>6 DEF B, C
<1> HIDE DEF b
<1>5. t \div m = b
  <2>1. 0 \in 0 .. m - 1 /\ b * m + 0 = b * m
    BY <1>4
  <2>2. (b * m + 0) \div m = b
    BY <1>4, <2>1, QuotientUnique
  <2> HIDE DEF t
  <2> QED  BY <1>4, <2>1, <2>2
<1>6. 0 <= t /\ t < (2 * p) * m
  <2> DEFINE x == w * p
             y == p * m
  <2>1. x \in Nat /\ y \in Nat /\ z < y
    BY <1>1
  <2>2. x + p <= y
    <3>1. w * p + p <= m * p
      <4>1. w \in Int /\ m \in Int /\ w < m /\ p \in Nat
        BY <1>1
      <4> QED  BY <4>1, MultipleAbove
    <3>2. m * p = p * m
      OBVIOUS
    <3> QED  BY <3>1, <3>2
  <2>3. (2 * p) * m = 2 * y
    OBVIOUS
  <2> HIDE DEF x, y
  <2>4. 0 <= z + x /\ z + x < 2 * y
    BY <1>1, <2>1, <2>2
  <2> QED  BY <2>3, <2>4 DEF x
<1> HIDE DEF t
<1>7. ASSUME b < 0
      PROVE  FALSE
  <2>1. b * m + m <= 0 * m
    BY <1>4, <1>7, MultipleAbove
  <2> DEFINE x == b * m
  <2>2. x \in Int /\ x + m <= 0 /\ 0 <= x
    BY <1>4, <1>6, <2>1
  <2> HIDE DEF x
  <2> QED  BY <2>2
<1>8. ASSUME 2 * p <= b
      PROVE  FALSE
  <2>1. b - 2 * p \in Nat /\ b * m = (2 * p) * m + (b - 2 * p) * m
    BY <1>4, <1>8
  <2>2. (b - 2 * p) * m >= 0
    BY <2>1
  <2> DEFINE x == (b - 2 * p) * m
             y == (2 * p) * m
             u == b * m
  <2>3. x \in Int /\ y \in Int /\ x >= 0 /\ u = y + x /\ u < y
    BY <1>4, <1>6, <2>1, <2>2
  <2> HIDE DEF x, y, u
  <2> QED  BY <2>3
<1>9. b \in 0 .. 2 * p - 1
  BY <1>4, <1>7, <1>8
<1>10. Quotient(b, t, m)
  BY <1>4, <1>5 DEF Quotient
<1> QED  BY <1>9, <1>10 DEF t

(* What is left of the quotient b, p less or not, is z / m modulo p.       *)
LEMMA ReducedIs ==
  ASSUME NEW p \in Nat \ {0}, NEW m \in Nat \ {0}, NEW z \in Nat, NEW w \in 0 .. m - 1,
         NEW b \in 0 .. 2 * p - 1, Quotient(b, z + w * p, m),
         NEW s \in 0 .. p - 1, Same(s, b - p, p)
  PROVE  Same(m * s, z, p)
<1>1. PICK j \in Int : s = b - p + p * j
  BY DEF Same
<1>2. m * (b - p + p * j) = b * m + p * (-m + m * j)
  OBVIOUS
<1>3. z + w * p + p * (-m + m * j) = z + p * (w - m + m * j) /\ w - m + m * j \in Int
  OBVIOUS
<1>4. m * s = z + p * (w - m + m * j)
  <2>1. z + w * p = b * m
    BY DEF Quotient
  <2> QED  BY <1>1, <1>2, <1>3, <2>1
<1> QED  BY <1>3, <1>4 DEF Same

(* Montgomery reduction divides by Word modulo p.                          *)
THEOREM MontgomeryReduction ==
  ASSUME NEW P, Ready(P), NEW z \in 0 .. P.p * Word - 1
  PROVE  MontyReduce(z, P) \in 0 .. P.p - 1 /\ Same(Word * MontyReduce(z, P), z, P.p)
<1> DEFINE p == P.p
           n == P.p0i
           m == Word
           r == z % m
           w == (r * n) % m
<1>1. p \in Nat \ {0} /\ p < m /\ n \in Nat /\ m \in Nat \ {0} /\ (p * n + 1) % m = 0
  BY WordType DEF Ready, Modulus
<1>2. z \in 0 .. p * m - 1
  OBVIOUS
<1>3. MontyReduce(z, P) = AddBack((z + w * p) \div m - p, p)
  BY DEF MontyReduce
<1> HIDE DEF p, n, m
<1>4. z \in Nat
  BY <1>1, <1>2
<1>5. r \in 0 .. m - 1 /\ Same(r, z, m)
  BY <1>1, <1>4, SameRemainder
<1> HIDE DEF r
<1>6. w \in 0 .. m - 1 /\ Same(w, z * n, m)
  <2> DEFINE x == r * n
             y == z * n
  <2>1. x \in Int /\ y \in Int /\ r \in Int /\ m \in Int /\ n \in Int
    BY <1>1, <1>4, <1>5
  <2>2. Same(x, y, m)
    <3>1. Same(n, n, m)
      BY <2>1, SameIs
    <3> QED  BY <1>4, <1>5, <2>1, <3>1, SameOperations
  <2>3. w = x % m
    OBVIOUS
  <2> HIDE DEF x, y, w
  <2>4. w \in 0 .. m - 1 /\ Same(w, x, m)
    BY <1>1, <2>1, <2>3, SameRemainder
  <2>5. w \in Int
    BY <2>4
  <2>6. Same(w, y, m)
    BY <2>1, <2>2, <2>4, <2>5, SameIs
  <2> QED  BY <2>4, <2>6 DEF y
<1> HIDE DEF w
<1>7. PICK b \in 0 .. 2 * p - 1 : Quotient(b, z + w * p, m)
  <2>1. p \in Nat \ {0} /\ n \in Nat /\ m \in Nat \ {0} /\ Cancels(n, p, m)
    BY <1>1 DEF Cancels
  <2>2. Adds(w, z, n, p, m)
    BY <1>2, <1>6 DEF Adds
  <2> QED  BY <2>1, <2>2, ExactQuotient
<1> DEFINE d == b - p
           s == AddBack(d, p)
<1>8. MontyReduce(z, P) = s
  BY <1>3, <1>7 DEF Quotient
<1>9. d \in Int /\ -p <= d /\ d < p
  BY <1>1, <1>7
<1>10. s \in 0 .. p - 1 /\ Same(s, d, p)
  <2> HIDE DEF d
  <2>1. p \in Nat /\ p < Word
    BY <1>1 DEF m
  <2> QED  BY <1>9, <2>1, AddBackIs
<1> HIDE DEF s
<1>11. Same(m * s, z, p)
  BY <1>1, <1>4, <1>6, <1>7, <1>10, ReducedIs
<1> QED  BY <1>8, <1>10, <1>11 DEF p, m

----------------------------------------------------------------------------
(* Montgomery forms, and the powers of two computed with them.             *)

(* x is the Montgomery form of v.                                          *)
Form(x, v, P) == x \in 0 .. P.p - 1 /\ Same(x, Word * v, P.p)

(* Products of residues stay below p * Word.                               *)
LEMMA MontyProduct ==
  ASSUME NEW P, Ready(P), NEW a \in 0 .. P.p - 1, NEW b \in 0 .. P.p - 1
  PROVE  /\ modp_montymul(a, b, P) \in 0 .. P.p - 1
         /\ Same(Word * modp_montymul(a, b, P), a * b, P.p)
<1> DEFINE p == P.p
           m == Word
           z == a * b
<1>1. p \in Nat /\ m \in Nat \ {0} /\ p < m /\ a \in 0 .. p - 1 /\ b \in 0 .. p - 1
  BY WordType DEF Ready, Modulus
<1>2. z \in 0 .. p * m - 1
  <2> HIDE DEF p, m
  <2>1. a * b \in Nat
    BY <1>1
  <2>2. a * b + b <= p * b
    BY <1>1, MultipleAbove
  <2>3. b * p + p <= m * p
    BY <1>1, MultipleAbove
  <2>4. p * b = b * p /\ m * p = p * m
    BY <1>1
  <2> DEFINE x == p * b
             y == p * m
  <2>5. x \in Nat /\ y \in Nat /\ z \in Nat /\ z + b <= x /\ x + p <= y
    BY <1>1, <2>1, <2>2, <2>3, <2>4
  <2> HIDE DEF x, y, z
  <2>6. z \in 0 .. y - 1
    BY <1>1, <2>5
  <2> QED  BY <2>6 DEF y
<1> HIDE DEF z
<1>3. MontyReduce(z, P) \in 0 .. P.p - 1 /\ Same(Word * MontyReduce(z, P), z, P.p)
  BY <1>2, MontgomeryReduction
<1> QED  BY <1>3 DEF z, modp_montymul

(* Montgomery multiplication multiplies what the forms stand for.          *)
LEMMA FormProduct ==
  ASSUME NEW P, Ready(P), NEW a, NEW b, NEW v \in Int, NEW w \in Int, Form(a, v, P), Form(b, w, P)
  PROVE  Form(modp_montymul(a, b, P), v * w, P)
<1> DEFINE p == P.p
           m == Word
           x == modp_montymul(a, b, P)
           y == a * b
           c == m * v
           d == m * w
           e == m * (v * w)
<1>1. p \in Nat /\ m \in Nat /\ a \in 0 .. p - 1 /\ b \in 0 .. p - 1
  BY WordType DEF Ready, Modulus, Form
<1>2. x \in 0 .. p - 1 /\ Same(m * x, y, p)
  BY <1>1, MontyProduct
<1>3. Same(a, c, p) /\ Same(b, d, p)
  BY DEF Form
<1> HIDE DEF p, m, x
<1>4. c \in Int /\ d \in Int /\ a \in Int /\ b \in Int /\ p \in Int
  BY <1>1
<1>5. Same(y, c * d, p)
  <2> HIDE DEF c, d
  <2> QED  BY <1>3, <1>4, SameOperations
<1>6. m * e = c * d /\ e \in Int /\ y \in Int /\ m * x \in Int /\ c * d \in Int
  BY <1>1, <1>2
<1> HIDE DEF c, d, e, y
<1>7. Same(m * x, m * e, p)
  BY <1>2, <1>4, <1>5, <1>6, SameIs
<1>8. Same(x, e, p)
  <2>1. x \in Int
    BY <1>1, <1>2
  <2> QED  BY <1>6, <1>7, <2>1, CancelWord DEF m, p
<1> QED  BY <1>2, <1>8 DEF Form, e, m, p, x

(* The form of 1: 2^W mod p is 2^W - p.                                    *)
LEMMA FormOne ==
  ASSUME NEW P, Ready(P)
  PROVE  Form(modp_R(P.p), 1, P)
<1>1. P.p \in Nat /\ P.p < Word /\ Word < 2 * P.p /\ Word \in Nat
  BY WordType DEF Ready, Modulus
<1>2. Word - P.p = Word * 1 + P.p * (-1) /\ -1 \in Int
  BY <1>1
<1> QED  BY <1>1, <1>2 DEF Form, Same, modp_R

(* The form of a sum.                                                      *)
LEMMA FormSum ==
  ASSUME NEW P, Ready(P), NEW a, NEW b, NEW v \in Int, NEW w \in Int, Form(a, v, P), Form(b, w, P)
  PROVE  Form(modp_add(a, b, P.p), v + w, P)
<1> DEFINE p == P.p
           m == Word
           x == modp_add(a, b, p)
           c == m * v
           d == m * w
<1>1. p \in Nat /\ m \in Nat /\ p < m /\ a \in 0 .. p - 1 /\ b \in 0 .. p - 1
  BY WordType DEF Ready, Modulus, Form
<1>2. x \in 0 .. p - 1 /\ Same(x, a + b, p)
  <2> HIDE DEF p
  <2> QED  BY <1>1, SmallArithmetic DEF m
<1>3. Same(a, c, p) /\ Same(b, d, p)
  BY DEF Form
<1> HIDE DEF p, m, x
<1>4. c \in Int /\ d \in Int /\ a \in Int /\ b \in Int /\ p \in Int /\ x \in Int
  BY <1>1, <1>2
<1>5. m * (v + w) = c + d
  BY <1>1
<1> HIDE DEF c, d
<1>6. Same(a + b, c + d, p) /\ a + b \in Int /\ c + d \in Int
  BY <1>3, <1>4, SameOperations
<1>7. Same(x, c + d, p)
  BY <1>2, <1>4, <1>6, SameIs
<1> QED  BY <1>2, <1>5, <1>7 DEF Form, m, p, x

(* A halved even number, or odd number plus p, is half of it modulo p.     *)
LEMMA HalfModulo ==
  ASSUME NEW p \in Nat, p % 2 = 1, NEW x \in 0 .. p - 1, NEW z \in Int, Same(x, 2 * z, p)
  PROVE  LET h == (x + (IF x % 2 = 1 THEN p ELSE 0)) \div 2
         IN  h \in 0 .. p - 1 /\ Same(h, z, p)
<1> DEFINE h == (x + (IF x % 2 = 1 THEN p ELSE 0)) \div 2
<1>1. h \in 0 .. p - 1 /\ (2 * h = x \/ 2 * h = x + p)
  OBVIOUS
<1>2. PICK a \in Nat : p = 2 * a + 1
  <2>1. p \div 2 \in Nat /\ p = 2 * (p \div 2) + 1
    OBVIOUS
  <2> QED  BY <2>1
<1>3. PICK k \in Int : x = 2 * z + p * k
  BY DEF Same
<1> HIDE DEF h
<1>4. PICK j \in Int : 2 * h = 2 * z + p * j
  <2>1. CASE 2 * h = x
    BY <1>3, <2>1
  <2>2. CASE 2 * h = x + p
    <3>1. x + p = 2 * z + p * (k + 1) /\ k + 1 \in Int
      BY <1>3
    <3> QED  BY <2>2, <3>1
  <2> QED  BY <1>1, <2>1, <2>2
<1> DEFINE e == h - z - a * j
<1>5. j = 2 * e /\ e \in Int
  <2>1. (2 * a + 1) * j = 2 * (a * j) + j /\ a * j \in Int
    BY <1>2
  <2> DEFINE b == a * j
  <2>2. b \in Int /\ 2 * h = 2 * z + 2 * b + j
    BY <1>2, <1>4, <2>1
  <2> HIDE DEF b
  <2>3. j = 2 * (h - z - b) /\ h - z - b \in Int
    BY <1>1, <2>2
  <2> QED  BY <2>3 DEF b
<1> HIDE DEF e
<1>6. h = z + p * e
  <2>1. p * j = 2 * (p * e)
    BY <1>5
  <2> DEFINE b == p * e
  <2>2. b \in Int /\ 2 * h = 2 * z + 2 * b
    BY <1>4, <1>5, <2>1
  <2> HIDE DEF b
  <2>3. h = z + b
    BY <1>1, <2>2
  <2> QED  BY <2>3 DEF b
<1>7. Same(h, z, p)
  BY <1>5, <1>6 DEF Same
<1> QED  BY <1>1, <1>7 DEF h

(* The squarings of modp_R2, up to the last one.                           *)
LastSquaring == CHOOSE k \in 1 .. W : 2 ^ k = W + 1
HalfOf(x, p) == (x + (IF x % 2 = 1 THEN p ELSE 0)) \div 2

(* The variable of modp_R2 after every squaring.                           *)
LEMMA SquaringsLoop ==
  ASSUME NEW P, Ready(P)
  PROVE  \E z : /\ z[0] = modp_add(modp_R(P.p), modp_R(P.p), P.p)
                /\ modp_R2(P) = HalfOf(z[LastSquaring], P.p)
                /\ \A i \in 0 .. LastSquaring - 1 : z[i + 1] = modp_montymul(z[i], z[i], P)
<1> DEFINE S == 0 .. P.p - 1
           n == LastSquaring
           f0 == modp_add(modp_R(P.p), modp_R(P.p), P.p)
           G == [i \in Nat |-> [y \in S |-> modp_montymul(y, y, P)]]
           Loop(z) == z = [k \in 0 .. n |-> IF k = 0 THEN f0
                             ELSE LET y == z[k - 1] IN modp_montymul(y, y, P)]
           r == CHOOSE z : Loop(z)
<1>0. n \in 1 .. W /\ n \in Nat
  <2>1. LastSquaring \in 1 .. W
    BY RootAssumption DEF LastSquaring
  <2> QED  BY <2>1, WordType
<1>1. f0 \in S
  <2>1. modp_R(P.p) \in S
    BY FormOne DEF Form
  <2>2. P.p \in Nat /\ P.p < Word
    BY DEF Ready, Modulus
  <2> QED  BY <2>1, <2>2, SmallArithmetic
<1>2. IsStep(G, S)
  <2>1. \A y \in S : modp_montymul(y, y, P) \in S
    BY MontyProduct
  <2> HIDE DEF S
  <2> QED  BY <2>1 DEF IsStep
<1> HIDE DEF n, f0
<1>3. PICK g : Obeys(g, n, S, f0, G)
  <2> HIDE DEF S, G
  <2> QED  BY <1>0, <1>1, <1>2, FiniteRecursion
<1>4. ASSUME NEW i \in 0 .. n - 1
      PROVE  g[i + 1] = modp_montymul(g[i], g[i], P)
  <2>1. i \in Nat /\ i \in 0 .. n
    BY <1>0
  <2>2. g[i + 1] = G[i][g[i]] /\ g[i] \in S
    <3> HIDE DEF G, S
    <3> QED  BY <1>3, <2>1 DEF Obeys
  <2> HIDE DEF S
  <2> QED  BY <2>1, <2>2
<1> HIDE DEF S, G
<1>5. Loop(g)
  <2>1. ASSUME NEW k \in 0 .. n
        PROVE  g[k] = IF k = 0 THEN f0 ELSE modp_montymul(g[k - 1], g[k - 1], P)
    <3>1. CASE k = 0
      BY <1>3, <3>1 DEF Obeys
    <3>2. CASE k # 0
      <4>1. k - 1 \in 0 .. n - 1 /\ (k - 1) + 1 = k
        BY <1>0, <3>2
      <4> QED  BY <1>4, <3>2, <4>1
    <3> QED  BY <3>1, <3>2
  <2>2. g = [k \in 0 .. n |-> g[k]]
    BY <1>3 DEF Obeys
  <2> QED  BY <2>1, <2>2
<1>6. Loop(r)
  <2> HIDE DEF Loop
  <2> QED  BY <1>5
<1>7. modp_R2(P) = HalfOf(r[n], P.p)
  BY DEF modp_R2, HalfOf, LastSquaring, n, f0
<1> HIDE DEF r
<1>8. r[0] = f0
  BY <1>0, <1>6
<1>9. ASSUME NEW i \in 0 .. n - 1
      PROVE  r[i + 1] = modp_montymul(r[i], r[i], P)
  <2>1. i + 1 \in 0 .. n /\ i + 1 # 0 /\ (i + 1) - 1 = i
    BY <1>0
  <2> QED  BY <1>6, <2>1
<1> QED  BY <1>7, <1>8, <1>9 DEF n, f0

(* modp_R2 is Word squared, modulo p.                                      *)
THEOREM SquareOfR ==
  ASSUME NEW P, Ready(P)
  PROVE  modp_R2(P) \in 0 .. P.p - 1 /\ Same(modp_R2(P), Word * Word, P.p)
<1> DEFINE n == LastSquaring
           p == P.p
           m == Word
<1>0. n \in 1 .. W /\ n \in Nat /\ 2 ^ n = W + 1
  <2>1. LastSquaring \in 1 .. W /\ 2 ^ LastSquaring = W + 1
    BY RootAssumption DEF LastSquaring
  <2> QED  BY <2>1, WordType
<1>1. PICK z : /\ z[0] = modp_add(modp_R(P.p), modp_R(P.p), P.p)
               /\ modp_R2(P) = HalfOf(z[n], P.p)
               /\ \A i \in 0 .. n - 1 : z[i + 1] = modp_montymul(z[i], z[i], P)
  BY SquaringsLoop
<1> DEFINE T == {k \in Nat : k <= n => Form(z[k], 2 ^ (2 ^ k), P)}
<1> HIDE DEF n
<1>2. 0 \in T
  <2>1. Form(z[0], 1 + 1, P)
    <3>1. Form(modp_R(P.p), 1, P) /\ 1 \in Int
      BY FormOne
    <3> QED  BY <1>1, <3>1, FormSum
  <2>2. 2 ^ 0 = 1 /\ 2 ^ 1 = 2 /\ 1 + 1 = 2
    BY PowerOfTwo
  <2> QED  BY <2>1, <2>2
<1>3. ASSUME NEW k \in Nat, k \in T
      PROVE  k + 1 \in T
  <2> SUFFICES ASSUME k + 1 <= n
               PROVE  Form(z[k + 1], 2 ^ (2 ^ (k + 1)), P)
    OBVIOUS
  <2>1. Form(z[k], 2 ^ (2 ^ k), P) /\ k \in 0 .. n - 1
    BY <1>0, <1>3
  <2> DEFINE h == 2 ^ k
             v == 2 ^ h
  <2>2. h \in Nat /\ 2 ^ (k + 1) = h + h
    <3>1. 2 ^ k \in Nat /\ 2 ^ (k + 1) = 2 * 2 ^ k
      BY PowerOfTwo
    <3> QED  BY <3>1
  <2> HIDE DEF h
  <2>3. v \in Nat /\ 2 ^ (h + h) = v * v
    BY <2>2, PowerOfTwo, PowerSum
  <2> HIDE DEF v
  <2>4. Form(modp_montymul(z[k], z[k], P), v * v, P)
    <3>1. Form(z[k], v, P) /\ v \in Int
      BY <2>1, <2>3 DEF v, h
    <3> QED  BY <3>1, FormProduct
  <2>5. z[k + 1] = modp_montymul(z[k], z[k], P)
    BY <1>1, <2>1 DEF n
  <2> QED  BY <2>2, <2>3, <2>4, <2>5
<1>4. n \in T
  <2> HIDE DEF T
  <2>1. \A k \in Nat : k \in T
    BY <1>2, <1>3, Induction
  <2> QED  BY <1>0, <2>1
<1>5. Form(z[n], 2 * m, P)
  <2>1. 2 ^ (W + 1) = 2 * 2 ^ W
    BY WordType, PowerOfTwo
  <2>2. Form(z[n], 2 ^ (2 ^ n), P)
    BY <1>0, <1>4
  <2> QED  BY <1>0, <2>1, <2>2 DEF Word
<1> DEFINE x == z[n]
           y == m * m
<1>6. p \in Nat /\ p % 2 = 1 /\ x \in 0 .. p - 1 /\ y \in Int /\ Same(x, 2 * y, p)
  <2>1. m \in Nat /\ m * (2 * m) = 2 * (m * m) /\ m * m \in Int
    BY WordType
  <2> QED  BY <1>5, <2>1 DEF Form, Ready, Modulus
<1>7. modp_R2(P) = HalfOf(x, p)
  BY <1>1 DEF n
<1> HIDE DEF p, x, y
<1>8. HalfOf(x, p) \in 0 .. p - 1 /\ Same(HalfOf(x, p), y, p)
  BY <1>6, HalfModulo DEF HalfOf
<1> QED  BY <1>7, <1>8 DEF p, y

(* What precedes any work modulo p: R2 is the form of Word.                *)
PrimeContext(P) == Ready(P) /\ Form(P.R2, Word, P)

(* The variables of modp_Rx after every step.                              *)
RxStart(P) == [r |-> P.R2, z |-> modp_R(P.p)]

(* The variables of modp_Rx after every bit of the exponent.               *)
LEMMA RxLoop ==
  ASSUME NEW P, PrimeContext(P), NEW x \in 1 .. Word
  PROVE  \E n \in 0 .. W :
           /\ x - 1 < 2 ^ n
           /\ \E s : /\ modp_Rx(x, P) = s[n].z /\ s[0] = RxStart(P)
                     /\ \A i \in 0 .. W - 1 : s[i + 1] = RxStep(s[i], i, x, P)
<1> DEFINE D == 0 .. P.p - 1
           S == [r : D, z : D]
           f0 == RxStart(P)
           G == [i \in Nat |-> [t \in S |-> RxStep(t, i, x, P)]]
           Loop(s) == s = [i \in 0 .. W |-> IF i = 0 THEN f0
                             ELSE LET t == s[i - 1] IN RxStep(t, i - 1, x, P)]
           r == CHOOSE s : Loop(s)
           n == CHOOSE i \in 0 .. W : 2 ^ i > x - 1
<1>0. n \in 0 .. W /\ x - 1 < 2 ^ n
  <2>1. W \in 0 .. W /\ 2 ^ W > x - 1
    BY WordType DEF Word
  <2>2. n \in 0 .. W /\ 2 ^ n > x - 1
    BY <2>1
  <2> HIDE DEF n
  <2>3. 2 ^ n \in Nat
    <3>1. n \in Nat
      BY <2>2, WordType
    <3> QED  BY <3>1, PowerOfTwo
  <2> QED  BY <2>2, <2>3
<1>1. f0 \in S
  <2>1. modp_R(P.p) \in D
    BY FormOne DEF Form, PrimeContext
  <2>2. P.R2 \in D
    BY DEF PrimeContext, Form
  <2> QED  BY <2>1, <2>2 DEF RxStart
<1>2. IsStep(G, S)
  <2>1. \A a, b \in D : modp_montymul(a, b, P) \in D
    BY MontyProduct DEF PrimeContext
  <2>2. ASSUME NEW t \in S, NEW i \in Nat
        PROVE  RxStep(t, i, x, P) \in S
    <3>1. t.r \in D /\ t.z \in D
      OBVIOUS
    <3>2. modp_montymul(t.r, t.r, P) \in D /\ modp_montymul(t.z, t.r, P) \in D
      <4> HIDE DEF D
      <4> QED  BY <2>1, <3>1
    <3> HIDE DEF D
    <3> QED  BY <3>1, <3>2 DEF RxStep
  <2> HIDE DEF S
  <2> QED  BY <2>2 DEF IsStep
<1> HIDE DEF n, f0
<1>3. PICK g : Obeys(g, W, S, f0, G)
  <2> HIDE DEF S, G
  <2> QED  BY <1>1, <1>2, WordType, FiniteRecursion
<1>4. ASSUME NEW i \in 0 .. W - 1
      PROVE  g[i + 1] = RxStep(g[i], i, x, P)
  <2>1. i \in Nat /\ i \in 0 .. W
    BY WordType
  <2>2. g[i + 1] = G[i][g[i]] /\ g[i] \in S
    <3> HIDE DEF G, S
    <3> QED  BY <1>3, <2>1 DEF Obeys
  <2> HIDE DEF S
  <2> QED  BY <2>1, <2>2
<1> HIDE DEF S, G
<1>5. Loop(g)
  <2>1. ASSUME NEW i \in 0 .. W
        PROVE  g[i] = IF i = 0 THEN f0 ELSE RxStep(g[i - 1], i - 1, x, P)
    <3>1. CASE i = 0
      BY <1>3, <3>1 DEF Obeys
    <3>2. CASE i # 0
      <4>1. i - 1 \in 0 .. W - 1 /\ (i - 1) + 1 = i
        BY <3>2, WordType
      <4> QED  BY <1>4, <3>2, <4>1
    <3> QED  BY <3>1, <3>2
  <2>2. g = [i \in 0 .. W |-> g[i]]
    BY <1>3 DEF Obeys
  <2> QED  BY <2>1, <2>2
<1>6. Loop(r)
  <2> HIDE DEF Loop
  <2> QED  BY <1>5
<1>7. modp_Rx(x, P) = r[n].z
  BY DEF modp_Rx, n, f0, RxStart
<1> HIDE DEF r
<1>8. r[0] = f0
  BY <1>6, WordType
<1>9. ASSUME NEW i \in 0 .. W - 1
      PROVE  r[i + 1] = RxStep(r[i], i, x, P)
  <2>1. i + 1 \in 0 .. W /\ i + 1 # 0 /\ (i + 1) - 1 = i
    BY WordType
  <2> QED  BY <1>6, <2>1
<1> QED  BY <1>0, <1>7, <1>8, <1>9 DEF f0

(* Bits of the exponent: the n-th moves the low n bits to the next number. *)
LEMMA NextBit ==
  ASSUME NEW n \in Nat, NEW e \in Nat
  PROVE  e % 2 ^ (n + 1) = (e % 2 ^ n) + (IF Bit(e, n) THEN 2 ^ n ELSE 0) /\ e % 2 ^ n \in Nat
<1>1. 2 ^ 1 = 2
  BY PowerOfTwo
<1>2. /\ e \div 2 ^ n \in Nat /\ (e \div 2 ^ n) % 2 ^ 1 \in 0 .. 2 ^ 1 - 1
      /\ e % 2 ^ n \in 0 .. 2 ^ n - 1
      /\ e % 2 ^ (n + 1) = ((e \div 2 ^ n) % 2 ^ 1) * 2 ^ n + (e % 2 ^ n)
  BY SplitBits
<1> DEFINE h == (e \div 2 ^ n) % 2
           m == 2 ^ n
           r == e % m
           z == e % 2 ^ (n + 1)
<1>3. h \in 0 .. 1 /\ m \in Nat /\ r \in 0 .. m - 1 /\ z = h * m + r
  BY <1>1, <1>2, PowerOfTwo
<1>4. Bit(e, n) <=> h = 1
  BY DEF Bit
<1> HIDE DEF h, m, r, z
<1>5. CASE h = 1
  <2>1. z = r + m
    BY <1>3, <1>5
  <2> QED  BY <1>3, <1>4, <1>5, <2>1 DEF z, r, m
<1>6. CASE h = 0
  <2>1. z = r + 0
    BY <1>3, <1>6
  <2> QED  BY <1>3, <1>4, <1>6, <2>1 DEF z, r, m
<1> QED  BY <1>3, <1>5, <1>6

(* modp_Rx is a power of Word, modulo p.                                   *)
THEOREM PowerOfR ==
  ASSUME NEW P, PrimeContext(P), NEW x \in 1 .. Word
  PROVE  modp_Rx(x, P) \in 0 .. P.p - 1 /\ Same(modp_Rx(x, P), 2 ^ (W * x), P.p)
<1>0. W \in Nat /\ Word \in Nat /\ x - 1 \in Nat
  BY WordType
<1> DEFINE e == x - 1
           Pow(k) == 2 ^ (W * k)
<1>a. Pow(1) = Word /\ Pow(0) = 1
  <2>1. W * 1 = W /\ W * 0 = 0
    BY <1>0
  <2> QED  BY <2>1, PowerOfTwo DEF Word
<1>b. ASSUME NEW k \in Nat, NEW j \in Nat
      PROVE  Pow(k + j) = Pow(k) * Pow(j) /\ Pow(k) \in Int /\ Pow(j) \in Int
  <2>1. W * (k + j) = W * k + W * j /\ W * k \in Nat /\ W * j \in Nat
    BY <1>0
  <2>2. 2 ^ (W * k + W * j) = 2 ^ (W * k) * 2 ^ (W * j)
    BY <2>1, PowerSum
  <2> QED  BY <2>1, <2>2, PowerOfTwo
<1>w. PICK n \in 0 .. W :
        /\ x - 1 < 2 ^ n
        /\ \E s : /\ modp_Rx(x, P) = s[n].z /\ s[0] = RxStart(P)
                  /\ \A i \in 0 .. W - 1 : s[i + 1] = RxStep(s[i], i, x, P)
  BY RxLoop
<1>1. PICK s : /\ modp_Rx(x, P) = s[n].z /\ s[0] = RxStart(P)
               /\ \A i \in 0 .. W - 1 : s[i + 1] = RxStep(s[i], i, x, P)
  BY <1>w
<1> DEFINE Right(i) == Form(s[i].r, Pow(2 ^ i), P) /\ Form(s[i].z, Pow(e % 2 ^ i), P)
           T == {i \in Nat : i <= W => Right(i)}
<1>2. 0 \in T
  <2>1. 2 ^ 0 = 1 /\ e % 1 = 0
    BY <1>0, PowerOfTwo
  <2>2. s[0].r = P.R2 /\ s[0].z = modp_R(P.p)
    BY <1>1 DEF RxStart
  <2>3. Form(P.R2, Word, P) /\ Form(modp_R(P.p), 1, P)
    BY FormOne DEF PrimeContext
  <2> HIDE DEF Pow, e
  <2> QED  BY <1>a, <2>1, <2>2, <2>3
<1>3. ASSUME NEW i \in Nat, i \in T
      PROVE  i + 1 \in T
  <2> SUFFICES ASSUME i + 1 <= W
               PROVE  Right(i + 1)
    OBVIOUS
  <2>1. Right(i) /\ i \in 0 .. W - 1
    BY <1>0, <1>3
  <2>2. s[i + 1] = RxStep(s[i], i, x, P)
    BY <1>1, <2>1
  <2> DEFINE a == s[i].r
             b == s[i].z
             k == 2 ^ i
             j == e % k
  <2>3. k \in Nat /\ 2 ^ (i + 1) = k + k
    <3>1. 2 ^ i \in Nat /\ 2 ^ (i + 1) = 2 * 2 ^ i
      BY PowerOfTwo
    <3> QED  BY <3>1
  <2>4. e % 2 ^ (i + 1) = j + (IF Bit(e, i) THEN k ELSE 0) /\ j \in Nat
    <3>1. e \in Nat
      BY <1>0
    <3> HIDE DEF e
    <3> QED  BY <3>1, NextBit
  <2>5. Form(a, Pow(k), P) /\ Form(b, Pow(j), P)
    BY <2>1
  <2>6. s[i + 1].r = modp_montymul(a, a, P)
        /\ s[i + 1].z = IF Bit(e, i) THEN modp_montymul(b, a, P) ELSE b
    <3> HIDE DEF a, b
    <3>1. RxStep(s[i], i, x, P).r = modp_montymul(a, a, P)
          /\ RxStep(s[i], i, x, P).z = IF Bit(e, i) THEN modp_montymul(b, a, P) ELSE b
      BY DEF RxStep, a, b
    <3> QED  BY <2>2, <3>1
  <2> HIDE DEF a, b, k, j
  <2>7. Pow(k + k) = Pow(k) * Pow(k) /\ Pow(j + k) = Pow(j) * Pow(k) /\ Pow(k) \in Int /\ Pow(j) \in Int
    BY <1>b, <2>3, <2>4
  <2> HIDE DEF Pow
  <2>8. Form(s[i + 1].r, Pow(2 ^ (i + 1)), P)
    <3>1. Form(modp_montymul(a, a, P), Pow(k) * Pow(k), P)
      BY <2>5, <2>7, FormProduct DEF PrimeContext
    <3> QED  BY <2>3, <2>6, <2>7, <3>1
  <2>9. Form(s[i + 1].z, Pow(e % 2 ^ (i + 1)), P)
    <3>1. CASE Bit(e, i)
      <4>1. Form(modp_montymul(b, a, P), Pow(j) * Pow(k), P)
        BY <2>5, <2>7, FormProduct DEF PrimeContext
      <4> QED  BY <2>4, <2>6, <2>7, <3>1, <4>1
    <3>2. CASE ~Bit(e, i)
      <4>1. e % 2 ^ (i + 1) = j
        BY <2>4, <3>2
      <4> QED  BY <2>5, <2>6, <3>2, <4>1
    <3> QED  BY <3>1, <3>2
  <2> QED  BY <2>8, <2>9
<1>4. Right(n)
  <2> HIDE DEF T
  <2>1. \A i \in Nat : i \in T
    BY <1>2, <1>3, Induction
  <2>2. n \in T /\ n \in Nat /\ n <= W
    BY <1>0, <2>1
  <2> HIDE DEF Right
  <2> QED  BY <2>2 DEF T
<1> DEFINE y == s[n].z
           v == Pow(e)
<1>5. Form(y, v, P)
  <2>1. e % 2 ^ n = e
    <3>1. 2 ^ n \in Nat \ {0} /\ e \in 0 .. 2 ^ n - 1
      <4>1. n \in Nat
        BY <1>0
      <4>2. 2 ^ n \in Nat \ {0}
        BY <4>1, PowerPositive
      <4> QED  BY <1>0, <1>w, <4>2
    <3> DEFINE m == 2 ^ n
    <3>2. m \in Nat \ {0} /\ e \in 0 .. m - 1
      BY <3>1
    <3> HIDE DEF m, e
    <3>3. (0 * m + e) % m = e /\ 0 * m + e = e
      BY <3>2, QuotientUnique
    <3> QED  BY <3>3 DEF m
  <2> HIDE DEF Pow, e
  <2> QED  BY <1>4, <2>1
<1>6. Pow(x) = v * Word /\ v \in Int
  <2>1. e \in Nat /\ 1 \in Nat /\ x = e + 1
    BY <1>0
  <2> HIDE DEF e
  <2>2. Pow(e + 1) = Pow(e) * Pow(1) /\ Pow(e) \in Int
    BY <1>b, <2>1
  <2> QED  BY <1>a, <2>1, <2>2
<1>7. v * Word = Word * v
  <2> HIDE DEF v
  <2> QED  BY <1>0, <1>6
<1> HIDE DEF v, y
<1>8. modp_Rx(x, P) = y
  BY <1>1 DEF y
<1>9. y \in 0 .. P.p - 1 /\ Same(y, Pow(x), P.p)
  <2> HIDE DEF Pow
  <2> QED  BY <1>5, <1>6, <1>7 DEF Form
<1> QED  BY <1>8, <1>9

----------------------------------------------------------------------------
(* Residues of big integers.                                               *)

(* Division by a product, of any integer.                                  *)
LEMMA DivideTwice ==
  ASSUME NEW M \in Nat \ {0}, NEW B \in Nat \ {0}, NEW z \in Int
  PROVE  /\ (z \div M) \div B = z \div (M * B)
         /\ z % (M * B) = ((z \div M) % B) * M + (z % M)
<1> DEFINE h == z \div M
           r == z % M
           c == h \div B
           w == h % B
<1>1. h \in Int /\ r \in 0 .. M - 1 /\ z = h * M + r
  OBVIOUS
<1>2. c \in Int /\ w \in 0 .. B - 1 /\ h = c * B + w
  <2> HIDE DEF h
  <2> QED  BY <1>1
<1> HIDE DEF h, r, c, w
<1>3. z = c * (M * B) + (w * M + r)
  <2>1. (c * B + w) * M = c * (M * B) + w * M
    BY <1>2
  <2>2. c * (M * B) \in Int /\ w * M \in Int
    BY <1>2
  <2> QED  BY <1>1, <1>2, <2>1, <2>2
<1>4. w * M + r \in 0 .. M * B - 1
  <2>1. w * M + M <= B * M
    <3>1. w \in Int /\ B \in Int /\ w < B
      BY <1>2
    <3> QED  BY <3>1, MultipleAbove
  <2>2. w * M \in Nat /\ B * M = M * B /\ M * B \in Nat
    BY <1>2
  <2> QED  BY <1>1, <2>1, <2>2
<1>5. z \div (M * B) = c /\ z % (M * B) = w * M + r
  <2> DEFINE P == M * B
             s == w * M + r
  <2>1. P \in Nat \ {0}
    OBVIOUS
  <2>2. s \in 0 .. P - 1 /\ z = c * P + s /\ c \in Int
    BY <1>2, <1>3, <1>4
  <2> HIDE DEF P, s
  <2>3. (c * P + s) \div P = c /\ (c * P + s) % P = s
    BY <2>1, <2>2, QuotientUnique
  <2> QED  BY <2>2, <2>3 DEF P, s
<1> QED  BY <1>5 DEF h, r, c, w

(* Words is the modulus of a number of k words.                            *)
Words(k) == 2 ^ (W * k)

(* It grows by a factor of Word.                                           *)
LEMMA WordsAre ==
  /\ Words(0) = 1 /\ Words(1) = Word
  /\ \A k \in Nat : Words(k) \in Nat \ {0} /\ Words(k + 1) = Words(k) * Word
<1>0. W \in Nat
  BY WordType
<1>1. Words(0) = 1 /\ Words(1) = Word
  <2>1. W * 1 = W /\ W * 0 = 0
    BY <1>0
  <2> QED  BY <2>1, PowerOfTwo DEF Word, Words
<1>2. ASSUME NEW k \in Nat
      PROVE  Words(k) \in Nat \ {0} /\ Words(k + 1) = Words(k) * Word
  <2> DEFINE n == W * k
  <2>1. n \in Nat /\ W * (k + 1) = n + W
    BY <1>0
  <2> HIDE DEF n
  <2>2. 2 ^ (n + W) = 2 ^ n * 2 ^ W /\ 2 ^ n \in Nat \ {0}
    BY <1>0, <2>1, PowerSum, PowerPositive
  <2> QED  BY <2>1, <2>2 DEF Words, Word, n
<1> QED  BY <1>1, <1>2

(* One word of Horner's rule.                                              *)
HornerStep(x, i, d, P) ==
  modp_add(modp_montymul(x, P.R2, P), AddBack(WordAt(d, i) - P.p, P.p), P.p)

(* It multiplies by Word and adds, modulo p.                               *)
LEMMA HornerType ==
  ASSUME NEW P, PrimeContext(P), NEW x \in 0 .. P.p - 1, NEW d \in Int, NEW i \in Nat
  PROVE  /\ HornerStep(x, i, d, P) \in 0 .. P.p - 1
         /\ WordAt(d, i) \in 0 .. Word - 1
         /\ Same(HornerStep(x, i, d, P), x * Word + WordAt(d, i), P.p)
<1> DEFINE p == P.p
           m == Word
           w == WordAt(d, i)
           a == modp_montymul(x, P.R2, P)
           b == AddBack(w - p, p)
           s == modp_add(a, b, p)
           R2 == P.R2
<1>1. p \in Nat /\ p < m /\ m < 2 * p /\ m \in Nat \ {0} /\ Ready(P)
  BY WordType DEF PrimeContext, Ready, Modulus
<1>2. w \in 0 .. m - 1
  <2> DEFINE z == d \div 2 ^ (W * i)
  <2>1. z \in Int
    <3>1. Words(i) \in Nat \ {0}
      BY WordsAre
    <3> DEFINE y == Words(i)
    <3>2. y \in Nat \ {0}
      BY <3>1
    <3> HIDE DEF y
    <3>3. d \div y \in Int
      BY <3>2
    <3> QED  BY <3>3 DEF y, Words
  <2> HIDE DEF z, m
  <2>2. z % m \in 0 .. m - 1
    BY <1>1, <2>1
  <2> QED  BY <2>2 DEF z, m, WordAt
<1>3. R2 \in 0 .. p - 1 /\ Same(R2, m * m, p)
  BY DEF PrimeContext, Form
<1>4. a \in 0 .. p - 1 /\ Same(m * a, x * R2, p)
  BY <1>1, <1>3, MontyProduct
<1>5. HornerStep(x, i, d, P) = s
  BY DEF HornerStep
<1>6. b \in 0 .. p - 1 /\ Same(b, w - p, p)
  <2> HIDE DEF p, w
  <2>1. p < Word
    BY <1>1 DEF m
  <2> DEFINE z == w - p
  <2>2. z \in Int /\ -p <= z /\ z < p
    BY <1>1, <1>2
  <2> HIDE DEF z
  <2>3. AddBack(z, p) \in 0 .. p - 1 /\ Same(AddBack(z, p), z, p)
    BY <1>1, <2>1, <2>2, AddBackIs
  <2> QED  BY <2>3 DEF z
<1> HIDE DEF w, a, b, R2
<1>7. s \in 0 .. p - 1 /\ Same(s, a + b, p)
  <2> HIDE DEF p
  <2> QED  BY <1>1, <1>4, <1>6, SmallArithmetic DEF m
<1>8. x \in 0 .. p - 1
  OBVIOUS
<1>9. Same(a, x * m, p)
  <2>1. Same(x, x, p) /\ p \in Int /\ x \in Int /\ m * m \in Int /\ R2 \in Int
    <3> HIDE DEF p, m
    <3>1. x \in Int /\ p \in Int
      BY <1>1, <1>8
    <3> QED  BY <1>1, <1>3, <3>1, SameIs
  <2> HIDE DEF p, m
  <2> DEFINE c == m * m
  <2>2. Same(x * R2, x * c, p)
    <3>1. c \in Int /\ Same(R2, c, p)
      BY <1>3, <2>1
    <3> HIDE DEF c
    <3> QED  BY <2>1, <3>1, SameOperations
  <2> DEFINE e == x * m
  <2>3. x * c = m * e /\ e \in Int /\ x * R2 \in Int /\ m * a \in Int /\ x * c \in Int
    BY <1>1, <1>4, <2>1
  <2> DEFINE y == x * R2
             u == m * a
             v == m * e
  <2>4. Same(u, y, p) /\ Same(y, v, p) /\ y \in Int /\ u \in Int /\ v \in Int
    BY <1>4, <2>2, <2>3
  <2> HIDE DEF y, u, v, c, e
  <2>5. Same(u, v, p)
    BY <2>1, <2>4, SameIs
  <2>6. Same(a, e, p)
    <3>1. a \in Int
      BY <1>1, <1>4
    <3> QED  BY <1>1, <2>3, <2>5, <3>1, CancelWord DEF u, v, m, p
  <2> QED  BY <2>6 DEF e
<1> HIDE DEF s
<1>10. Same(s, x * m + w, p)
  <2> HIDE DEF p, m
  <2> DEFINE e == x * m
  <2>1. e \in Int /\ a \in Int /\ b \in Int /\ w - p \in Int /\ p \in Int /\ s \in Int /\ w \in Int
    BY <1>1, <1>2, <1>4, <1>6, <1>7, <1>8
  <2> HIDE DEF e
  <2>2. Same(a, e, p)
    BY <1>9 DEF e
  <2> DEFINE c == w - p
             y == a + b
             u == e + c
             v == e + w
  <2>3. Same(y, u, p) /\ y \in Int /\ u \in Int /\ v \in Int
    <3>1. Same(b, c, p) /\ c \in Int
      BY <1>6, <2>1
    <3> HIDE DEF c
    <3>2. Same(a + b, e + c, p)
      BY <2>1, <2>2, <3>1, SameOperations
    <3> QED  BY <2>1, <3>1, <3>2
  <2>4. Same(u, v, p)
    <3>1. u = v + p * (-1) /\ -1 \in Int
      BY <2>1
    <3> QED  BY <3>1 DEF Same
  <2>5. Same(s, y, p)
    BY <1>7
  <2> HIDE DEF y, u, v
  <2>6. Same(s, v, p)
    BY <2>1, <2>3, <2>4, <2>5, SameIs
  <2> QED  BY <2>6 DEF v, e
<1> QED  BY <1>2, <1>5, <1>7, <1>10 DEF w

(* The variable of zint_mod_small_unsigned after every word.               *)
LEMMA HornerLoop ==
  ASSUME NEW P, PrimeContext(P), NEW d \in Int, NEW n \in Nat
  PROVE  \E x : /\ x[0] = 0 /\ zint_mod_small_unsigned(d, n, P) = x[n]
                /\ \A i \in 0 .. n - 1 : x[i + 1] = HornerStep(x[i], n - (i + 1), d, P)
<1> DEFINE S == 0 .. P.p - 1
           Step(y, i) == IF i < n THEN HornerStep(y, n - (i + 1), d, P) ELSE y
           G == [i \in Nat |-> [y \in S |-> Step(y, i)]]
           Loop(x) == x = [k \in 0 .. n |->
                            IF k = 0 THEN 0
                            ELSE modp_add(modp_montymul(x[k - 1], P.R2, P),
                                   AddBack(WordAt(d, n - k) - P.p, P.p), P.p)]
           r == CHOOSE x : Loop(x)
<1>1. 0 \in S
  BY DEF PrimeContext, Ready, Modulus
<1>2. IsStep(G, S)
  <2>1. ASSUME NEW y \in S, NEW i \in Nat
        PROVE  Step(y, i) \in S
    <3>1. CASE i < n
      <4>1. n - (i + 1) \in Nat
        BY <3>1
      <4> QED  BY <3>1, <4>1, HornerType
    <3>2. CASE ~(i < n)
      BY <3>2
    <3> QED  BY <3>1, <3>2
  <2> HIDE DEF S, Step
  <2> QED  BY <2>1 DEF IsStep
<1>3. PICK g : Obeys(g, n, S, 0, G)
  <2> HIDE DEF S, G
  <2> QED  BY <1>1, <1>2, FiniteRecursion
<1>4. ASSUME NEW i \in 0 .. n - 1
      PROVE  g[i + 1] = HornerStep(g[i], n - (i + 1), d, P)
  <2>1. i \in Nat /\ i \in 0 .. n /\ i < n
    OBVIOUS
  <2>2. g[i + 1] = G[i][g[i]] /\ g[i] \in S
    <3> HIDE DEF G, S
    <3> QED  BY <1>3, <2>1 DEF Obeys
  <2>3. g[i + 1] = Step(g[i], i)
    <3> HIDE DEF S, Step
    <3> QED  BY <2>1, <2>2
  <2> QED  BY <2>1, <2>3
<1> HIDE DEF S, G
<1>5. Loop(g)
  <2>1. ASSUME NEW k \in 0 .. n
        PROVE  g[k] = IF k = 0 THEN 0 ELSE HornerStep(g[k - 1], n - k, d, P)
    <3>1. CASE k = 0
      BY <1>3, <3>1 DEF Obeys
    <3>2. CASE k # 0
      <4>1. k - 1 \in 0 .. n - 1 /\ (k - 1) + 1 = k
        BY <3>2
      <4> QED  BY <1>4, <3>2, <4>1
    <3> QED  BY <3>1, <3>2
  <2>2. g = [k \in 0 .. n |-> g[k]]
    BY <1>3 DEF Obeys
  <2> QED  BY <2>1, <2>2 DEF HornerStep
<1>6. Loop(r)
  <2> HIDE DEF Loop
  <2> QED  BY <1>5
<1>7. zint_mod_small_unsigned(d, n, P) = r[n]
  BY DEF zint_mod_small_unsigned
<1> HIDE DEF r
<1>8. r[0] = 0
  BY <1>6
<1>9. ASSUME NEW i \in 0 .. n - 1
      PROVE  r[i + 1] = HornerStep(r[i], n - (i + 1), d, P)
  <2>1. i + 1 \in 0 .. n /\ i + 1 # 0 /\ (i + 1) - 1 = i
    OBVIOUS
  <2> QED  BY <1>6, <2>1 DEF HornerStep
<1> QED  BY <1>7, <1>8, <1>9

(* One more word of a number, from the top.                                *)
LEMMA OneMoreWord ==
  ASSUME NEW d \in Int, NEW j \in Nat
  PROVE  /\ d \div Words(j + 1) \in Int
         /\ d \div Words(j) = (d \div Words(j + 1)) * Word + WordAt(d, j)
         /\ d % Words(j + 1) = WordAt(d, j) * Words(j) + (d % Words(j))
<1> DEFINE M == Words(j)
           B == Word
           z == d \div M
<1>1. M \in Nat \ {0} /\ B \in Nat \ {0} /\ Words(j + 1) = M * B
  BY WordsAre, WordType
<1>2. WordAt(d, j) = z % B
  BY DEF WordAt, Words
<1> HIDE DEF M, B
<1>3. z \in Int
  BY <1>1
<1>4. z \div B = d \div (M * B) /\ d % (M * B) = (z % B) * M + (d % M)
  BY <1>1, DivideTwice
<1> HIDE DEF z
<1>5. z \div B \in Int /\ z = (z \div B) * B + (z % B)
  BY <1>1, <1>3
<1> QED  BY <1>1, <1>2, <1>4, <1>5 DEF M, B, z

(* zint_mod_small_unsigned is the residue of the low words of a number.    *)
THEOREM ResidueOfUnsigned ==
  ASSUME NEW P, PrimeContext(P), NEW d \in Int, NEW n \in Nat
  PROVE  zint_mod_small_unsigned(d, n, P) = (d % Words(n)) % P.p
<1> DEFINE p == P.p
           m == Word
           E(k) == d \div Words(n - k)
           f == E(0)
<1>0. p \in Nat \ {0} /\ m \in Nat \ {0}
  BY WordType DEF PrimeContext, Ready, Modulus
<1>1. PICK x : /\ x[0] = 0 /\ zint_mod_small_unsigned(d, n, P) = x[n]
               /\ \A i \in 0 .. n - 1 : x[i + 1] = HornerStep(x[i], n - (i + 1), d, P)
  BY HornerLoop
<1>a. f \in Int
  <2>1. Words(n) \in Nat \ {0} /\ n - 0 = n
    BY WordsAre
  <2> DEFINE y == Words(n)
  <2>2. y \in Nat \ {0}
    BY <2>1
  <2> HIDE DEF y
  <2>3. d \div y \in Int
    BY <2>2
  <2> QED  BY <2>1, <2>3 DEF y
<1> HIDE DEF f
<1> DEFINE Right(k) == x[k] \in 0 .. p - 1 /\ E(k) \in Int /\ Same(x[k] + f * Words(k), E(k), p)
           T == {k \in Nat : k <= n => Right(k)}
<1>2. 0 \in T
  <2>1. x[0] \in 0 .. p - 1 /\ x[0] + f * Words(0) = f
    <3> HIDE DEF p
    <3>1. x[0] \in 0 .. p - 1 /\ Words(0) = 1 /\ x[0] = 0
      BY <1>0, <1>1, WordsAre
    <3> QED  BY <1>a, <3>1
  <2>2. Same(f, E(0), p)
    <3> HIDE DEF p
    <3>1. p \in Int
      BY <1>0
    <3> QED  BY <1>a, <3>1, SameIs DEF f
  <2>3. E(0) \in Int
    BY <1>a DEF f
  <2> QED  BY <2>1, <2>2, <2>3
<1>3. ASSUME NEW k \in Nat, k \in T
      PROVE  k + 1 \in T
  <2> SUFFICES ASSUME k + 1 <= n
               PROVE  Right(k + 1)
    OBVIOUS
  <2> DEFINE j == n - (k + 1)
             w == WordAt(d, j)
             e == E(k)
             e1 == E(k + 1)
             y == x[k]
             s == x[k + 1]
             c == f * Words(k)
  <2>1. Right(k) /\ j \in Nat /\ k \in 0 .. n - 1 /\ n - k = j + 1
    BY <1>3
  <2>2. e \in Int /\ e1 = e * m + w
    <3> HIDE DEF j
    <3>1. d \div Words(j + 1) \in Int /\ d \div Words(j) = (d \div Words(j + 1)) * Word + WordAt(d, j)
      BY <2>1, OneMoreWord
    <3>2. e = d \div Words(j + 1)
      BY <2>1
    <3>3. e1 = d \div Words(j)
      BY DEF j
    <3> HIDE DEF e, e1
    <3> QED  BY <3>1, <3>2, <3>3
  <2>3. y \in 0 .. p - 1 /\ Same(y + c, e, p)
    BY <2>1
  <2>4. s = HornerStep(y, j, d, P)
    BY <1>1, <2>1
  <2>5. s \in 0 .. p - 1 /\ w \in 0 .. m - 1 /\ Same(s, y * m + w, p)
    <3> HIDE DEF j, y, s
    <3> QED  BY <2>1, <2>3, <2>4, HornerType
  <2>6. Words(k + 1) = Words(k) * m /\ Words(k) \in Int
    BY WordsAre
  <2>7. f * Words(k + 1) = c * m /\ c \in Int
    <3> DEFINE u == Words(k)
    <3>1. u \in Int /\ Words(k + 1) = u * m
      BY <2>6
    <3> HIDE DEF u, m
    <3>2. f * (u * m) = (f * u) * m /\ f * u \in Int
      BY <1>0, <1>a, <3>1
    <3> QED  BY <3>1, <3>2 DEF u
  <2>8. Same(s + c * m, e1, p)
    <3> HIDE DEF p, m, j, w, e, e1, y, s, c, E
    <3>1. p \in Int /\ y \in Int /\ s \in Int /\ w \in Int /\ m \in Int
      BY <1>0, <2>3, <2>5
    <3> DEFINE a == y * m
               b == c * m
               g == e * m
               h == y + c
               o == a + w
               v == a + b
    <3>2. a \in Int /\ b \in Int /\ g \in Int /\ h \in Int /\ o \in Int /\ v \in Int
          /\ h * m = v
      BY <2>2, <2>7, <3>1
    <3>3. Same(v, g, p)
      <4>1. Same(h, e, p) /\ Same(m, m, p)
        BY <2>3, <3>1, SameIs
      <4> HIDE DEF h, v
      <4>2. Same(h * m, e * m, p)
        BY <2>2, <3>1, <3>2, <4>1, SameOperations
      <4> QED  BY <3>2, <4>2
    <3>4. Same(s, o, p) /\ Same(b, b, p) /\ Same(w, w, p)
      <4> HIDE DEF b
      <4> QED  BY <2>5, <3>1, <3>2, SameIs
    <3> HIDE DEF a, b, g
    <3>5. Same(s + b, o + b, p)
      <4> HIDE DEF o
      <4> QED  BY <3>1, <3>2, <3>4, SameOperations
    <3>6. Same(v + w, g + w, p)
      <4> HIDE DEF v
      <4> QED  BY <3>1, <3>2, <3>3, <3>4, SameOperations
    <3>7. v + w = o + b /\ v + w \in Int /\ s + b \in Int /\ g + w \in Int
      BY <3>1, <3>2
    <3> DEFINE A == s + b
               B == v + w
               C == g + w
    <3>8. Same(A, B, p) /\ Same(B, C, p) /\ A \in Int /\ B \in Int /\ C \in Int
      BY <3>5, <3>6, <3>7
    <3> HIDE DEF A, B, C
    <3>9. Same(A, C, p)
      BY <3>1, <3>8, SameIs
    <3> QED  BY <2>2, <3>9 DEF A, C, b, g
  <2>9. e1 \in Int
    <3> HIDE DEF e, e1, m, w
    <3>1. e * m \in Int /\ w \in Int
      BY <1>0, <2>2, <2>5
    <3> QED  BY <2>2, <3>1
  <2> QED  BY <2>5, <2>7, <2>8, <2>9
<1>4. Right(n)
  <2> HIDE DEF T
  <2>1. \A k \in Nat : k \in T
    BY <1>2, <1>3, Induction
  <2>2. n \in T
    BY <2>1
  <2> HIDE DEF Right
  <2> QED  BY <2>2 DEF T
<1> DEFINE z == x[n]
           M == Words(n)
           r == d % M
<1>5. E(n) = d
  <2>1. n - n = 0 /\ Words(0) = 1 /\ d \div 1 = d
    BY WordsAre
  <2> QED  BY <2>1
<1>6. f = d \div M
  <2>1. n - 0 = n
    OBVIOUS
  <2> QED  BY <2>1 DEF f
<1>7. M \in Nat \ {0}
  BY WordsAre
<1>8. z \in 0 .. p - 1 /\ Same(z + f * M, d, p)
  BY <1>4, <1>5
<1>9. zint_mod_small_unsigned(d, n, P) = z
  BY <1>1
<1> HIDE DEF p, z, M
<1>10. d = f * M + r /\ r \in Nat
  BY <1>6, <1>7
<1> DEFINE c == f * M
<1>11. c \in Int /\ z \in Int /\ p \in Int
  BY <1>0, <1>a, <1>7, <1>8
<1> HIDE DEF r
<1>12. Same(z, r, p)
  <2>1. Same(z + c, c + r, p) /\ Same(c, c, p)
    <3>1. Same(c, c, p)
      <4> HIDE DEF c
      <4> QED  BY <1>11, SameIs
    <3> QED  BY <1>8, <1>10, <3>1
  <2> DEFINE u == z + c
             v == c + r
  <2>2. u \in Int /\ v \in Int /\ u - c = z /\ v - c = r
    BY <1>10, <1>11
  <2>3. Same(u, v, p)
    BY <2>1
  <2> HIDE DEF u, v, c
  <2>4. Same(u - c, v - c, p)
    BY <1>11, <2>1, <2>2, <2>3, SameOperations
  <2> QED  BY <2>2, <2>4
<1>13. r % p = z
  BY <1>0, <1>8, <1>10, <1>12, SameRemainder
<1> QED  BY <1>9, <1>13 DEF r, p, M

(* A number of n words is negative when its top word has its top bit.      *)
LEMMA SignOfTopWord ==
  ASSUME NEW d \in Int, NEW n \in Nat \ {0}
  PROVE  Wrap(d, n) = IF WordAt(d, n - 1) >= Word \div 2
                      THEN (d % Words(n)) - Words(n) ELSE d % Words(n)
<1> DEFINE j == n - 1
           M == Words(n)
           T == Words(j)
           m == Word
           w == WordAt(d, j)
           r == d % T
           u == d % M
<1>1. j \in Nat /\ j + 1 = n
  OBVIOUS
<1>2. T \in Nat \ {0} /\ M = T * m /\ M \in Nat \ {0}
  <2>1. Words(j) \in Nat \ {0} /\ Words(j + 1) = Words(j) * Word /\ Words(j + 1) \in Nat \ {0}
    BY <1>1, WordsAre
  <2> QED  BY <1>1, <2>1
<1>3. u = w * T + r
  <2>1. d % Words(j + 1) = WordAt(d, j) * Words(j) + (d % Words(j))
    BY <1>1, OneMoreWord
  <2> QED  BY <1>1, <2>1
<1>4. PICK h \in Nat : m = 2 * h
  <2>1. m \in Nat /\ m % 2 = 0
    BY WordType
  <2> HIDE DEF m
  <2>2. m \div 2 \in Nat /\ m = 2 * (m \div 2)
    BY <2>1
  <2> QED  BY <2>2
<1>5. m \div 2 = h
  <2> HIDE DEF m
  <2> QED  BY <1>4
<1>6. w \in Int
  <2> DEFINE z == d \div T
  <2>1. z \in Int
    <3> HIDE DEF T
    <3> QED  BY <1>2
  <2>2. m \in Nat \ {0}
    BY WordType
  <2>3. w = z % m
    BY DEF WordAt, Words
  <2> HIDE DEF z, m, w
  <2> QED  BY <2>1, <2>2, <2>3
<1> HIDE DEF T, M, m, w
<1>7. r \in 0 .. T - 1
  BY <1>2
<1> HIDE DEF r
<1>8. M \div 2 = h * T
  <2>1. T * (2 * h) = 2 * (h * T) /\ h * T \in Nat
    BY <1>2, <1>4
  <2> DEFINE x == h * T
  <2>2. M = 2 * x /\ x \in Nat
    BY <1>2, <1>4, <2>1
  <2> HIDE DEF x
  <2>3. M \div 2 = x
    BY <2>2
  <2> QED  BY <2>3 DEF x
<1>9. u >= h * T <=> w >= h
  <2> DEFINE x == w * T
             y == h * T
  <2>1. x \in Int /\ y \in Int /\ u = x + r
    BY <1>2, <1>3, <1>6
  <2> HIDE DEF u
  <2>2. ASSUME w >= h
        PROVE  x >= y
    <3>1. w - h \in Nat /\ w * T = h * T + (w - h) * T /\ (w - h) * T >= 0
      BY <1>2, <1>6, <2>2
    <3> DEFINE z == (w - h) * T
    <3>2. z \in Int /\ z >= 0 /\ x = y + z
      BY <1>2, <1>6, <3>1
    <3> HIDE DEF x, y, z
    <3> QED  BY <2>1, <3>2
  <2>3. ASSUME w < h
        PROVE  x + T <= y
    BY <1>2, <1>6, <2>3, MultipleAbove
  <2> HIDE DEF x, y
  <2>4. u >= y <=> w >= h
    <3>1. CASE w >= h
      BY <1>7, <2>1, <2>2, <3>1
    <3>2. CASE w < h
      <4>1. x + r < y
        BY <1>2, <1>7, <2>1, <2>3, <3>2
      <4> QED  BY <1>6, <2>1, <3>2, <4>1
    <3> QED  BY <1>6, <3>1, <3>2
  <2> QED  BY <2>4 DEF y
<1>10. Wrap(d, n) = IF u >= M \div 2 THEN u - M ELSE u
  BY DEF Wrap, Signed, Words, M
<1> HIDE DEF u
<1>11. Wrap(d, n) = IF w >= m \div 2 THEN u - M ELSE u
  BY <1>5, <1>8, <1>9, <1>10
<1> QED  BY <1>11 DEF u, M, m, w

(* zint_mod_small_signed is the residue of a number in two's complement.   *)
THEOREM ResidueOfSigned ==
  ASSUME NEW P, PrimeContext(P), NEW d \in Int, NEW n \in 1 .. Word
  PROVE  zint_mod_small_signed(d, n, P) = Wrap(d, n) % P.p
<1> DEFINE p == P.p
           M == Words(n)
           u == d % M
           x == u % p
           y == modp_Rx(n, P)
<1>0. p \in Nat \ {0} /\ p < Word /\ n \in Nat \ {0} /\ W \in Nat
  BY WordType DEF PrimeContext, Ready, Modulus
<1>1. M \in Nat \ {0}
  BY <1>0, WordsAre
<1>2. zint_mod_small_unsigned(d, n, P) = x
  BY <1>0, ResidueOfUnsigned
<1>3. Wrap(d, n) = IF WordAt(d, n - 1) >= Word \div 2 THEN u - M ELSE u
  BY <1>0, SignOfTopWord
<1>4. y \in 0 .. p - 1 /\ Same(y, M, p)
  BY PowerOfR DEF Words
<1> HIDE DEF p, M, y
<1>5. u \in Int
  BY <1>1
<1> HIDE DEF u
<1>6. x \in 0 .. p - 1 /\ Same(x, u, p)
  BY <1>0, <1>5, SameRemainder
<1> HIDE DEF x
<1>7. CASE WordAt(d, n - 1) >= Word \div 2
  <2> DEFINE s == modp_sub(x, y, p)
             z == x - y
             v == u - M
  <2>1. s \in 0 .. p - 1 /\ Same(s, z, p)
    BY <1>0, <1>4, <1>6, SmallArithmetic
  <2>2. Same(z, v, p)
    <3>1. x \in Int /\ y \in Int /\ p \in Int /\ M \in Int
      BY <1>0, <1>1, <1>4, <1>6
    <3> QED  BY <1>4, <1>5, <1>6, <3>1, SameOperations
  <2>3. s \in Int /\ z \in Int /\ v \in Int /\ p \in Int
    BY <1>0, <1>1, <1>4, <1>5, <1>6, <2>1
  <2>4. zint_mod_small_signed(d, n, P) = s
    BY <1>2, <1>7 DEF zint_mod_small_signed, p, y
  <2>5. Wrap(d, n) = v
    BY <1>3, <1>7
  <2> HIDE DEF s, z, v
  <2>6. Same(s, v, p)
    BY <2>1, <2>2, <2>3, SameIs
  <2>7. v % p = s
    BY <1>0, <2>1, <2>3, <2>6, SameRemainder
  <2> QED  BY <2>4, <2>5, <2>7 DEF p
<1>8. CASE ~(WordAt(d, n - 1) >= Word \div 2)
  <2>1. zint_mod_small_signed(d, n, P) = x
    BY <1>2, <1>8 DEF zint_mod_small_signed
  <2> QED  BY <1>3, <1>8, <2>1 DEF x, p
<1> QED  BY <1>7, <1>8

----------------------------------------------------------------------------
(* Integers from their residues.                                           *)

(* Prime u can be appended to those before it, of which Q is the product:  *)
(* s is the inverse of Q, in Montgomery form.                              *)
Appendable(P, Q) == /\ PrimeContext(P) /\ P.s \in 0 .. P.p - 1
                    /\ Same(P.s * Q, Word, P.p)

(* What Garner's step adds to Q times c makes the residue right.           *)
LEMMA GarnerDigit ==
  ASSUME NEW P, NEW Q \in Nat, Appendable(P, Q), NEW b \in 0 .. P.p - 1
  PROVE  /\ modp_montymul(P.s, b, P) \in 0 .. P.p - 1
         /\ Same(Q * modp_montymul(P.s, b, P), b, P.p)
         /\ \A j \in Int : Same(Q * j, 0, P.p) => Same(j, 0, P.p)
<1> DEFINE p == P.p
           m == Word
           s == P.s
           c == modp_montymul(s, b, P)
<1>0. p \in Nat \ {0} /\ m \in Nat \ {0} /\ s \in 0 .. p - 1 /\ b \in 0 .. p - 1 /\ Ready(P)
  BY WordType DEF Appendable, PrimeContext, Ready, Modulus
<1>1. c \in 0 .. p - 1 /\ Same(m * c, s * b, p)
  BY <1>0, MontyProduct
<1>2. Same(s * Q, m, p)
  BY DEF Appendable
<1> HIDE DEF c, s, m, p
<1>3. ASSUME NEW z \in Int, NEW y \in Int, Same(m * z, m * y, p)
      PROVE  Same(z, y, p)
  BY <1>0, <1>3, CancelWord DEF m, p
<1>4. p \in Int /\ s \in Int /\ b \in Int /\ c \in Int /\ m \in Int /\ Q \in Int
  BY <1>0, <1>1
<1>5. Same(Q * c, b, p)
  <2> DEFINE y == s * b
             z == m * c
             u == s * Q
             A == Q * z
             B == Q * y
             C == m * b
  <2>1. y \in Int /\ z \in Int /\ u \in Int /\ A \in Int /\ B \in Int /\ C \in Int
    BY <1>4
  <2>2. A = m * (Q * c) /\ B = u * b /\ Q * c \in Int
    BY <1>4
  <2>3. Same(A, B, p)
    <3>1. Same(Q, Q, p) /\ Same(z, y, p)
      BY <1>1, <1>4, SameIs
    <3> HIDE DEF y, z
    <3> QED  BY <1>4, <2>1, <3>1, SameOperations
  <2>4. Same(u * b, C, p)
    <3>1. Same(u, m, p) /\ Same(b, b, p)
      <4>1. Same(b, b, p)
        BY <1>4, SameIs
      <4> QED  BY <1>2, <4>1
    <3> HIDE DEF u
    <3> QED  BY <1>4, <2>1, <3>1, SameOperations
  <2> HIDE DEF A, B, C
  <2>5. Same(A, C, p)
    BY <1>4, <2>1, <2>2, <2>3, <2>4, SameIs
  <2> DEFINE x == Q * c
  <2>6. x \in Int /\ Same(m * x, m * b, p)
    BY <2>2, <2>5 DEF C
  <2> HIDE DEF x
  <2>7. Same(x, b, p)
    BY <1>3, <1>4, <2>6
  <2> QED  BY <2>7 DEF x
<1>6. ASSUME NEW j \in Int, Same(Q * j, 0, p)
      PROVE  Same(j, 0, p)
  <2> DEFINE y == Q * j
             u == s * Q
             A == s * y
             B == u * j
             C == m * j
  <2>1. y \in Int /\ u \in Int /\ A \in Int /\ B \in Int /\ C \in Int /\ A = B
    BY <1>4
  <2>2. Same(A, s * 0, p)
    <3>1. Same(s, s, p) /\ Same(y, 0, p) /\ 0 \in Int
      BY <1>4, <1>6, SameIs
    <3> HIDE DEF y
    <3> QED  BY <1>4, <2>1, <3>1, SameOperations
  <2>3. Same(B, C, p)
    <3>1. Same(u, m, p) /\ Same(j, j, p)
      <4>1. Same(j, j, p)
        BY <1>4, SameIs
      <4> QED  BY <1>2, <4>1
    <3> HIDE DEF u
    <3> QED  BY <1>4, <2>1, <3>1, SameOperations
  <2>4. s * 0 = 0 /\ m * 0 = 0 /\ 0 \in Int
    BY <1>4
  <2> HIDE DEF A, B, C
  <2>5. Same(C, B, p) /\ Same(B, 0, p)
    BY <1>4, <2>1, <2>2, <2>3, <2>4, SameIs
  <2>6. Same(C, 0, p)
    BY <1>4, <2>1, <2>4, <2>5, SameIs
  <2>7. Same(m * j, m * 0, p)
    BY <2>4, <2>6 DEF C
  <2> QED  BY <1>3, <2>4, <2>7
<1> QED  BY <1>1, <1>5, <1>6 DEF c, s, p

(* t holds v modulo Q, the product of the first u primes.                  *)
Holds(t, v, Q, u) == /\ t.prod = Q /\ Q \in Nat \ {0} /\ Q <= Words(u) /\ Q % 2 = 1
                     /\ t.x \in 0 .. Q - 1 /\ Same(v, t.x, Q)

(* One step of the reconstruction.                                         *)
LEMMA CRTStepIs ==
  ASSUME NEW P, NEW Q, NEW t, NEW v \in Int, NEW u \in Nat, NEW residue,
         Holds(t, v, Q, u), Appendable(P, Q), residue = v % P.p
  PROVE  Holds(CRTStep(t, u, residue, P), v, Q * P.p, u + 1)
<1> DEFINE p == P.p
           x == t.x
           a == zint_mod_small_unsigned(x, u, P)
           b == modp_sub(residue, a, p)
           c == modp_montymul(P.s, b, P)
           y == x + Q * c
           M == Words(u)
           N == Q * p
<1>0. /\ p \in Nat \ {0} /\ p < Word /\ p % 2 = 1 /\ PrimeContext(P)
      /\ Q \in Nat \ {0} /\ Q <= M /\ Q % 2 = 1 /\ x \in 0 .. Q - 1 /\ Same(v, x, Q)
      /\ t.prod = Q /\ M \in Nat \ {0} /\ Word \in Nat
  BY WordsAre, WordType DEF Appendable, PrimeContext, Ready, Modulus, Holds
<1>1. CRTStep(t, u, residue, P) = [x |-> y, prod |-> N]
  BY <1>0 DEF CRTStep, AppendWord
<1>2. a = x % p
  <2>1. a = (x % M) % p
    BY <1>0, ResidueOfUnsigned
  <2> HIDE DEF x, p, M
  <2>2. x % M = x
    <3>1. 0 \in Int /\ x \in 0 .. M - 1 /\ 0 * M + x = x
      BY <1>0
    <3>2. (0 * M + x) % M = x
      BY <1>0, <3>1, QuotientUnique
    <3> QED  BY <3>1, <3>2
  <2> QED  BY <2>1, <2>2
<1> HIDE DEF a, x
<1>3. b \in 0 .. p - 1 /\ Same(b, v - x, p)
  <2> HIDE DEF p
  <2>1. p \in Int /\ x \in Int
    BY <1>0
  <2>2. a \in 0 .. p - 1 /\ Same(a, x, p) /\ residue \in 0 .. p - 1 /\ Same(residue, v, p)
    BY <1>0, <1>2, <2>1, SameRemainder DEF p
  <2> DEFINE A == residue - a
             B == v - x
  <2>3. b \in 0 .. p - 1 /\ Same(b, A, p)
    BY <1>0, <2>2, SmallArithmetic
  <2>4. Same(A, B, p)
    <3>1. residue \in Int /\ a \in Int
      BY <2>2
    <3> QED  BY <2>1, <2>2, <3>1, SameOperations
  <2>5. A \in Int /\ B \in Int /\ b \in Int
    BY <2>1, <2>2, <2>3
  <2> HIDE DEF A, B, b
  <2>6. Same(b, B, p)
    BY <2>1, <2>3, <2>4, <2>5, SameIs
  <2> QED  BY <2>3, <2>6 DEF B
<1> HIDE DEF b
<1>4. /\ c \in 0 .. p - 1 /\ Same(Q * c, b, p)
      /\ \A j \in Int : Same(Q * j, 0, p) => Same(j, 0, p)
  BY <1>0, <1>3, GarnerDigit
<1> HIDE DEF c, p, M
<1>5. p \in Int /\ c \in Int /\ b \in Int /\ x \in Int /\ Q \in Int
  BY <1>0, <1>3, <1>4
<1>6. PICK k \in Int : v = x + Q * k
  BY <1>0 DEF Same
<1>7. Same(k - c, 0, p)
  <2> DEFINE A == Q * k
             B == Q * c
  <2>1. A \in Int /\ B \in Int /\ v - x = A
    BY <1>5, <1>6
  <2> HIDE DEF A, B
  <2>2. Same(B, b, p) /\ Same(b, A, p)
    BY <1>3, <1>4, <2>1 DEF B
  <2>3. Same(B, A, p)
    BY <1>5, <2>1, <2>2, SameIs
  <2>4. Same(A, B, p) /\ Same(B, B, p)
    BY <1>5, <2>1, <2>3, SameIs
  <2>5. Same(A - B, B - B, p)
    BY <1>5, <2>1, <2>4, SameOperations
  <2>6. A - B = Q * (k - c) /\ B - B = 0 /\ k - c \in Int
    <3>1. Q * k - Q * c = Q * (k - c)
      BY <1>5
    <3> QED  BY <1>5, <2>1, <3>1 DEF A, B
  <2> QED  BY <1>4, <2>5, <2>6
<1>8. PICK i \in Int : k = c + p * i
  <2>1. PICK i \in Int : k - c = 0 + p * i
    BY <1>7 DEF Same
  <2> DEFINE z == p * i
  <2>2. z \in Int /\ k - c = 0 + z
    BY <1>5, <2>1
  <2> HIDE DEF z
  <2>3. k = c + z
    BY <1>5, <2>2
  <2> QED  BY <2>3 DEF z
<1>9. Same(v, y, N)
  <2>1. Q * (c + p * i) = Q * c + N * i /\ N * i \in Int /\ Q * c \in Int
    BY <1>5
  <2>2. v = y + N * i
    <3> DEFINE A == Q * c
               B == N * i
    <3>1. v = x + (A + B) /\ A \in Int /\ B \in Int
      BY <1>6, <1>8, <2>1
    <3>2. y = x + A
      OBVIOUS
    <3> HIDE DEF A, B, y
    <3>3. v = y + B
      BY <1>5, <3>1, <3>2
    <3> QED  BY <3>3 DEF B
  <2> QED  BY <2>2 DEF Same
<1>10. y \in 0 .. N - 1 /\ N \in Nat \ {0}
  <2>1. c * Q + Q <= p * Q
    BY <1>0, <1>4, <1>5, MultipleAbove
  <2>2. c * Q = Q * c /\ p * Q = N /\ N \in Int /\ Q * c \in Nat
    BY <1>0, <1>4, <1>5
  <2> DEFINE A == Q * c
  <2>3. A \in Nat /\ A + Q <= N /\ y = x + A
    BY <2>1, <2>2
  <2> HIDE DEF A, N, y
  <2> QED  BY <1>0, <2>2, <2>3
<1>11. N % 2 = 1
  <2>1. PICK h \in Nat, g \in Nat : Q = 2 * h + 1 /\ p = 2 * g + 1
    <3>1. Q \div 2 \in Nat /\ Q = 2 * (Q \div 2) + 1
      BY <1>0
    <3>2. p \div 2 \in Nat /\ p = 2 * (p \div 2) + 1
      BY <1>0
    <3> QED  BY <3>1, <3>2
  <2>2. (2 * h + 1) * (2 * g + 1) = (2 * (h * g) + h + g) * 2 + 1 /\ h * g \in Nat
    OBVIOUS
  <2> DEFINE e == 2 * (h * g) + h + g
  <2>3. e \in Nat /\ N = e * 2 + 1
    BY <2>1, <2>2
  <2> HIDE DEF e, N
  <2> QED  BY <2>3
<1>12. N <= Words(u + 1)
  <2>1. Words(u + 1) = M * Word
    BY WordsAre DEF M
  <2>2. Q * p <= M * p
    <3>1. M - Q \in Nat /\ M * p = Q * p + (M - Q) * p /\ (M - Q) * p \in Nat
      BY <1>0
    <3> DEFINE A == (M - Q) * p
               B == M * p
    <3>2. A \in Nat /\ N \in Nat /\ B = N + A
      BY <1>10, <3>1
    <3> HIDE DEF A, B, N
    <3>3. N <= B
      BY <3>2
    <3> QED  BY <3>3 DEF B, N
  <2>3. p * M + M <= Word * M
    BY <1>0, MultipleAbove
  <2>4. p * M = M * p /\ Word * M = M * Word /\ M * p \in Nat /\ M * Word \in Nat
    BY <1>0
  <2> DEFINE A == M * p
             B == M * Word
  <2>5. A \in Nat /\ B \in Nat /\ N <= A /\ A + M <= B /\ N \in Nat
    BY <1>10, <2>2, <2>3, <2>4
  <2> HIDE DEF A, B, N
  <2>6. N <= B
    BY <1>0, <2>5
  <2> QED  BY <2>1, <2>6 DEF B
<1> HIDE DEF y, N
<1> QED  BY <1>1, <1>9, <1>10, <1>11, <1>12 DEF Holds, N, p

(* Q[u] is the product of the first u primes, and each of the first n can  *)
(* be appended to those before it.                                         *)
FirstPrimes(Q, n) ==
  Q[0] = 1 /\ \A u \in 0 .. n - 1 : Q[u + 1] = Q[u] * Prime[u].p /\ Appendable(Prime[u], Q[u])

(* The integer after every prime.                                          *)
LEMMA RebuildLoop ==
  ASSUME NEW n \in Nat \ {0}, NEW residues, NEW flag,
         \A u \in 0 .. n - 1 : PrimeContext(Prime[u]) /\ Prime[u].s \in 0 .. Prime[u].p - 1
                               /\ residues[u] \in 0 .. Prime[u].p - 1
  PROVE  \E r : /\ r[1] = [x |-> residues[0], prod |-> Prime[0].p]
                /\ \A u \in 1 .. n - 1 : r[u + 1] = CRTStep(r[u], u, residues[u], Prime[u])
                /\ zint_rebuild_CRT(residues, n, flag)
                     = IF flag THEN zint_norm_zero(r[n].x, r[n].prod) ELSE r[n].x
<1> DEFINE S == [x : Int, prod : Int]
           f0 == [x |-> residues[0], prod |-> Prime[0].p]
           At(t, u) == CRTStep(t, u, residues[u], Prime[u])
           Step(t, i) == IF i + 1 < n THEN At(t, i + 1) ELSE t
           G == [i \in Nat |-> [t \in S |-> Step(t, i)]]
           Loop(r) == r = [u \in 1 .. n |-> IF u = 1 THEN f0
                             ELSE LET t == r[u - 1]
                                  IN  CRTStep(t, u - 1, residues[u - 1], Prime[u - 1])]
           r == CHOOSE h : Loop(h)
<1>0. ASSUME NEW u \in 0 .. n - 1
      PROVE  /\ Prime[u].p \in Nat /\ Prime[u].p < Word /\ PrimeContext(Prime[u])
             /\ Prime[u].s \in 0 .. Prime[u].p - 1 /\ residues[u] \in 0 .. Prime[u].p - 1
  BY DEF PrimeContext, Ready, Modulus
<1>1. f0 \in S
  <2>1. 0 \in 0 .. n - 1
    OBVIOUS
  <2>2. Prime[0].p \in Int /\ residues[0] \in Int
    BY <1>0, <2>1
  <2> QED  BY <2>2
<1>2. IsStep(G, S)
  <2>1. ASSUME NEW t \in S, NEW u \in 1 .. n - 1
        PROVE  At(t, u) \in S
    <3> DEFINE P == Prime[u]
               p == P.p
               a == zint_mod_small_unsigned(t.x, u, P)
               b == modp_sub(residues[u], a, p)
               c == modp_montymul(P.s, b, P)
    <3>1. u \in 0 .. n - 1 /\ u \in Nat /\ t.x \in Int /\ t.prod \in Int
      OBVIOUS
    <3>2. /\ p \in Nat \ {0} /\ p < Word /\ PrimeContext(P) /\ Ready(P)
          /\ P.s \in 0 .. p - 1 /\ residues[u] \in 0 .. p - 1
      BY <1>0, <3>1 DEF PrimeContext
    <3>3. a \in 0 .. p - 1
      <4> DEFINE M == Words(u)
                 z == t.x % M
      <4>1. a = z % p
        <5> HIDE DEF P
        <5> QED  BY <3>1, <3>2, ResidueOfUnsigned
      <4>2. M \in Nat \ {0}
        BY <3>1, WordsAre
      <4> HIDE DEF M, a, p
      <4>3. z \in Int
        BY <3>1, <4>2
      <4> HIDE DEF z
      <4> QED  BY <3>2, <4>1, <4>3
    <3> HIDE DEF a
    <3>4. b \in 0 .. p - 1
      <4> HIDE DEF p
      <4> QED  BY <3>2, <3>3, SmallArithmetic
    <3> HIDE DEF b
    <3>5. c \in 0 .. p - 1
      <4> HIDE DEF P
      <4> QED  BY <3>2, <3>4, MontyProduct
    <3>6. At(t, u) = [x |-> t.x + t.prod * c, prod |-> t.prod * p]
      BY DEF CRTStep, AppendWord, a, b
    <3>7. c \in Int /\ p \in Int
      BY <3>2, <3>5
    <3> HIDE DEF c, p, At
    <3>8. t.x + t.prod * c \in Int /\ t.prod * p \in Int
      BY <3>1, <3>7
    <3> QED  BY <3>6, <3>8
  <2>2. ASSUME NEW t \in S, NEW i \in Nat
        PROVE  Step(t, i) \in S
    <3>1. CASE i + 1 < n
      <4>1. i + 1 \in 1 .. n - 1
        BY <3>1
      <4> HIDE DEF S, At
      <4> QED  BY <2>1, <3>1, <4>1
    <3>2. CASE ~(i + 1 < n)
      BY <3>2
    <3> QED  BY <3>1, <3>2
  <2> HIDE DEF S, Step
  <2> QED  BY <2>2 DEF IsStep
<1>3. PICK g : Obeys(g, n - 1, S, f0, G)
  <2>1. n - 1 \in Nat
    OBVIOUS
  <2> HIDE DEF S, G, f0
  <2> QED  BY <1>1, <1>2, <2>1, FiniteRecursion
<1> HIDE DEF f0
<1>4. ASSUME NEW u \in 1 .. n - 1
      PROVE  g[u] = At(g[u - 1], u)
  <2> DEFINE i == u - 1
  <2>1. i \in Nat /\ i \in 0 .. n - 1 /\ i \in 0 .. (n - 1) - 1 /\ i + 1 = u /\ i + 1 < n
    OBVIOUS
  <2>2. g[i + 1] = G[i][g[i]] /\ g[i] \in S
    <3> HIDE DEF G, S, i
    <3> QED  BY <1>3, <2>1 DEF Obeys
  <2>3. g[i + 1] = Step(g[i], i)
    <3> HIDE DEF S, Step, i
    <3> QED  BY <2>1, <2>2
  <2> HIDE DEF At, i
  <2>4. g[i + 1] = At(g[i], i + 1)
    BY <2>1, <2>3
  <2> QED  BY <2>1, <2>4 DEF i
<1> HIDE DEF S, G
<1> DEFINE h == [u \in 1 .. n |-> g[u - 1]]
<1>5. Loop(h)
  <2>1. ASSUME NEW u \in 1 .. n
        PROVE  h[u] = IF u = 1 THEN f0 ELSE At(h[u - 1], u - 1)
    <3>1. CASE u = 1
      <4>1. h[u] = g[0]
        BY <3>1
      <4> QED  BY <1>3, <3>1, <4>1 DEF Obeys
    <3>2. CASE u # 1
      <4>1. u - 1 \in 1 .. n - 1 /\ u - 1 \in 1 .. n
        BY <3>2
      <4>2. h[u] = g[u - 1] /\ h[u - 1] = g[(u - 1) - 1]
        BY <4>1
      <4> HIDE DEF At, h
      <4>3. g[u - 1] = At(g[(u - 1) - 1], u - 1)
        BY <1>4, <4>1
      <4> QED  BY <3>2, <4>2, <4>3
    <3> QED  BY <3>1, <3>2
  <2>2. h = [u \in 1 .. n |-> h[u]]
    OBVIOUS
  <2> HIDE DEF h
  <2> QED  BY <2>1, <2>2
<1>6. Loop(r)
  <2> HIDE DEF Loop, h
  <2> QED  BY <1>5
<1>7. zint_rebuild_CRT(residues, n, flag)
        = IF flag THEN zint_norm_zero(r[n].x, r[n].prod) ELSE r[n].x
  BY DEF zint_rebuild_CRT, f0
<1> HIDE DEF r
<1>8. r[1] = f0
  <2>1. 1 \in 1 .. n
    OBVIOUS
  <2> QED  BY <1>6, <2>1
<1>9. ASSUME NEW u \in 1 .. n - 1
      PROVE  r[u + 1] = At(r[u], u)
  <2>1. u + 1 \in 1 .. n /\ u + 1 # 1 /\ (u + 1) - 1 = u
    OBVIOUS
  <2> QED  BY <1>6, <2>1
<1> QED  BY <1>7, <1>8, <1>9 DEF f0

(* zint_rebuild_CRT inverts the reduction modulo the first n primes, of    *)
(* every integer below their product and, normalized, of every integer of  *)
(* at most half of it.                                                     *)
THEOREM RebuildIsExact ==
  ASSUME NEW Q, NEW n \in Nat \ {0}, FirstPrimes(Q, n), NEW v \in Int, NEW residues,
         \A u \in 0 .. n - 1 : residues[u] = v % Prime[u].p
  PROVE  /\ Q[n] \in Nat /\ Q[n] % 2 = 1
         /\ v \in 0 .. Q[n] - 1 => zint_rebuild_CRT(residues, n, FALSE) = v
         /\ 2 * v \in -(Q[n] - 1) .. Q[n] - 1 => zint_rebuild_CRT(residues, n, TRUE) = v
<1>1. ASSUME NEW u \in 0 .. n - 1
      PROVE  /\ Appendable(Prime[u], Q[u]) /\ Q[u + 1] = Q[u] * Prime[u].p
             /\ Prime[u].p \in Nat \ {0} /\ Prime[u].p % 2 = 1 /\ Prime[u].p < Word
             /\ residues[u] \in 0 .. Prime[u].p - 1
  <2> DEFINE p == Prime[u].p
  <2>1. Appendable(Prime[u], Q[u]) /\ Q[u + 1] = Q[u] * p
    BY DEF FirstPrimes
  <2>2. p \in Nat \ {0} /\ p % 2 = 1 /\ p < Word
    BY <2>1, WordType DEF Appendable, PrimeContext, Ready, Modulus
  <2>3. residues[u] = v % p
    OBVIOUS
  <2> HIDE DEF p
  <2>4. residues[u] \in 0 .. p - 1
    BY <2>2, <2>3
  <2> QED  BY <2>1, <2>2, <2>4 DEF p
<1>2. \A u \in 0 .. n - 1 : PrimeContext(Prime[u]) /\ Prime[u].s \in 0 .. Prime[u].p - 1
                            /\ residues[u] \in 0 .. Prime[u].p - 1
  BY <1>1 DEF Appendable
<1> DEFINE Result(r, flag) == zint_rebuild_CRT(residues, n, flag)
                                = IF flag THEN zint_norm_zero(r[n].x, r[n].prod) ELSE r[n].x
<1>3. ASSUME NEW flag \in BOOLEAN
      PROVE  \E r : Holds(r[n], v, Q[n], n) /\ Result(r, flag)
  <2>1. PICK r : /\ r[1] = [x |-> residues[0], prod |-> Prime[0].p]
                 /\ \A u \in 1 .. n - 1 : r[u + 1] = CRTStep(r[u], u, residues[u], Prime[u])
                 /\ Result(r, flag)
    BY <1>2, RebuildLoop
  <2> HIDE DEF Result
  <2> DEFINE T == {k \in Nat : k + 1 <= n => Holds(r[k + 1], v, Q[k + 1], k + 1)}
  <2>2. 0 \in T
    <3> DEFINE p == Prime[0].p
    <3>1. 0 \in 0 .. n - 1 /\ 0 + 1 = 1
      OBVIOUS
    <3>2. /\ p \in Nat \ {0} /\ p % 2 = 1 /\ p < Word /\ Q[1] = Q[0] * p
          /\ residues[0] \in 0 .. p - 1
      BY <1>1, <3>1
    <3>3. Q[1] = p
      <4>1. Q[0] = 1
        BY DEF FirstPrimes
      <4> HIDE DEF p
      <4> QED  BY <3>2, <4>1
    <3>4. r[1].x = residues[0] /\ r[1].prod = p /\ residues[0] = v % p
      BY <2>1, <3>1
    <3>5. Same(v, residues[0], p)
      <4> HIDE DEF p
      <4>1. Same(v % p, v, p)
        BY <3>2, SameRemainder
      <4>2. residues[0] \in Int /\ p \in Int
        BY <3>2
      <4> QED  BY <3>4, <4>1, <4>2, SameIs
    <3>6. p <= Words(1)
      <4>1. Words(1) = Word /\ Word \in Nat
        BY WordsAre, WordType
      <4> QED  BY <3>2, <4>1
    <3> HIDE DEF p
    <3>7. Holds(r[1], v, Q[1], 1)
      BY <3>2, <3>3, <3>4, <3>5, <3>6 DEF Holds
    <3> QED  BY <3>1, <3>7
  <2>3. ASSUME NEW k \in Nat, k \in T
        PROVE  k + 1 \in T
    <3> SUFFICES ASSUME (k + 1) + 1 <= n
                 PROVE  Holds(r[(k + 1) + 1], v, Q[(k + 1) + 1], (k + 1) + 1)
      OBVIOUS
    <3> DEFINE u == k + 1
    <3>1. u \in 0 .. n - 1 /\ u \in 1 .. n - 1 /\ u \in Nat
      OBVIOUS
    <3>2. Holds(r[u], v, Q[u], u)
      BY <2>3, <3>1
    <3>3. r[u + 1] = CRTStep(r[u], u, residues[u], Prime[u])
      BY <2>1, <3>1
    <3> HIDE DEF u
    <3>4. Appendable(Prime[u], Q[u]) /\ Q[u + 1] = Q[u] * Prime[u].p
      BY <1>1, <3>1
    <3>5. residues[u] = v % Prime[u].p
      BY <3>1
    <3>6. Holds(CRTStep(r[u], u, residues[u], Prime[u]), v, Q[u] * Prime[u].p, u + 1)
      BY <3>1, <3>2, <3>4, <3>5, CRTStepIs
    <3>7. Holds(r[u + 1], v, Q[u + 1], u + 1)
      BY <3>3, <3>4, <3>6
    <3> QED  BY <3>7 DEF u
  <2>4. Holds(r[n], v, Q[n], n)
    <3> HIDE DEF T
    <3>1. \A k \in Nat : k \in T
      BY <2>2, <2>3, Induction
    <3>2. n - 1 \in T /\ (n - 1) + 1 = n
      BY <3>1
    <3>3. Holds(r[(n - 1) + 1], v, Q[(n - 1) + 1], (n - 1) + 1)
      BY <3>2 DEF T
    <3> QED  BY <3>2, <3>3
  <2> QED  BY <2>1, <2>4
<1> DEFINE M == Q[n]
<1>4. ASSUME NEW r, Holds(r[n], v, M, n)
      PROVE  /\ M \in Nat \ {0} /\ M % 2 = 1 /\ r[n].prod = M
             /\ r[n].x \in 0 .. M - 1 /\ v % M = r[n].x
  <2> DEFINE x == r[n].x
  <2>1. M \in Nat \ {0} /\ M % 2 = 1 /\ r[n].prod = M /\ x \in 0 .. M - 1 /\ Same(v, x, M)
    BY <1>4 DEF Holds
  <2> HIDE DEF M, x
  <2>2. Same(x, v, M)
    <3>1. x \in Int /\ M \in Int
      BY <2>1
    <3> QED  BY <2>1, <3>1, SameIs
  <2>3. v % M = x
    BY <2>1, <2>2, SameRemainder
  <2> QED  BY <2>1, <2>3 DEF x
<1> HIDE DEF M
<1>5. M \in Nat \ {0} /\ M % 2 = 1
  <2>1. FALSE \in BOOLEAN
    OBVIOUS
  <2>2. PICK r : Holds(r[n], v, Q[n], n)
    BY <1>3, <2>1
  <2> QED  BY <1>4, <2>2 DEF M
<1>6. ASSUME NEW z \in 0 .. M - 1, NEW k \in Int, v = k * M + z
      PROVE  v % M = z
  BY <1>5, <1>6, QuotientUnique
<1>7. ASSUME v \in 0 .. M - 1
      PROVE  zint_rebuild_CRT(residues, n, FALSE) = v
  <2>1. FALSE \in BOOLEAN
    OBVIOUS
  <2>2. PICK r : Holds(r[n], v, Q[n], n) /\ Result(r, FALSE)
    BY <1>3, <2>1
  <2>3. v % M = r[n].x
    BY <1>4, <2>2 DEF M
  <2>4. v = 0 * M + v /\ 0 \in Int
    BY <1>5
  <2>5. v % M = v
    BY <1>6, <1>7, <2>4
  <2> QED  BY <2>2, <2>3, <2>5
<1>8. ASSUME 2 * v \in -(M - 1) .. M - 1
      PROVE  zint_rebuild_CRT(residues, n, TRUE) = v
  <2>1. TRUE \in BOOLEAN
    OBVIOUS
  <2>2. PICK r : Holds(r[n], v, Q[n], n) /\ Result(r, TRUE)
    BY <1>3, <2>1
  <2> DEFINE x == r[n].x
  <2>3. r[n].prod = M /\ v % M = x
    BY <1>4, <2>2 DEF M
  <2>4. zint_rebuild_CRT(residues, n, TRUE) = zint_norm_zero(x, M)
    BY <2>2, <2>3
  <2> HIDE DEF x
  <2>5. CASE v >= 0
    <3>1. v = 0 * M + v /\ 0 \in Int /\ v \in 0 .. M - 1
      BY <1>5, <1>8, <2>5
    <3>2. v % M = v
      BY <1>6, <3>1
    <3>3. ~(v > M \div 2)
      BY <1>5, <1>8
    <3> QED  BY <2>3, <2>4, <3>2, <3>3 DEF zint_norm_zero
  <2>6. CASE v < 0
    <3> DEFINE z == v + M
    <3>1. v = (-1) * M + z /\ -1 \in Int /\ z \in 0 .. M - 1
      BY <1>5, <1>8, <2>6
    <3>2. z > M \div 2 /\ z - M = v
      BY <1>5, <1>8, <2>6
    <3> HIDE DEF z
    <3>3. v % M = z
      BY <1>6, <3>1
    <3> QED  BY <2>3, <2>4, <3>2, <3>3 DEF zint_norm_zero
  <2>7. v >= 0 \/ v < 0
    OBVIOUS
  <2> QED  BY <2>5, <2>6, <2>7
<1> QED  BY <1>5, <1>7, <1>8 DEF M

(* What the code computes before it works modulo p is right: P1 is P       *)
(* before R2 was computed.                                                 *)
THEOREM SetUpIsRight ==
  ASSUME W <= 32, NEW P1, NEW P, Modulus(P.p), P1.p = P.p, P1.p0i = P.p0i,
         P.p0i = modp_ninv31(P.p), P.R2 = modp_R2(P1)
  PROVE  PrimeContext(P)
<1>1. P.p \in Nat /\ P.p % 2 = 1
  BY DEF Modulus
<1>2. P.p0i \in 0 .. Word - 1 /\ (P.p * P.p0i + 1) % Word = 0
  <2>1. modp_ninv31(P.p) \in 0 .. Word - 1 /\ (P.p * modp_ninv31(P.p) + 1) % Word = 0
    BY <1>1, NegInverse
  <2> QED  BY <2>1
<1>3. Ready(P) /\ Ready(P1)
  BY <1>2 DEF Ready
<1>4. P.R2 \in 0 .. P.p - 1 /\ Same(P.R2, Word * Word, P.p)
  <2>1. modp_R2(P1) \in 0 .. P1.p - 1 /\ Same(modp_R2(P1), Word * Word, P1.p)
    BY <1>3, SquareOfR
  <2> QED  BY <2>1
<1> QED  BY <1>3, <1>4 DEF PrimeContext, Form

----------------------------------------------------------------------------
(* Arithmetic modulo q.                                                    *)

(* Every odd number has an inverse modulo a power of two.                  *)
LEMMA OddInverse ==
  ASSUME NEW p \in Nat, p % 2 = 1
  PROVE  \A n \in Nat : \E x \in 0 .. 2 ^ n - 1 : (x * p + 1) % 2 ^ n = 0
<1> DEFINE Has(n) == \E x \in 0 .. 2 ^ n - 1 : \E g \in Int : x * p + 1 = g * 2 ^ n
           T == {n \in Nat : Has(n)}
<1>1. 0 \in T
  <2>1. 2 ^ 0 = 1
    BY PowerOfTwo
  <2>2. 0 \in 0 .. 2 ^ 0 - 1 /\ 0 * p + 1 = 1 * 2 ^ 0 /\ 1 \in Int
    BY <2>1
  <2> QED  BY <2>2
<1>2. ASSUME NEW n \in Nat, n \in T
      PROVE  n + 1 \in T
  <2> DEFINE m == 2 ^ n
  <2>1. m \in Nat /\ 2 ^ (n + 1) = 2 * m
    BY PowerOfTwo
  <2>2. PICK x \in 0 .. m - 1, g \in Int : x * p + 1 = g * m
    BY <1>2
  <2> HIDE DEF m
  <2>3. \E y \in 0 .. 2 * m - 1, h \in Int : y * p + 1 = h * (2 * m)
    <3>1. CASE g % 2 = 0
      <4>1. PICK h \in Int : g = 2 * h
        <5>1. g \div 2 \in Int /\ g = 2 * (g \div 2)
          BY <3>1
        <5> QED  BY <5>1
      <4>2. (2 * h) * m = h * (2 * m)
        BY <2>1
      <4>3. x \in 0 .. 2 * m - 1
        BY <2>1
      <4> QED  BY <2>2, <4>1, <4>2, <4>3
    <3>2. CASE g % 2 # 0
      <4>1. PICK h \in Int : g + p = 2 * h
        <5> DEFINE e == g + p
        <5>1. e \in Int /\ e % 2 = 0
          BY <3>2
        <5> HIDE DEF e
        <5>2. e \div 2 \in Int /\ e = 2 * (e \div 2)
          BY <5>1
        <5> QED  BY <5>2 DEF e
      <4>2. (x + m) * p + 1 = (g + p) * m
        <5>1. (x + m) * p = x * p + m * p /\ (g + p) * m = g * m + m * p
          BY <2>1
        <5> DEFINE A == x * p
                   B == m * p
                   C == g * m
        <5>2. A \in Int /\ B \in Int /\ C \in Int /\ A + 1 = C
          BY <2>1, <2>2
        <5>3. (x + m) * p = A + B /\ (g + p) * m = C + B
          BY <5>1
        <5> HIDE DEF A, B, C
        <5>4. A + B + 1 = C + B
          BY <5>2
        <5> QED  BY <5>3, <5>4
      <4>3. (2 * h) * m = h * (2 * m)
        BY <2>1
      <4>4. x + m \in 0 .. 2 * m - 1
        BY <2>1
      <4>5. (x + m) * p + 1 = h * (2 * m)
        BY <4>1, <4>2, <4>3
      <4> QED  BY <4>4, <4>5
    <3> QED  BY <3>1, <3>2
  <2>4. Has(n + 1)
    <3> DEFINE u == 2 ^ (n + 1)
    <3>1. u = 2 * m
      BY <2>1
    <3> HIDE DEF u
    <3>2. \E y \in 0 .. u - 1, h \in Int : y * p + 1 = h * u
      BY <2>3, <3>1
    <3> QED  BY <3>2 DEF u
  <2> HIDE DEF Has
  <2> QED  BY <2>4
<1>3. ASSUME NEW n \in Nat
      PROVE  \E x \in 0 .. 2 ^ n - 1 : (x * p + 1) % 2 ^ n = 0
  <2>1. n \in T
    <3> HIDE DEF T
    <3> QED  BY <1>1, <1>2, Induction
  <2> DEFINE m == 2 ^ n
  <2>2. m \in Nat \ {0}
    BY PowerPositive
  <2>3. PICK x \in 0 .. m - 1, g \in Int : x * p + 1 = g * m
    BY <2>1
  <2> HIDE DEF m
  <2>4. x * p + 1 = g * m + 0 /\ 0 \in 0 .. m - 1
    BY <2>2, <2>3
  <2> DEFINE z == x * p + 1
  <2>5. z = g * m + 0
    BY <2>4
  <2> HIDE DEF z
  <2>6. z % m = 0
    BY <2>2, <2>4, <2>5, QuotientUnique
  <2> QED  BY <2>6 DEF z, m
<1> QED  BY <1>3

(* q is odd.                                                               *)
LEMMA ModulusQ == q \in Nat \ {0} /\ q % 2 = 1 /\ q < 2 ^ RBits /\ RBits \in Nat
<1>1. q \in Nat /\ q % (2 * MaxN) = 1 /\ RBits \in Nat /\ q < 2 ^ RBits
  BY ModulusAssumption
<1>2. MaxN \in Nat \ {0}
  BY WordAssumption, PowerPositive DEF MaxN
<1> DEFINE m == 2 * MaxN
           k == q \div m
<1>3. q = k * m + 1 /\ k \in Nat
  <2>1. m \in Nat \ {0}
    BY <1>2
  <2> HIDE DEF m
  <2>2. q = (q \div m) * m + (q % m) /\ q \div m \in Nat
    BY <1>1, <2>1, QuotientRemainder
  <2> QED  BY <1>1, <2>2 DEF m
<1> HIDE DEF k
<1>4. k * m = 2 * (k * MaxN) /\ k * MaxN \in Nat
  BY <1>2, <1>3
<1> DEFINE y == k * MaxN
<1>5. y \in Nat /\ q = 2 * y + 1
  BY <1>3, <1>4
<1> HIDE DEF y
<1> QED  BY <1>1, <1>5

(* The elements, their sums, differences and halves.                       *)
THEOREM ElementArithmetic ==
  \A x, y \in 0 .. q - 1 :
    /\ mq_add(x, y) = (x + y) % q
    /\ mq_sub(x, y) = (x - y) % q
    /\ mq_rshift1(x) \in 0 .. q - 1 /\ (2 * mq_rshift1(x)) % q = x
<1>1. q \in Nat \ {0} /\ q % 2 = 1
  BY ModulusQ
<1>2. ASSUME NEW r \in 0 .. q - 1, NEW k \in Int, NEW z \in Int, z = k * q + r
      PROVE  z % q = r
  BY <1>1, <1>2, QuotientUnique
<1>3. ASSUME NEW x \in 0 .. q - 1, NEW y \in 0 .. q - 1
      PROVE  mq_add(x, y) = (x + y) % q
  <2>1. CASE x + y < q
    <3>1. x + y = 0 * q + (x + y) /\ x + y \in 0 .. q - 1 /\ 0 \in Int
      BY <1>1, <2>1
    <3>2. (x + y) % q = x + y
      BY <1>2, <3>1
    <3> QED  BY <1>1, <2>1, <3>2 DEF mq_add, mq_conv_small
  <2>2. CASE ~(x + y < q)
    <3>1. x + y = 1 * q + (x + y - q) /\ x + y - q \in 0 .. q - 1 /\ 1 \in Int /\ x + y \in Int
      BY <1>1, <2>2
    <3>2. (x + y) % q = x + y - q
      BY <1>2, <3>1
    <3> QED  BY <1>1, <2>2, <3>2 DEF mq_add, mq_conv_small
  <2> QED  BY <2>1, <2>2
<1>4. ASSUME NEW x \in 0 .. q - 1, NEW y \in 0 .. q - 1
      PROVE  mq_sub(x, y) = (x - y) % q
  <2>1. CASE x < y
    <3>1. x - y = (-1) * q + (x - y + q) /\ x - y + q \in 0 .. q - 1 /\ -1 \in Int /\ x - y \in Int
      BY <1>1, <2>1
    <3>2. (x - y) % q = x - y + q
      BY <1>2, <3>1
    <3> QED  BY <1>1, <2>1, <3>2 DEF mq_sub, mq_conv_small
  <2>2. CASE ~(x < y)
    <3>1. x - y = 0 * q + (x - y) /\ x - y \in 0 .. q - 1 /\ 0 \in Int
      BY <1>1, <2>2
    <3>2. (x - y) % q = x - y
      BY <1>2, <3>1
    <3> QED  BY <1>1, <2>2, <3>2 DEF mq_sub, mq_conv_small
  <2> QED  BY <2>1, <2>2
<1>5. ASSUME NEW x \in 0 .. q - 1
      PROVE  mq_rshift1(x) \in 0 .. q - 1 /\ (2 * mq_rshift1(x)) % q = x
  <2> DEFINE h == mq_rshift1(x)
  <2>1. h \in 0 .. q - 1 /\ (2 * h = x \/ 2 * h = x + q)
    BY <1>1 DEF mq_rshift1
  <2> HIDE DEF h
  <2>2. 2 * h \in Int /\ (2 * h = 0 * q + x \/ 2 * h = 1 * q + x)
    BY <1>1, <2>1
  <2> DEFINE z == 2 * h
  <2>3. z \in Int /\ (z = 0 * q + x \/ z = 1 * q + x)
    BY <2>2
  <2> HIDE DEF z
  <2>4. z % q = x
    BY <1>2, <2>3
  <2> QED  BY <2>1, <2>4 DEF h, z
<1> QED  BY <1>3, <1>4, <1>5

(* mq_montymul divides the product by R modulo q.                          *)
THEOREM ElementProduct ==
  ASSUME NEW x \in 0 .. q - 1, NEW y \in 0 .. q - 1
  PROVE  mq_montymul(x, y) \in 0 .. q - 1 /\ (R * mq_montymul(x, y)) % q = (x * y) % q
<1> DEFINE m == 2 ^ RBits
           n == Q0I
           z == x * y
           w == (z * n) % m
<1>1. q \in Nat \ {0} /\ q < m /\ m \in Nat \ {0}
  BY ModulusQ, PowerPositive
<1>2. n \in 0 .. m - 1 /\ Cancels(n, q, m)
  <2>1. \E u \in 0 .. m - 1 : (u * q + 1) % m = 0
    BY ModulusQ, OddInverse
  <2>2. n \in 0 .. m - 1 /\ (n * q + 1) % m = 0
    BY <2>1 DEF Q0I
  <2> HIDE DEF n, m
  <2>3. n * q = q * n
    BY <1>1, <2>2
  <2> QED  BY <2>2, <2>3 DEF Cancels
<1>3. MqReduce(z) = mq_conv_small(((z + w * q) \div m) - q)
  BY DEF MqReduce
<1> HIDE DEF m, n
<1>4. z \in 0 .. q * m - 1 /\ z \in Nat
  <2>1. x * y + y <= q * y
    BY <1>1, MultipleAbove
  <2>2. y * q + q <= m * q
    BY <1>1, MultipleAbove
  <2>3. q * y = y * q /\ m * q = q * m /\ q * y \in Nat /\ q * m \in Nat /\ x * y \in Nat
    BY <1>1
  <2> DEFINE A == q * y
             B == q * m
  <2>4. A \in Nat /\ B \in Nat /\ z \in Nat /\ z + y <= A /\ A + q <= B
    BY <2>1, <2>2, <2>3
  <2> HIDE DEF A, B, z
  <2>5. z \in 0 .. B - 1
    BY <1>1, <2>4
  <2> QED  BY <2>4, <2>5 DEF B
<1>5. mq_montymul(x, y) = MqReduce(z)
  BY DEF mq_montymul
<1> HIDE DEF z
<1>6. Adds(w, z, n, q, m)
  <2> DEFINE u == z * n
  <2>1. u \in Int
    BY <1>2, <1>4
  <2> HIDE DEF u
  <2>2. u % m \in 0 .. m - 1 /\ Same(u % m, u, m)
    BY <1>1, <2>1, SameRemainder
  <2> QED  BY <1>4, <2>2 DEF Adds, u
<1> HIDE DEF w
<1>7. PICK b \in 0 .. 2 * q - 1 : Quotient(b, z + w * q, m)
  <2>1. n \in Nat
    BY <1>2
  <2> QED  BY <1>1, <1>2, <1>6, <2>1, ExactQuotient
<1> DEFINE d == b - q
           s == mq_conv_small(d)
<1>8. mq_montymul(x, y) = s
  BY <1>3, <1>5, <1>7 DEF Quotient
<1>9. s \in 0 .. q - 1 /\ Same(s, d, q)
  <2>1. d \in Int /\ -q <= d /\ d < q
    BY <1>1, <1>7
  <2> HIDE DEF d
  <2>2. s = d + q * 0 \/ s = d + q * 1
    BY <1>1, <2>1 DEF mq_conv_small
  <2>3. Same(s, d, q)
    BY <2>2 DEF Same
  <2>4. s \in 0 .. q - 1
    BY <1>1, <2>1 DEF mq_conv_small
  <2> QED  BY <2>3, <2>4
<1> HIDE DEF s
<1>10. Same(m * s, z, q)
  <2>1. w \in 0 .. m - 1
    BY <1>6 DEF Adds
  <2> QED  BY <1>1, <1>4, <1>7, <1>9, <2>1, ReducedIs
<1>11. Same(R * s, z, q)
  <2>1. Same(m % q, m, q) /\ m % q \in Int
    <3>1. m \in Int /\ q \in Nat \ {0}
      BY <1>1
    <3>2. m % q \in 0 .. q - 1 /\ Same(m % q, m, q)
      BY <3>1, SameRemainder
    <3> QED  BY <3>1, <3>2
  <2> DEFINE r == m % q
             A == r * s
             B == m * s
  <2>2. s \in Int /\ m \in Int /\ q \in Int /\ Same(s, s, q) /\ r \in Int /\ Same(r, m, q)
    <3>1. s \in Int /\ m \in Int /\ q \in Int
      BY <1>1, <1>9
    <3> QED  BY <2>1, <3>1, SameIs
  <2> HIDE DEF r
  <2>3. Same(A, B, q) /\ A \in Int /\ B \in Int
    BY <2>2, SameOperations
  <2>4. Same(B, z, q)
    BY <1>10
  <2> HIDE DEF A, B
  <2>5. Same(A, z, q)
    BY <1>4, <2>2, <2>3, <2>4, SameIs
  <2> QED  BY <2>5 DEF A, r, R, m
<1>12. (R * s) % q = z % q
  <2>1. R \in Int
    <3> DEFINE r == m % q
    <3>1. r \in Int
      BY <1>1
    <3> QED  BY <3>1 DEF R, m
  <2> DEFINE A == R * s
  <2>2. A \in Int /\ Same(A, z, q)
    BY <1>9, <1>11, <2>1
  <2> HIDE DEF A
  <2>3. A % q = z % q
    BY <1>1, <1>4, <2>2, SameRemainder
  <2> QED  BY <2>3 DEF A
<1> QED  BY <1>8, <1>9, <1>12 DEF z
=============================================================================
