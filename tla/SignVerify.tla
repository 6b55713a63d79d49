----------------------------- MODULE SignVerify -----------------------------
(***************************************************************************)
(* The streamed signature calls of crypto/falcon.c: sign_start, injection  *)
(* of the data, sign_dyn_finish or sign_tree_finish with their retry       *)
(* loops, and verify_finish.                                               *)
(*                                                                         *)
(* To save memory the signer lets the hash point hm and the signature      *)
(* vector sv share one array, so every retry has to hash again, from a     *)
(* copy of the hash context; and every retry has to take new randomness    *)
(* from the caller's generator, or it would fail in the same way again.    *)
(*                                                                         *)
(* Abstractions.  The generator is the number of extractions made from it. *)
(* A context is what was hashed and how often it was flipped and drawn     *)
(* from.  A vector is the content of hm it was computed from, its seed and *)
(* the length of its compressed encoding, Wide when a coefficient has no   *)
(* encoding.  Lengths count bytes.                                         *)
(***************************************************************************)
EXTENDS Integers, Sequences, FiniteSets

CONSTANTS
  Prefix,      (* 41: header byte and nonce                                *)
  PaddedSize,  (* FALCON_SIG_PADDED_SIZE(logn)                             *)
  CTSize,      (* FALCON_SIG_CT_SIZE(logn)                                 *)
  Lengths,     (* lengths a compressed encoding takes                      *)
  Wide,        (* a vector that neither format can encode                  *)
  Capacities,  (* buffer sizes callers pass in *sig_len                    *)
  Msgs,        (* data to sign                                             *)
  MaxRng       (* bound: extractions from the generator                    *)

ASSUME SizeAssumption ==
  /\ {Prefix, PaddedSize, CTSize, MaxRng} \subseteq Nat
  /\ Prefix < PaddedSize /\ Prefix < CTSize
  /\ Lengths \subseteq Nat \ {0} /\ Capacities \subseteq Nat
  /\ Wide \notin Nat

(* Sizes are size_t: there is a largest.                                   *)
ASSUME CapacityAssumption ==
  \E n \in Capacities : \A m \in Capacities : m <= n

VARIABLES
  rng,      (* *rng: extractions so far                                    *)
  ctx,      (* *hash_data                                                  *)
  saved,    (* sav_hash_data                                               *)
  array,    (* the array that holds hm, then sv                            *)
  call,     (* arguments of the finish call in progress                    *)
  pc,       (* where the signer is                                         *)
  ret,      (* what the last finish call returned                          *)
  sig,      (* the signature in sig[], if that was 0                       *)
  sigLen,   (* *sig_len                                                    *)
  written,  (* history: bytes of sig[] written by the call                 *)
  seeds     (* history: extractions used as nonce or as sampler seed       *)

vars == <<rng, ctx, saved, array, call, pc, ret, sig, sigLen, written, seeds>>

Highest == CHOOSE n \in Capacities : \A m \in Capacities : m <= n

Types   == {"compressed", "padded", "ct"}
Returns == {"none", "ok", "refused", "size"}

(* Arguments of a finish call: how far the key decodes ("header": wrong    *)
(* type or length; "body": found out by decoding it), and whether tmp[]    *)
(* is large enough.  An expanded key has no body to decode.                *)
Calls ==
  {c \in [api : {"dyn", "tree"}, type : Types \cup {"unknown"}, cap : Capacities,
          key : {"good", "bad_header", "bad_body"}, tmp : BOOLEAN] :
     c.api = "tree" => c.key # "bad_body"}

Context(nonce, msg, flips, drawn) ==
  [nonce |-> nonce, msg |-> msg, flips |-> flips, drawn |-> drawn]

Contexts == [nonce : Nat, msg : Seq(Msgs), flips : Nat, drawn : Nat]
Vectors  == [hm : Contexts, seed : Nat, enc : Lengths \cup {Wide}]

(* A signature: its header, its nonce, the vector in its body, and what    *)
(* follows the encoding: zero bytes, then perhaps one that is not zero.    *)
Signature(hdr, nonce, vec, zeros) ==
  [hdr |-> hdr, nonce |-> nonce, vec |-> vec, zeros |-> zeros, junk |-> FALSE]

ByteLen(s) ==
  Prefix + (IF s.hdr = "ct" THEN CTSize - Prefix ELSE s.vec.enc)
    + s.zeros + (IF s.junk THEN 1 ELSE 0)

----------------------------------------------------------------------------
(* Verification: falcon_verify_finish after the context was given the      *)
(* nonce in the signature and the data; type "any" is sig_type 0.          *)

FormatOK(s, type) ==
  /\ s.hdr = "ct" => type \in {"any", "ct"} /\ ByteLen(s) = CTSize
  /\ s.hdr = "comp" => type \in {"any", "compressed", "padded"}
  /\ type = "padded" => ByteLen(s) = PaddedSize

(* Deliberate bug, for the runs' mutants: zeros are tolerated in the       *)
(* compressed format.                                                      *)
TailOKZeros(s, type) == ~s.junk

(* Extra bytes: zeros only, and only for the padded format.                *)
TailOK(s, type) ==
  \/ s.zeros = 0 /\ ~s.junk
  \/ /\ type = "padded" \/ (type = "any" /\ ByteLen(s) = PaddedSize)
     /\ ~s.junk

Verify(s, type, msg) ==
  /\ FormatOK(s, type)
  /\ s.vec.enc # Wide
  /\ TailOK(s, type)
  /\ s.vec.hm = Context(s.nonce, msg, 1, 0)

----------------------------------------------------------------------------
Init ==
  /\ rng = 0
  /\ ctx = Context(0, <<>>, 0, 0) /\ saved = ctx
  /\ array = ctx
  /\ call = CHOOSE c \in Calls : TRUE
  /\ pc = "idle" /\ ret = "none"
  /\ sig = {} /\ sigLen = 0 /\ written = 0
  /\ seeds = <<>>

Extract == rng < MaxRng /\ rng' = rng + 1 /\ seeds' = Append(seeds, rng)

(* falcon_sign_start: a nonce from the generator, hashed first.            *)
SignStart ==
  /\ pc = "idle"
  /\ Extract
  /\ ctx' = Context(rng, <<>>, 0, 0)
  /\ pc' = "input"
  /\ UNCHANGED <<saved, array, call, ret, sig, sigLen, written>>

(* shake256_inject by the caller.                                          *)
Inject(m) ==
  /\ pc = "input"
  /\ ctx.msg = <<>>
  /\ ctx' = [ctx EXCEPT !.msg = <<m>>]
  /\ UNCHANGED <<rng, saved, array, call, pc, ret, sig, sigLen, written, seeds>>

(* Deliberate bug: the padded format's size is not checked.                *)
RefusedUnchecked(c) ==
  \/ c.key = "bad_header"
  \/ ~c.tmp
  \/ c.cap < Prefix
  \/ c.type = "ct" /\ c.cap < CTSize
  \/ c.type = "unknown"
  \/ c.key = "bad_body"

(* The checks of the finish calls.                                         *)
Refused(c) ==
  \/ c.key = "bad_header"
  \/ ~c.tmp
  \/ c.cap < Prefix
  \/ c.type = "padded" /\ c.cap < PaddedSize
  \/ c.type = "ct" /\ c.cap < CTSize
  \/ c.type = "unknown"
  \/ c.key = "bad_body"

(* Deliberate bug: the context is flipped before the arguments are checked. *)
FinishRefusedFlipped(c) ==
  /\ pc = "input" /\ ctx.msg # <<>>
  /\ Refused(c)
  /\ ctx' = [ctx EXCEPT !.flips = @ + 1]
  /\ ret' = "refused"
  /\ UNCHANGED <<rng, saved, array, call, pc, sig, sigLen, written, seeds>>

(* A refused call returns an error; the caller may call again with other   *)
(* arguments and the same context, which is still in input mode.           *)
FinishRefused(c) ==
  /\ pc = "input" /\ ctx.msg # <<>>
  /\ Refused(c)
  /\ ret' = "refused"
  /\ UNCHANGED <<rng, ctx, saved, array, call, pc, sig, sigLen, written, seeds>>

(* falcon_sign_dyn_finish, falcon_sign_tree_finish up to their loop.       *)
Finish(c) ==
  /\ pc = "input" /\ ctx.msg # <<>>
  /\ ~Refused(c)
  /\ call' = c
  /\ sigLen' = c.cap /\ written' = 0
  /\ ctx' = [ctx EXCEPT !.flips = @ + 1]
  /\ saved' = ctx'
  /\ sig' = {}
  /\ pc' = "hash"
  /\ UNCHANGED <<rng, array, ret, seeds>>

(* Deliberate bug: the saved context is not put back.                      *)
HashToPointOnce ==
  /\ pc = "hash"
  /\ array' = ctx
  /\ ctx' = [ctx EXCEPT !.drawn = @ + 1]
  /\ pc' = "sample"
  /\ UNCHANGED <<rng, saved, call, ret, sig, sigLen, written, seeds>>

(* Top of the loop: the context is put back and hm computed from it.       *)
HashToPoint ==
  /\ pc = "hash"
  /\ array' = saved
  /\ ctx' = [saved EXCEPT !.drawn = @ + 1]
  /\ pc' = "sample"
  /\ UNCHANGED <<rng, saved, call, ret, sig, sigLen, written, seeds>>

(* Zf(sign_dyn), Zf(sign_tree): one turn of their loop with a newly seeded *)
(* sampler.  The vector it yields overwrites hm only when it is short.     *)
Vector(enc) == [hm |-> array, seed |-> rng, enc |-> enc]

(* Deliberate bug: s2[] is written although it is not short.               *)
SampleLongOverwrites ==
  /\ pc = "sample"
  /\ Extract
  /\ array' = [array EXCEPT !.drawn = @ + 1]
  /\ UNCHANGED <<ctx, saved, call, pc, ret, sig, sigLen, written>>

SampleLong ==
  /\ pc = "sample"
  /\ Extract
  /\ UNCHANGED <<ctx, saved, array, call, pc, ret, sig, sigLen, written>>

(* Deliberate bug: the sampler is seeded from a copy of the generator.     *)
SampleShortCopy(enc) ==
  /\ pc = "sample"
  /\ rng < MaxRng /\ Len(seeds) < MaxRng
  /\ seeds' = Append(seeds, rng)
  /\ array' = Vector(enc)
  /\ pc' = "encode"
  /\ UNCHANGED <<rng, ctx, saved, call, ret, sig, sigLen, written>>

SampleShort(enc) ==
  /\ pc = "sample"
  /\ Extract
  /\ array' = Vector(enc)
  /\ pc' = "encode"
  /\ UNCHANGED <<ctx, saved, call, ret, sig, sigLen, written>>

(* The bytes of sig[] that an encoder may fill behind the prefix.          *)
Room == (IF call.type = "padded" THEN PaddedSize ELSE sigLen) - Prefix

Fits ==
  /\ array.enc # Wide
  /\ IF call.type = "ct" THEN CTSize - Prefix <= Room ELSE array.enc <= Room

(* The longest extent of sig[] written so far.                             *)
Write(n) == written' = IF n > written THEN n ELSE written

Return(s) ==
  /\ sig' = {s}
  /\ ret' = "ok"
  /\ sigLen' = ByteLen(s)
  /\ Write(ByteLen(s))
  /\ pc' = "idle"
  /\ UNCHANGED <<rng, ctx, saved, array, call, seeds>>

EncodeCompressed ==
  /\ pc = "encode" /\ call.type = "compressed" /\ Fits
  /\ Return(Signature("comp", ctx.nonce, array, 0))

(* Deliberate bug: v is set to the padded size with the prefix counted.    *)
EncodePaddedTwice ==
  /\ pc = "encode" /\ call.type = "padded" /\ Fits
  /\ Return(Signature("comp", ctx.nonce, array, PaddedSize - array.enc))

EncodePadded ==
  /\ pc = "encode" /\ call.type = "padded" /\ Fits
  /\ Return(Signature("comp", ctx.nonce, array, PaddedSize - Prefix - array.enc))

EncodeCT ==
  /\ pc = "encode" /\ call.type = "ct" /\ Fits
  /\ Return(Signature("ct", ctx.nonce, array, 0))

(* An encoder that fails has filled its room when the coefficients were    *)
(* in range, nothing otherwise.                                            *)
Overrun == Write(Prefix + (IF array.enc = Wide THEN 0 ELSE Room))

(* The padded format tries again, the others return FALCON_ERR_SIZE.       *)
EncodeRetry ==
  /\ pc = "encode" /\ call.type = "padded" /\ ~Fits
  /\ Overrun
  /\ pc' = "hash"
  /\ UNCHANGED <<rng, ctx, saved, array, call, ret, sig, sigLen, seeds>>

EncodeFails ==
  /\ pc = "encode" /\ call.type # "padded" /\ ~Fits
  /\ Overrun
  /\ pc' = "idle" /\ ret' = "size"
  /\ UNCHANGED <<rng, ctx, saved, array, call, sig, sigLen, seeds>>

Next ==
  \/ SignStart
  \/ \E m \in Msgs : Inject(m)
  \/ \E c \in Calls : FinishRefused(c) \/ Finish(c)
  \/ HashToPoint
  \/ SampleLong
  \/ \E enc \in Lengths \cup {Wide} : SampleShort(enc)
  \/ EncodeCompressed \/ EncodePadded \/ EncodeCT
  \/ EncodeRetry \/ EncodeFails

Spec == Init /\ [][Next]_vars

----------------------------------------------------------------------------
(* Properties.                                                             *)

TypeOK ==
  /\ rng \in 0 .. MaxRng
  /\ {ctx, saved} \subseteq Contexts
  /\ array \in (IF pc = "encode" THEN Vectors ELSE Contexts \cup Vectors)
  /\ call \in Calls
  /\ pc \in {"idle", "input", "hash", "sample", "encode"}
  /\ ret \in Returns
  /\ sig = {} \/ \E s \in sig : sig = {s} /\ s.vec \in Vectors
  /\ sigLen \in 0 .. Highest
  /\ written \in 0 .. Highest
  /\ seeds \in Seq(0 .. MaxRng)

(* A signature is released only if the verifier accepts it, for its own    *)
(* type and for sig_type 0, with exactly the length that was returned: a   *)
(* retry has hashed the same message again, hm was intact when it was      *)
(* sampled for, and an earlier refused call has not touched the context.   *)
ReleasedVerifies ==
  pc = "idle" /\ ret = "ok" =>
    \E s \in sig :
      /\ sigLen = ByteLen(s)
      /\ \A type \in {"any", call.type} : Verify(s, type, ctx.msg)

(* falcon.h, of sig_type 0: "in that case, the signature is malleable".    *)
(* With a definite type it is not: of all the ways to write down a         *)
(* released vector each type accepts at most one.                          *)
Rewritten(s) ==
  [hdr : {"comp", "ct"}, nonce : {s.nonce}, vec : {s.vec}, zeros : 0 .. CTSize,
   junk : BOOLEAN]

OneFormPerType ==
  pc = "idle" /\ ret = "ok" =>
    \A s \in sig, type \in Types :
      Cardinality({t \in Rewritten(s) : Verify(t, type, ctx.msg)}) <= 1

(* No nonce and no sampler seed is ever taken twice from the generator,    *)
(* over all the retries of all the calls that share it: a retry does not   *)
(* fail for the reason the last one failed.                                *)
SeedsFresh ==
  \A i, j \in DOMAIN seeds : seeds[i] = seeds[j] => i = j

(* A call, successful or not, writes only the bytes the caller gave it;    *)
(* retries of the padded format write up to its size whatever *sig_len is. *)
InsideBuffer == written <= call.cap
=============================================================================
