---------------------------- MODULE ShakeContext ----------------------------
(***************************************************************************)
(* The SHAKE256 context of crypto/shake.c: i_shake256_init, inject, flip   *)
(* and extract, with their loops over the 136-byte rate.                   *)
(*                                                                         *)
(* The permutation is ideal: a Keccak state is the sequence of blocks that *)
(* were XORed in before each permutation so far, and a byte of it is that  *)
(* sequence and an offset.  A block is the set of the <<offset, byte>>     *)
(* pairs XORed in.  Callers respect the order falcon.h asks for (inject,   *)
(* then flip, then extract); the code does not enforce it.                 *)
(***************************************************************************)
EXTENDS Integers, Sequences

CONSTANTS
  Rate,       (* 136                                                       *)
  MaxCall,    (* bound: bytes per call                                     *)
  MaxInput,   (* bound: bytes absorbed between two initializations         *)
  MaxOutput   (* bound: bytes delivered between two initializations        *)

ASSUME RateAssumption  == Rate \in Nat \ {0, 1}
ASSUME BoundAssumption == {MaxCall, MaxInput, MaxOutput} \subseteq Nat

VARIABLES
  permuted,  (* st.A: the blocks permuted into the state                   *)
  dbuf,      (* st.dbuf: what was XORed in since                           *)
  dptr,      (* next offset in the block; Rate: the block is used up       *)
  in,        (* bytes the inject call in progress has still to absorb      *)
  len,       (* bytes the extract call in progress has still to deliver    *)
  phase,     (* history: has the context been flipped                      *)
  absorbed,  (* history: all bytes absorbed                                *)
  output     (* history: all bytes delivered                               *)

vars == <<permuted, dbuf, dptr, in, len, phase, absorbed, output>>

Minimum(m, n) == IF m < n THEN m ELSE n

Offsets == 0 .. Rate - 1

(* The padding bytes 0x1F and 0x80, told apart from the bytes of the input. *)
Pad1F == -1
Pad80 == -2

Idle == in = <<>> /\ len = 0

----------------------------------------------------------------------------
Init ==
  /\ permuted = <<>> /\ dbuf = {} /\ dptr = 0
  /\ in = <<>> /\ len = 0
  /\ phase = "input"
  /\ absorbed = <<>> /\ output = <<>>

(* i_shake256_init, at any time between two calls.                         *)
Initialize ==
  /\ Idle
  /\ permuted' = <<>> /\ dbuf' = {} /\ dptr' = 0
  /\ phase' = "input"
  /\ absorbed' = <<>> /\ output' = <<>>
  /\ UNCHANGED <<in, len>>

(* i_shake256_inject is called with n bytes; all bytes are distinct.       *)
Inject(n) ==
  /\ Idle
  /\ phase = "input"
  /\ Len(absorbed) + n <= MaxInput
  /\ in' = [i \in 1 .. n |-> Len(absorbed) + i]
  /\ UNCHANGED <<permuted, dbuf, dptr, len, phase, absorbed, output>>

(* Deliberate bug, for the runs' mutants: a full block waits for the next  *)
(* call.                                                                   *)
InjectChunkLazy ==
  LET clen == Minimum(Rate - dptr, Len(in)) IN
  /\ in # <<>>
  /\ dbuf' = dbuf \cup {<<dptr + i - 1, in[i]>> : i \in 1 .. clen}
  /\ dptr' = dptr + clen
  /\ absorbed' = absorbed \o SubSeq(in, 1, clen)
  /\ in' = SubSeq(in, clen + 1, Len(in))
  /\ UNCHANGED <<permuted, len, phase, output>>

(* One iteration of its loop: up to the end of the block, which is then    *)
(* permuted at once.                                                       *)
InjectChunk ==
  LET clen  == Minimum(Rate - dptr, Len(in))
      block == dbuf \cup {<<dptr + i - 1, in[i]>> : i \in 1 .. clen}
      full  == dptr + clen = Rate
  IN  /\ in # <<>>
      /\ IF full THEN permuted' = Append(permuted, block) /\ dbuf' = {} /\ dptr' = 0
                 ELSE dbuf' = block /\ dptr' = dptr + clen /\ UNCHANGED permuted
      /\ absorbed' = absorbed \o SubSeq(in, 1, clen)
      /\ in' = SubSeq(in, clen + 1, Len(in))
      /\ UNCHANGED <<len, phase, output>>

(* Deliberate bug: the padded block is not marked as used up.              *)
FlipInPlace ==
  /\ Idle
  /\ phase = "input"
  /\ dbuf' = dbuf \cup {<<dptr, Pad1F>>, <<Rate - 1, Pad80>>}
  /\ phase' = "output"
  /\ UNCHANGED <<permuted, dptr, in, len, absorbed, output>>

(* i_shake256_flip: padding; the block is permuted by the first extract.   *)
Flip ==
  /\ Idle
  /\ phase = "input"
  /\ dbuf' = dbuf \cup {<<dptr, Pad1F>>, <<Rate - 1, Pad80>>}
  /\ dptr' = Rate
  /\ phase' = "output"
  /\ UNCHANGED <<permuted, in, len, absorbed, output>>

(* i_shake256_extract is called for n bytes.                               *)
Extract(n) ==
  /\ Idle
  /\ phase = "output"
  /\ Len(output) + n <= MaxOutput
  /\ len' = n
  /\ UNCHANGED <<permuted, dbuf, dptr, in, phase, absorbed, output>>

(* Deliberate bug: the used-up block is not noticed.                       *)
ExtractChunkSpent ==
  LET clen == Minimum(Rate - dptr, len)
  IN  /\ len > 0
      /\ output' = output \o [i \in 1 .. clen |-> <<permuted, dptr + i - 1>>]
      /\ dptr' = dptr + clen
      /\ len' = len - clen
      /\ UNCHANGED <<permuted, dbuf, in, phase, absorbed>>

(* One iteration of its loop: a used-up block is permuted only when a byte *)
(* of the next one is wanted.                                              *)
ExtractChunk ==
  LET usedUp == dptr = Rate
      state  == IF usedUp THEN Append(permuted, dbuf) ELSE permuted
      first  == IF usedUp THEN 0 ELSE dptr
      clen   == Minimum(Rate - first, len)
  IN  /\ len > 0
      /\ permuted' = state
      /\ dbuf' = IF usedUp THEN {} ELSE dbuf
      /\ output' = output \o [i \in 1 .. clen |-> <<state, first + i - 1>>]
      /\ dptr' = first + clen
      /\ len' = len - clen
      /\ UNCHANGED <<in, phase, absorbed>>

Next ==
  \/ Initialize
  \/ \E n \in 1 .. MaxCall : Inject(n)
  \/ InjectChunk
  \/ Flip
  \/ \E n \in 1 .. MaxCall : Extract(n)
  \/ ExtractChunk

Spec == Init /\ [][Next]_vars

(* A loop in progress is run to its end.                                   *)
FairSpec == Spec /\ WF_vars(InjectChunk) /\ WF_vars(ExtractChunk)

----------------------------------------------------------------------------
(* Properties.                                                             *)

(* SHAKE256 by its definition: pad the whole input, cut it into blocks of  *)
(* Rate bytes, permute after each; then one more permutation per Rate      *)
(* bytes of output.                                                        *)
Block(msg, k) ==
  {<<i, msg[k * Rate + i + 1]>> : i \in {j \in Offsets : k * Rate + j < Len(msg)}}

Padded(msg) ==
  LET last == Len(msg) \div Rate
  IN  [k \in 1 .. last + 1 |->
         IF k <= last THEN Block(msg, k - 1)
         ELSE Block(msg, last) \cup {<<Len(msg) % Rate, Pad1F>>, <<Rate - 1, Pad80>>}]

ShakeByte(msg, n) ==
  <<Padded(msg) \o [k \in 1 .. n \div Rate |-> {}], n % Rate>>

Stream == INSTANCE ByteStream WITH Byte <- ShakeByte

(* The output is SHAKE256 of the input, however both are cut into calls,   *)
(* also across block ends, empty inputs and re-initializations.            *)
ImplementsStream == Stream!Spec

(* Nothing is XORed in behind the rate, where the capacity of the sponge   *)
(* lies; in particular a context between two calls has room for the        *)
(* padding byte, because a full block is permuted at once.                 *)
InsideRate ==
  /\ \A e \in dbuf : e[1] \in Offsets
  /\ \A k \in 1 .. Len(permuted) : \A e \in permuted[k] : e[1] \in Offsets
  /\ Idle /\ phase = "input" => dptr \in Offsets

(* The loops of inject and extract always make progress: every call        *)
(* returns.  A chunk length of zero would spin.                            *)
CallsReturn == []<>Idle
=============================================================================
