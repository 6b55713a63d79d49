-------------------------------- MODULE Codec --------------------------------
(***************************************************************************)
(* The encodings of crypto/codec.c and of crypto/epervier16.c: vectors of  *)
(* small integers, packed bit by bit into bytes.                           *)
(*                                                                         *)
(* The functions are shared by a writer that encodes vectors into buffers  *)
(* of any size and a reader that decodes what it is given.  A byte has     *)
(* ByteBits bits and the bit accumulator wraps at AccBits, so that lost    *)
(* bits show.  A length of 0 means failure, as in the code.                *)
(***************************************************************************)
EXTENDS Integers, Sequences

CONSTANTS
  ByteBits,  (* 8                                                          *)
  AccBits,   (* 32                                                         *)
  MaxAbs,    (* 2047: greatest absolute value comp_encode accepts          *)
  q,         (* 12289                                                      *)
  QBits,     (* 14                                                         *)
  I8Bits,    (* values of bits in calls of trim_i8_encode                  *)
  I16Bits,   (* the same for trim_i16_encode                               *)
  Vectors,   (* vectors to encode                                          *)
  Strings,   (* byte strings to decode                                     *)
  Null       (* no output buffer: only the length is asked for             *)

LowBits == ByteBits - 1

(* Widths of fixed-width values: up to ByteBits - 1 bits are pending when  *)
(* one is pushed, or a byte when one is taken.                             *)
Widths == {b \in Nat \ {0} : b + LowBits <= AccBits}

(* The comments of comp_encode count on the sum; the low bits alone are    *)
(* never out of range.  An element modulo q is a word of QBits bits, and a *)
(* positive int16_t.                                                       *)
ASSUME AccumulatorAssumption ==
  /\ {ByteBits, AccBits, MaxAbs, q} \subseteq Nat /\ ByteBits > 0
  /\ ByteBits + (MaxAbs \div 2 ^ LowBits + 1) + LowBits <= AccBits
  /\ 2 ^ LowBits <= MaxAbs + 1
  /\ {QBits, 2 * ByteBits} \subseteq Widths
  /\ q <= 2 ^ QBits /\ q <= 2 ^ (2 * ByteBits - 1)
  /\ Null \notin Nat

ASSUME InputAssumption ==
  /\ I8Bits \subseteq Widths /\ I16Bits \subseteq Widths
  /\ Vectors \subseteq Seq(Int) /\ Strings \subseteq Seq(0 .. 2 ^ ByteBits - 1)

VARIABLES
  coding,    (* which encoding: <<name, bits>>                             *)
  x,         (* the vector, <<>> when the reader starts from bytes         *)
  room,      (* the size of the output buffer, or Null                     *)
  encoded,   (* result of the encoder: [len, bytes]                        *)
  input,     (* what the reader is given                                   *)
  decoded    (* result of the decoder: [len, x]                            *)

codecVars == <<coding, x, room, encoded, input, decoded>>

----------------------------------------------------------------------------
(* The bit accumulator: acc holds len pending bits in its low end.         *)

Fresh == [acc |-> 0, len |-> 0, out |-> <<>>]

Push(s, value, bits) ==
  [s EXCEPT !.acc = (s.acc * 2 ^ bits + value) % 2 ^ AccBits, !.len = s.len + bits]

FlushBytes(s) ==
  [s EXCEPT !.len = s.len % ByteBits,
            !.out = s.out \o [i \in 1 .. s.len \div ByteBits |->
                       (s.acc \div 2 ^ (s.len - ByteBits * i)) % 2 ^ ByteBits]]

LastByte(s) ==
  IF s.len > 0 THEN Append(s.out, (s.acc * 2 ^ (ByteBits - s.len)) % 2 ^ ByteBits) ELSE s.out

Failure == [len |-> 0, bytes |-> <<>>]

(* The fixed-width encoders, once all values are in range.                 *)
FixedLength(n, bits) == (n * bits + ByteBits - 1) \div ByteBits

Packing(words, bits) ==
  LET s[u \in 0 .. Len(words)] ==
        IF u = 0 THEN Fresh
        ELSE LET p == s[u - 1] IN FlushBytes(Push(p, words[u], bits))
  IN  s

FixedWidth(words, max_out_len, bits) ==
  LET out_len == FixedLength(Len(words), bits)
  IN  CASE max_out_len = Null -> [len |-> out_len, bytes |-> <<>>]
        [] max_out_len # Null /\ out_len > max_out_len -> Failure
        [] OTHER -> [len |-> out_len, bytes |-> LastByte(Packing(words, bits)[Len(words)])]

AllIn(v, S) == \A u \in DOMAIN v : v[u] \in S

modq_encode(v, max_out_len) ==
  IF AllIn(v, 0 .. q - 1)
  THEN FixedWidth(v, max_out_len, QBits)
  ELSE Failure

(* For int16_t and int8_t elements alike; the low bits of the two's        *)
(* complement.                                                             *)
trim_i16_encode(v, max_out_len, bits) ==
  LET maxv == 2 ^ (bits - 1) - 1
  IN  IF AllIn(v, -maxv .. maxv)
      THEN FixedWidth([u \in DOMAIN v |-> v[u] % 2 ^ bits], max_out_len, bits)
      ELSE Failure
trim_i8_encode(v, max_out_len, bits) == trim_i16_encode(v, max_out_len, bits)

(* Two bytes per element, modulo q for the signature.                      *)
ep_modq_encode16(v, max_out_len) ==
  IF AllIn(v, 0 .. q - 1)
  THEN FixedWidth(v, max_out_len, 2 * ByteBits)
  ELSE Failure
ep_comp_encode16(v, max_out_len) ==
  IF AllIn(v, -q + 1 .. q - 1)
  THEN FixedWidth([u \in DOMAIN v |-> IF v[u] < 0 THEN v[u] + q ELSE v[u]],
                  max_out_len, 2 * ByteBits)
  ELSE Failure

Abs(a) == IF a < 0 THEN -a ELSE a

(* Deliberate bug, for the runs' mutants: one zero too few.                *)
ShortRun(s, a) ==
  FlushBytes(Push(Push(Push(s, IF a < 0 THEN 1 ELSE 0, 1),
                       Abs(a) % 2 ^ LowBits, LowBits),
                  1, Abs(a) \div 2 ^ LowBits))

(* Sign, low bits, and the high bits in unary.                             *)
PushElement(s, a) ==
  FlushBytes(Push(Push(Push(s, IF a < 0 THEN 1 ELSE 0, 1),
                       Abs(a) % 2 ^ LowBits, LowBits),
                  1, Abs(a) \div 2 ^ LowBits + 1))

(* Deliberate bug: room for one byte more than there is.                   *)
OneTooMany(bytes, max_out_len) ==
  IF max_out_len # Null /\ Len(bytes) > max_out_len + 1 THEN Failure
  ELSE [len |-> Len(bytes), bytes |-> IF max_out_len = Null THEN <<>> ELSE bytes]

(* The encoder stops at the first byte that has no room.                   *)
IfRoom(bytes, max_out_len) ==
  IF max_out_len # Null /\ Len(bytes) > max_out_len THEN Failure
  ELSE [len |-> Len(bytes), bytes |-> IF max_out_len = Null THEN <<>> ELSE bytes]

CompPacking(v) ==
  LET s[u \in 0 .. Len(v)] ==
        IF u = 0 THEN Fresh ELSE LET p == s[u - 1] IN PushElement(p, v[u])
  IN  s

comp_encode(v, max_out_len) ==
  IF AllIn(v, -MaxAbs .. MaxAbs)
  THEN IfRoom(LastByte(CompPacking(v)[Len(v)]), max_out_len)
  ELSE Failure

----------------------------------------------------------------------------
(* Decoders.                                                               *)

Rejected == [len |-> 0, x |-> <<>>]
Pending(s) == s.acc % 2 ^ s.len

(* One byte is read at a time, and as many words taken from it as it       *)
(* completes: the fixed-width decoders.                                    *)
TakeWords(s, byte, n, bits) ==
  LET p    == Push(s, byte, ByteBits)
      have == p.len \div bits
      k    == IF Len(s.out) + have > n THEN n - Len(s.out) ELSE have
  IN  [p EXCEPT !.len = p.len - k * bits,
                !.out = s.out \o [i \in 1 .. k |->
                          (p.acc \div 2 ^ (p.len - bits * i)) % 2 ^ bits]]

Unpacking(in, n, bits) ==
  LET s[v \in 0 .. FixedLength(n, bits)] ==
        IF v = 0 THEN Fresh
        ELSE LET p == s[v - 1] IN TakeWords(p, in[v], n, bits)
  IN  s

Unpack(in, max_in_len, n, bits) ==
  LET in_len == FixedLength(n, bits)
  IN  IF in_len <= max_in_len /\ Pending(Unpacking(in, n, bits)[in_len]) = 0
      THEN [len |-> in_len, x |-> Unpacking(in, n, bits)[in_len].out]
      ELSE Rejected

(* The words of r stand for the elements of y, which have to be allowed.   *)
Accept(r, y, Allowed) ==
  IF AllIn(y, Allowed) THEN [len |-> r.len, x |-> y] ELSE Rejected

TwosComplement(w, bits) == IF w >= 2 ^ (bits - 1) THEN w - 2 ^ bits ELSE w

modq_decode(in, max_in_len, n) ==
  LET r == Unpack(in, max_in_len, n, QBits) IN Accept(r, r.x, 0 .. q - 1)

(* The value -2^(bits - 1) is forbidden.                                   *)
trim_i16_decode(in, max_in_len, n, bits) ==
  LET r == Unpack(in, max_in_len, n, bits)
  IN  Accept(r, [u \in DOMAIN r.x |-> TwosComplement(r.x[u], bits)],
             -(2 ^ (bits - 1)) + 1 .. 2 ^ (bits - 1) - 1)
trim_i8_decode(in, max_in_len, n, bits) == trim_i16_decode(in, max_in_len, n, bits)

(* A word of two bytes is an int16_t, compared with q before q is taken    *)
(* off; what is not below MaxAbs stands for a negative element.            *)
Centred16(w) == IF w >= MaxAbs THEN w - q ELSE w
ep_words(in, max_in_len, n) ==
  LET r == Unpack(in, max_in_len, n, 2 * ByteBits)
  IN  Accept(r, [u \in DOMAIN r.x |-> TwosComplement(r.x[u], 2 * ByteBits)],
             -(2 ^ (2 * ByteBits)) .. q - 1)
ep_comp_decode16(in, max_in_len, n) ==
  LET r == ep_words(in, max_in_len, n)
  IN  [len |-> r.len, x |-> [u \in DOMAIN r.x |-> Centred16(r.x[u])]]
ep_modq_decode16(in, max_in_len, n) ==
  LET r == ep_words(in, max_in_len, n)
  IN  [len |-> r.len, x |-> [u \in DOMAIN r.x |-> Centred16(r.x[u]) % 2 ^ (2 * ByteBits)]]

(* comp_decode.  v is the number of bytes read; m the absolute value so    *)
(* far; stop says that the input is refused.                               *)
Start == [acc |-> 0, len |-> 0, v |-> 0, s |-> 0, m |-> 0, stop |-> FALSE]

ReadByte(t, in, max_in_len) ==
  IF t.v >= max_in_len THEN [t EXCEPT !.stop = TRUE]
  ELSE [t EXCEPT !.acc = (t.acc * 2 ^ ByteBits + in[t.v + 1]) % 2 ^ AccBits, !.v = t.v + 1]

(* The next ByteBits bits: the length of acc stays the same.               *)
LowPart(t, in, max_in_len) ==
  LET r == ReadByte(t, in, max_in_len)
      b == (r.acc \div 2 ^ r.len) % 2 ^ ByteBits
  IN  [r EXCEPT !.s = b \div 2 ^ LowBits, !.m = b % 2 ^ LowBits]

OneBit(t, in, max_in_len) ==
  IF t.len > 0 THEN [t EXCEPT !.len = t.len - 1]
  ELSE [ReadByte(t, in, max_in_len) EXCEPT !.len = ByteBits - 1]
IsOne(t) == (t.acc \div 2 ^ t.len) % 2 = 1

NextHigh(t, in, max_in_len) ==
  CASE t.stop \/ IsOne(t) -> t
    [] ~(t.stop \/ IsOne(t)) /\ t.m + 2 ^ LowBits > MaxAbs -> [t EXCEPT !.stop = TRUE]
    [] OTHER -> OneBit([t EXCEPT !.m = t.m + 2 ^ LowBits], in, max_in_len)

(* Zeros up to the next one, each of which counts 2^LowBits.               *)
HighSteps == MaxAbs \div 2 ^ LowBits + 1
Scanning(t, in, max_in_len) ==
  LET s[k \in 0 .. HighSteps] ==
        IF k = 0 THEN OneBit(t, in, max_in_len)
        ELSE LET p == s[k - 1] IN NextHigh(p, in, max_in_len)
  IN  s
HighPart(t, in, max_in_len) == Scanning(t, in, max_in_len)[HighSteps]

(* Deliberate bug: minus zero is let through.                              *)
ZeroHasTwoForms(t) == FALSE
MinusZero(t) == t.s = 1 /\ t.m = 0

NextElement(t, in, max_in_len) ==
  IF t.stop THEN t
  ELSE LET r == HighPart(LowPart(t, in, max_in_len), in, max_in_len)
       IN  IF MinusZero(r) THEN [r EXCEPT !.stop = TRUE] ELSE r

CompUnpacking(in, max_in_len, n) ==
  LET t[u \in 0 .. n] ==
        IF u = 0 THEN Start ELSE LET p == t[u - 1] IN NextElement(p, in, max_in_len)
  IN  t

Value(t) == IF t.s = 1 THEN -t.m ELSE t.m

comp_decode(in, max_in_len, n) ==
  LET t == CompUnpacking(in, max_in_len, n)
  IN  IF t[n].stop \/ Pending(t[n]) # 0 THEN Rejected
      ELSE [len |-> t[n].v, x |-> [u \in 1 .. n |-> Value(t[u])]]

----------------------------------------------------------------------------
(* A writer and a reader.                                                  *)

Codings == {<<"modq", 0>>, <<"comp", 0>>, <<"ep_modq", 0>>, <<"ep_comp", 0>>}
             \cup ({"i8"} \X I8Bits) \cup ({"i16"} \X I16Bits)

Encode(c, v, max_out_len) ==
  CASE c[1] = "modq"    -> modq_encode(v, max_out_len)
    [] c[1] = "comp"    -> comp_encode(v, max_out_len)
    [] c[1] = "i8"      -> trim_i8_encode(v, max_out_len, c[2])
    [] c[1] = "i16"     -> trim_i16_encode(v, max_out_len, c[2])
    [] c[1] = "ep_modq" -> ep_modq_encode16(v, max_out_len)
    [] c[1] = "ep_comp" -> ep_comp_encode16(v, max_out_len)

Decode(c, in, max_in_len, n) ==
  CASE c[1] = "modq"    -> modq_decode(in, max_in_len, n)
    [] c[1] = "comp"    -> comp_decode(in, max_in_len, n)
    [] c[1] = "i8"      -> trim_i8_decode(in, max_in_len, n, c[2])
    [] c[1] = "i16"     -> trim_i16_decode(in, max_in_len, n, c[2])
    [] c[1] = "ep_modq" -> ep_modq_decode16(in, max_in_len, n)
    [] c[1] = "ep_comp" -> ep_comp_decode16(in, max_in_len, n)

CodecInit ==
  /\ coding \in Codings
  /\ x = <<>> /\ room = Null /\ encoded = Failure
  /\ input = <<>> /\ decoded = Rejected

(* Ask for the length, then encode into a buffer that has it or is shorter.*)
AskLength ==
  /\ x = <<>> /\ input = <<>>
  /\ x' \in Vectors
  /\ room' = Null
  /\ encoded' = Encode(coding, x', Null)
  /\ UNCHANGED <<coding, input, decoded>>

Write ==
  /\ encoded.len > 0 /\ room = Null
  /\ room' \in {encoded.len - 1, encoded.len, encoded.len + 1}
  /\ encoded' = Encode(coding, x, room')
  /\ UNCHANGED <<coding, x, input, decoded>>

(* Read back what was written: all of it, followed by something else, or   *)
(* without its last byte.                                                  *)
ReadBack ==
  /\ room # Null /\ encoded.len > 0 /\ input = <<>>
  /\ input' \in {encoded.bytes, Append(encoded.bytes, 1),
                 SubSeq(encoded.bytes, 1, encoded.len - 1)}
  /\ decoded' = Decode(coding, input', Len(input'), Len(x))
  /\ UNCHANGED <<coding, x, room, encoded>>

(* Read a string from elsewhere, and write what was read.                  *)
Receive ==
  /\ x = <<>> /\ input = <<>>
  /\ \E in \in Strings, n \in {Len(v) : v \in Vectors} :
       /\ input' = in
       /\ decoded' = Decode(coding, in, Len(in), n)
       /\ decoded'.len > 0
       /\ encoded' = Encode(coding, decoded'.x, Len(in))
       /\ room' = Len(in)
  /\ UNCHANGED <<coding, x>>

(* convert_sig_compressed_to_ct of crypto/deterministic.c: the vector of a *)
(* compressed signature, in fixed width.                                   *)
ConvertToCT ==
  /\ coding[1] = "comp" /\ decoded.len > 0
  /\ \E bits \in I16Bits :
       /\ coding' = <<"i16", bits>>
       /\ x' = decoded.x
       /\ room' = FixedLength(Len(decoded.x), bits)
       /\ encoded' = trim_i16_encode(decoded.x, room', bits)
  /\ input' = <<>> /\ decoded' = Rejected

CodecNext == AskLength \/ Write \/ ReadBack \/ Receive \/ ConvertToCT

CodecSpec == CodecInit /\ [][CodecNext]_codecVars

----------------------------------------------------------------------------
(* Properties.                                                             *)

(* What the encoders of the signature and key formats write is read back   *)
(* as it was, from exactly the bytes written, whatever follows; without    *)
(* its last byte it is refused.  So no element ever pushes bits out of the *)
(* accumulator.  The two-byte format of signatures holds only elements     *)
(* below MaxAbs, and that of keys is centred when it is read.              *)
RoundTrip ==
  (x # <<>> /\ input # <<>>) =>
    IF Len(input) < encoded.len THEN decoded = Rejected
    ELSE (coding[1] = "ep_comp" => AllIn(x, MaxAbs - q .. MaxAbs - 1)) =>
           /\ decoded.len = encoded.len
           /\ decoded.x = IF coding[1] = "ep_modq"
                          THEN [u \in DOMAIN x |-> Centred16(x[u]) % 2 ^ (2 * ByteBits)]
                          ELSE x

(* A vector has one encoding: every string a decoder of codec.c accepts is *)
(* what the encoder writes for the result.                                 *)
OneEncoding ==
  (input # <<>> /\ decoded.len > 0 /\ coding[1] \in {"modq", "comp", "i8", "i16"}) =>
    /\ encoded.len = decoded.len
    /\ encoded.bytes = SubSeq(input, 1, decoded.len)

(* The length asked for is the room that is needed: with less the encoder  *)
(* fails, and it never writes past the room it has.                        *)
RoomIsEnough ==
  (x # <<>> /\ room # Null) =>
    /\ Len(encoded.bytes) <= room
    /\ encoded.len > 0 <=>
         Encode(coding, x, Null).len > 0 /\ Encode(coding, x, Null).len <= room
    /\ encoded.len > 0 => encoded.len = Encode(coding, x, Null).len
=============================================================================
