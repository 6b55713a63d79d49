------------------------ MODULE ShakeContext_proofs ------------------------
(***************************************************************************)
(* Proofs about ShakeContext, for every rate and every cut of the input    *)
(* and the output into calls: nothing is XORed in behind the rate, and the *)
(* context implements ByteStream, that is, SHAKE256 of the whole input.    *)
(***************************************************************************)
EXTENDS ShakeContext, NumberLemmas, SequenceTheorems, TLAPS

USE RateAssumption

Blocks == SUBSET (Offsets \X Int)

Types ==
  /\ permuted \in Seq(Blocks) /\ dbuf \in Blocks
  /\ dptr \in 0 .. Rate
  /\ in \in Seq(Nat) /\ len \in Nat
  /\ phase \in {"input", "output"}
  /\ absorbed \in Seq(Nat)
  /\ Len(output) \in Nat

(* Before flip, the blocks so far are those of the input so far, and the   *)
(* last one is not full.                                                   *)
Absorbing ==
  phase = "input" =>
    /\ Len(absorbed) = Len(permuted) * Rate + dptr
    /\ dptr \in Offsets
    /\ permuted = [k \in 1 .. Len(permuted) |-> Block(absorbed, k - 1)]
    /\ dbuf = Block(absorbed, Len(permuted))
    /\ output = <<>> /\ len = 0

(* The state of SHAKE256 from which output block number j is taken.        *)
Squeezed(msg, j) == Padded(msg) \o [k \in 1 .. j |-> {}]

(* After flip, the next permutation makes the state of output block j, and *)
(* everything before that block, except what is left behind dptr, has been *)
(* delivered.                                                              *)
AtBlock(j) ==
  /\ Append(permuted, dbuf) = Squeezed(absorbed, j)
  /\ Len(output) + Rate = j * Rate + dptr
  /\ j = 0 => dptr = Rate
  /\ j # 0 => dbuf = {} /\ permuted = Squeezed(absorbed, j - 1)

Squeezing ==
  phase = "output" =>
    /\ in = <<>>
    /\ \E j \in Nat : AtBlock(j)
    /\ output = [n \in 1 .. Len(output) |-> ShakeByte(absorbed, n - 1)]

IInv == Types /\ Absorbing /\ Squeezing

----------------------------------------------------------------------------
(* Lemmas about the definition of SHAKE256.                                *)

(* The entries of a block lie inside the rate.                             *)
LEMMA BlockType ==
  ASSUME NEW msg \in Seq(Nat), NEW k \in Nat
  PROVE  Block(msg, k) \in Blocks
<1>1. ASSUME NEW i \in Offsets, k * Rate + i < Len(msg)
      PROVE  msg[k * Rate + i + 1] \in Nat
  <2>1. k * Rate \in Nat
    OBVIOUS
  <2>2. k * Rate + i + 1 \in 1 .. Len(msg)
    BY <1>1, <2>1 DEF Offsets
  <2> QED  BY <2>2, ElementOfSeq
<1> QED  BY <1>1 DEF Block, Blocks

(* A full block stays what it is when more input comes.                    *)
LEMMA BlockStays ==
  ASSUME NEW msg \in Seq(Nat), NEW more \in Seq(Nat), NEW k \in Nat,
         k * Rate + Rate <= Len(msg)
  PROVE  Block(msg \o more, k) = Block(msg, k)
<1> DEFINE base == k * Rate
           long == msg \o more
           n == Len(msg)
<1>1. base \in Nat /\ n \in Nat /\ Len(more) \in Nat /\ base + Rate <= n
  BY LenProperties
<1>2. /\ Len(long) = n + Len(more)
      /\ \A i \in 1 .. n : long[i] = msg[i]
  BY <1>1
<1>3. /\ Block(long, k) = {<<i, long[base + i + 1]>> : i \in {j \in Offsets : base + j < Len(long)}}
      /\ Block(msg, k) = {<<i, msg[base + i + 1]>> : i \in {j \in Offsets : base + j < n}}
  BY DEF Block
<1> HIDE DEF base, long, n
<1>4. {j \in Offsets : base + j < Len(long)} = Offsets
  BY <1>1, <1>2 DEF Offsets
<1>5. {j \in Offsets : base + j < n} = Offsets
  BY <1>1 DEF Offsets
<1>6. ASSUME NEW i \in Offsets
      PROVE  long[base + i + 1] = msg[base + i + 1]
  <2>1. base + i + 1 \in 1 .. n
    BY <1>1 DEF Offsets
  <2> QED  BY <1>2, <2>1
<1>7. Block(long, k) = Block(msg, k)
  BY <1>3, <1>4, <1>5, <1>6
<1> QED  BY <1>7 DEF long

(* The message ends at offset d of block number m.                         *)
EndsAt(msg, m, d) == m \in Nat /\ d \in Offsets /\ Len(msg) = m * Rate + d

(* The last block takes what inject adds behind its end.                   *)
LEMMA BlockGrows ==
  ASSUME NEW msg \in Seq(Nat), NEW more \in Seq(Nat), NEW m, NEW d,
         EndsAt(msg, m, d), d + Len(more) <= Rate
  PROVE  Block(msg \o more, m)
           = Block(msg, m) \cup {<<d + i - 1, more[i]>> : i \in 1 .. Len(more)}
<1> DEFINE base == m * Rate
           long == msg \o more
           n == Len(msg)
           c == Len(more)
<1>1. base \in Nat /\ n \in Nat /\ n = base + d /\ c \in Nat /\ d \in Nat /\ d + c <= Rate
      /\ d < Rate
  BY LenProperties DEF Offsets, EndsAt
<1>2. /\ Len(long) = n + c
      /\ \A i \in 1 .. n : long[i] = msg[i]
      /\ \A i \in 1 .. c : long[n + i] = more[i]
  BY ONLY msg \in Seq(Nat), more \in Seq(Nat), ConcatElements
<1>3. /\ Block(long, m) = {<<i, long[base + i + 1]>> : i \in {j \in Offsets : base + j < Len(long)}}
      /\ Block(msg, m) = {<<i, msg[base + i + 1]>> : i \in {j \in Offsets : base + j < n}}
  BY DEF Block
<1> HIDE DEF base, long, n, c
<1>4. {j \in Offsets : base + j < Len(long)} = 0 .. d + c - 1
  BY <1>1, <1>2 DEF Offsets
<1>5. {j \in Offsets : base + j < n} = 0 .. d - 1
  BY <1>1 DEF Offsets
<1>6. ASSUME NEW i \in 0 .. d - 1
      PROVE  long[base + i + 1] = msg[base + i + 1]
  <2>1. base + i + 1 \in 1 .. n
    BY <1>1
  <2> QED  BY <1>2, <2>1
<1>7. ASSUME NEW i \in 1 .. c
      PROVE  long[base + (d + i - 1) + 1] = more[i] /\ d + i - 1 \in 0 .. d + c - 1
  <2>1. base + (d + i - 1) + 1 = n + i
    BY <1>1
  <2> QED  BY <1>1, <1>2, <2>1
<1>8. Block(long, m) = Block(msg, m) \cup {<<d + i - 1, more[i]>> : i \in 1 .. c}
  <2>1. ASSUME NEW i \in 0 .. d + c - 1
        PROVE  <<i, long[base + i + 1]>>
                 \in Block(msg, m) \cup {<<d + k - 1, more[k]>> : k \in 1 .. c}
    <3>1. CASE i < d
      <4>1. i \in 0 .. d - 1
        BY <1>1, <3>1
      <4> QED  BY <1>3, <1>5, <1>6, <4>1
    <3>2. CASE i >= d
      <4> DEFINE k == i - d + 1
      <4>1. k \in 1 .. c /\ d + k - 1 = i
        BY <1>1, <3>2
      <4> HIDE DEF k
      <4> QED  BY <1>7, <4>1
    <3>3. i < d \/ i >= d
      BY <1>1
    <3> QED  BY <3>1, <3>2, <3>3
  <2>2. ASSUME NEW i \in 0 .. d - 1
        PROVE  <<i, msg[base + i + 1]>> \in Block(long, m)
    <3>1. i \in 0 .. d + c - 1
      BY <1>1
    <3> QED  BY <1>3, <1>4, <1>6, <3>1
  <2>3. ASSUME NEW i \in 1 .. c
        PROVE  <<d + i - 1, more[i]>> \in Block(long, m)
    BY <1>3, <1>4, <1>7
  <2> QED  BY <1>3, <1>4, <1>5, <2>1, <2>2, <2>3
<1> QED  BY <1>8 DEF long, c

(* The padded message, from the length of the message in blocks and bytes. *)
LEMMA PaddedForm ==
  ASSUME NEW msg, NEW m \in Nat, NEW d \in Offsets, Len(msg) = m * Rate + d
  PROVE  Padded(msg) = [k \in 1 .. m + 1 |->
           IF k <= m THEN Block(msg, k - 1)
           ELSE Block(msg, m) \cup {<<d, Pad1F>>, <<Rate - 1, Pad80>>}]
<1>1. Len(msg) \div Rate = m /\ Len(msg) % Rate = d
  BY QuotientUnique DEF Offsets
<1> QED  BY <1>1 DEF Padded

(* The byte at offset r of output block j.                                 *)
LEMMA ShakeByteAt ==
  ASSUME NEW msg, NEW j \in Nat, NEW r \in Offsets
  PROVE  ShakeByte(msg, j * Rate + r) = <<Squeezed(msg, j), r>>
<1>1. (j * Rate + r) \div Rate = j /\ (j * Rate + r) % Rate = r
  BY QuotientUnique DEF Offsets
<1> QED  BY <1>1 DEF ShakeByte, Squeezed

(* The padded message is a sequence, which permutations without input      *)
(* extend.                                                                 *)
LEMMA SqueezedGrows ==
  ASSUME NEW msg \in Seq(Nat), NEW j \in Nat
  PROVE  /\ Squeezed(msg, 0) = Padded(msg)
         /\ Squeezed(msg, j) \in Seq(Blocks)
         /\ Append(Squeezed(msg, j), {}) = Squeezed(msg, j + 1)
<1> DEFINE m == Len(msg) \div Rate
           d == Len(msg) % Rate
<1>1. m \in Nat /\ d \in Offsets
  BY QuotientRemainder, LenProperties DEF Offsets
<1>2. Padded(msg) \in Seq(Blocks)
  <2> DEFINE P == [k \in 1 .. m + 1 |->
           IF k <= m THEN Block(msg, k - 1)
           ELSE Block(msg, m) \cup {<<d, Pad1F>>, <<Rate - 1, Pad80>>}]
  <2>1. Padded(msg) = P
    BY DEF Padded
  <2> HIDE DEF m, d
  <2>2. ASSUME NEW k \in 1 .. m + 1
        PROVE  P[k] \in Blocks
    <3>1. k - 1 \in Nat
      OBVIOUS
    <3>2. {<<d, Pad1F>>, <<Rate - 1, Pad80>>} \in Blocks
      BY <1>1 DEF Blocks, Offsets, Pad1F, Pad80
    <3>3. \A A, B \in Blocks : A \cup B \in Blocks
      BY DEF Blocks
    <3>4. Block(msg, k - 1) \in Blocks /\ Block(msg, m) \in Blocks
      BY <1>1, <3>1, BlockType
    <3> QED  BY <3>2, <3>3, <3>4
  <2>3. m + 1 \in Nat
    BY <1>1
  <2>4. P \in [1 .. m + 1 -> Blocks]
    BY <2>2
  <2> HIDE DEF P
  <2> QED  BY <2>1, <2>3, <2>4, SeqDef
<1> DEFINE none == [k \in 1 .. j |-> {}]
           more == [k \in 1 .. j + 1 |-> {}]
<1>3. none \in Seq(Blocks) /\ more \in Seq(Blocks) /\ {} \in Blocks
  BY DEF Blocks
<1>4. Squeezed(msg, 0) = Padded(msg)
  BY <1>2 DEF Squeezed
<1>5. Append(none, {}) = more
  BY <1>3
<1>6. Squeezed(msg, j) = Padded(msg) \o none /\ Squeezed(msg, j + 1) = Padded(msg) \o more
  BY DEF Squeezed
<1> HIDE DEF none, more
<1>7. Append(Padded(msg) \o none, {}) = Padded(msg) \o Append(none, {})
  <2>1. Padded(msg) \o none \in Seq(Blocks)
    BY <1>2, <1>3, ConcatProperties
  <2>2. <<{}>> \in Seq(Blocks)
    BY <1>3
  <2>3. Append(Padded(msg) \o none, {}) = (Padded(msg) \o none) \o <<{}>>
    BY <1>3, <2>1, AppendIsConcat
  <2>4. Append(none, {}) = none \o <<{}>>
    BY <1>3, AppendIsConcat
  <2>5. (Padded(msg) \o none) \o <<{}>> = Padded(msg) \o (none \o <<{}>>)
    <3>1. none \in Seq(Blocks)
      BY <1>3
    <3> QED  BY <1>2, <2>2, <3>1, ConcatAssociative
  <2> QED  BY <2>3, <2>4, <2>5
<1>8. Append(Squeezed(msg, j), {}) = Squeezed(msg, j + 1)
  BY <1>5, <1>6, <1>7
<1>9. Squeezed(msg, j) \in Seq(Blocks)
  BY <1>2, <1>3, <1>6, ConcatProperties
<1> QED  BY <1>4, <1>8, <1>9

----------------------------------------------------------------------------
(* What one iteration of inject's loop does to the input.                  *)
LEMMA ChunkTaken ==
  ASSUME Types, in # <<>>, dptr \in Offsets,
         NEW clen, clen = Minimum(Rate - dptr, Len(in))
  PROVE  LET more == SubSeq(in, 1, clen)
         IN  /\ clen \in 1 .. Rate - dptr /\ clen <= Len(in)
             /\ more \in Seq(Nat) /\ Len(more) = clen
             /\ \A i \in 1 .. clen : more[i] = in[i] /\ in[i] \in Nat
             /\ SubSeq(in, clen + 1, Len(in)) \in Seq(Nat)
<1>1. in \in Seq(Nat) /\ Len(in) \in Nat \ {0}
  BY EmptySeq DEF Types
<1>2. clen \in 1 .. Rate - dptr /\ clen \in 1 .. Len(in)
  BY <1>1 DEF Minimum, Offsets
<1>3. \A i \in 1 .. Len(in) : in[i] \in Nat
  BY <1>1, ElementOfSeq
<1>4. /\ SubSeq(in, 1, clen) \in Seq(Nat) /\ Len(SubSeq(in, 1, clen)) = clen
      /\ \A i \in 1 .. clen : SubSeq(in, 1, clen)[i] = in[i]
  BY <1>1, <1>2, <1>3
<1>5. SubSeq(in, clen + 1, Len(in)) \in Seq(Nat)
  BY <1>1, <1>2, <1>3, SubSeqProperties
<1> QED  BY <1>2, <1>3, <1>4, <1>5

(* One iteration of inject's loop keeps the blocks those of the input.     *)
LEMMA InjectChunkContinues ==
  ASSUME Types, Absorbing, phase = "input", InjectChunk
  PROVE  /\ Types' /\ Absorbing'
         /\ \E more \in Seq(Nat) : absorbed' = absorbed \o more
<1> DEFINE clen  == Minimum(Rate - dptr, Len(in))
           more  == SubSeq(in, 1, clen)
           block == dbuf \cup {<<dptr + i - 1, in[i]>> : i \in 1 .. clen}
           m     == Len(permuted)
<1>1. /\ in # <<>>
      /\ dptr + clen = Rate =>
           permuted' = Append(permuted, block) /\ dbuf' = {} /\ dptr' = 0
      /\ dptr + clen # Rate =>
           dbuf' = block /\ dptr' = dptr + clen /\ permuted' = permuted
      /\ absorbed' = absorbed \o more
      /\ in' = SubSeq(in, clen + 1, Len(in))
      /\ UNCHANGED <<len, phase, output>>
  BY DEF InjectChunk
<1>2. /\ Len(absorbed) = m * Rate + dptr /\ dptr \in Offsets
      /\ permuted = [k \in 1 .. m |-> Block(absorbed, k - 1)]
      /\ dbuf = Block(absorbed, m)
      /\ output = <<>> /\ len = 0
      /\ absorbed \in Seq(Nat) /\ permuted \in Seq(Blocks) /\ m \in Nat
  BY LenProperties DEF Absorbing, Types
<1>3. /\ clen \in 1 .. Rate - dptr
      /\ more \in Seq(Nat) /\ Len(more) = clen
      /\ \A i \in 1 .. clen : more[i] = in[i]
      /\ in' \in Seq(Nat)
  BY <1>1, <1>2, ChunkTaken
<1>4. block = Block(absorbed', m)
  <2>1. block = Block(absorbed, m) \cup {<<dptr + i - 1, more[i]>> : i \in 1 .. Len(more)}
    <3> HIDE DEF clen, more, m
    <3>1. {<<dptr + i - 1, in[i]>> : i \in 1 .. clen}
            = {<<dptr + i - 1, more[i]>> : i \in 1 .. Len(more)}
      BY <1>3
    <3> QED  BY <1>2, <3>1
  <2>2. dptr + Len(more) <= Rate
    BY <1>2, <1>3 DEF Offsets
  <2>3. /\ absorbed' = absorbed \o more /\ absorbed \in Seq(Nat) /\ more \in Seq(Nat)
        /\ m \in Nat /\ dptr \in Offsets /\ Len(absorbed) = m * Rate + dptr
    BY <1>1, <1>2, <1>3
  <2> HIDE DEF clen, more, block, m
  <2>4. EndsAt(absorbed, m, dptr)
    BY <2>3 DEF EndsAt
  <2>5. Block(absorbed \o more, m)
          = Block(absorbed, m) \cup {<<dptr + i - 1, more[i]>> : i \in 1 .. Len(more)}
    BY <2>2, <2>3, <2>4, BlockGrows
  <2> QED  BY <2>1, <2>3, <2>5
<1>5. absorbed' \in Seq(Nat) /\ Len(absorbed') = Len(absorbed) + clen
  <2>1. absorbed' = absorbed \o more /\ absorbed \in Seq(Nat) /\ more \in Seq(Nat)
    BY <1>1, <1>2, <1>3
  <2> HIDE DEF clen, more
  <2> QED  BY <1>3, <2>1, ConcatProperties
<1>6. permuted = [k \in 1 .. m |-> Block(absorbed', k - 1)]
  <2>1. ASSUME NEW k \in 1 .. m
        PROVE  Block(absorbed', k - 1) = Block(absorbed, k - 1)
    <3>1. k - 1 \in Nat /\ (k - 1) * Rate + Rate = k * Rate
      BY <1>2
    <3>2. k * Rate <= m * Rate
      <4>1. m \in Nat
        BY <1>2
      <4> HIDE DEF m
      <4>2. k \in Nat /\ (k < m \/ k = m)
        BY <4>1
      <4>3. k < m => k * Rate + Rate <= m * Rate
        BY <1>2, <4>2, MultipleAbove
      <4>4. k * Rate \in Nat /\ m * Rate \in Nat
        BY <1>2, <4>2
      <4> QED  BY <4>2, <4>3, <4>4
    <3> DEFINE a == k * Rate
               b == m * Rate
               z == (k - 1) * Rate
    <3>3. a \in Nat /\ b \in Nat /\ z \in Nat
      BY <1>2, <3>1
    <3>4. Len(absorbed) = b + dptr /\ dptr \in Nat /\ a <= b /\ z + Rate = a
      BY <1>2, <3>1, <3>2 DEF Offsets
    <3>5. z + Rate <= Len(absorbed)
      <4> HIDE DEF a, b, z
      <4> QED  BY <3>3, <3>4
    <3> HIDE DEF clen, more, m
    <3> QED  BY <1>1, <1>2, <1>3, <3>1, <3>5, BlockStays
  <2> HIDE DEF m
  <2> QED  BY <1>2, <2>1
<1>7. block \in Blocks
  <2> HIDE DEF block, m
  <2> QED  BY <1>2, <1>4, <1>5, BlockType
<1> HIDE DEF block, clen, more
<1>8. CASE dptr + clen = Rate
  <2>1. permuted' = Append(permuted, block) /\ dbuf' = {} /\ dptr' = 0
    BY <1>1, <1>8
  <2>2. permuted' \in Seq(Blocks) /\ Len(permuted') = m + 1
    BY <1>2, <1>7, <2>1, AppendProperties
  <2>3. permuted' = [k \in 1 .. m + 1 |-> Block(absorbed', k - 1)]
    <3> DEFINE f == [k \in Nat |-> Block(absorbed', k - 1)]
    <3>1. Append([k \in 1 .. m |-> f[k]], f[m + 1]) = [k \in 1 .. m + 1 |-> f[k]]
      <4> HIDE DEF f, m
      <4> QED  BY <1>2, AppendAtEnd
    <3>2. /\ f[m + 1] = Block(absorbed', m)
          /\ \A k \in 1 .. m : f[k] = Block(absorbed', k - 1)
          /\ \A k \in 1 .. m + 1 : f[k] = Block(absorbed', k - 1)
      <4>1. m + 1 \in Nat /\ m + 1 - 1 = m
        BY <1>2
      <4> HIDE DEF m
      <4> QED  BY <1>2, <4>1
    <3> HIDE DEF f, m
    <3> QED  BY <1>4, <1>6, <2>1, <3>1, <3>2
  <2>4. Len(absorbed') = (m + 1) * Rate + 0
    <3>1. (m + 1) * Rate = m * Rate + Rate
      BY <1>2
    <3> DEFINE a == m * Rate
    <3>2. a \in Nat /\ Len(absorbed) = a + dptr /\ dptr \in Nat /\ clen \in Nat
      BY <1>2, <1>3 DEF Offsets
    <3>3. Len(absorbed') = a + Rate
      <4> HIDE DEF a
      <4> QED  BY <1>5, <1>8, <3>2
    <3> QED  BY <1>2, <3>1, <3>3
  <2>5. Block(absorbed', m + 1) = {}
    <3> DEFINE a == (m + 1) * Rate
    <3>1. a \in Nat /\ Len(absorbed') = a
      BY <1>2, <2>4
    <3>2. {j \in Offsets : a + j < Len(absorbed')} = {}
      <4> HIDE DEF a
      <4> QED  BY <3>1 DEF Offsets
    <3> QED  BY <3>2 DEF Block
  <2>6. Types'
    BY <1>1, <1>3, <1>5, <2>1, <2>2 DEF Types, Blocks
  <2>7. Absorbing'
    <3>1. 0 \in Offsets
      BY DEF Offsets
    <3> HIDE DEF m
    <3> QED  BY <1>1, <1>2, <2>1, <2>2, <2>3, <2>4, <2>5, <3>1 DEF Absorbing
  <2> QED  BY <1>1, <1>3, <2>6, <2>7
<1>9. CASE dptr + clen # Rate
  <2>1. dbuf' = block /\ dptr' = dptr + clen /\ permuted' = permuted
    BY <1>1, <1>9
  <2>2. dptr + clen \in Offsets
    BY <1>2, <1>3, <1>9 DEF Offsets
  <2>3. Len(absorbed') = m * Rate + dptr'
    <3> DEFINE a == m * Rate
    <3>1. a \in Nat /\ Len(absorbed) = a + dptr /\ dptr \in Nat /\ clen \in Nat
      BY <1>2, <1>3 DEF Offsets
    <3> HIDE DEF a
    <3>2. Len(absorbed') = a + dptr'
      BY <1>5, <2>1, <3>1
    <3> QED  BY <3>2 DEF a
  <2>4. Types'
    <3>1. Offsets \subseteq 0 .. Rate
      BY DEF Offsets
    <3> QED  BY <1>1, <1>2, <1>3, <1>5, <1>7, <2>1, <2>2, <3>1 DEF Types
  <2>5. Absorbing'
    <3> HIDE DEF m
    <3>1. Len(permuted') = m /\ output' = <<>> /\ len' = 0 /\ phase' = "input"
      BY <1>1, <1>2, <2>1 DEF m
    <3> QED  BY <1>4, <1>6, <2>1, <2>2, <2>3, <3>1 DEF Absorbing
  <2> QED  BY <1>1, <1>3, <2>4, <2>5
<1> QED  BY <1>8, <1>9

(* flip completes the padded input.                                        *)
LEMMA FlipPads ==
  ASSUME Types, Absorbing, Flip
  PROVE  Types' /\ AtBlock(0)' /\ output = <<>> /\ output' = <<>> /\ in' = <<>>
<1> DEFINE m == Len(permuted)
           last == Block(absorbed, m) \cup {<<dptr, Pad1F>>, <<Rate - 1, Pad80>>}
           f == [k \in Nat |-> IF k <= m THEN Block(absorbed, k - 1) ELSE last]
<1>1. /\ phase = "input" /\ in = <<>> /\ len = 0
      /\ dbuf' = dbuf \cup {<<dptr, Pad1F>>, <<Rate - 1, Pad80>>}
      /\ dptr' = Rate /\ phase' = "output"
      /\ UNCHANGED <<permuted, in, len, absorbed, output>>
  BY DEF Flip, Idle
<1>2. /\ Len(absorbed) = m * Rate + dptr /\ dptr \in Offsets
      /\ permuted = [k \in 1 .. m |-> Block(absorbed, k - 1)]
      /\ dbuf = Block(absorbed, m) /\ output = <<>>
      /\ absorbed \in Seq(Nat) /\ permuted \in Seq(Blocks) /\ m \in Nat /\ dbuf \in Blocks
  BY <1>1, LenProperties DEF Absorbing, Types
<1>3. Padded(absorbed) = [k \in 1 .. m + 1 |->
           IF k <= m THEN Block(absorbed, k - 1) ELSE last]
  <2> HIDE DEF m
  <2> QED  BY <1>2, PaddedForm
<1>4. dbuf' = last
  BY <1>1, <1>2
<1>5. Append(permuted, last) = Padded(absorbed)
  <2> HIDE DEF m, last
  <2>1. /\ m + 1 \in Nat /\ f[m + 1] = last
        /\ \A k \in 1 .. m : f[k] = Block(absorbed, k - 1)
        /\ \A k \in 1 .. m + 1 : f[k] = IF k <= m THEN Block(absorbed, k - 1) ELSE last
    BY <1>2
  <2> HIDE DEF f
  <2>2. Append([k \in 1 .. m |-> f[k]], f[m + 1]) = [k \in 1 .. m + 1 |-> f[k]]
    BY <1>2, AppendAtEnd
  <2>3. permuted = [k \in 1 .. m |-> f[k]]
    BY <1>2, <2>1
  <2>4. Padded(absorbed) = [k \in 1 .. m + 1 |-> f[k]]
    BY <1>3, <2>1
  <2> QED  BY <2>1, <2>2, <2>3, <2>4
<1>6. dbuf' \in Blocks
  <2>1. {<<dptr, Pad1F>>, <<Rate - 1, Pad80>>} \in Blocks
    BY <1>2 DEF Blocks, Offsets, Pad1F, Pad80
  <2> QED  BY <1>1, <1>2, <2>1 DEF Blocks
<1>7. Types'
  BY <1>1, <1>6 DEF Types
<1>8. AtBlock(0)'
  <2>1. Append(permuted', dbuf') = Squeezed(absorbed', 0)
    BY <1>1, <1>2, <1>4, <1>5, SqueezedGrows
  <2> HIDE DEF m, last
  <2> QED  BY <1>1, <1>2, <2>1 DEF AtBlock
<1> QED  BY <1>1, <1>2, <1>7, <1>8

(* Bytes of output block j, taken at the offset where the output ends,     *)
(* continue the stream.                                                    *)
LEMMA StreamContinues ==
  ASSUME Types, NEW j \in Nat, NEW r \in Offsets, NEW c \in Nat, r + c <= Rate,
         Len(output) = j * Rate + r,
         output = [n \in 1 .. Len(output) |-> ShakeByte(absorbed, n - 1)],
         output' = output \o [i \in 1 .. c |-> <<Squeezed(absorbed, j), r + i - 1>>]
  PROVE  /\ Len(output') = Len(output) + c
         /\ output' = [n \in 1 .. Len(output) + c |-> ShakeByte(absorbed, n - 1)]
<1> DEFINE m == Len(output)
           base == j * Rate
           f == [n \in Nat |-> ShakeByte(absorbed, n - 1)]
<1>1. /\ m \in Nat /\ m = base + r /\ base \in Nat /\ r \in Nat
  BY DEF Types, Offsets
<1>2. ASSUME NEW i \in 1 .. c
      PROVE  f[m + i] = <<Squeezed(absorbed, j), r + i - 1>>
  <2>1. m + i \in Nat /\ r + i - 1 \in Offsets
    BY <1>1 DEF Offsets
  <2>2. f[m + i] = ShakeByte(absorbed, m + i - 1)
    BY <2>1
  <2>3. ShakeByte(absorbed, base + (r + i - 1)) = <<Squeezed(absorbed, j), r + i - 1>>
    BY <2>1, ShakeByteAt
  <2>4. m + i - 1 = base + (r + i - 1)
    <3> HIDE DEF base, m
    <3> QED  BY <1>1
  <2> QED  BY <2>2, <2>3, <2>4
<1>3. \A n \in 1 .. m + c : f[n] = ShakeByte(absorbed, n - 1)
  <2> HIDE DEF m
  <2> QED  BY <1>1
<1>4. output = [n \in 1 .. m |-> ShakeByte(absorbed, n - 1)]
  OBVIOUS
<1> HIDE DEF f, m, base
<1>5. output = [n \in 1 .. m |-> f[n]]
  <2>1. \A n \in 1 .. m : n \in 1 .. m + c
    BY <1>1
  <2> QED  BY <1>3, <1>4, <2>1
<1>6. output' = [n \in 1 .. m |-> f[n]] \o [i \in 1 .. c |-> f[m + i]]
  BY <1>2, <1>5
<1>7. output' = [n \in 1 .. m + c |-> f[n]]
  <2>1. [n \in 1 .. m |-> f[n]] \o [i \in 1 .. c |-> f[m + i]] = [n \in 1 .. m + c |-> f[n]]
    BY <1>1, GrowAtEnd
  <2> QED  BY <1>6, <2>1
<1>8. output' = [n \in 1 .. m + c |-> ShakeByte(absorbed, n - 1)]
  BY <1>3, <1>7
<1>9. Len(output') = m + c
  <2>1. m + c \in Nat
    BY <1>1
  <2>2. Len([n \in 1 .. m + c |-> f[n]]) = m + c
    BY ONLY <2>1
  <2> QED  BY <1>7, <2>2
<1> QED  BY <1>8, <1>9 DEF m

(* One iteration of extract's loop delivers what comes next.               *)
LEMMA ExtractChunkContinues ==
  ASSUME IInv, ExtractChunk
  PROVE  /\ IInv' /\ phase = "output" /\ Len(output) <= Len(output')
         /\ output' = [n \in 1 .. Len(output') |-> ShakeByte(absorbed, n - 1)]
<1> DEFINE usedUp == dptr = Rate
           state  == IF usedUp THEN Append(permuted, dbuf) ELSE permuted
           first  == IF usedUp THEN 0 ELSE dptr
           clen   == Minimum(Rate - first, len)
<1>1. /\ len > 0 /\ permuted' = state
      /\ dbuf' = IF usedUp THEN {} ELSE dbuf
      /\ output' = output \o [i \in 1 .. clen |-> <<state, first + i - 1>>]
      /\ dptr' = first + clen /\ len' = len - clen
      /\ UNCHANGED <<in, phase, absorbed>>
  BY DEF ExtractChunk
<1>2. phase = "output" /\ Types
  BY <1>1 DEF IInv, Types, Absorbing
<1>3. PICK j \in Nat : AtBlock(j)
  BY <1>2 DEF IInv, Squeezing
<1>4. /\ first \in Offsets /\ clen \in Nat /\ first + clen <= Rate /\ clen <= len
  BY <1>1, <1>2 DEF Types, Minimum, Offsets
<1>5. PICK k \in Nat : state = Squeezed(absorbed, k) /\ Len(output) = k * Rate + first
                       /\ dbuf' = {}
  <2>1. CASE usedUp
    <3>1. Len(output) + Rate = j * Rate + Rate /\ Len(output) \in Nat /\ j * Rate \in Nat
      BY <1>2, <1>3, <2>1 DEF AtBlock, Types
    <3> DEFINE a == j * Rate
    <3>2. Len(output) = a + 0
      <4> HIDE DEF a
      <4> QED  BY <3>1 DEF a
    <3> QED  BY <1>1, <1>3, <2>1, <3>2 DEF AtBlock
  <2>2. CASE ~usedUp
    <3>1. j # 0
      BY <1>3, <2>2 DEF AtBlock
    <3>2. j - 1 \in Nat /\ j * Rate = (j - 1) * Rate + Rate
      BY <3>1
    <3> DEFINE a == j * Rate
               b == (j - 1) * Rate
    <3>3. a \in Nat /\ b \in Nat /\ Len(output) \in Nat /\ Len(output) + Rate = a + dptr
      BY <1>2, <1>3, <3>2 DEF AtBlock, Types
    <3>4. Len(output) = b + dptr
      <4>1. a = b + Rate /\ dptr \in Nat
        BY <1>2, <3>2 DEF Types
      <4> HIDE DEF a, b
      <4> QED  BY <3>3, <4>1
    <3> QED  BY <1>1, <1>3, <2>2, <3>1, <3>2, <3>4 DEF AtBlock
  <2> QED  BY <2>1, <2>2
<1> HIDE DEF usedUp, state, first, clen
<1>6. /\ Len(output') = Len(output) + clen
      /\ output' = [n \in 1 .. Len(output) + clen |-> ShakeByte(absorbed, n - 1)]
  <2>1. output = [n \in 1 .. Len(output) |-> ShakeByte(absorbed, n - 1)]
    BY <1>2 DEF IInv, Squeezing
  <2>2. output' = output \o [i \in 1 .. clen |-> <<Squeezed(absorbed, k), first + i - 1>>]
    BY <1>1, <1>5
  <2> QED  BY <1>2, <1>4, <1>5, <2>1, <2>2, StreamContinues
<1>7. AtBlock(k + 1)'
  <2>1. k + 1 \in Nat \ {0} /\ k + 1 - 1 = k
    OBVIOUS
  <2>2. Append(permuted', dbuf') = Squeezed(absorbed', k + 1)
    BY <1>1, <1>2, <1>5, SqueezedGrows DEF Types
  <2>3. Len(output') + Rate = (k + 1) * Rate + dptr'
    <3>1. (k + 1) * Rate = k * Rate + Rate
      OBVIOUS
    <3> DEFINE a == k * Rate
               b == (k + 1) * Rate
    <3>2. /\ a \in Nat /\ Len(output) = a + first /\ b = a + Rate
          /\ first \in Nat
      BY <1>4, <1>5, <3>1 DEF Offsets
    <3> HIDE DEF a, b
    <3>3. Len(output') = Len(output) + clen /\ dptr' = first + clen /\ clen \in Nat
      BY <1>1, <1>4, <1>6
    <3>4. Len(output') + Rate = b + dptr'
      BY <3>2, <3>3
    <3> QED  BY <3>4 DEF b
  <2>4. permuted' = Squeezed(absorbed', k + 1 - 1) /\ dbuf' = {} /\ k + 1 # 0
    BY <1>1, <1>5, <2>1
  <2> QED  BY <2>2, <2>3, <2>4 DEF AtBlock
<1>8. Types'
  <2>1. state \in Seq(Blocks) /\ {} \in Blocks
    BY <1>2, <1>5, SqueezedGrows DEF Types, Blocks
  <2>2. len' \in Nat /\ dptr' \in 0 .. Rate /\ Len(output') \in Nat
    BY <1>1, <1>2, <1>4, <1>6 DEF Types, Offsets
  <2> QED  BY <1>1, <1>2, <1>5, <2>1, <2>2 DEF Types
<1>9. Squeezing'
  <2>1. k + 1 \in Nat
    OBVIOUS
  <2> QED  BY <1>1, <1>2, <1>6, <1>7, <2>1 DEF IInv, Squeezing
<1>10. Absorbing'
  BY <1>1, <1>2 DEF Absorbing
<1>11. Len(output) <= Len(output')
  BY <1>2, <1>4, <1>6 DEF Types
<1> QED  BY <1>2, <1>6, <1>8, <1>9, <1>10, <1>11 DEF IInv

----------------------------------------------------------------------------
(* inject is given n bytes.                                                *)
LEMMA InjectStarts ==
  ASSUME Types, NEW n \in 1 .. MaxCall, Inject(n)
  PROVE  Types'
<1>1. n \in Nat /\ Len(absorbed) \in Nat
  BY BoundAssumption, LenProperties DEF Types
<1>2. [i \in 1 .. n |-> Len(absorbed) + i] \in Seq(Nat)
  BY <1>1
<1> QED  BY <1>2 DEF Inject, Types

(* The inductive invariant holds in every state.                           *)
LEMMA Invariance == Spec => []IInv
<1>1. Init => IInv
  <2> SUFFICES ASSUME Init
               PROVE  IInv
    OBVIOUS
  <2>1. Types /\ Len(permuted) = 0 /\ Len(absorbed) = 0
    BY DEF Init, Types, Blocks
  <2>2. Block(absorbed, 0) = {}
    BY <2>1 DEF Block, Offsets
  <2>3. Absorbing /\ Squeezing
    BY <2>1, <2>2 DEF Init, Absorbing, Squeezing, Offsets
  <2> QED  BY <2>1, <2>3 DEF IInv
<1>2. IInv /\ [Next]_vars => IInv'
  <2> SUFFICES ASSUME IInv, [Next]_vars
               PROVE  IInv'
    OBVIOUS
  <2>1. CASE Initialize
    <3>1. Types' /\ Len(permuted') = 0 /\ Len(absorbed') = 0 /\ phase' = "input"
      BY <2>1 DEF IInv, Types, Blocks, Initialize
    <3>2. Block(absorbed', 0) = {}
      BY <3>1 DEF Block, Offsets
    <3>3. Absorbing' /\ Squeezing'
      BY <2>1, <3>1, <3>2 DEF Initialize, Idle, Absorbing, Squeezing, Offsets
    <3> QED  BY <3>1, <3>3 DEF IInv
  <2>2. ASSUME NEW n \in 1 .. MaxCall, Inject(n)
        PROVE  IInv'
    <3>1. Types'
      BY <2>2, InjectStarts DEF IInv
    <3>2. phase = "input" /\ UNCHANGED <<permuted, dbuf, dptr, len, phase, absorbed, output>>
      BY <2>2 DEF Inject
    <3>3. Absorbing' /\ Squeezing'
      BY <3>2 DEF IInv, Absorbing, Squeezing
    <3> QED  BY <3>1, <3>3 DEF IInv
  <2>3. CASE InjectChunk
    <3>1. phase = "input"
      BY <2>3 DEF InjectChunk, IInv, Types, Squeezing
    <3>2. Types' /\ Absorbing'
      BY <2>3, <3>1, InjectChunkContinues DEF IInv
    <3>3. phase' = "input"
      BY <2>3, <3>1 DEF InjectChunk
    <3> QED  BY <3>2, <3>3 DEF IInv, Squeezing
  <2>4. CASE Flip
    <3>1. Types' /\ AtBlock(0)' /\ output' = <<>> /\ in' = <<>>
      BY <2>4, FlipPads DEF IInv
    <3>2. phase' = "output" /\ Len(output') = 0
      BY <2>4, <3>1 DEF Flip
    <3>3. output' = [n \in 1 .. Len(output') |-> ShakeByte(absorbed', n - 1)]
      BY <3>1, <3>2
    <3>4. Squeezing'
      <4>1. (\E j \in Nat : AtBlock(j))'
        BY <3>1
      <4> QED  BY <3>1, <3>3, <4>1 DEF Squeezing
    <3> QED  BY <3>1, <3>2, <3>4 DEF IInv, Absorbing
  <2>5. ASSUME NEW n \in 1 .. MaxCall, Extract(n)
        PROVE  IInv'
    <3>1. phase = "output" /\ len' = n /\ n \in Nat
          /\ UNCHANGED <<permuted, dbuf, dptr, in, phase, absorbed, output>>
      BY <2>5, BoundAssumption DEF Extract
    <3>2. Types' /\ Absorbing'
      BY <3>1 DEF IInv, Types, Absorbing
    <3>3. Squeezing'
      BY <3>1 DEF IInv, Squeezing, AtBlock
    <3> QED  BY <3>2, <3>3 DEF IInv
  <2>6. CASE ExtractChunk
    BY <2>6, ExtractChunkContinues
  <2>7. CASE UNCHANGED vars
    BY <2>7 DEF vars, IInv, Types, Absorbing, Squeezing, AtBlock
  <2> QED
    BY <2>1, <2>2, <2>3, <2>4, <2>5, <2>6, <2>7 DEF Next
<1> QED  BY <1>1, <1>2, PTL DEF Spec

(* Nothing is XORed in behind the rate, and between two calls there is     *)
(* room for the padding byte, for every rate.                              *)
THEOREM InsideRateHolds == Spec => []InsideRate
<1>1. IInv => InsideRate
  <2> SUFFICES ASSUME IInv
               PROVE  InsideRate
    OBVIOUS
  <2>1. \A b \in Blocks : \A e \in b : e[1] \in Offsets
    BY DEF Blocks
  <2>2. dbuf \in Blocks /\ \A k \in 1 .. Len(permuted) : permuted[k] \in Blocks
    BY ElementOfSeq DEF IInv, Types
  <2>3. phase = "input" => dptr \in Offsets
    BY DEF IInv, Absorbing
  <2> QED  BY <2>1, <2>2, <2>3 DEF InsideRate
<1> QED  BY <1>1, Invariance, PTL

(* i_shake256_* implement a byte stream: what extract delivers is SHAKE256 *)
(* of what was injected, by its definition on the whole input, for every   *)
(* cut of the input and the output into calls, also across block ends,     *)
(* for an empty input and after a re-initialization.                       *)
THEOREM Refinement == Spec => ImplementsStream
<1>1. Init => Stream!Fresh
  BY DEF Init, Stream!Fresh
<1>2. IInv /\ IInv' /\ [Next]_vars => [Stream!Next]_(Stream!vars)
  <2> SUFFICES ASSUME IInv, IInv', [Next]_vars
               PROVE  [Stream!Next]_(Stream!vars)
    OBVIOUS
  <2> USE DEF Stream!vars
  <2>1. CASE Initialize
    BY <2>1 DEF Initialize, Stream!Next, Stream!Initialize, Stream!Fresh
  <2>2. ASSUME NEW n \in 1 .. MaxCall, Inject(n)
        PROVE  UNCHANGED Stream!vars
    BY <2>2 DEF Inject
  <2>3. CASE InjectChunk
    <3>1. phase = "input"
      BY <2>3 DEF InjectChunk, IInv, Types, Squeezing
    <3>2. PICK more \in Seq(Nat) : absorbed' = absorbed \o more
      BY <2>3, <3>1, InjectChunkContinues DEF IInv
    <3>3. absorbed \in Seq(Nat)
      BY DEF IInv, Types
    <3>4. Len(absorbed) <= Len(absorbed') /\ absorbed = SubSeq(absorbed', 1, Len(absorbed))
      BY ONLY <3>2, <3>3, more \in Seq(Nat)
    <3> QED  BY <2>3, <3>1, <3>4 DEF InjectChunk, Stream!Next, Stream!Absorb
  <2>4. CASE Flip
    BY <2>4 DEF Flip, Stream!Next, Stream!Flip
  <2>5. ASSUME NEW n \in 1 .. MaxCall, Extract(n)
        PROVE  UNCHANGED Stream!vars
    BY <2>5 DEF Extract
  <2>6. CASE ExtractChunk
    <3>1. /\ phase = "output" /\ Len(output) <= Len(output')
          /\ output' = [n \in 1 .. Len(output') |-> ShakeByte(absorbed, n - 1)]
          /\ UNCHANGED <<absorbed, phase>>
      BY <2>6, ExtractChunkContinues DEF ExtractChunk
    <3> QED  BY <3>1 DEF Stream!Next, Stream!Deliver
  <2>7. CASE UNCHANGED vars
    BY <2>7 DEF vars
  <2> QED
    BY <2>1, <2>2, <2>3, <2>4, <2>5, <2>6, <2>7 DEF Next
<1> QED  BY <1>1, <1>2, Invariance, PTL DEF Spec, ImplementsStream, Stream!Spec
=============================================================================
