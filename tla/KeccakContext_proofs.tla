------------------------ MODULE KeccakContext_proofs ------------------------
(***************************************************************************)
(* Proofs about KeccakContext, for every block size, buffer capacity and   *)
(* cut of the input and the output into calls: its types, and that it      *)
(* implements ByteStream.                                                  *)
(***************************************************************************)
EXTENDS KeccakContext, NumberLemmas, SequenceTheorems, TLAPS

USE OutputAssumption

(* Nothing has been generated before flip.                                 *)
BeforeFlip ==
  ~finalized =>
    /\ output = <<>> /\ counter = 0
    /\ outPos = 0 /\ outLen = 0 /\ len = 0

(* The state is the hash of the buffer, and out_buffer the last block      *)
(* generated from it; there is none before the first.                      *)
LastBlock ==
  finalized =>
    /\ state = buffer
    /\ outLen = 0 => counter = 0
    /\ outLen # 0 => counter # 0 /\ outBuffer = <<state, counter - 1>>

(* What the blocks so far hold is either delivered or still in out_buffer; *)
(* while a call is in its loop, out_buffer is used up.                     *)
Position ==
  /\ Len(output) = counter * Output - (outLen - outPos)
  /\ len # 0 => outPos = outLen

Delivered == output = [n \in 1 .. Len(output) |-> KeccakByte(buffer, n - 1)]

IInv ==
  /\ TypeOK /\ Len(output) \in Nat
  /\ BeforeFlip /\ LastBlock /\ Position /\ Delivered

(* The byte at offset r of block k.                                        *)
LEMMA KeccakByteAt ==
  ASSUME NEW input, NEW k \in Nat, NEW r \in 0 .. Output - 1
  PROVE  KeccakByte(input, k * Output + r) = <<<<input, k>>, r>>
BY QuotientUnique DEF KeccakByte

(* Bytes of block k, taken at the offset where the output ends, continue   *)
(* the stream.                                                             *)
LEMMA Continue ==
  ASSUME Delivered, Len(output) \in Nat, NEW k \in Nat, NEW r \in Nat, NEW c \in Nat,
         r + c <= Output, Len(output) = k * Output + r,
         output' = output \o [i \in 1 .. c |-> <<<<buffer, k>>, r + i - 1>>],
         buffer' = buffer
  PROVE  Delivered' /\ Len(output') = Len(output) + c
<1> DEFINE m == Len(output)
           base == k * Output
           f == [n \in Nat |-> KeccakByte(buffer, n - 1)]
<1>1. ASSUME NEW i \in 1 .. c
      PROVE  f[m + i] = <<<<buffer, k>>, r + i - 1>>
  <2>1. m + i \in Nat /\ m = base + r /\ base \in Nat /\ r + i - 1 \in 0 .. Output - 1
    OBVIOUS
  <2>2. f[m + i] = KeccakByte(buffer, m + i - 1)
    BY <2>1
  <2>3. KeccakByte(buffer, base + (r + i - 1)) = <<<<buffer, k>>, r + i - 1>>
    BY <2>1, KeccakByteAt
  <2>4. m + i - 1 = base + (r + i - 1)
    <3> HIDE DEF base, m
    <3> QED  BY <2>1
  <2> QED  BY <2>2, <2>3, <2>4
<1>2. output = [n \in 1 .. m |-> f[n]]
  BY DEF Delivered
<1>3. [i \in 1 .. c |-> <<<<buffer, k>>, r + i - 1>>] = [i \in 1 .. c |-> f[m + i]]
  <2> HIDE DEF f, m
  <2> QED  BY <1>1
<1>4. output' = [n \in 1 .. m + c |-> f[n]]
  <2>1. m \in Nat
    OBVIOUS
  <2> HIDE DEF f, m
  <2>2. output' = [n \in 1 .. m |-> f[n]] \o [i \in 1 .. c |-> f[m + i]]
    BY <1>2, <1>3
  <2>3. [n \in 1 .. m |-> f[n]] \o [i \in 1 .. c |-> f[m + i]] = [n \in 1 .. m + c |-> f[n]]
    BY <2>1, GrowAtEnd
  <2> QED  BY <2>2, <2>3
<1>5. Len(output') = m + c
  BY <1>4
<1>6. \A n \in 1 .. m + c : f[n] = KeccakByte(buffer, n - 1)
  <2> HIDE DEF m
  <2> QED  BY DEF f
<1>7. output' = [n \in 1 .. m + c |-> KeccakByte(buffer, n - 1)]
  <2> HIDE DEF f, m
  <2> QED  BY <1>4, <1>6
<1> QED  BY <1>5, <1>7 DEF Delivered

(* The smaller of a request and what is left exceeds neither.              *)
LEMMA MinimumBetween ==
  ASSUME NEW m \in Nat, NEW n \in Nat
  PROVE  Minimum(m, n) \in 0 .. m /\ Minimum(m, n) \in 0 .. n
BY DEF Minimum

(* Extract and one iteration of its loop continue the stream.              *)
LEMMA ExtractContinues ==
  ASSUME IInv, NEW n \in 1 .. MaxCall, Extract(n)
  PROVE  IInv' /\ Len(output) <= Len(output')
<1> DEFINE copy == IF outLen > outPos THEN Minimum(n, outLen - outPos) ELSE 0
           k == counter - 1
<1>1. /\ output' = output \o [i \in 1 .. copy |-> <<outBuffer, outPos + i - 1>>]
      /\ outPos' = outPos + copy /\ len' = n - copy /\ ret' = 0 /\ finalized
      /\ UNCHANGED <<buffer, finalized, state, counter, outBuffer, outLen>>
  BY DEF Extract
<1>2. n \in Nat /\ outPos \in Nat /\ outLen \in Nat /\ outPos <= outLen /\ counter \in Nat
  BY CapacityAssumption DEF IInv, TypeOK
<1>3. /\ copy \in 0 .. n /\ outPos + copy <= outLen
      /\ n - copy # 0 => outPos + copy = outLen
  BY <1>2 DEF Minimum
<1>4. Delivered' /\ Len(output') = Len(output) + copy
  <2>1. CASE copy = 0
    <3>1. output' = output
      BY <1>1, <2>1 DEF IInv, Delivered
    <3> QED  BY <1>1, <2>1, <3>1 DEF IInv, Delivered
  <2>2. CASE copy # 0
    <3>1. outLen = Output /\ k \in Nat /\ outBuffer = <<buffer, k>>
      BY <1>1, <1>2, <2>2 DEF IInv, TypeOK, LastBlock
    <3>2. Len(output) = k * Output + outPos
      <4>1. counter * Output = k * Output + Output
        BY <1>2
      <4>2. Len(output) = counter * Output - (Output - outPos)
        BY <3>1 DEF IInv, Position
      <4> DEFINE a == counter * Output
                 b == k * Output
      <4>3. a \in Int /\ b \in Int
        BY <1>2, <3>1
      <4> HIDE DEF a, b, k
      <4>4. a = b + Output /\ Len(output) = a - (Output - outPos)
        BY <4>1, <4>2 DEF a, b
      <4>5. Len(output) = b + outPos
        BY <1>2, <4>3, <4>4
      <4> QED  BY <4>5 DEF b
    <3>3. output' = output \o [i \in 1 .. copy |-> <<<<buffer, k>>, outPos + i - 1>>]
      BY <1>1, <3>1
    <3>4. copy \in Nat /\ outPos + copy <= Output /\ buffer' = buffer
      BY <1>1, <1>2, <1>3, <3>1
    <3> HIDE DEF copy, k
    <3> QED  BY <1>2, <3>1, <3>2, <3>3, <3>4, Continue DEF IInv
  <2> QED  BY <2>1, <2>2
<1> HIDE DEF copy, k
<1>5. Position'
  BY <1>1, <1>2, <1>3, <1>4 DEF IInv, Position
<1>6. TypeOK' /\ Len(output') \in Nat
  <2>1. TypeOK /\ Len(output) \in Nat
    BY DEF IInv
  <2>2. MaxCall \in Nat /\ len' \in 0 .. MaxCall /\ outPos' \in 0 .. outLen
    BY <1>1, <1>2, <1>3, CapacityAssumption
  <2> QED  BY <1>1, <1>3, <1>4, <2>1, <2>2 DEF TypeOK
<1>7. BeforeFlip' /\ LastBlock'
  BY <1>1 DEF IInv, BeforeFlip, LastBlock
<1> QED  BY <1>2, <1>3, <1>4, <1>5, <1>6, <1>7 DEF IInv

(* A new block starts where the last one ended, since it is only made      *)
(* when that one is used up.                                               *)
LEMMA ExtractBlockContinues ==
  ASSUME IInv, ExtractBlock
  PROVE  IInv' /\ finalized /\ Len(output) <= Len(output')
<1> DEFINE copy == Minimum(len, Output)
           next == [i \in 1 .. copy |-> <<<<buffer, counter>>, 0 + i - 1>>]
<1>1. /\ len > 0 /\ outBuffer' = <<state, counter>> /\ outLen' = Output
      /\ output' = output \o [i \in 1 .. copy |-> <<outBuffer', i - 1>>]
      /\ outPos' = copy /\ counter' = counter + 1 /\ len' = len - copy
      /\ UNCHANGED <<buffer, finalized, state, ret>>
  BY DEF ExtractBlock
<1>2. /\ len \in Nat /\ counter \in Nat /\ outPos = outLen /\ outLen \in Nat
      /\ finalized /\ state = buffer
  BY <1>1, CapacityAssumption DEF IInv, TypeOK, BeforeFlip, Position, LastBlock
<1>3. copy \in Nat /\ copy <= Output /\ copy <= len /\ (len - copy # 0 => copy = Output)
  BY <1>2 DEF Minimum
<1>4. Len(output) = counter * Output + 0
  BY <1>2 DEF IInv, Position
<1>5. output' = output \o next
  <2>1. [i \in 1 .. copy |-> <<outBuffer', i - 1>>] = next
    BY <1>1, <1>2
  <2> QED  BY <1>1, <2>1
<1>6. Delivered' /\ Len(output') = Len(output) + copy
  <2>1. Delivered /\ Len(output) \in Nat /\ buffer' = buffer
    BY <1>1 DEF IInv
  <2>2. 0 + copy <= Output
    BY <1>3
  <2> HIDE DEF copy
  <2> QED  BY <1>2, <1>3, <1>4, <1>5, <2>1, <2>2, Continue
<1> HIDE DEF copy, next
<1>7. Position'
  <2>1. (counter + 1) * Output = counter * Output + Output
    BY <1>2
  <2> DEFINE a == (counter + 1) * Output
             b == counter * Output
  <2>2. a \in Int /\ b \in Int /\ Len(output') = b + copy
    BY <1>2, <1>4, <1>6
  <2>3. a = b + Output
    BY <2>1
  <2>4. counter' * Output = a
    BY <1>1
  <2> HIDE DEF a, b
  <2>5. Len(output') = counter' * Output - (outLen' - outPos')
    BY <1>1, <1>3, <2>2, <2>3, <2>4
  <2> QED  BY <1>1, <1>2, <1>3, <2>5 DEF Position
<1>8. TypeOK' /\ Len(output') \in Nat
  <2>1. TypeOK /\ Len(output) \in Nat
    BY DEF IInv
  <2>2. /\ MaxCall \in Nat /\ len' \in 0 .. MaxCall /\ outPos' \in 0 .. Output
        /\ counter + 1 \in Nat
    BY <1>1, <1>2, <1>3, <2>1, CapacityAssumption DEF TypeOK
  <2> QED  BY <1>1, <1>3, <1>6, <2>1, <2>2 DEF TypeOK
<1>9. BeforeFlip' /\ LastBlock'
  BY <1>1, <1>2 DEF BeforeFlip, LastBlock
<1> QED  BY <1>2, <1>3, <1>6, <1>7, <1>8, <1>9 DEF IInv

(* An accepted input grows at its end.                                     *)
LEMMA InjectGrows ==
  ASSUME IInv, NEW n \in 1 .. MaxCall, Inject(n)
  PROVE  /\ buffer' \in Seq(Nat) /\ Len(buffer') = Len(buffer) + n
         /\ Len(buffer) <= Len(buffer') /\ SubSeq(buffer', 1, Len(buffer)) = buffer
<1> DEFINE more == [i \in 1 .. n |-> Len(buffer) + i]
<1>1. n \in Nat /\ buffer \in Seq(Nat) /\ Len(buffer) \in Nat
  BY CapacityAssumption DEF IInv, TypeOK
<1>2. more \in Seq(Nat) /\ Len(more) = n
  BY <1>1
<1>3. buffer' = buffer \o more
  BY DEF Inject
<1> HIDE DEF more
<1>4. buffer' \in Seq(Nat) /\ Len(buffer') = Len(buffer) + n
  BY <1>1, <1>2, <1>3, ConcatProperties
<1>5. SubSeq(buffer \o more, 1, Len(buffer)) = buffer
  BY <1>1, <1>2
<1> QED  BY <1>1, <1>3, <1>4, <1>5

----------------------------------------------------------------------------
(* The bounds are numbers.                                                 *)
LEMMA BoundTypes == Capacity \in Nat /\ MaxCall \in Nat /\ MaxOutput \in Nat
BY CapacityAssumption

(* Nothing is a sequence of bytes.                                         *)
LEMMA NoBytes == <<>> \in Seq(Nat) /\ Len(<<>>) = 0
OBVIOUS

(* Every call keeps the invariant.                                         *)
LEMMA Invariance == Spec => []IInv
<1>1. Init => IInv
  <2> SUFFICES ASSUME Init
               PROVE  IInv
    OBVIOUS
  <2>1. TypeOK /\ output = <<>> /\ Len(output) = 0
    <3>1. buffer \in Seq(Nat) /\ Len(buffer) <= Capacity /\ state \in Seq(Nat)
      BY BoundTypes, NoBytes DEF Init, Fresh
    <3>2. outPos \in 0 .. outLen /\ outLen \in {0, Output} /\ len \in 0 .. MaxCall
      BY BoundTypes DEF Init, Fresh
    <3>3. finalized \in BOOLEAN /\ counter \in Nat /\ ret \in {0, -2, -3}
      BY DEF Init, Fresh
    <3>4. output = <<>> /\ Len(output) = 0
      BY NoBytes DEF Init, Fresh
    <3> QED  BY <3>1, <3>2, <3>3, <3>4 DEF TypeOK
  <2>2. BeforeFlip /\ LastBlock /\ Position
    BY <2>1 DEF Init, Fresh, BeforeFlip, LastBlock, Position
  <2>3. Delivered
    BY <2>1 DEF Delivered
  <2> QED  BY <2>1, <2>2, <2>3 DEF IInv
<1>2. IInv /\ [Next]_vars => IInv'
  <2> SUFFICES ASSUME IInv, [Next]_vars
               PROVE  IInv'
    OBVIOUS
  <2>1. CASE Initialize
    <3>1. /\ buffer' = <<>> /\ finalized' = FALSE /\ state' = <<>> /\ counter' = 0
          /\ outPos' = 0 /\ outLen' = 0 /\ ret' = 0 /\ output' = <<>> /\ len' = 0
          /\ Len(output') = 0
      BY <2>1 DEF Initialize, Idle
    <3>2. TypeOK'
      <4>1. buffer' \in Seq(Nat) /\ Len(buffer') <= Capacity /\ state' \in Seq(Nat)
        BY <3>1, BoundTypes, NoBytes
      <4>2. /\ outPos' \in 0 .. outLen' /\ outLen' \in {0, Output}
            /\ len' \in 0 .. MaxCall
        BY <3>1, BoundTypes
      <4>3. finalized' \in BOOLEAN /\ counter' \in Nat /\ ret' \in {0, -2, -3}
        BY <3>1
      <4> QED  BY <4>1, <4>2, <4>3 DEF TypeOK
    <3>3. BeforeFlip' /\ LastBlock' /\ Position'
      BY <3>1 DEF BeforeFlip, LastBlock, Position
    <3>4. Delivered'
      BY <3>1 DEF Delivered
    <3> QED  BY <3>1, <3>2, <3>3, <3>4 DEF IInv
  <2>2. ASSUME NEW n \in 1 .. MaxCall, Inject(n)
        PROVE  IInv'
    <3>1. /\ ~finalized /\ output = <<>> /\ Len(output) = 0 /\ Len(buffer) + n <= Capacity
          /\ ret' = 0 /\ UNCHANGED <<finalized, state, outputBuffer, len, output>>
      BY <2>2 DEF Inject, IInv, BeforeFlip
    <3>2. TypeOK'
      BY <2>2, <3>1, InjectGrows DEF IInv, TypeOK, outputBuffer
    <3>3. BeforeFlip' /\ LastBlock' /\ Position'
      BY <3>1 DEF IInv, BeforeFlip, LastBlock, Position, outputBuffer
    <3>4. Delivered'
      BY <3>1 DEF Delivered
    <3> QED  BY <3>1, <3>2, <3>3, <3>4 DEF IInv
  <2>3. ASSUME UNCHANGED <<buffer, finalized, state, outputBuffer, len, output>>,
               ret' \in {0, -2, -3}
        PROVE  IInv'
    <3>1. TypeOK'
      BY <2>3 DEF IInv, TypeOK, outputBuffer
    <3>2. BeforeFlip' /\ LastBlock' /\ Position'
      BY <2>3 DEF IInv, BeforeFlip, LastBlock, Position, outputBuffer
    <3>3. Delivered' /\ Len(output') \in Nat
      BY <2>3 DEF IInv, Delivered
    <3> QED  BY <3>1, <3>2, <3>3 DEF IInv
  <2>4. ASSUME NEW n \in 1 .. MaxCall, InjectRefused(n)
        PROVE  IInv'
    BY <2>3, <2>4 DEF InjectRefused
  <2>5. CASE FlipRefused
    BY <2>3, <2>5 DEF FlipRefused
  <2>6. CASE ExtractRefused
    BY <2>3, <2>6 DEF ExtractRefused
  <2>7. CASE Flip
    <3>1. /\ state' = buffer /\ finalized' = TRUE /\ outPos' = 0 /\ outLen' = 0
          /\ ret' = 0 /\ len' = 0
          /\ UNCHANGED <<buffer, counter, outBuffer, output>>
          /\ output = <<>> /\ counter = 0 /\ Len(output) = 0
      BY <2>7 DEF Flip, Idle, IInv, BeforeFlip
    <3>2. TypeOK'
      BY <3>1, BoundTypes DEF IInv, TypeOK
    <3>3. BeforeFlip' /\ LastBlock' /\ Position'
      BY <3>1 DEF BeforeFlip, LastBlock, Position
    <3>4. Delivered'
      BY <3>1 DEF Delivered
    <3> QED  BY <3>1, <3>2, <3>3, <3>4 DEF IInv
  <2>8. ASSUME NEW n \in 1 .. MaxCall, Extract(n)
        PROVE  IInv'
    BY <2>8, ExtractContinues
  <2>9. CASE ExtractBlock
    BY <2>9, ExtractBlockContinues
  <2>10. CASE UNCHANGED vars
    BY <2>3, <2>10 DEF vars, outputBuffer, IInv, TypeOK
  <2> QED
    BY <2>1, <2>2, <2>4, <2>5, <2>6, <2>7, <2>8, <2>9, <2>10 DEF Next
<1> QED  BY <1>1, <1>2, PTL DEF Spec

(* The positions in out_buffer and the buffer never leave their ranges.    *)
THEOREM TypeCorrect == Spec => []TypeOK
<1>1. IInv => TypeOK
  BY DEF IInv
<1> QED  BY <1>1, Invariance, PTL

(* i_keccak256_* implement a byte stream: what extract delivers is the     *)
(* counter-mode stream of the accepted input, for every cut into calls,    *)
(* also where calls are refused or out_buffer is left half used by an      *)
(* earlier call.                                                           *)
THEOREM Refinement == Spec => ImplementsStream
<1>1. Init => Stream!Fresh
  BY DEF Init, Fresh, Stream!Fresh
<1>2. IInv /\ IInv' /\ [Next]_vars => [Stream!Next]_(Stream!vars)
  <2> SUFFICES ASSUME IInv, IInv', [Next]_vars
               PROVE  [Stream!Next]_(Stream!vars)
    OBVIOUS
  <2> USE DEF Stream!vars
  <2>1. CASE Initialize
    BY <2>1 DEF Initialize, Stream!Next, Stream!Initialize, Stream!Fresh
  <2>2. ASSUME NEW n \in 1 .. MaxCall, Inject(n)
        PROVE  Stream!Absorb
    <3>1. Len(buffer) <= Len(buffer') /\ SubSeq(buffer', 1, Len(buffer)) = buffer
      BY <2>2, InjectGrows
    <3>2. ~finalized /\ finalized' = finalized /\ output' = output
      BY <2>2 DEF Inject
    <3> QED  BY <3>1, <3>2 DEF Stream!Absorb
  <2>3. ASSUME UNCHANGED <<buffer, finalized, output>>
        PROVE  UNCHANGED Stream!vars
    BY <2>3
  <2>4. ASSUME NEW n \in 1 .. MaxCall, InjectRefused(n)
        PROVE  UNCHANGED Stream!vars
    BY <2>3, <2>4 DEF InjectRefused
  <2>5. CASE FlipRefused
    BY <2>3, <2>5 DEF FlipRefused
  <2>6. CASE ExtractRefused
    BY <2>3, <2>6 DEF ExtractRefused
  <2>7. CASE Flip
    BY <2>7 DEF Flip, Stream!Next, Stream!Flip
  <2>8. ASSUME finalized, UNCHANGED <<buffer, finalized>>, Len(output) <= Len(output')
        PROVE  Stream!Deliver
    BY <2>8 DEF Stream!Deliver, IInv, Delivered
  <2>9. ASSUME NEW n \in 1 .. MaxCall, Extract(n)
        PROVE  Stream!Deliver
    BY <2>8, <2>9, ExtractContinues DEF Extract
  <2>10. CASE ExtractBlock
    BY <2>8, <2>10, ExtractBlockContinues DEF ExtractBlock, Stream!Next
  <2>11. CASE UNCHANGED vars
    BY <2>3, <2>11 DEF vars
  <2> QED
    BY <2>1, <2>2, <2>4, <2>5, <2>6, <2>7, <2>9, <2>10, <2>11 DEF Next, Stream!Next
<1> QED  BY <1>1, <1>2, Invariance, PTL DEF Spec, ImplementsStream, Stream!Spec
=============================================================================
