--------------------------- MODULE Vectors_proofs ---------------------------
(***************************************************************************)
(* Proofs about what is done with the vectors of a signature or key: their *)
(* encodings (Codec) and their norm (NormCheck).                           *)
(*                                                                         *)
(* Codec: for every size of byte, accumulator and word, every modulus and  *)
(* every set of vectors and byte strings.  The bits that an encoder has    *)
(* written, or that a decoder has read, are taken for one number: a word   *)
(* or element of k bits multiplies it by 2^k and is added to it.           *)
(*                                                                         *)
(* NormCheck: for every accumulator width, bound, degree and set of        *)
(* coefficients whose squares are at most half the modulus.                *)
(***************************************************************************)
EXTENDS NormCheck, Codec, NumberLemmas, TLAPS

(* The parameters are numbers.                                             *)
LEMMA Parameters ==
  /\ ByteBits \in Nat \ {0} /\ ByteBits \in Nat /\ AccBits \in Nat /\ MaxAbs \in Nat
  /\ q \in Nat /\ LowBits \in Nat /\ ByteBits = LowBits + 1
BY AccumulatorAssumption DEF LowBits

-----------------------------------------------------------------------------
(* The bit accumulator.                                                    *)

Bytes == Digits(ByteBits)

(* Accumulators that give out digits of b bits.                            *)
States(b) == [acc : Nat, len : Nat, out : Seq(Digits(b))]

(* The number all bits taken in so far stand for, and how many they are.   *)
Total(s, b) == Whole(s.out, b) * 2 ^ s.len + (s.acc % 2 ^ s.len)
Size(s, b)  == b * Len(s.out) + s.len

(* Both are numbers.                                                       *)
LEMMA TotalType ==
  ASSUME NEW b \in Nat, NEW s \in States(b)
  PROVE  Total(s, b) \in Nat /\ Size(s, b) \in Nat
<1>1. s.acc \in Nat /\ s.len \in Nat /\ s.out \in Seq(Digits(b)) /\ Len(s.out) \in Nat
  BY DEF States
<1>2. 2 ^ s.len \in Nat \ {0} /\ Whole(s.out, b) \in Nat
  BY <1>1, PowerPositive, WholeStep
<1>3. \A w \in Nat, m \in Nat \ {0}, z \in Nat : w * m + (z % m) \in Nat
  OBVIOUS
<1>4. \A w \in Nat, m \in Nat, z \in Nat : w * m + z \in Nat
  OBVIOUS
<1> QED  BY <1>1, <1>2, <1>3, <1>4, Zenon DEF Total, Size

(* The fields of a state, and their numbers.                               *)
LEMMA StateFields ==
  ASSUME NEW b \in Nat, NEW s \in States(b)
  PROVE  /\ s.acc \in Nat /\ s.len \in Nat /\ s.out \in Seq(Digits(b)) /\ Len(s.out) \in Nat
         /\ s = [acc |-> s.acc, len |-> s.len, out |-> s.out]
         /\ Whole(s.out, b) \in Nat
         /\ 2 ^ s.len \in Nat \ {0} /\ s.acc % 2 ^ s.len \in 0 .. 2 ^ s.len - 1
<1>1. s.acc \in Nat /\ s.len \in Nat /\ s.out \in Seq(Digits(b)) /\ Len(s.out) \in Nat
  BY DEF States
<1>2. s = [acc |-> s.acc, len |-> s.len, out |-> s.out]
  BY DEF States
<1>3. Whole(s.out, b) \in Nat /\ 2 ^ s.len \in Nat \ {0}
  BY <1>1, PowerPositive, WholeStep
<1>4. s.acc % 2 ^ s.len \in 0 .. 2 ^ s.len - 1
  BY <1>1, <1>3, QuotientRemainder
<1> QED  BY <1>1, <1>2, <1>3, <1>4

(* The same, for the four numbers that are computed with.                  *)
LEMMA StateNumbers ==
  ASSUME NEW b \in Nat, NEW s \in States(b)
  PROVE  \E A \in Nat, L \in Nat, n \in Nat, W \in Nat :
           /\ s.acc = A /\ s.len = L /\ Len(s.out) = n /\ Whole(s.out, b) = W
           /\ s = [acc |-> A, len |-> L, out |-> s.out]
           /\ Total(s, b) = W * 2 ^ L + (A % 2 ^ L) /\ Size(s, b) = b * n + L
<1>1. /\ s.acc \in Nat /\ s.len \in Nat /\ Len(s.out) \in Nat /\ Whole(s.out, b) \in Nat
      /\ s = [acc |-> s.acc, len |-> s.len, out |-> s.out]
  BY StateFields
<1> QED  BY <1>1, Zenon DEF Total, Size

(* Bits that are pushed follow those that came before: none is pushed out  *)
(* of the accumulator.                                                     *)
LEMMA PushKeeps ==
  ASSUME NEW b \in Nat, NEW s \in States(b), NEW bits \in Nat, NEW value \in Digits(bits),
         s.len + bits <= AccBits
  PROVE  /\ Push(s, value, bits) \in States(b)
         /\ Push(s, value, bits).out = s.out
         /\ Push(s, value, bits).len = s.len + bits
         /\ Total(Push(s, value, bits), b) = Total(s, b) * 2 ^ bits + value
         /\ Size(Push(s, value, bits), b) = Size(s, b) + bits
<1> DEFINE t == Push(s, value, bits)
<1>1. PICK A \in Nat, L \in Nat, n \in Nat, W \in Nat :
           /\ s.acc = A /\ s.len = L /\ Len(s.out) = n /\ Whole(s.out, b) = W
           /\ s = [acc |-> A, len |-> L, out |-> s.out]
           /\ Total(s, b) = W * 2 ^ L + (A % 2 ^ L) /\ Size(s, b) = b * n + L
  BY StateNumbers
<1> DEFINE P == 2 ^ L
           B == 2 ^ bits
           X == A * B + value
           Z == X % 2 ^ AccBits
           r == A % P
<1>2. P \in Nat \ {0} /\ B \in Nat \ {0} /\ 2 ^ (L + bits) = P * B /\ 2 ^ AccBits \in Nat \ {0}
  BY Parameters, PowerPositive, PowerSum
<1>3. r \in 0 .. P - 1
  <2> HIDE DEF P
  <2> QED  BY <1>2, QuotientRemainder
<1>4. X \in Nat /\ X % 2 ^ (L + bits) = r * B + value
  <2>1. value \in 0 .. 2 ^ bits - 1
    BY DEF Digits
  <2>2. A * 2 ^ bits + value \in Nat
    <3> HIDE DEF t, P, B, X, Z, r
    <3> QED  BY <2>1, JoinBits
  <2>3. (A * 2 ^ bits + value) % 2 ^ (L + bits) = (A % 2 ^ L) * 2 ^ bits + value
    <3> HIDE DEF t, P, B, X, Z, r
    <3> QED  BY <2>1, JoinBits
  <2> QED  BY <2>2, <2>3
<1>5. Z \in Nat
  <2> HIDE DEF X
  <2>1. X % 2 ^ AccBits \in 0 .. 2 ^ AccBits - 1
    BY <1>2, <1>4, QuotientRemainder
  <2> QED  BY <2>1
<1>6. t = [acc |-> Z, len |-> L + bits, out |-> s.out]
  <2>1. t = [[acc |-> A, len |-> L, out |-> s.out] EXCEPT !.acc = Z, !.len = L + bits]
    BY <1>1, Zenon DEF Push
  <2> HIDE DEF t, Z
  <2> QED  BY <2>1
<1>7. Z % 2 ^ (L + bits) = r * B + value
  <2>1. L + bits \in Nat /\ L + bits <= AccBits
    BY <1>1
  <2> HIDE DEF X
  <2>2. (X % 2 ^ AccBits) % 2 ^ (L + bits) = X % 2 ^ (L + bits)
    BY <1>4, <2>1, Parameters, RemainderOfPower
  <2> QED  BY <1>4, <2>2
<1>8. t \in States(b)
  <2>1. s.out \in Seq(Digits(b)) /\ L + bits \in Nat
    BY StateFields
  <2> HIDE DEF t, Z
  <2> QED  BY <1>5, <1>6, <2>1 DEF States
<1>9. t.acc = Z /\ t.len = L + bits /\ t.out = s.out
  <2> HIDE DEF t, Z
  <2> QED  BY <1>6
<1>10. Total(t, b) = Total(s, b) * B + value
  <2>1. Total(t, b) = W * (P * B) + (r * B + value)
    <3> HIDE DEF t, Z, P, B, r
    <3> QED  BY <1>1, <1>2, <1>7, <1>9, Zenon DEF Total
  <2>2. Total(s, b) = W * P + r
    BY <1>1
  <2> HIDE DEF P, B, r
  <2>3. (W * P + r) * B = W * (P * B) + r * B
    BY <1>2, <1>3
  <2>4. W * (P * B) \in Nat /\ r * B \in Nat /\ value \in Nat
    BY <1>2, <1>3 DEF Digits
  <2> HIDE DEF t
  <2> QED  BY <2>1, <2>2, <2>3, <2>4
<1>11. Size(t, b) = Size(s, b) + bits
  <2>1. Size(t, b) = b * n + (L + bits)
    <3> HIDE DEF t
    <3> QED  BY <1>1, <1>9, Zenon DEF Size
  <2>2. b * n \in Nat
    OBVIOUS
  <2> HIDE DEF t
  <2> QED  BY <1>1, <2>1, <2>2
<1> HIDE DEF t
<1> QED  BY <1>1, <1>8, <1>9, <1>10, <1>11 DEF t

(* Writing full bytes moves bits from the accumulator to the output.       *)
LEMMA FlushKeeps ==
  ASSUME NEW s \in States(ByteBits)
  PROVE  /\ FlushBytes(s) \in States(ByteBits)
         /\ FlushBytes(s).len < ByteBits
         /\ Total(FlushBytes(s), ByteBits) = Total(s, ByteBits)
         /\ Size(FlushBytes(s), ByteBits) = Size(s, ByteBits)
<1>0. PICK b \in Nat \ {0} : b = ByteBits /\ b \in Nat
  BY Parameters
<1>1. PICK A \in Nat, L \in Nat, n \in Nat, W \in Nat :
           /\ s.acc = A /\ s.len = L /\ Len(s.out) = n /\ Whole(s.out, b) = W
           /\ s = [acc |-> A, len |-> L, out |-> s.out]
           /\ Total(s, b) = W * 2 ^ L + (A % 2 ^ L) /\ Size(s, b) = b * n + L
  BY <1>0, StateNumbers
<1> DEFINE k == L \div b
           r == L % b
           out == s.out \o [i \in 1 .. k |-> (A \div 2 ^ (L - b * i)) % 2 ^ b]
           t == FlushBytes(s)
<1>2. k \in Nat /\ r \in 0 .. b - 1 /\ L = k * b + r
  BY QuotientRemainder
<1>3. t = [acc |-> A, len |-> r, out |-> out]
  <2>1. t = [[acc |-> A, len |-> L, out |-> s.out] EXCEPT !.len = r, !.out = out]
    BY <1>0, <1>1, Zenon DEF FlushBytes
  <2> HIDE DEF t, r, out
  <2> QED  BY <2>1
<1>4. b * k <= L /\ L - b * k = r /\ b * k \in Nat
  <2>1. b * k = k * b /\ b * k \in Nat
    BY <1>2
  <2> HIDE DEF k, r
  <2> QED  BY <1>2, <2>1
<1>5. /\ out \in Seq(Digits(b)) /\ Len(out) = n + k
      /\ Whole(out, b) * 2 ^ r + (A % 2 ^ r) = W * 2 ^ L + (A % 2 ^ L)
  <2>1. s.out \in Seq(Digits(b))
    BY <1>0, StateFields
  <2>2. k \in Nat /\ b * k <= L
    BY <1>2, <1>4
  <2>3. out = s.out \o Taken(A, L, b, k)
    BY DEF Taken
  <2> HIDE DEF k, out
  <2>4. /\ out \in Seq(Digits(b)) /\ Len(out) = Len(s.out) + k
        /\ Whole(out, b) * 2 ^ (L - b * k) + (A % 2 ^ (L - b * k)) =
             Whole(s.out, b) * 2 ^ L + (A % 2 ^ L)
    BY <2>1, <2>2, <2>3, TakeDigits
  <2> HIDE DEF r
  <2> QED  BY <1>1, <1>4, <2>4, Zenon
<1> HIDE DEF k, r, out, t
<1>6. t \in States(b) /\ t.len = r /\ t.acc = A /\ t.out = out
  BY <1>2, <1>3, <1>5 DEF States
<1>7. Total(t, b) = Total(s, b)
  BY <1>1, <1>5, <1>6, Zenon DEF Total
<1>8. Size(t, b) = Size(s, b)
  <2>1. b * (n + k) = b * n + b * k /\ b * n \in Nat
    BY <1>2
  <2>2. Size(t, b) = b * (n + k) + r
    BY <1>5, <1>6, Zenon DEF Size
  <2> QED  BY <1>1, <1>2, <1>4, <2>1, <2>2
<1>9. t.len < b
  BY <1>2, <1>6
<1> QED  BY <1>0, <1>6, <1>7, <1>8, <1>9 DEF t

(* The last bits are followed by zeros to a full byte.                     *)
LEMMA LastByteKeeps ==
  ASSUME NEW s \in States(ByteBits), s.len < ByteBits
  PROVE  \E pad \in 0 .. ByteBits - 1 :
           /\ LastByte(s) \in Seq(Bytes)
           /\ ByteBits * Len(LastByte(s)) = Size(s, ByteBits) + pad
           /\ Whole(LastByte(s), ByteBits) = Total(s, ByteBits) * 2 ^ pad
<1>0. PICK b \in Nat \ {0} : b = ByteBits /\ b \in Nat
  BY Parameters
<1>1. PICK A \in Nat, L \in Nat, n \in Nat, W \in Nat :
           /\ s.acc = A /\ s.len = L /\ Len(s.out) = n /\ Whole(s.out, b) = W
           /\ s = [acc |-> A, len |-> L, out |-> s.out]
           /\ Total(s, b) = W * 2 ^ L + (A % 2 ^ L) /\ Size(s, b) = b * n + L
  BY <1>0, StateNumbers
<1>2. s.out \in Seq(Digits(b)) /\ L < b
  BY <1>0, <1>1, StateFields
<1>3. b * n \in Nat
  OBVIOUS
<1>4. CASE L = 0
  <2>1. 2 ^ L = 1 /\ 2 ^ 0 = 1 /\ A % 2 ^ L = 0
    <3>1. 2 ^ L = 1 /\ 2 ^ 0 = 1
      BY <1>4, PowerOfTwo
    <3>2. A % 1 = 0
      OBVIOUS
    <3> QED  BY <3>1, <3>2
  <2>2. LastByte(s) = s.out
    BY <1>1, <1>4 DEF LastByte
  <2>3. Total(s, b) = W
    <3>1. W * 1 + 0 = W
      OBVIOUS
    <3> QED  BY <1>1, <2>1, <3>1
  <2>4. W * 2 ^ 0 = W
    BY <2>1
  <2>5. b * n = Size(s, b) + 0
    BY <1>1, <1>3, <1>4
  <2>6. 0 \in 0 .. b - 1
    OBVIOUS
  <2> QED  BY <1>0, <1>1, <1>2, <2>2, <2>3, <2>4, <2>5, <2>6, Zenon DEF Bytes
<1>5. CASE L > 0
  <2> DEFINE p == b - L
             P == 2 ^ p
             Q == 2 ^ L
             r == A % Q
             d == (A * P) % 2 ^ b
  <2>1. p \in 0 .. b - 1 /\ p \in Nat /\ L + p = b
    BY <1>2, <1>5
  <2>2. P \in Nat \ {0} /\ Q \in Nat \ {0} /\ 2 ^ b = Q * P
    <3> HIDE DEF p
    <3> QED  BY <2>1, PowerPositive, PowerSum
  <2>3. r \in 0 .. Q - 1
    <3> HIDE DEF Q
    <3> QED  BY <2>2, QuotientRemainder
  <2>4. d = r * P
    <3>1. 0 \in 0 .. 2 ^ p - 1
      BY <2>2
    <3>2. (A * 2 ^ p + 0) % 2 ^ (L + p) = (A % 2 ^ L) * 2 ^ p + 0
      <4> HIDE DEF p
      <4> QED  BY <2>1, <3>1, JoinBits
    <3>3. A * P + 0 = A * P /\ r * P + 0 = r * P
      <4> HIDE DEF P, r
      <4> QED  BY <2>2, <2>3
    <3> HIDE DEF p
    <3> QED  BY <2>1, <3>2, <3>3 DEF P
  <2>5. d \in Digits(b)
    <3>1. 2 ^ b \in Nat \ {0} /\ A * P \in Nat
      BY <2>2, PowerPositive
    <3> DEFINE z == A * P
    <3> HIDE DEF z
    <3>2. z % 2 ^ b \in 0 .. 2 ^ b - 1
      BY <3>1, QuotientRemainder DEF z
    <3> QED  BY <3>2 DEF z, Digits
  <2>6. LastByte(s) = Append(s.out, d)
    BY <1>0, <1>1, <1>5 DEF LastByte
  <2>7. /\ Append(s.out, d) \in Seq(Digits(b)) /\ Len(Append(s.out, d)) = n + 1
        /\ Whole(Append(s.out, d), b) = W * 2 ^ b + d
    <3> HIDE DEF d
    <3> QED  BY <1>1, <1>2, <2>5, WholeStep
  <2>8. W * 2 ^ b + d = Total(s, b) * P
    <3> HIDE DEF Q, P, r, d
    <3>1. (W * Q + r) * P = W * (Q * P) + r * P
      BY <2>2, <2>3
    <3>2. Total(s, b) = W * Q + r
      BY <1>1 DEF Q, r
    <3> QED  BY <2>2, <2>4, <3>1, <3>2
  <2>9. b * (n + 1) = Size(s, b) + p
    <3>1. b * (n + 1) = b * n + b
      OBVIOUS
    <3> QED  BY <1>1, <1>3, <2>1, <3>1
  <2> HIDE DEF d, p
  <2> QED  BY <1>0, <2>1, <2>6, <2>7, <2>8, <2>9, Zenon DEF P, Bytes
<1> QED  BY <1>4, <1>5


(* Any push leaves an accumulator, though bits may be lost.                *)
LEMMA PushType ==
  ASSUME NEW b \in Nat, NEW s \in States(b), NEW bits \in Nat, NEW value \in Nat
  PROVE  /\ Push(s, value, bits) \in States(b)
         /\ Push(s, value, bits).out = s.out
         /\ Push(s, value, bits).len = s.len + bits
<1>1. PICK A \in Nat, L \in Nat : s = [acc |-> A, len |-> L, out |-> s.out]
  BY StateFields
<1> DEFINE X == A * 2 ^ bits + value
           Z == X % 2 ^ AccBits
           t == Push(s, value, bits)
<1>2. X \in Nat /\ 2 ^ AccBits \in Nat \ {0}
  <2>1. 2 ^ bits \in Nat /\ 2 ^ AccBits \in Nat \ {0}
    BY Parameters, PowerPositive
  <2>2. \A y \in Nat : A * y + value \in Nat
    OBVIOUS
  <2> QED  BY <2>1, <2>2
<1>3. Z \in Nat
  <2> HIDE DEF X
  <2>1. X % 2 ^ AccBits \in 0 .. 2 ^ AccBits - 1
    BY <1>2, QuotientRemainder
  <2> QED  BY <2>1
<1>4. s.acc = A /\ s.len = L
  BY <1>1
<1>5. t = [acc |-> Z, len |-> L + bits, out |-> s.out]
  <2>1. t = [[acc |-> A, len |-> L, out |-> s.out] EXCEPT !.acc = Z, !.len = L + bits]
    BY <1>1, <1>4, Zenon DEF Push
  <2> HIDE DEF t, Z
  <2> QED  BY <2>1
<1> HIDE DEF t, Z
<1>6. s.out \in Seq(Digits(b)) /\ L + bits \in Nat
  BY StateFields
<1> QED  BY <1>3, <1>4, <1>5, <1>6 DEF States, t

(* Taking the k upper digits out of the pending bits.                      *)
TakeOut(s, b, k) ==
  [s EXCEPT !.len = s.len - k * b, !.out = s.out \o Taken(s.acc, s.len, b, k)]

(* No bit is lost when digits are taken out.                               *)
LEMMA TakeOutKeeps ==
  ASSUME NEW b \in Nat, NEW s \in States(b), NEW k \in Nat, k * b <= s.len
  PROVE  /\ TakeOut(s, b, k) \in States(b)
         /\ TakeOut(s, b, k).len = s.len - k * b
         /\ Len(TakeOut(s, b, k).out) = Len(s.out) + k
         /\ Total(TakeOut(s, b, k), b) = Total(s, b)
         /\ Size(TakeOut(s, b, k), b) = Size(s, b)
<1>1. PICK A \in Nat, L \in Nat, n \in Nat, W \in Nat :
           /\ s.acc = A /\ s.len = L /\ Len(s.out) = n /\ Whole(s.out, b) = W
           /\ s = [acc |-> A, len |-> L, out |-> s.out]
           /\ Total(s, b) = W * 2 ^ L + (A % 2 ^ L) /\ Size(s, b) = b * n + L
  BY StateNumbers
<1> DEFINE r == L - k * b
           out == s.out \o Taken(A, L, b, k)
           t == TakeOut(s, b, k)
<1>2. r \in Nat /\ b * k = k * b /\ b * k \in Nat /\ b * k <= L /\ L - b * k = r
  <2>1. b * k = k * b /\ k * b \in Nat
    OBVIOUS
  <2> QED  BY <1>1, <2>1
<1>3. t = [acc |-> A, len |-> r, out |-> out]
  <2>1. t = [[acc |-> A, len |-> L, out |-> s.out] EXCEPT !.len = r, !.out = out]
    BY <1>1, Zenon DEF TakeOut
  <2> HIDE DEF t, r, out
  <2> QED  BY <2>1
<1>4. /\ out \in Seq(Digits(b)) /\ Len(out) = n + k
      /\ Whole(out, b) * 2 ^ r + (A % 2 ^ r) = W * 2 ^ L + (A % 2 ^ L)
  <2>1. s.out \in Seq(Digits(b))
    BY StateFields
  <2> HIDE DEF r
  <2>2. /\ out \in Seq(Digits(b)) /\ Len(out) = Len(s.out) + k
        /\ Whole(out, b) * 2 ^ (L - b * k) + (A % 2 ^ (L - b * k)) =
             Whole(s.out, b) * 2 ^ L + (A % 2 ^ L)
    BY <1>2, <2>1, TakeDigits
  <2> HIDE DEF out
  <2> QED  BY <1>1, <1>2, <2>2, Zenon
<1> HIDE DEF r, out, t
<1>5. t \in States(b) /\ t.len = r /\ t.acc = A /\ t.out = out
  BY <1>2, <1>3, <1>4 DEF States
<1>6. Total(t, b) = Total(s, b)
  BY <1>1, <1>4, <1>5, Zenon DEF Total
<1>7. Size(t, b) = Size(s, b)
  <2>1. b * (n + k) = b * n + b * k /\ b * n \in Nat
    OBVIOUS
  <2>2. Size(t, b) = b * (n + k) + r
    BY <1>4, <1>5, Zenon DEF Size
  <2> QED  BY <1>1, <1>2, <2>1, <2>2
<1>8. t.len = s.len - k * b /\ Len(t.out) = Len(s.out) + k
  BY <1>1, <1>4, <1>5 DEF r
<1> QED  BY <1>5, <1>6, <1>7, <1>8 DEF t

(* A byte is read and words are taken from it: no bit is lost, and bits    *)
(* that make a word are left only when there are enough words.             *)
LEMMA TakeWordsType ==
  ASSUME NEW b \in Nat \ {0}, NEW n \in Nat, NEW s \in States(b), Len(s.out) <= n,
         NEW byte \in Nat
  PROVE  \E k \in Nat, p \in States(b) :
           /\ p = Push(s, byte, ByteBits) /\ p.out = s.out /\ p.len = s.len + ByteBits
           /\ k * b <= p.len /\ Len(s.out) + k <= n
           /\ Len(s.out) + k < n => p.len - k * b < b
           /\ TakeWords(s, byte, n, b) = TakeOut(p, b, k)
<1>0. /\ Push(s, byte, ByteBits) \in States(b)
      /\ Push(s, byte, ByteBits).out = s.out
      /\ Push(s, byte, ByteBits).len = s.len + ByteBits
  <2>1. b \in Nat /\ ByteBits \in Nat
    BY Parameters
  <2>2. Push(s, byte, ByteBits) \in States(b)
    BY <2>1, PushType
  <2>3. Push(s, byte, ByteBits).out = s.out
    BY <2>1, PushType
  <2>4. Push(s, byte, ByteBits).len = s.len + ByteBits
    BY <2>1, PushType
  <2> QED  BY <2>2, <2>3, <2>4
<1> DEFINE p == Push(s, byte, ByteBits)
           c == Len(s.out)
           have == p.len \div b
           k == IF c + have > n THEN n - c ELSE have
<1>1. p \in States(b) /\ p.out = s.out /\ p.len = s.len + ByteBits
  BY <1>0, Zenon
<1>2. p.len \in Nat /\ c \in Nat /\ c <= n
  <2>1. b \in Nat
    OBVIOUS
  <2> QED  BY <1>1, <2>1, StateFields
<1> HIDE DEF p
<1>3. have \in Nat /\ p.len % b \in 0 .. b - 1 /\ p.len = have * b + (p.len % b)
  BY <1>2, QuotientRemainder
<1>4. k \in Nat /\ k <= have /\ c + k <= n /\ (c + k < n => k = have)
  <2> HIDE DEF have, c
  <2> QED  BY <1>2, <1>3
<1>5. k * b <= have * b /\ k * b \in Nat /\ have * b \in Nat
  <2> HIDE DEF k, have
  <2>1. k = have \/ k * b + b <= have * b
    BY <1>3, <1>4, MultipleAbove
  <2>2. k * b \in Nat /\ have * b \in Nat
    BY <1>3, <1>4
  <2> QED  BY <2>1, <2>2
<1>6. TakeWords(s, byte, n, b) = TakeOut(p, b, k)
  <2>1. [i \in 1 .. k |-> (p.acc \div 2 ^ (p.len - b * i)) % 2 ^ b] = Taken(p.acc, p.len, b, k)
    BY DEF Taken
  <2>2. TakeWords(s, byte, n, b) =
          [p EXCEPT !.len = p.len - k * b,
                    !.out = s.out \o [i \in 1 .. k |-> (p.acc \div 2 ^ (p.len - b * i)) % 2 ^ b]]
    BY Zenon DEF TakeWords, p
  <2> HIDE DEF k
  <2> QED  BY <1>1, <2>1, <2>2, Zenon DEF TakeOut
<1> DEFINE P == p.len
           Q == have * b
           R == k * b
           m == P % b
<1>7. R <= P /\ (c + k < n => P - R < b)
  <2>1. P \in Nat /\ Q \in Nat /\ R \in Nat /\ R <= Q /\ m \in 0 .. b - 1 /\ P = Q + m
    BY <1>2, <1>3, <1>5
  <2>2. c + k < n => R = Q
    BY <1>4
  <2> HIDE DEF P, Q, R, m, k
  <2> QED  BY <2>1, <2>2
<1> HIDE DEF k, have
<1> QED  BY <1>1, <1>4, <1>6, <1>7, Zenon DEF p

(* A byte is read and the words that are then complete are taken off: no   *)
(* bit is lost, and what is left is less than a word.                      *)
LEMMA TakeWordsKeeps ==
  ASSUME NEW b \in Nat \ {0}, NEW n \in Nat, NEW s \in States(b), Len(s.out) <= n,
         NEW byte \in Bytes
  PROVE  /\ TakeWords(s, byte, n, b) \in States(b)
         /\ Len(TakeWords(s, byte, n, b).out) <= n
         /\ Len(TakeWords(s, byte, n, b).out) < n => TakeWords(s, byte, n, b).len < b
         /\ s.len + ByteBits <= AccBits =>
              /\ Total(TakeWords(s, byte, n, b), b) = Total(s, b) * 2 ^ ByteBits + byte
              /\ Size(TakeWords(s, byte, n, b), b) = Size(s, b) + ByteBits
<1>1. byte \in Nat /\ byte \in Digits(ByteBits)
  <2>1. 2 ^ ByteBits \in Nat
    BY Parameters, PowerPositive
  <2> QED  BY <2>1 DEF Bytes, Digits
<1>2. PICK k \in Nat, p \in States(b) :
           /\ p = Push(s, byte, ByteBits) /\ p.out = s.out /\ p.len = s.len + ByteBits
           /\ k * b <= p.len /\ Len(s.out) + k <= n
           /\ Len(s.out) + k < n => p.len - k * b < b
           /\ TakeWords(s, byte, n, b) = TakeOut(p, b, k)
  BY <1>1, TakeWordsType
<1> DEFINE t == TakeWords(s, byte, n, b)
<1>3. /\ t \in States(b) /\ t.len = p.len - k * b /\ Len(t.out) = Len(s.out) + k
      /\ Total(t, b) = Total(p, b) /\ Size(t, b) = Size(p, b)
  <2>1. b \in Nat
    OBVIOUS
  <2> DEFINE o == TakeOut(p, b, k)
  <2>2. /\ o \in States(b) /\ o.len = p.len - k * b /\ Len(o.out) = Len(p.out) + k
        /\ Total(o, b) = Total(p, b) /\ Size(o, b) = Size(p, b)
    BY <1>2, <2>1, TakeOutKeeps
  <2> HIDE DEF o
  <2>3. t = o
    BY <1>2 DEF o
  <2> HIDE DEF t
  <2> QED  BY <1>2, <2>2, <2>3
<1>4. s.len + ByteBits <= AccBits =>
        /\ Total(p, b) = Total(s, b) * 2 ^ ByteBits + byte
        /\ Size(p, b) = Size(s, b) + ByteBits
  BY <1>1, <1>2, Parameters, PushKeeps
<1> HIDE DEF t
<1> QED  BY <1>2, <1>3, <1>4, Zenon DEF t


(* Nothing has been taken in at the start.                                 *)
LEMMA FreshState ==
  ASSUME NEW b \in Nat
  PROVE  /\ Fresh \in States(b) /\ Fresh.len = 0 /\ Fresh.out = <<>> /\ Len(Fresh.out) = 0
         /\ Total(Fresh, b) = 0 /\ Size(Fresh, b) = 0
<1>1. Fresh \in States(b) /\ Fresh.acc = 0 /\ Fresh.len = 0 /\ Fresh.out = <<>>
  BY DEF Fresh, States
<1>2. Whole(<<>>, b) = 0 /\ Len(<<>>) = 0
  BY WholeStep
<1>3. Total(Fresh, b) = 0 * 2 ^ 0 + (0 % 2 ^ 0)
  BY <1>1, <1>2, Zenon DEF Total
<1>4. 0 * 2 ^ 0 + (0 % 2 ^ 0) = 0
  <2>1. 2 ^ 0 = 1 /\ 0 * 1 + (0 % 1) = 0
    BY PowerOfTwo
  <2> QED  BY <2>1
<1>5. Size(Fresh, b) = b * 0 + 0
  BY <1>1, <1>2, Zenon DEF Size
<1>6. b * 0 + 0 = 0
  OBVIOUS
<1> QED  BY <1>1, <1>2, <1>3, <1>4, <1>5, <1>6

-----------------------------------------------------------------------------
(* The fixed-width encoders.                                               *)

(* Flushing keeps the type.                                                *)
LEMMA PackType ==
  ASSUME NEW z \in States(ByteBits), NEW w \in Nat, NEW bits \in Nat
  PROVE  FlushBytes(Push(z, w, bits)) \in States(ByteBits)
<1>1. Push(z, w, bits) \in States(ByteBits)
  BY Parameters, PushType
<1> QED  BY <1>1, FlushKeeps

(* The definition of Packing, as equations.                                *)
LEMMA PackingSteps ==
  ASSUME NEW bits \in Nat, NEW words \in Seq(Nat)
  PROVE  /\ Packing(words, bits)[0] = Fresh
         /\ \A i \in 1 .. Len(words) :
              Packing(words, bits)[i] =
                FlushBytes(Push(Packing(words, bits)[i - 1], words[i], bits))
<1> DEFINE S == States(ByteBits)
           n == Len(words)
           Step(i, z) == IF i + 1 \in 1 .. n THEN FlushBytes(Push(z, words[i + 1], bits)) ELSE z
           G == [i \in Nat |-> [z \in S |-> Step(i, z)]]
           Rule(f) == f = [i \in 0 .. n |->
                             IF i = 0 THEN Fresh ELSE FlushBytes(Push(f[i - 1], words[i], bits))]
           V == Packing(words, bits)
<1>1. IsStep(G, S) /\ Fresh \in S /\ n \in Nat
  <2>1. ASSUME NEW i \in Nat, NEW z \in S
        PROVE  Step(i, z) \in S
    <3>1. CASE i + 1 \in 1 .. n
      <4>1. words[i + 1] \in Nat
        BY <3>1
      <4> QED  BY <3>1, <4>1, PackType
    <3>2. CASE ~ (i + 1 \in 1 .. n)
      BY <3>2
    <3> QED  BY <3>1, <3>2
  <2>2. Fresh \in S
    BY Parameters, FreshState
  <2> HIDE DEF Step, S
  <2> QED  BY <2>1, <2>2 DEF IsStep
<1>2. PICK g : Obeys(g, n, S, Fresh, G)
  <2> HIDE DEF G, S, n
  <2> QED  BY <1>1, FiniteRecursion
<1>3. Rule(g)
  <2>1. ASSUME NEW i \in 0 .. n, i # 0
        PROVE  g[i] = FlushBytes(Push(g[i - 1], words[i], bits))
    <3>1. i \in 1 .. n /\ i - 1 \in 0 .. n - 1 /\ i - 1 \in 0 .. n /\ (i - 1) + 1 = i
      BY <1>1, <2>1
    <3>2. g[i] = G[i - 1][g[i - 1]] /\ g[i - 1] \in S /\ i - 1 \in Nat
      <4> HIDE DEF G, S
      <4> QED  BY <1>2, <3>1 DEF Obeys
    <3>3. g[i] = Step(i - 1, g[i - 1])
      <4> HIDE DEF Step, S
      <4> QED  BY <3>1, <3>2
    <3> QED  BY <3>1, <3>3
  <2>2. g = [i \in 0 .. n |-> g[i]] /\ g[0] = Fresh
    <3> HIDE DEF S, G
    <3> QED  BY <1>2 DEF Obeys
  <2> HIDE DEF S, G, n
  <2> QED  BY <2>1, <2>2
<1>4. V = CHOOSE f : Rule(f)
  BY DEF Packing
<1>5. Rule(V)
  <2> HIDE DEF Rule, V
  <2> QED  BY <1>3, <1>4
<1> HIDE DEF V
<1>6. V[0] = Fresh
  BY <1>1, <1>5
<1>7. ASSUME NEW i \in 1 .. n
      PROVE  V[i] = FlushBytes(Push(V[i - 1], words[i], bits))
  <2>1. i \in 0 .. n /\ i # 0
    BY <1>1
  <2> HIDE DEF n
  <2> QED  BY <1>5, <2>1
<1> QED  BY <1>6, <1>7 DEF V

(* After i words, the bytes and the pending bits are those of the words.   *)
LEMMA PackingKeeps ==
  ASSUME NEW bits \in Widths, NEW words \in Seq(Digits(bits))
  PROVE  \A i \in 0 .. Len(words) :
           /\ Packing(words, bits)[i] \in States(ByteBits)
           /\ Packing(words, bits)[i].len < ByteBits
           /\ Total(Packing(words, bits)[i], ByteBits) = ValueOf(words, bits)[i]
           /\ Size(Packing(words, bits)[i], ByteBits) = bits * i
<1> DEFINE n == Len(words)
           s(i) == Packing(words, bits)[i]
           Good(i) == /\ s(i) \in States(ByteBits) /\ s(i).len < ByteBits
                      /\ Total(s(i), ByteBits) = ValueOf(words, bits)[i]
                      /\ Size(s(i), ByteBits) = bits * i
           T == {i \in Nat : i <= n => Good(i)}
<1>0. /\ bits \in Nat /\ bits + LowBits <= AccBits /\ words \in Seq(Nat) /\ n \in Nat
      /\ Digits(bits) \subseteq Nat
  <2>1. bits \in Nat /\ bits + LowBits <= AccBits
    BY DEF Widths
  <2>2. Digits(bits) \subseteq Nat
    <3>1. 2 ^ bits \in Nat
      BY <2>1, PowerPositive
    <3> QED  BY <3>1 DEF Digits
  <2> QED  BY <2>1, <2>2
<1>1. 0 \in T
  <2>1. s(0) = Fresh
    BY <1>0, PackingSteps
  <2>2. /\ Fresh \in States(ByteBits) /\ Fresh.len = 0
        /\ Total(Fresh, ByteBits) = 0 /\ Size(Fresh, ByteBits) = 0
    BY Parameters, FreshState
  <2>3. ValueOf(words, bits)[0] = 0 /\ bits * 0 = 0 /\ 0 < ByteBits
    BY <1>0, Parameters, ValueStep
  <2>4. Good(0)
    <3> HIDE DEF s
    <3> QED  BY <2>1, <2>2, <2>3
  <2> HIDE DEF Good
  <2> QED  BY <2>4
<1>2. ASSUME NEW i \in Nat, i \in T
      PROVE  i + 1 \in T
  <2> SUFFICES ASSUME i + 1 <= n
               PROVE  Good(i + 1)
    <3> HIDE DEF Good
    <3> QED  OBVIOUS
  <2>1. i + 1 \in 1 .. n /\ (i + 1) - 1 = i /\ i <= n /\ i + 1 \in Nat
    BY <1>0
  <2>2. Good(i)
    <3> HIDE DEF Good
    <3> QED  BY <1>2, <2>1
  <2> DEFINE w == words[i + 1]
             p == Push(s(i), w, bits)
  <2>3. w \in Digits(bits) /\ Digit(words, i + 1) = w
    BY <2>1 DEF Digit
  <2>4. s(i + 1) = FlushBytes(p)
    <3> HIDE DEF n
    <3>1. Packing(words, bits)[i + 1] =
            FlushBytes(Push(Packing(words, bits)[(i + 1) - 1], words[i + 1], bits))
      BY <1>0, <2>1, PackingSteps DEF n
    <3> QED  BY <2>1, <3>1
  <2> HIDE DEF w, s
  <2>5. s(i).len + bits <= AccBits
    <3>1. s(i).len \in Nat /\ s(i).len < ByteBits
      BY <2>2, Parameters, StateFields
    <3> QED  BY <1>0, <3>1, Parameters
  <2>6. /\ p \in States(ByteBits)
        /\ Total(p, ByteBits) = Total(s(i), ByteBits) * 2 ^ bits + w
        /\ Size(p, ByteBits) = Size(s(i), ByteBits) + bits
    <3>1. ByteBits \in Nat /\ s(i) \in States(ByteBits)
      BY <2>2, Parameters
    <3>2. p \in States(ByteBits)
      BY <1>0, <2>3, <2>5, <3>1, PushKeeps
    <3>3. Total(p, ByteBits) = Total(s(i), ByteBits) * 2 ^ bits + w
      BY <1>0, <2>3, <2>5, <3>1, PushKeeps
    <3>4. Size(p, ByteBits) = Size(s(i), ByteBits) + bits
      BY <1>0, <2>3, <2>5, <3>1, PushKeeps
    <3> QED  BY <3>2, <3>3, <3>4
  <2> HIDE DEF p
  <2>7. /\ s(i + 1) \in States(ByteBits) /\ s(i + 1).len < ByteBits
        /\ Total(s(i + 1), ByteBits) = Total(p, ByteBits)
        /\ Size(s(i + 1), ByteBits) = Size(p, ByteBits)
    BY <2>4, <2>6, FlushKeeps
  <2>8. ValueOf(words, bits)[i + 1] = ValueOf(words, bits)[i] * 2 ^ bits + w
    BY <1>0, <2>3, ValueStep
  <2>9. bits * (i + 1) = bits * i + bits
    BY <1>0
  <2> QED  BY <2>2, <2>6, <2>7, <2>8, <2>9
<1> HIDE DEF T
<1>3. \A i \in Nat : i \in T
  BY <1>1, <1>2, Induction
<1> HIDE DEF s
<1>4. \A i \in 0 .. n : Good(i)
  BY <1>0, <1>3 DEF T
<1> QED  BY <1>4 DEF s

(* The length announced is the one that leaves less than a byte of zeros.  *)
LEMMA LengthUnique ==
  ASSUME NEW n \in Nat, NEW bits \in Nat, NEW K \in Nat, NEW pad \in 0 .. ByteBits - 1,
         ByteBits * K = bits * n + pad
  PROVE  FixedLength(n, bits) = K
<1> DEFINE z == LowBits - pad
<1>1. PICK b \in Nat \ {0} : b = ByteBits /\ b - 1 = LowBits
  BY Parameters
<1>2. z \in 0 .. b - 1
  BY <1>1
<1>3. n * bits + ByteBits - 1 = K * b + z
  <2>1. n * bits = bits * n /\ n * bits \in Nat /\ b * K = K * b /\ K * b \in Nat
    OBVIOUS
  <2> QED  BY <1>1, <2>1
<1> HIDE DEF z
<1>4. (K * b + z) \div b = K
  BY <1>2, QuotientUnique
<1> QED  BY <1>1, <1>3, <1>4 DEF FixedLength

(* The other way round.                                                    *)
LEMMA LengthPads ==
  ASSUME NEW n \in Nat, NEW bits \in Nat
  PROVE  /\ FixedLength(n, bits) \in Nat
         /\ \E pad \in 0 .. ByteBits - 1 : ByteBits * FixedLength(n, bits) = bits * n + pad
<1>1. PICK b \in Nat \ {0} : b = ByteBits
  BY Parameters
<1> DEFINE z == n * bits + b - 1
           K == z \div b
           r == z % b
           pad == b - 1 - r
<1>2. n * bits \in Nat /\ n * bits = bits * n
  OBVIOUS
<1>3. z \in Nat /\ z = bits * n + b - 1
  <2> DEFINE y == n * bits
  <2>1. y \in Nat
    BY <1>2
  <2> HIDE DEF y
  <2>2. y + b - 1 \in Nat
    BY <2>1
  <2> QED  BY <1>2, <2>2 DEF y
<1> HIDE DEF z
<1>4. K \in Nat /\ r \in 0 .. b - 1 /\ z = K * b + r
  BY <1>3, QuotientRemainder
<1>5. FixedLength(n, bits) = K
  BY <1>1 DEF FixedLength, z
<1> HIDE DEF K, r
<1>6. pad \in 0 .. b - 1 /\ b * K = bits * n + pad
  <2>1. b * K = K * b /\ K * b \in Nat /\ bits * n \in Nat
    BY <1>4
  <2> QED  BY <1>3, <1>4, <2>1
<1> QED  BY <1>1, <1>4, <1>5, <1>6

(* The bytes of the words: as many as the length announces, and the number *)
(* they stand for is that of the words, followed by less than a byte of    *)
(* zeros.                                                                  *)
LEMMA PackedWords ==
  ASSUME NEW bits \in Widths, NEW words \in Seq(Digits(bits)), NEW bytes,
         bytes = LastByte(Packing(words, bits)[Len(words)])
  PROVE  /\ bytes \in Seq(Bytes)
         /\ Len(bytes) = FixedLength(Len(words), bits)
         /\ \E pad \in 0 .. ByteBits - 1 :
              /\ ByteBits * Len(bytes) = bits * Len(words) + pad
              /\ Whole(bytes, ByteBits) = Whole(words, bits) * 2 ^ pad
<1> DEFINE n == Len(words)
           s == Packing(words, bits)[n]
<1>1. n \in Nat /\ n \in 0 .. n /\ bits \in Nat
  BY DEF Widths
<1>2. /\ s \in States(ByteBits) /\ s.len < ByteBits
      /\ Total(s, ByteBits) = Whole(words, bits) /\ Size(s, ByteBits) = bits * n
  BY <1>1, PackingKeeps DEF Whole
<1> HIDE DEF s
<1>3. PICK pad \in 0 .. ByteBits - 1 :
           /\ LastByte(s) \in Seq(Bytes)
           /\ ByteBits * Len(LastByte(s)) = Size(s, ByteBits) + pad
           /\ Whole(LastByte(s), ByteBits) = Total(s, ByteBits) * 2 ^ pad
  BY <1>2, LastByteKeeps
<1>4. /\ bytes \in Seq(Bytes) /\ ByteBits * Len(bytes) = bits * n + pad
      /\ Whole(bytes, ByteBits) = Whole(words, bits) * 2 ^ pad
  BY <1>2, <1>3 DEF s
<1>5. Len(bytes) = FixedLength(n, bits)
  <2>1. Len(bytes) \in Nat
    BY <1>4
  <2> QED  BY <1>1, <1>4, <2>1, LengthUnique
<1> QED  BY <1>4, <1>5


-----------------------------------------------------------------------------
(* The fixed-width decoders.                                               *)

(* The definition of Unpacking, as equations.                              *)
LEMMA UnpackingSteps ==
  ASSUME NEW bits \in Nat \ {0}, NEW n \in Nat, NEW in \in Seq(Bytes),
         FixedLength(n, bits) <= Len(in)
  PROVE  /\ Unpacking(in, n, bits)[0] = Fresh
         /\ \A i \in 1 .. FixedLength(n, bits) :
              Unpacking(in, n, bits)[i] = TakeWords(Unpacking(in, n, bits)[i - 1], in[i], n, bits)
<1> DEFINE S == {s \in States(bits) : Len(s.out) <= n}
           K == FixedLength(n, bits)
           Step(i, z) == IF i + 1 \in 1 .. K THEN TakeWords(z, in[i + 1], n, bits) ELSE z
           G == [i \in Nat |-> [z \in S |-> Step(i, z)]]
           Rule(f) == f = [v \in 0 .. K |->
                             IF v = 0 THEN Fresh ELSE TakeWords(f[v - 1], in[v], n, bits)]
           V == Unpacking(in, n, bits)
<1>0. K \in Nat /\ K <= Len(in) /\ bits \in Nat
  BY LengthPads
<1>1. IsStep(G, S) /\ Fresh \in S
  <2>1. ASSUME NEW i \in Nat, NEW z \in S
        PROVE  Step(i, z) \in S
    <3>1. CASE i + 1 \in 1 .. K
      <4>1. in[i + 1] \in Bytes
        <5> HIDE DEF K
        <5> QED  BY <1>0, <3>1
      <4>2. z \in States(bits) /\ Len(z.out) <= n
        OBVIOUS
      <4> DEFINE t == TakeWords(z, in[i + 1], n, bits)
      <4>3. t \in States(bits)
        BY <4>1, <4>2, TakeWordsKeeps
      <4>4. Len(t.out) <= n
        BY <4>1, <4>2, TakeWordsKeeps
      <4> HIDE DEF t
      <4>5. t \in S
        BY <4>3, <4>4
      <4>6. Step(i, z) = t
        BY <3>1 DEF t
      <4> QED  BY <4>5, <4>6
    <3>2. CASE ~ (i + 1 \in 1 .. K)
      BY <3>2
    <3> QED  BY <3>1, <3>2
  <2>2. Fresh \in S
    BY <1>0, FreshState
  <2> HIDE DEF Step, S
  <2> QED  BY <2>1, <2>2 DEF IsStep
<1>2. PICK g : Obeys(g, K, S, Fresh, G)
  <2> HIDE DEF G, S, K
  <2> QED  BY <1>0, <1>1, FiniteRecursion
<1>3. Rule(g)
  <2>1. ASSUME NEW i \in 0 .. K, i # 0
        PROVE  g[i] = TakeWords(g[i - 1], in[i], n, bits)
    <3>1. i \in 1 .. K /\ i - 1 \in 0 .. K - 1 /\ i - 1 \in 0 .. K /\ (i - 1) + 1 = i
      BY <1>0, <2>1
    <3>2. g[i] = G[i - 1][g[i - 1]] /\ g[i - 1] \in S /\ i - 1 \in Nat
      <4> HIDE DEF G, S, K
      <4> QED  BY <1>2, <3>1 DEF Obeys
    <3>3. g[i] = Step(i - 1, g[i - 1])
      <4> HIDE DEF Step, S
      <4> QED  BY <3>1, <3>2
    <3> QED  BY <3>1, <3>3
  <2>2. g = [i \in 0 .. K |-> g[i]] /\ g[0] = Fresh
    <3> HIDE DEF S, G, K
    <3> QED  BY <1>2 DEF Obeys
  <2> HIDE DEF S, G, K
  <2> QED  BY <2>1, <2>2
<1>4. V = CHOOSE f : Rule(f)
  BY DEF Unpacking
<1>5. Rule(V)
  <2> HIDE DEF Rule, V
  <2> QED  BY <1>3, <1>4
<1> HIDE DEF V, K
<1>6. V[0] = Fresh
  BY <1>0, <1>5
<1>7. ASSUME NEW i \in 1 .. K
      PROVE  V[i] = TakeWords(V[i - 1], in[i], n, bits)
  <2>1. i \in 0 .. K /\ i # 0
    BY <1>0
  <2> QED  BY <1>5, <2>1
<1> QED  BY <1>6, <1>7 DEF V, K

(* A number of words is not complete while less than their length is read. *)
LEMMA LengthNeeded ==
  ASSUME NEW b \in Nat \ {0}, NEW bits \in Nat, NEW n \in Nat, NEW K \in Nat,
         NEW pad \in 0 .. b - 1, b * K = bits * n + pad, NEW i \in Nat, i < K
  PROVE  b * i < bits * n
<1>1. i * b + b <= K * b
  BY MultipleAbove
<1>2. i * b = b * i /\ K * b = b * K /\ b * i \in Nat /\ b * K \in Nat /\ bits * n \in Nat
  OBVIOUS
<1> QED  BY <1>1, <1>2

(* After i bytes, the words and the pending bits are those of the bytes.   *)
LEMMA UnpackingKeeps ==
  ASSUME NEW bits \in Widths, NEW n \in Nat, NEW in \in Seq(Bytes),
         FixedLength(n, bits) <= Len(in)
  PROVE  \A i \in 0 .. FixedLength(n, bits) :
           /\ Unpacking(in, n, bits)[i] \in States(bits)
           /\ Len(Unpacking(in, n, bits)[i].out) <= n
           /\ Len(Unpacking(in, n, bits)[i].out) < n => Unpacking(in, n, bits)[i].len < bits
           /\ Total(Unpacking(in, n, bits)[i], bits) = ValueOf(in, ByteBits)[i]
           /\ Size(Unpacking(in, n, bits)[i], bits) = ByteBits * i
<1> DEFINE K == FixedLength(n, bits)
           s(i) == Unpacking(in, n, bits)[i]
           Good(i) == /\ s(i) \in States(bits) /\ Len(s(i).out) <= n
                      /\ Len(s(i).out) < n => s(i).len < bits
                      /\ Total(s(i), bits) = ValueOf(in, ByteBits)[i]
                      /\ Size(s(i), bits) = ByteBits * i
           T == {i \in Nat : i <= K => Good(i)}
<1>0. bits \in Nat \ {0} /\ bits \in Nat /\ bits + LowBits <= AccBits
  BY DEF Widths
<1>01. in \in Seq(Digits(ByteBits)) /\ Len(in) \in Nat
  BY DEF Bytes
<1>02. K \in Nat /\ \E pad \in 0 .. ByteBits - 1 : ByteBits * K = bits * n + pad
  BY <1>0, LengthPads
<1>03. /\ s(0) = Fresh
       /\ \A i \in 1 .. K : s(i) = TakeWords(s(i - 1), in[i], n, bits)
  BY <1>0, UnpackingSteps
<1>04. /\ ByteBits \in Nat \ {0} /\ ByteBits \in Nat /\ ByteBits = LowBits + 1
       /\ LowBits \in Nat /\ AccBits \in Nat
  BY Parameters
<1>05. K <= Len(in)
  OBVIOUS
<1> HIDE DEF K, s
<1>1. 0 \in T
  <2>1. /\ Fresh \in States(bits) /\ Fresh.len = 0 /\ Len(Fresh.out) = 0
        /\ Total(Fresh, bits) = 0 /\ Size(Fresh, bits) = 0
    BY <1>0, FreshState
  <2>2. ValueOf(in, ByteBits)[0] = 0 /\ ByteBits * 0 = 0 /\ 0 < bits
    BY <1>0, <1>01, <1>04, ValueStep
  <2>3. Good(0)
    BY <1>03, <2>1, <2>2
  <2> HIDE DEF Good
  <2> QED  BY <2>3
<1>2. ASSUME NEW i \in Nat, i \in T
      PROVE  i + 1 \in T
  <2> SUFFICES ASSUME i + 1 <= K
               PROVE  Good(i + 1)
    <3> HIDE DEF Good
    <3> QED  OBVIOUS
  <2>1. i + 1 \in 1 .. K /\ (i + 1) - 1 = i /\ i < K /\ i <= K /\ i + 1 \in Nat
    BY <1>02
  <2>2. Good(i)
    <3> HIDE DEF Good
    <3> QED  BY <1>2, <2>1
  <2> DEFINE w == in[i + 1]
  <2>3. w \in Bytes /\ Digit(in, i + 1) = w
    <3>1. i + 1 \in DOMAIN in
      BY <1>01, <1>02, <1>05, <2>1
    <3> QED  BY <3>1 DEF Digit
  <2>4. s(i + 1) = TakeWords(s(i), w, n, bits)
    BY <1>03, <2>1
  <2> HIDE DEF w
  <2>5. s(i).len + ByteBits <= AccBits
    <3>1. PICK A \in Nat, L \in Nat, m \in Nat, W \in Nat :
           /\ s(i).acc = A /\ s(i).len = L /\ Len(s(i).out) = m /\ Whole(s(i).out, bits) = W
           /\ s(i) = [acc |-> A, len |-> L, out |-> s(i).out]
           /\ Total(s(i), bits) = W * 2 ^ L + (A % 2 ^ L) /\ Size(s(i), bits) = bits * m + L
      BY <1>0, <2>2, StateNumbers
    <3>2. ByteBits * i < bits * n
      BY <1>0, <1>02, <1>04, <2>1, LengthNeeded
    <3>3. ByteBits * i = bits * m + L
      BY <2>2, <3>1
    <3>4. m < n
      <4>1. CASE m = n
        <5>1. bits * n \in Nat /\ bits * n + L < bits * n
          BY <1>0, <3>2, <3>3, <4>1
        <5> QED  BY <5>1
      <4> QED  BY <2>2, <3>1, <4>1
    <3>5. L < bits
      BY <2>2, <3>1, <3>4
    <3>6. L + ByteBits <= AccBits
      BY <1>0, <1>04, <3>5
    <3> QED  BY <3>1, <3>6
  <2> DEFINE t == TakeWords(s(i), w, n, bits)
  <2>6. s(i) \in States(bits) /\ Len(s(i).out) <= n
    BY <2>2
  <2>7. t \in States(bits)
    BY <1>0, <2>3, <2>6, TakeWordsKeeps
  <2>8. Len(t.out) <= n
    BY <1>0, <2>3, <2>6, TakeWordsKeeps
  <2>9. Len(t.out) < n => t.len < bits
    BY <1>0, <2>3, <2>6, TakeWordsKeeps
  <2>10. Total(t, bits) = Total(s(i), bits) * 2 ^ ByteBits + w
    BY <1>0, <2>3, <2>5, <2>6, TakeWordsKeeps
  <2>11. Size(t, bits) = Size(s(i), bits) + ByteBits
    BY <1>0, <2>3, <2>5, <2>6, TakeWordsKeeps
  <2>12. ValueOf(in, ByteBits)[i + 1] = ValueOf(in, ByteBits)[i] * 2 ^ ByteBits + w
    BY <1>01, <1>04, <2>3, ValueStep
  <2>13. ByteBits * (i + 1) = ByteBits * i + ByteBits
    BY <1>04
  <2> HIDE DEF t
  <2>14. s(i + 1) = t
    BY <2>4 DEF t
  <2> QED  BY <2>2, <2>7, <2>8, <2>9, <2>10, <2>11, <2>12, <2>13, <2>14
<1> HIDE DEF T
<1>3. \A i \in Nat : i \in T
  BY <1>1, <1>2, Induction
<1>4. \A i \in 0 .. K : Good(i)
  BY <1>02, <1>3 DEF T
<1> QED  BY <1>4 DEF s, K

(* When the whole length is read, all words are there, and the bits left   *)
(* are the end of what was read.                                           *)
LEMMA UnpackedWords ==
  ASSUME NEW bits \in Widths, NEW n \in Nat, NEW in \in Seq(Bytes), NEW K,
         K = FixedLength(n, bits), K <= Len(in), NEW t, t = Unpacking(in, n, bits)[K]
  PROVE  \E pad \in 0 .. ByteBits - 1 :
           /\ ByteBits * K = bits * n + pad
           /\ t.out \in Seq(Digits(bits)) /\ Len(t.out) = n
           /\ Pending(t) \in 0 .. 2 ^ pad - 1
           /\ ValueOf(in, ByteBits)[K] = Whole(t.out, bits) * 2 ^ pad + Pending(t)
<1>0. bits \in Nat \ {0} /\ bits \in Nat
  BY DEF Widths
<1>1. K \in Nat /\ K \in 0 .. K
  <2>1. K \in Nat
    BY <1>0, LengthPads
  <2> QED  BY <2>1
<1>2. PICK pad \in 0 .. ByteBits - 1 : ByteBits * K = bits * n + pad
  BY <1>0, LengthPads
<1>3. /\ t \in States(bits) /\ Len(t.out) <= n /\ (Len(t.out) < n => t.len < bits)
      /\ Total(t, bits) = ValueOf(in, ByteBits)[K] /\ Size(t, bits) = ByteBits * K
  BY <1>1, UnpackingKeeps
<1>4. PICK A \in Nat, L \in Nat, m \in Nat, W \in Nat :
           /\ t.acc = A /\ t.len = L /\ Len(t.out) = m /\ Whole(t.out, bits) = W
           /\ t = [acc |-> A, len |-> L, out |-> t.out]
           /\ Total(t, bits) = W * 2 ^ L + (A % 2 ^ L) /\ Size(t, bits) = bits * m + L
  BY <1>0, <1>3, StateNumbers
<1>5. bits * m + L = bits * n + pad /\ pad \in Nat
  BY <1>2, <1>3, <1>4, Parameters
<1>6. m = n
  <2>1. CASE m < n
    <3>1. m * bits + bits <= n * bits
      BY <1>0, <2>1, MultipleAbove
    <3>2. m * bits = bits * m /\ n * bits = bits * n /\ bits * m \in Nat /\ bits * n \in Nat
      BY <1>0
    <3>3. L < bits
      BY <1>3, <1>4, <2>1
    <3> QED  BY <1>0, <1>5, <3>1, <3>2, <3>3
  <2> QED  BY <1>3, <1>4, <2>1
<1>7. L = pad
  <2>1. bits * n \in Nat
    BY <1>0
  <2> QED  BY <1>5, <1>6, <2>1
<1>8. Pending(t) = A % 2 ^ L
  BY <1>4 DEF Pending
<1>9. A % 2 ^ L \in 0 .. 2 ^ L - 1
  <2>1. 2 ^ L \in Nat \ {0}
    BY PowerPositive
  <2> QED  BY <2>1, QuotientRemainder
<1>10. t.out \in Seq(Digits(bits)) /\ Len(t.out) = n
  BY <1>0, <1>3, <1>4, <1>6, StateFields
<1>11. ValueOf(in, ByteBits)[K] = Whole(t.out, bits) * 2 ^ pad + Pending(t)
  BY <1>3, <1>4, <1>7, <1>8
<1> QED  BY <1>2, <1>7, <1>8, <1>9, <1>10, <1>11


(* The decoder finds the words in a string that starts with their bytes,   *)
(* whatever follows, and refuses a string that is shorter.                 *)
LEMMA UnpackPacked ==
  ASSUME NEW bits \in Widths, NEW words \in Seq(Digits(bits)), NEW bytes,
         bytes = LastByte(Packing(words, bits)[Len(words)]), NEW in \in Seq(Bytes)
  PROVE  /\ Len(in) < Len(bytes) => Unpack(in, Len(in), Len(words), bits) = Rejected
         /\ Len(in) >= Len(bytes) /\ (\A i \in 1 .. Len(bytes) : in[i] = bytes[i]) =>
              Unpack(in, Len(in), Len(words), bits) = [len |-> Len(bytes), x |-> words]
<1> DEFINE n == Len(words)
           K == FixedLength(n, bits)
           t == Unpacking(in, n, bits)[K]
<1>0. bits \in Nat /\ ByteBits \in Nat /\ ByteBits \in Nat \ {0} /\ n \in Nat
  BY Parameters DEF Widths
<1>1. /\ bytes \in Seq(Bytes) /\ Len(bytes) = K
      /\ \E pad \in 0 .. ByteBits - 1 :
              /\ ByteBits * K = bits * n + pad
              /\ Whole(bytes, ByteBits) = Whole(words, bits) * 2 ^ pad
  <2>1. /\ bytes \in Seq(Bytes) /\ Len(bytes) = K
        /\ \E pad \in 0 .. ByteBits - 1 :
              /\ ByteBits * Len(bytes) = bits * n + pad
              /\ Whole(bytes, ByteBits) = Whole(words, bits) * 2 ^ pad
    BY PackedWords
  <2> HIDE DEF K
  <2> QED  BY <2>1
<1>2. K \in Nat /\ Len(in) \in Nat
  BY <1>1
<1>3. Len(in) < Len(bytes) => Unpack(in, Len(in), n, bits) = Rejected
  <2> HIDE DEF K, n
  <2> QED  BY <1>1, <1>2 DEF Unpack, K
<1>4. ASSUME Len(in) >= Len(bytes), \A i \in 1 .. Len(bytes) : in[i] = bytes[i]
      PROVE  Unpack(in, Len(in), n, bits) = [len |-> Len(bytes), x |-> words]
  <2>1. PICK pad \in 0 .. ByteBits - 1 :
              /\ ByteBits * K = bits * n + pad
              /\ Whole(bytes, ByteBits) = Whole(words, bits) * 2 ^ pad
    BY <1>1
  <2>2. K <= Len(in)
    BY <1>1, <1>2, <1>4
  <2>3. PICK p \in 0 .. ByteBits - 1 :
           /\ ByteBits * K = bits * n + p
           /\ t.out \in Seq(Digits(bits)) /\ Len(t.out) = n
           /\ Pending(t) \in 0 .. 2 ^ p - 1
           /\ ValueOf(in, ByteBits)[K] = Whole(t.out, bits) * 2 ^ p + Pending(t)
    BY <2>2, UnpackedWords
  <2> HIDE DEF t, K, n
  <2>4. p = pad /\ pad \in Nat
    <3>1. bits * n \in Nat
      BY <1>0
    <3> QED  BY <1>0, <2>1, <2>3, <3>1
  <2>5. ValueOf(in, ByteBits)[K] = ValueOf(bytes, ByteBits)[K]
    <3>4. in \in Seq(Digits(ByteBits)) /\ bytes \in Seq(Digits(ByteBits))
      BY <1>1 DEF Bytes
    <3>1. \A i \in 1 .. K : Digit(in, i) = Digit(bytes, i)
      <4>1. \A i \in 1 .. K : i \in DOMAIN in /\ i \in DOMAIN bytes
        BY <1>1, <1>2, <1>4
      <4> QED  BY <1>1, <1>4, <4>1 DEF Digit
    <3>2. K \in 0 .. K
      BY <1>2
    <3>3. \A i \in 0 .. K : ValueOf(in, ByteBits)[i] = ValueOf(bytes, ByteBits)[i]
      BY <1>0, <1>2, <3>1, <3>4, ValueSame
    <3> QED  BY <3>2, <3>3
  <2>6. Whole(t.out, bits) * 2 ^ pad + Pending(t) = Whole(words, bits) * 2 ^ pad + 0
    <3>1. ValueOf(bytes, ByteBits)[K] = Whole(words, bits) * 2 ^ pad
      BY <1>1, <2>1 DEF Whole
    <3>2. Whole(words, bits) * 2 ^ pad \in Nat
      <4>1. Whole(words, bits) \in Nat /\ 2 ^ pad \in Nat
        BY <1>0, <2>4, PowerPositive, WholeStep
      <4> QED  BY <4>1
    <3> QED  BY <2>3, <2>4, <2>5, <3>1, <3>2
  <2>7. Whole(t.out, bits) = Whole(words, bits) /\ Pending(t) = 0
    <3> DEFINE P == 2 ^ pad
               y == Whole(t.out, bits)
               z == Whole(words, bits)
               r == Pending(t)
    <3>1. P \in Nat \ {0} /\ y \in Int /\ z \in Int /\ r \in 0 .. P - 1 /\ 0 \in 0 .. P - 1
      <4>1. y \in Nat /\ z \in Nat
        BY <1>0, <2>3, WholeStep
      <4>2. P \in Nat \ {0}
        BY <2>4, PowerPositive
      <4> QED  BY <2>3, <2>4, <4>1, <4>2
    <3>2. y * P + r = z * P + 0
      BY <2>6
    <3> HIDE DEF P, y, z, r
    <3>3. (y * P + r) \div P = y /\ (y * P + r) % P = r /\ (z * P + 0) \div P = z /\ (z * P + 0) % P = 0
      BY <3>1, QuotientUnique
    <3>4. y = z /\ r = 0
      BY <3>2, <3>3
    <3> QED  BY <3>4 DEF y, z, r
  <2>8. t.out = words
    BY <1>0, <2>3, <2>7, WholeUnique DEF n
  <2>9. Unpack(in, Len(in), n, bits) = [len |-> K, x |-> t.out]
    <3>1. K <= Len(in)
      BY <1>1, <1>2, <1>4
    <3> QED  BY <1>1, <2>7, <3>1 DEF Unpack, t, K
  <2> QED  BY <1>1, <2>8, <2>9
<1> QED  BY <1>3, <1>4

(* What the decoder accepts is what the encoder writes for the words.      *)
LEMMA PackUnpacked ==
  ASSUME NEW bits \in Widths, NEW n \in Nat, NEW in \in Seq(Bytes), NEW r,
         r = Unpack(in, Len(in), n, bits)
  PROVE  \/ r = Rejected
         \/ /\ r.len = FixedLength(n, bits) /\ r.len \in Nat /\ r.len <= Len(in)
            /\ r.x \in Seq(Digits(bits)) /\ Len(r.x) = n
            /\ LastByte(Packing(r.x, bits)[Len(r.x)]) = SubSeq(in, 1, r.len)
<1> DEFINE K == FixedLength(n, bits)
           t == Unpacking(in, n, bits)[K]
<1>0. bits \in Nat /\ ByteBits \in Nat /\ ByteBits \in Nat \ {0} /\ bits \in Nat \ {0}
  BY Parameters DEF Widths
<1>1. K \in Nat
  BY <1>0, LengthPads
<1> SUFFICES ASSUME K <= Len(in), Pending(t) = 0
             PROVE  /\ r.len = K /\ r.len \in Nat /\ r.len <= Len(in)
                    /\ r.x \in Seq(Digits(bits)) /\ Len(r.x) = n
                    /\ LastByte(Packing(r.x, bits)[Len(r.x)]) = SubSeq(in, 1, r.len)
  <2>1. CASE K <= Len(in) /\ Pending(t) = 0
    BY <2>1
  <2>2. CASE ~ (K <= Len(in) /\ Pending(t) = 0)
    <3>1. r = Rejected
      BY <2>2 DEF Unpack
    <3> QED  BY <3>1
  <2> QED  BY <2>1, <2>2
<1>2. r = [len |-> K, x |-> t.out]
  BY DEF Unpack
<1>3. PICK pad \in 0 .. ByteBits - 1 :
           /\ ByteBits * K = bits * n + pad
           /\ t.out \in Seq(Digits(bits)) /\ Len(t.out) = n
           /\ Pending(t) \in 0 .. 2 ^ pad - 1
           /\ ValueOf(in, ByteBits)[K] = Whole(t.out, bits) * 2 ^ pad + Pending(t)
  BY UnpackedWords
<1> HIDE DEF K, t
<1> DEFINE words == t.out
           bytes == LastByte(Packing(words, bits)[Len(words)])
           front == SubSeq(in, 1, K)
<1>4. /\ bytes \in Seq(Bytes) /\ Len(bytes) = FixedLength(Len(words), bits)
      /\ \E p \in 0 .. ByteBits - 1 :
              /\ ByteBits * Len(bytes) = bits * Len(words) + p
              /\ Whole(bytes, ByteBits) = Whole(words, bits) * 2 ^ p
  BY <1>3, PackedWords
<1> HIDE DEF bytes
<1>5. Len(bytes) = K
  BY <1>3, <1>4 DEF K
<1>6. Whole(bytes, ByteBits) = Whole(words, bits) * 2 ^ pad
  <2>1. PICK p \in 0 .. ByteBits - 1 :
              /\ ByteBits * Len(bytes) = bits * Len(words) + p
              /\ Whole(bytes, ByteBits) = Whole(words, bits) * 2 ^ p
    BY <1>4
  <2>2. p = pad
    <3>1. bits * n \in Nat
      BY <1>0
    <3> QED  BY <1>0, <1>3, <1>5, <2>1, <3>1
  <2> QED  BY <2>1, <2>2
<1>7. front \in Seq(Bytes) /\ Len(front) = K /\ \A i \in 1 .. K : front[i] = in[i]
  BY <1>1
<1>8. Whole(front, ByteBits) = ValueOf(in, ByteBits)[K]
  <2> HIDE DEF front
  <2>1. \A i \in 1 .. K : Digit(front, i) = Digit(in, i)
    <3>1. \A i \in 1 .. K : i \in DOMAIN in /\ i \in DOMAIN front
      BY <1>1, <1>7
    <3> QED  BY <1>7, <3>1 DEF Digit
  <2>2. K \in 0 .. K
    BY <1>1
  <2>3. \A i \in 0 .. K : ValueOf(front, ByteBits)[i] = ValueOf(in, ByteBits)[i]
    BY <1>0, <1>1, <1>7, <2>1, ValueSame DEF Bytes
  <2> QED  BY <1>7, <2>2, <2>3 DEF Whole
<1>9. Whole(bytes, ByteBits) = Whole(front, ByteBits)
  <2>1. Whole(words, bits) * 2 ^ pad \in Nat
    <3>1. Whole(words, bits) \in Nat /\ pad \in Nat
      BY <1>0, <1>3, WholeStep
    <3>2. 2 ^ pad \in Nat
      BY <3>1, PowerPositive
    <3> QED  BY <3>1, <3>2
  <2> QED  BY <1>3, <1>6, <1>8, <2>1
<1>10. bytes = front
  <2> HIDE DEF front
  <2> QED  BY <1>0, <1>4, <1>5, <1>7, <1>9, WholeUnique DEF Bytes
<1> QED  BY <1>1, <1>2, <1>3, <1>10 DEF bytes


-----------------------------------------------------------------------------
(* The compressed encoding: the bits of one element.                       *)

Elements == -MaxAbs .. MaxAbs

Sign(a) == IF a < 0 THEN 1 ELSE 0
Low(a)  == Abs(a) % 2 ^ LowBits
High(a) == Abs(a) \div 2 ^ LowBits

ElementSize(a) == ByteBits + (High(a) + 1)
ElementBits(a) == (Sign(a) * 2 ^ LowBits + Low(a)) * 2 ^ (High(a) + 1) + 1

(* An element is its sign, its low bits and the number of high ones, and   *)
(* all of it fits the accumulator, next to what may be pending.            *)
LEMMA ElementParts ==
  ASSUME NEW a \in Elements
  PROVE  /\ Sign(a) \in 0 .. 1 /\ Low(a) \in 0 .. 2 ^ LowBits - 1 /\ High(a) \in Nat
         /\ Abs(a) \in 0 .. MaxAbs /\ Abs(a) = High(a) * 2 ^ LowBits + Low(a)
         /\ LowBits + ElementSize(a) <= AccBits
         /\ High(a) + 1 <= HighSteps
<1>1. MaxAbs \in Nat /\ LowBits \in Nat /\ ByteBits \in Nat
  BY Parameters
<1>2. Abs(a) \in 0 .. MaxAbs /\ Sign(a) \in 0 .. 1
  BY <1>1 DEF Abs, Sign, Elements
<1> DEFINE P == 2 ^ LowBits
           y == Abs(a)
           h == y \div P
           l == y % P
           m == MaxAbs \div P
           r == MaxAbs % P
<1>3. P \in Nat \ {0}
  BY <1>1, PowerPositive
<1>4. y \in Nat /\ y <= MaxAbs
  BY <1>1, <1>2
<1> HIDE DEF P, y
<1>5. h \in Nat /\ l \in 0 .. P - 1 /\ y = h * P + l
  BY <1>3, <1>4, QuotientRemainder
<1>6. m \in Nat /\ r \in 0 .. P - 1 /\ MaxAbs = m * P + r
  BY <1>1, <1>3, QuotientRemainder
<1> HIDE DEF h, l, m, r
<1>7. h <= m
  <2>1. CASE m < h
    <3>1. m * P + P <= h * P
      BY <1>3, <1>5, <1>6, <2>1, MultipleAbove
    <3>2. h * P \in Nat /\ m * P \in Nat
      BY <1>3, <1>5, <1>6
    <3> QED  BY <1>3, <1>4, <1>5, <1>6, <3>1, <3>2
  <2> QED  BY <1>5, <1>6, <2>1
<1>8. h = High(a) /\ l = Low(a) /\ y = Abs(a)
  BY DEF h, l, y, P, High, Low
<1>9. LowBits + (ByteBits + (h + 1)) <= AccBits
  <2>1. ByteBits + (m + 1) + LowBits <= AccBits
    BY AccumulatorAssumption DEF m, P
  <2> QED  BY <1>1, <1>5, <1>6, <1>7, <2>1, Parameters
<1>10. h + 1 <= HighSteps
  <2>1. HighSteps = m + 1
    BY DEF HighSteps, m, P
  <2> QED  BY <1>5, <1>6, <1>7, <2>1
<1> QED  BY <1>2, <1>5, <1>8, <1>9, <1>10, Zenon DEF ElementSize, P

(* The bits of an element are those numbers in a row.                      *)
LEMMA ElementNumbers ==
  ASSUME NEW a \in Elements
  PROVE  /\ ElementSize(a) \in Nat /\ ElementSize(a) > 0
         /\ 2 ^ ElementSize(a) = 2 ^ ByteBits * 2 ^ (High(a) + 1)
         /\ Sign(a) * 2 ^ LowBits + Low(a) \in 0 .. 2 ^ ByteBits - 1
         /\ ElementBits(a) \in 0 .. 2 ^ ElementSize(a) - 1
<1>1. Sign(a) \in 0 .. 1 /\ Low(a) \in 0 .. 2 ^ LowBits - 1 /\ High(a) \in Nat
  BY ElementParts
<1> DEFINE P == 2 ^ LowBits
           Q == 2 ^ ByteBits
           R == 2 ^ (High(a) + 1)
           d == Sign(a) * P + Low(a)
<1>2. P \in Nat \ {0} /\ Q = 2 * P /\ R \in Nat \ {0} /\ 2 <= R
  <2>1. P \in Nat \ {0}
    BY Parameters, PowerPositive
  <2>2. Q = 2 * P
    BY Parameters, PowerOfTwo
  <2>3. R \in Nat \ {0} /\ High(a) + 1 + 1 <= R
    BY <1>1, PowerPositive
  <2> QED  BY <1>1, <2>1, <2>2, <2>3
<1>3. 2 ^ ElementSize(a) = Q * R
  <2>1. High(a) + 1 \in Nat /\ ByteBits \in Nat
    BY <1>1, Parameters
  <2>2. 2 ^ (ByteBits + (High(a) + 1)) = Q * R
    BY <2>1, PowerSum
  <2> QED  BY <2>2 DEF ElementSize
<1>4. ElementSize(a) \in Nat /\ ElementSize(a) > 0
  BY <1>1, Parameters DEF ElementSize
<1> HIDE DEF P, Q, R
<1>5. Sign(a) = 0 \/ Sign(a) = 1
  BY <1>1
<1>6. d \in 0 .. Q - 1
  <2>1. Low(a) \in 0 .. P - 1
    BY <1>1 DEF P
  <2> QED  BY <1>2, <1>5, <2>1
<1> HIDE DEF d
<1>7. d * R + 1 \in 0 .. Q * R - 1
  <2>1. d * R + R <= Q * R
    <3>1. d \in Int /\ Q \in Int /\ d < Q
      BY <1>2, <1>6
    <3> QED  BY <1>2, <3>1, MultipleAbove
  <2>2. d * R \in Nat /\ Q * R \in Nat
    BY <1>2, <1>6
  <2> QED  BY <1>2, <2>1, <2>2
<1> QED  BY <1>3, <1>4, <1>6, <1>7 DEF d, P, Q, R, ElementBits

(* Encoding an element adds its bits, and loses none.                      *)
LEMMA PushElementKeeps ==
  ASSUME NEW s \in States(ByteBits), s.len < ByteBits, NEW a \in Elements
  PROVE  /\ PushElement(s, a) \in States(ByteBits)
         /\ PushElement(s, a).len < ByteBits
         /\ Total(PushElement(s, a), ByteBits) =
              Total(s, ByteBits) * 2 ^ ElementSize(a) + ElementBits(a)
         /\ Size(PushElement(s, a), ByteBits) = Size(s, ByteBits) + ElementSize(a)
<1>0. ByteBits \in Nat /\ LowBits \in Nat /\ ByteBits = LowBits + 1 /\ AccBits \in Nat
  BY Parameters
<1>1. /\ Sign(a) \in 0 .. 1 /\ Low(a) \in 0 .. 2 ^ LowBits - 1 /\ High(a) \in Nat
      /\ LowBits + ElementSize(a) <= AccBits
  BY ElementParts
<1>2. s.len \in Nat
  BY <1>0, StateFields
<1>3. s.len + (ByteBits + (High(a) + 1)) <= AccBits
  <2>1. LowBits + (ByteBits + (High(a) + 1)) <= AccBits
    BY <1>1 DEF ElementSize
  <2> QED  BY <1>0, <1>1, <1>2, <2>1
<1> DEFINE s_1 == Push(s, Sign(a), 1)
           s_2 == Push(s_1, Low(a), LowBits)
           s_3 == Push(s_2, 1, High(a) + 1)
           t == PushElement(s, a)
<1>4. t = FlushBytes(s_3)
  BY Zenon DEF PushElement, Sign, Low, High
<1>5. 1 \in Nat /\ Sign(a) \in Digits(1) /\ s.len + 1 <= AccBits
  <2>1. 2 ^ 1 = 2
    BY PowerOfTwo
  <2> QED  BY <1>0, <1>1, <1>2, <1>3, <2>1 DEF Digits
<1>6. s_1 \in States(ByteBits)
  BY <1>0, <1>5, PushKeeps
<1>7. s_1.len = s.len + 1
  BY <1>0, <1>5, PushKeeps
<1>8. Total(s_1, ByteBits) = Total(s, ByteBits) * 2 ^ 1 + Sign(a)
  BY <1>0, <1>5, PushKeeps
<1>9. Size(s_1, ByteBits) = Size(s, ByteBits) + 1
  BY <1>0, <1>5, PushKeeps
<1> HIDE DEF s_1
<1>10. Low(a) \in Digits(LowBits) /\ s_1.len + LowBits <= AccBits
  BY <1>0, <1>1, <1>2, <1>3, <1>7 DEF Digits
<1>11. s_2 \in States(ByteBits)
  BY <1>0, <1>6, <1>10, PushKeeps
<1>12. s_2.len = s_1.len + LowBits
  BY <1>0, <1>6, <1>10, PushKeeps
<1>13. Total(s_2, ByteBits) = Total(s_1, ByteBits) * 2 ^ LowBits + Low(a)
  BY <1>0, <1>6, <1>10, PushKeeps
<1>14. Size(s_2, ByteBits) = Size(s_1, ByteBits) + LowBits
  BY <1>0, <1>6, <1>10, PushKeeps
<1> HIDE DEF s_2
<1>15. High(a) + 1 \in Nat /\ 1 \in Digits(High(a) + 1) /\ s_2.len + (High(a) + 1) <= AccBits
  <2>1. 2 ^ (High(a) + 1) \in Nat /\ High(a) + 1 + 1 <= 2 ^ (High(a) + 1)
    BY <1>1, PowerPositive
  <2>2. 1 \in Digits(High(a) + 1)
    BY <1>1, <2>1 DEF Digits
  <2> QED  BY <1>0, <1>1, <1>2, <1>3, <1>7, <1>12, <2>2
<1>16. s_3 \in States(ByteBits)
  BY <1>0, <1>11, <1>15, PushKeeps
<1>17. Total(s_3, ByteBits) = Total(s_2, ByteBits) * 2 ^ (High(a) + 1) + 1
  BY <1>0, <1>11, <1>15, PushKeeps
<1>18. Size(s_3, ByteBits) = Size(s_2, ByteBits) + (High(a) + 1)
  BY <1>0, <1>11, <1>15, PushKeeps
<1> HIDE DEF s_3, t
<1>19. /\ t \in States(ByteBits) /\ t.len < ByteBits
       /\ Total(t, ByteBits) = Total(s_3, ByteBits) /\ Size(t, ByteBits) = Size(s_3, ByteBits)
  BY <1>4, <1>16, FlushKeeps
<1>20. Total(s, ByteBits) \in Nat /\ Size(s, ByteBits) \in Nat
  BY <1>0, TotalType
<1>21. Total(t, ByteBits) = Total(s, ByteBits) * 2 ^ ElementSize(a) + ElementBits(a)
  <2> DEFINE V == Total(s, ByteBits)
             P == 2 ^ LowBits
             R == 2 ^ (High(a) + 1)
             g == Sign(a)
             l == Low(a)
  <2>1. V \in Nat /\ P \in Nat /\ R \in Nat /\ g \in Nat /\ l \in Nat
    <3>1. P \in Nat /\ R \in Nat
      BY <1>0, <1>15, PowerPositive
    <3>2. l \in Nat
      <4> HIDE DEF l, P
      <4> QED  BY <1>1, <3>1 DEF l, P
    <3> QED  BY <1>1, <1>20, <3>1, <3>2
  <2>2. 2 ^ 1 = 2 /\ 2 ^ ByteBits = 2 * P
    BY <1>0, PowerOfTwo
  <2>3. 2 ^ ElementSize(a) = (2 * P) * R
    BY <2>2, ElementNumbers
  <2>4. Total(t, ByteBits) = ((V * 2 + g) * P + l) * R + 1
    BY <1>8, <1>13, <1>17, <1>19, <2>2
  <2>5. ElementBits(a) = (g * P + l) * R + 1
    BY DEF ElementBits
  <2> HIDE DEF V, P, R, g, l
  <2>6. ((V * 2 + g) * P + l) * R = V * ((2 * P) * R) + (g * P + l) * R
    <3>1. (V * 2 + g) * P = V * (2 * P) + g * P
      BY <2>1
    <3>2. V * (2 * P) \in Nat /\ g * P \in Nat
      BY <2>1
    <3> DEFINE y == V * (2 * P)
               z == g * P
    <3>3. y * R = V * ((2 * P) * R)
      BY <2>1
    <3> HIDE DEF y, z
    <3>4. (y + z + l) * R = y * R + (z + l) * R
      BY <2>1, <3>2 DEF y, z
    <3> QED  BY <3>1, <3>3, <3>4 DEF y, z
  <2>7. V * ((2 * P) * R) \in Nat /\ (g * P + l) * R \in Nat
    BY <2>1
  <2> QED  BY <2>3, <2>4, <2>5, <2>6, <2>7 DEF V
<1>22. Size(t, ByteBits) = Size(s, ByteBits) + ElementSize(a)
  BY <1>0, <1>1, <1>9, <1>14, <1>18, <1>19, <1>20 DEF ElementSize
<1> QED  BY <1>19, <1>21, <1>22 DEF t


(* The definition of CompPacking, as equations.                            *)
LEMMA CompPackingSteps ==
  ASSUME NEW v \in Seq(Elements)
  PROVE  /\ CompPacking(v)[0] = Fresh
         /\ \A i \in 1 .. Len(v) : CompPacking(v)[i] = PushElement(CompPacking(v)[i - 1], v[i])
<1> DEFINE S == {s \in States(ByteBits) : s.len < ByteBits}
           n == Len(v)
           Step(i, z) == IF i + 1 \in 1 .. n THEN PushElement(z, v[i + 1]) ELSE z
           G == [i \in Nat |-> [z \in S |-> Step(i, z)]]
           Rule(f) == f = [i \in 0 .. n |->
                             IF i = 0 THEN Fresh ELSE PushElement(f[i - 1], v[i])]
           V == CompPacking(v)
<1>0. n \in Nat
  OBVIOUS
<1>1. IsStep(G, S) /\ Fresh \in S
  <2>1. ASSUME NEW i \in Nat, NEW z \in S
        PROVE  Step(i, z) \in S
    <3>1. CASE i + 1 \in 1 .. n
      <4>1. v[i + 1] \in Elements /\ z \in States(ByteBits) /\ z.len < ByteBits
        BY <3>1
      <4>2. PushElement(z, v[i + 1]) \in States(ByteBits)
        BY <4>1, PushElementKeeps
      <4>3. PushElement(z, v[i + 1]).len < ByteBits
        BY <4>1, PushElementKeeps
      <4> QED  BY <3>1, <4>2, <4>3
    <3>2. CASE ~ (i + 1 \in 1 .. n)
      BY <3>2
    <3> QED  BY <3>1, <3>2
  <2>2. Fresh \in S
    BY Parameters, FreshState
  <2> HIDE DEF Step, S
  <2> QED  BY <2>1, <2>2 DEF IsStep
<1>2. PICK g : Obeys(g, n, S, Fresh, G)
  <2> HIDE DEF G, S, n
  <2> QED  BY <1>0, <1>1, FiniteRecursion
<1>3. Rule(g)
  <2>1. ASSUME NEW i \in 0 .. n, i # 0
        PROVE  g[i] = PushElement(g[i - 1], v[i])
    <3>1. i \in 1 .. n /\ i - 1 \in 0 .. n - 1 /\ i - 1 \in 0 .. n /\ (i - 1) + 1 = i
      BY <1>0, <2>1
    <3>2. g[i] = G[i - 1][g[i - 1]] /\ g[i - 1] \in S /\ i - 1 \in Nat
      <4> HIDE DEF G, S
      <4> QED  BY <1>2, <3>1 DEF Obeys
    <3>3. g[i] = Step(i - 1, g[i - 1])
      <4> HIDE DEF Step, S
      <4> QED  BY <3>1, <3>2
    <3> QED  BY <3>1, <3>3
  <2>2. g = [i \in 0 .. n |-> g[i]] /\ g[0] = Fresh
    <3> HIDE DEF S, G
    <3> QED  BY <1>2 DEF Obeys
  <2> HIDE DEF S, G, n
  <2> QED  BY <2>1, <2>2
<1>4. V = CHOOSE f : Rule(f)
  BY DEF CompPacking
<1>5. Rule(V)
  <2> HIDE DEF Rule, V
  <2> QED  BY <1>3, <1>4
<1> HIDE DEF V
<1>6. V[0] = Fresh
  BY <1>0, <1>5
<1>7. ASSUME NEW i \in 1 .. n
      PROVE  V[i] = PushElement(V[i - 1], v[i])
  <2>1. i \in 0 .. n /\ i # 0
    BY <1>0
  <2> HIDE DEF n
  <2> QED  BY <1>5, <2>1
<1> QED  BY <1>6, <1>7 DEF V

(* The bits of the first i elements of v, as a number, and how many.       *)
CompBits(v, i) == Total(CompPacking(v)[i], ByteBits)
CompSize(v, i) == Size(CompPacking(v)[i], ByteBits)

(* After i elements, the bytes and the pending bits are those of the       *)
(* elements.                                                               *)
LEMMA CompPackingKeeps ==
  ASSUME NEW v \in Seq(Elements)
  PROVE  /\ \A i \in 0 .. Len(v) :
              /\ CompPacking(v)[i] \in States(ByteBits) /\ CompPacking(v)[i].len < ByteBits
              /\ CompBits(v, i) \in Nat /\ CompSize(v, i) \in Nat
         /\ CompBits(v, 0) = 0 /\ CompSize(v, 0) = 0
         /\ \A i \in 0 .. Len(v) - 1 :
              /\ CompBits(v, i + 1) =
                   CompBits(v, i) * 2 ^ ElementSize(v[i + 1]) + ElementBits(v[i + 1])
              /\ CompSize(v, i + 1) = CompSize(v, i) + ElementSize(v[i + 1])
<1> DEFINE n == Len(v)
           s(i) == CompPacking(v)[i]
           Good(i) == s(i) \in States(ByteBits) /\ s(i).len < ByteBits
           T == {i \in Nat : i <= n => Good(i)}
<1>0. n \in Nat /\ s(0) = Fresh /\ \A i \in 1 .. n : s(i) = PushElement(s(i - 1), v[i])
  BY CompPackingSteps
<1>1. \A i \in 1 .. n : v[i] \in Elements
  OBVIOUS
<1> HIDE DEF s, n
<1>2. Good(0) /\ Total(s(0), ByteBits) = 0 /\ Size(s(0), ByteBits) = 0
  BY <1>0, Parameters, FreshState
<1>3. ASSUME NEW i \in 0 .. n - 1, Good(i)
      PROVE  /\ Good(i + 1)
             /\ Total(s(i + 1), ByteBits) =
                  Total(s(i), ByteBits) * 2 ^ ElementSize(v[i + 1]) + ElementBits(v[i + 1])
             /\ Size(s(i + 1), ByteBits) = Size(s(i), ByteBits) + ElementSize(v[i + 1])
  <2>1. i + 1 \in 1 .. n /\ (i + 1) - 1 = i
    BY <1>0
  <2> DEFINE a == v[i + 1]
             t == s(i)
             p == s(i + 1)
  <2>2. a \in Elements /\ t \in States(ByteBits) /\ t.len < ByteBits
    BY <1>1, <1>3, <2>1
  <2>3. p = PushElement(t, a)
    BY <1>0, <2>1
  <2> HIDE DEF a, t
  <2>4. PushElement(t, a) \in States(ByteBits)
    BY <2>2, PushElementKeeps
  <2>5. PushElement(t, a).len < ByteBits
    BY <2>2, PushElementKeeps
  <2>6. Total(PushElement(t, a), ByteBits) =
              Total(t, ByteBits) * 2 ^ ElementSize(a) + ElementBits(a)
    BY <2>2, PushElementKeeps
  <2>7. Size(PushElement(t, a), ByteBits) = Size(t, ByteBits) + ElementSize(a)
    BY <2>2, PushElementKeeps
  <2> QED  BY <2>3, <2>4, <2>5, <2>6, <2>7, Zenon DEF a, t
<1>4. 0 \in T
  <2> HIDE DEF Good
  <2> QED  BY <1>2
<1>5. ASSUME NEW i \in Nat, i \in T
      PROVE  i + 1 \in T
  <2>1. i + 1 <= n => Good(i) /\ i \in 0 .. n - 1
    <3> HIDE DEF Good
    <3> QED  BY <1>0, <1>5
  <2>2. i + 1 <= n => Good(i + 1)
    <3> HIDE DEF Good
    <3> QED  BY <1>3, <2>1
  <2> HIDE DEF Good
  <2> QED  BY <2>2
<1> HIDE DEF T
<1>6. \A i \in Nat : i \in T
  BY <1>4, <1>5, Induction
<1>7. \A i \in 0 .. n : Good(i)
  BY <1>0, <1>6 DEF T
<1>8. \A i \in 0 .. n : Total(s(i), ByteBits) \in Nat /\ Size(s(i), ByteBits) \in Nat
  BY <1>7, Parameters, TotalType
<1>9. \A i \in 0 .. n - 1 :
              /\ Total(s(i + 1), ByteBits) =
                   Total(s(i), ByteBits) * 2 ^ ElementSize(v[i + 1]) + ElementBits(v[i + 1])
              /\ Size(s(i + 1), ByteBits) = Size(s(i), ByteBits) + ElementSize(v[i + 1])
  <2>1. \A i \in 0 .. n - 1 : i \in 0 .. n
    BY <1>0
  <2> HIDE DEF Good
  <2> QED  BY <1>3, <1>7, <2>1
<1> QED  BY <1>2, <1>7, <1>8, <1>9 DEF CompBits, CompSize, s, n

(* The bytes of the compressed encoding: they stand for the bits of all    *)
(* elements, followed by less than a byte of zeros.                        *)
LEMMA CompPacked ==
  ASSUME NEW v \in Seq(Elements), NEW bytes, bytes = LastByte(CompPacking(v)[Len(v)])
  PROVE  /\ bytes \in Seq(Bytes)
         /\ \E pad \in 0 .. ByteBits - 1 :
              /\ ByteBits * Len(bytes) = CompSize(v, Len(v)) + pad
              /\ Whole(bytes, ByteBits) = CompBits(v, Len(v)) * 2 ^ pad
<1> DEFINE s == CompPacking(v)[Len(v)]
<1>1. Len(v) \in 0 .. Len(v)
  OBVIOUS
<1>2. s \in States(ByteBits) /\ s.len < ByteBits
  BY <1>1, CompPackingKeeps
<1> HIDE DEF s
<1>3. \E pad \in 0 .. ByteBits - 1 :
           /\ LastByte(s) \in Seq(Bytes)
           /\ ByteBits * Len(LastByte(s)) = Size(s, ByteBits) + pad
           /\ Whole(LastByte(s), ByteBits) = Total(s, ByteBits) * 2 ^ pad
  BY <1>2, LastByteKeeps
<1> QED  BY <1>3, Zenon DEF s, CompBits, CompSize

(* The bits of the first i elements are the front of the bits of all.      *)
LEMMA CompFront ==
  ASSUME NEW v \in Seq(Elements), NEW i \in 0 .. Len(v)
  PROVE  \E e \in Nat : /\ CompSize(v, Len(v)) = CompSize(v, i) + e
                        /\ CompBits(v, Len(v)) \div 2 ^ e = CompBits(v, i)
<1> DEFINE n == Len(v)
           Good(j) == \E e \in Nat : /\ CompSize(v, i + j) = CompSize(v, i) + e
                                     /\ CompBits(v, i + j) \div 2 ^ e = CompBits(v, i)
           T == {j \in Nat : i + j <= n => Good(j)}
<1>0. n \in Nat
  OBVIOUS
<1>01. /\ \A j \in 0 .. n : CompBits(v, j) \in Nat /\ CompSize(v, j) \in Nat
       /\ \A j \in 0 .. n - 1 :
              /\ CompBits(v, j + 1) =
                   CompBits(v, j) * 2 ^ ElementSize(v[j + 1]) + ElementBits(v[j + 1])
              /\ CompSize(v, j + 1) = CompSize(v, j) + ElementSize(v[j + 1])
  BY CompPackingKeeps
<1>02. \A j \in 1 .. n : v[j] \in Elements
  OBVIOUS
<1> HIDE DEF n
<1>1. 0 \in T
  <2>1. i + 0 = i /\ CompSize(v, i) = CompSize(v, i) + 0 /\ CompBits(v, i) \in Nat
    BY <1>0, <1>01 DEF n
  <2>2. \A z \in Nat : z \div 1 = z
    OBVIOUS
  <2>3. CompBits(v, i) \div 2 ^ 0 = CompBits(v, i)
    BY <2>1, <2>2, PowerOfTwo
  <2>4. Good(0)
    BY <2>1, <2>3
  <2> HIDE DEF Good
  <2> QED  BY <2>4
<1>2. ASSUME NEW j \in Nat, j \in T
      PROVE  j + 1 \in T
  <2> SUFFICES ASSUME i + (j + 1) <= n
               PROVE  Good(j + 1)
    <3> HIDE DEF Good
    <3> QED  OBVIOUS
  <2>1. /\ i + (j + 1) = (i + j) + 1 /\ i + j \in 0 .. n - 1 /\ i + j \in 0 .. n
        /\ i + j + 1 \in 1 .. n /\ i + j <= n /\ i \in 0 .. n
    BY <1>0 DEF n
  <2>2. PICK e \in Nat : /\ CompSize(v, i + j) = CompSize(v, i) + e
                         /\ CompBits(v, i + j) \div 2 ^ e = CompBits(v, i)
    <3>1. Good(j)
      <4> HIDE DEF Good
      <4> QED  BY <1>2, <2>1
    <3> QED  BY <3>1
  <2> DEFINE a == v[i + j + 1]
             c == ElementSize(a)
             z == CompBits(v, i + j)
             y == z * 2 ^ c + ElementBits(a)
  <2>3. /\ c \in Nat /\ ElementBits(a) \in 0 .. 2 ^ c - 1 /\ z \in Nat /\ 2 ^ c \in Nat \ {0}
        /\ CompSize(v, i) \in Nat
    <3>1. a \in Elements
      BY <1>02, <2>1
    <3>2. c \in Nat
      <4> HIDE DEF a
      <4> QED  BY <3>1, ElementNumbers
    <3>3. ElementBits(a) \in 0 .. 2 ^ c - 1
      <4> HIDE DEF a
      <4> QED  BY <3>1, ElementNumbers
    <3>4. z \in Nat /\ CompSize(v, i) \in Nat
      BY <1>01, <2>1
    <3> HIDE DEF a, c
    <3>5. 2 ^ c \in Nat \ {0}
      BY <3>2, PowerPositive
    <3> QED  BY <3>2, <3>3, <3>4, <3>5
  <2>4. CompBits(v, i + (j + 1)) = y /\ CompSize(v, i + (j + 1)) = CompSize(v, i + j) + c
    BY <1>01, <2>1
  <2> HIDE DEF a, c, z
  <2>5. y \div 2 ^ c = z /\ y \in Nat
    <3>1. z \in Int
      BY <2>3
    <3>2. y \div 2 ^ c = z
      BY <2>3, <3>1, QuotientUnique
    <3>3. z * 2 ^ c \in Nat
      BY <2>3
    <3> QED  BY <2>3, <3>2, <3>3
  <2> HIDE DEF y
  <2>6. y \div 2 ^ (c + e) = CompBits(v, i)
    <3>1. (y \div 2 ^ c) \div 2 ^ e = y \div 2 ^ (c + e)
      BY <2>2, <2>3, <2>5, DropBits
    <3> QED  BY <2>2, <2>5, <3>1 DEF z
  <2>7. c + e \in Nat /\ CompSize(v, i + (j + 1)) = CompSize(v, i) + (c + e)
    BY <2>2, <2>3, <2>4
  <2> QED  BY <2>4, <2>6, <2>7
<1>3. \A j \in Nat : j \in T
  <2> HIDE DEF T
  <2> QED  BY <1>1, <1>2, Induction
<1>4. n - i \in Nat /\ i + (n - i) = n
  BY <1>0 DEF n
<1>5. n - i \in T
  <2> HIDE DEF T
  <2> QED  BY <1>3, <1>4
<1>6. Good(n - i)
  <2> HIDE DEF Good
  <2> QED  BY <1>0, <1>4, <1>5
<1> QED  BY <1>4, <1>6 DEF n


-----------------------------------------------------------------------------
(* The compressed encoding: reading bits.                                  *)

(* States of the decoder.                                                  *)
Readers == [acc : Nat, len : Nat, v : Nat, s : Nat, m : Nat, stop : BOOLEAN]

(* The decoder has read the first p bits of str, of which it is given the  *)
(* bytes in, and has not refused it.                                       *)
Reading(t, str, in, p) ==
  /\ t \in Readers /\ ~ t.stop /\ t.v <= Len(in)
  /\ t.acc = ValueOf(str, ByteBits)[t.v] % 2 ^ AccBits
  /\ t.len < ByteBits /\ ByteBits * t.v = p + t.len

Agrees(in, str) == \A i \in 1 .. Len(in) : Digit(str, i) = in[i]

(* The fields of a state.                                                  *)
LEMMA ReaderFields ==
  ASSUME NEW t \in Readers
  PROVE  /\ t.acc \in Nat /\ t.len \in Nat /\ t.v \in Nat /\ t.s \in Nat /\ t.m \in Nat
         /\ t.stop \in BOOLEAN
         /\ t = [acc |-> t.acc, len |-> t.len, v |-> t.v, s |-> t.s, m |-> t.m, stop |-> t.stop]
BY DEF Readers

(* The same, named.                                                        *)
LEMMA ReaderNumbers ==
  ASSUME NEW t \in Readers
  PROVE  \E A \in Nat, L \in Nat, k \in Nat, g \in Nat, m \in Nat, st \in BOOLEAN :
           /\ t = [acc |-> A, len |-> L, v |-> k, s |-> g, m |-> m, stop |-> st]
           /\ t.acc = A /\ t.len = L /\ t.v = k /\ t.s = g /\ t.m = m /\ t.stop = st
<1>1. /\ t.acc \in Nat /\ t.len \in Nat /\ t.v \in Nat /\ t.s \in Nat /\ t.m \in Nat
      /\ t.stop \in BOOLEAN
      /\ t = [acc |-> t.acc, len |-> t.len, v |-> t.v, s |-> t.s, m |-> t.m, stop |-> t.stop]
  BY ReaderFields
<1> QED  BY <1>1, Zenon

(* Reading a byte.                                                         *)
LEMMA ReadByteKeeps ==
  ASSUME NEW in \in Seq(Bytes), NEW str \in Seq(Bytes), Agrees(in, str), NEW t \in Readers
  PROVE  /\ ReadByte(t, in, Len(in)) \in Readers
         /\ ReadByte(t, in, Len(in)).len = t.len
         /\ ReadByte(t, in, Len(in)).s = t.s /\ ReadByte(t, in, Len(in)).m = t.m
         /\ ReadByte(t, in, Len(in)).stop = (t.stop \/ t.v >= Len(in))
         /\ t.v < Len(in) /\ t.acc = ValueOf(str, ByteBits)[t.v] % 2 ^ AccBits =>
              /\ ReadByte(t, in, Len(in)).v = t.v + 1
              /\ ReadByte(t, in, Len(in)).acc = ValueOf(str, ByteBits)[t.v + 1] % 2 ^ AccBits
<1> DEFINE r == ReadByte(t, in, Len(in))
<1>0. PICK A \in Nat, L \in Nat, k \in Nat, g \in Nat, m \in Nat, st \in BOOLEAN :
        /\ t = [acc |-> A, len |-> L, v |-> k, s |-> g, m |-> m, stop |-> st]
        /\ t.acc = A /\ t.len = L /\ t.v = k /\ t.s = g /\ t.m = m /\ t.stop = st
  BY ReaderNumbers
<1>1. Len(in) \in Nat
  OBVIOUS
<1>2. CASE k >= Len(in)
  <2>1. r = [t EXCEPT !.stop = TRUE]
    BY <1>0, <1>2 DEF ReadByte
  <2>2. r = [acc |-> A, len |-> L, v |-> k, s |-> g, m |-> m, stop |-> TRUE]
    <3> HIDE DEF r
    <3> QED  BY <1>0, <2>1
  <2> HIDE DEF r
  <2>3. r \in Readers /\ r.len = L /\ r.s = g /\ r.m = m /\ r.stop = TRUE
    BY <2>2 DEF Readers
  <2>4. (st \/ k >= Len(in)) = TRUE /\ ~ (k < Len(in))
    BY <1>1, <1>2
  <2> QED  BY <1>0, <2>3, <2>4, Zenon DEF r
<1>3. CASE k < Len(in)
  <2> DEFINE w == in[k + 1]
             Z == (A * 2 ^ ByteBits + w) % 2 ^ AccBits
  <2>1. w \in Bytes /\ Digit(str, k + 1) = w /\ k + 1 \in Nat
    <3>1. k + 1 \in 1 .. Len(in)
      BY <1>1, <1>3
    <3> QED  BY <3>1 DEF Agrees
  <2>2. r = [t EXCEPT !.acc = Z, !.v = k + 1]
    BY <1>0, <1>1, <1>3 DEF ReadByte
  <2> HIDE DEF r, w
  <2>3. Z \in Nat
    <3>1. 2 ^ ByteBits \in Nat /\ 2 ^ AccBits \in Nat \ {0} /\ w \in Nat
      BY <2>1, Parameters, PowerPositive DEF Bytes, Digits
    <3> DEFINE y == A * 2 ^ ByteBits + w
    <3>2. y \in Nat
      BY <3>1
    <3> HIDE DEF y
    <3>3. y % 2 ^ AccBits \in 0 .. 2 ^ AccBits - 1
      BY <3>1, <3>2, QuotientRemainder
    <3> QED  BY <3>3 DEF y
  <2> DEFINE F == ValueOf(str, ByteBits)
  <2>4. ASSUME A = F[k] % 2 ^ AccBits
        PROVE  Z = F[k + 1] % 2 ^ AccBits
    <3>1. F[k] \in Nat /\ F[k + 1] = F[k] * 2 ^ ByteBits + w
      <4>1. str \in Seq(Digits(ByteBits)) /\ ByteBits \in Nat
        BY Parameters DEF Bytes
      <4>2. F \in [Nat -> Nat] /\ \A i \in Nat : F[i + 1] = F[i] * 2 ^ ByteBits + Digit(str, i + 1)
        BY <4>1, ValueStep
      <4> HIDE DEF F
      <4> QED  BY <2>1, <4>2
    <3>2. ByteBits \in Nat /\ AccBits \in Nat /\ ByteBits <= AccBits /\ w \in 0 .. 2 ^ ByteBits - 1
      <4>1. 0 \in Elements
        BY Parameters DEF Elements
      <4>2. LowBits + ElementSize(0) <= AccBits /\ High(0) \in Nat
        BY <4>1, ElementParts
      <4>3. LowBits + (ByteBits + (High(0) + 1)) <= AccBits
        BY <4>2 DEF ElementSize
      <4> QED  BY <2>1, <4>2, <4>3, Parameters DEF Bytes, Digits
    <3> DEFINE z == F[k]
    <3> HIDE DEF F
    <3>3. ((z % 2 ^ AccBits) * 2 ^ ByteBits + w) % 2 ^ AccBits = (z * 2 ^ ByteBits + w) % 2 ^ AccBits
      <4>1. z \in Nat
        BY <3>1
      <4> HIDE DEF z
      <4> QED  BY <3>2, <4>1, KeepBits
    <3> QED  BY <2>4, <3>1, <3>3
  <2> HIDE DEF Z
  <2>5. r = [acc |-> Z, len |-> L, v |-> k + 1, s |-> g, m |-> m, stop |-> st]
    BY <1>0, <2>2
  <2>6. /\ r \in Readers /\ r.len = L /\ r.s = g /\ r.m = m /\ r.stop = st
        /\ r.v = k + 1 /\ r.acc = Z
    BY <2>1, <2>3, <2>5 DEF Readers
  <2>7. (st \/ k >= Len(in)) = st
    BY <1>1, <1>3
  <2> QED  BY <1>0, <2>4, <2>6, <2>7, Zenon DEF r
<1> QED  BY <1>0, <1>1, <1>2, <1>3

(* The accumulator has at least LowBits + ByteBits bits.                   *)
LEMMA RoomToRead == LowBits + ByteBits <= AccBits /\ LowBits + 1 <= AccBits
<1>1. 0 \in Elements
  BY Parameters DEF Elements
<1>2. LowBits + ElementSize(0) <= AccBits /\ High(0) \in Nat
  BY <1>1, ElementParts
<1>3. LowBits + (ByteBits + (High(0) + 1)) <= AccBits
  BY <1>2 DEF ElementSize
<1> QED  BY <1>2, <1>3, Parameters

(* The k bits of A above the lower L are the last of the first p of str.   *)
SeesBits(A, L, k, str, p) == (A \div 2 ^ L) % 2 ^ k = Front(str, ByteBits, p) % 2 ^ k

(* The bits above the pending ones are the last that were read.            *)
LEMMA LookBack ==
  ASSUME NEW in \in Seq(Bytes), NEW str \in Seq(Bytes), NEW p \in Nat, NEW k \in Nat,
         LowBits + k <= AccBits, NEW A \in Nat, NEW L \in Nat, NEW n \in Nat,
         A = ValueOf(str, ByteBits)[n] % 2 ^ AccBits, L < ByteBits, ByteBits * n = p + L
  PROVE  SeesBits(A, L, k, str, p)
<1> DEFINE F == ValueOf(str, ByteBits)
<1>1. ByteBits \in Nat \ {0} /\ ByteBits \in Nat /\ AccBits \in Nat /\ L + k <= AccBits
  BY Parameters
<1>2. str \in Seq(Digits(ByteBits))
  BY DEF Bytes
<1>3. F[n] \in Nat
  <2>1. F \in [Nat -> Nat]
    BY <1>1, <1>2, ValueStep
  <2> HIDE DEF F
  <2> QED  BY <2>1
<1>4. Front(str, ByteBits, p) = F[n] \div 2 ^ L
  <2>1. PICK b \in Nat \ {0} : b = ByteBits
    BY <1>1
  <2>2. str \in Seq(Digits(b)) /\ b * n = p + L
    BY <1>2, <2>1
  <2> HIDE DEF F
  <2>3. Front(str, b, p) = ValueOf(str, b)[n] \div 2 ^ L
    BY <2>2, FrontAt
  <2> QED  BY <2>1, <2>3 DEF F
<1> DEFINE z == F[n]
<1>5. ((z % 2 ^ AccBits) \div 2 ^ L) % 2 ^ k = (z \div 2 ^ L) % 2 ^ k
  <2>1. z \in Nat
    BY <1>3
  <2> HIDE DEF z
  <2> QED  BY <1>1, <2>1, ReadBits
<1> QED  BY <1>4, <1>5 DEF SeesBits

(* Reading a bit.                                                          *)
LEMMA OneBitKeeps ==
  ASSUME NEW in \in Seq(Bytes), NEW str \in Seq(Bytes), Agrees(in, str), NEW t \in Readers
  PROVE  /\ OneBit(t, in, Len(in)) \in Readers
         /\ t.stop => OneBit(t, in, Len(in)).stop
         /\ OneBit(t, in, Len(in)).s = t.s /\ OneBit(t, in, Len(in)).m = t.m
         /\ \A p \in Nat : Reading(t, str, in, p) =>
              IF p + 1 <= ByteBits * Len(in)
              THEN Reading(OneBit(t, in, Len(in)), str, in, p + 1)
              ELSE OneBit(t, in, Len(in)).stop
<1> DEFINE r == OneBit(t, in, Len(in))
           n == Len(in)
           F == ValueOf(str, ByteBits)
<1>0. PICK A \in Nat, L \in Nat, k \in Nat, g \in Nat, m \in Nat, st \in BOOLEAN :
        /\ t = [acc |-> A, len |-> L, v |-> k, s |-> g, m |-> m, stop |-> st]
        /\ t.acc = A /\ t.len = L /\ t.v = k /\ t.s = g /\ t.m = m /\ t.stop = st
  BY ReaderNumbers
<1>1. n \in Nat
  OBVIOUS
<1>2. PICK b \in Nat \ {0} : b = ByteBits /\ b - 1 \in Nat
  BY Parameters
<1> HIDE DEF n, F
<1>3. CASE L > 0
  <2>1. r = [t EXCEPT !.len = L - 1]
    BY <1>0, <1>3 DEF OneBit
  <2> HIDE DEF r
  <2>2. r = [acc |-> A, len |-> L - 1, v |-> k, s |-> g, m |-> m, stop |-> st]
    BY <1>0, <2>1
  <2>3. /\ r \in Readers /\ r.s = g /\ r.m = m /\ r.stop = st
        /\ r.acc = A /\ r.len = L - 1 /\ r.v = k
    BY <1>3, <2>2 DEF Readers
  <2>4. ASSUME NEW p \in Nat, Reading(t, str, in, p)
        PROVE  p + 1 <= b * n /\ Reading(r, str, in, p + 1)
    <3>1. /\ ~ st /\ k <= n /\ A = F[k] % 2 ^ AccBits /\ L < b /\ b * k = p + L
      BY <1>0, <1>2, <2>4 DEF Reading, F, n
    <3>2. L - 1 < b /\ b * k = (p + 1) + (L - 1)
      BY <1>3, <3>1
    <3>3. p + 1 <= b * n
      <4>1. b * k <= b * n
        <5>1. k = n \/ k * b + b <= n * b
          BY <1>1, <3>1, MultipleAbove
        <5>2. k * b = b * k /\ n * b = b * n /\ b * k \in Nat /\ b * n \in Nat
          BY <1>1
        <5> QED  BY <5>1, <5>2
      <4>2. b * k \in Nat /\ b * n \in Nat
        BY <1>1
      <4> QED  BY <1>3, <3>1, <4>1, <4>2
    <3>4. Reading(r, str, in, p + 1)
      BY <1>2, <2>3, <3>1, <3>2, Zenon DEF Reading, F, n
    <3> QED  BY <3>3, <3>4
  <2> QED  BY <1>0, <1>2, <2>3, <2>4 DEF r, n
<1>4. CASE L = 0
  <2> DEFINE o == ReadByte(t, in, Len(in))
  <2>1. r = [o EXCEPT !.len = b - 1]
    BY <1>0, <1>2, <1>4 DEF OneBit
  <2>2. /\ o \in Readers /\ o.len = t.len /\ o.s = t.s /\ o.m = t.m
        /\ o.stop = (t.stop \/ t.v >= Len(in))
        /\ t.v < Len(in) /\ t.acc = ValueOf(str, ByteBits)[t.v] % 2 ^ AccBits =>
              /\ o.v = t.v + 1
              /\ o.acc = ValueOf(str, ByteBits)[t.v + 1] % 2 ^ AccBits
    BY ReadByteKeeps
  <2> HIDE DEF r, o
  <2>3. /\ r \in Readers /\ r.s = o.s /\ r.m = o.m /\ r.stop = o.stop
        /\ r.acc = o.acc /\ r.len = b - 1 /\ r.v = o.v
    <3>1. o = [acc |-> o.acc, len |-> o.len, v |-> o.v, s |-> o.s, m |-> o.m, stop |-> o.stop]
      BY <2>2, ReaderFields
    <3>2. r = [acc |-> o.acc, len |-> b - 1, v |-> o.v, s |-> o.s, m |-> o.m, stop |-> o.stop]
      BY <2>1, <3>1
    <3>3. /\ o.acc \in Nat /\ o.v \in Nat /\ o.s \in Nat /\ o.m \in Nat /\ o.stop \in BOOLEAN
      BY <2>2, ReaderFields
    <3> QED  BY <1>2, <3>2, <3>3 DEF Readers
  <2>4. ASSUME NEW p \in Nat, Reading(t, str, in, p)
        PROVE  IF p + 1 <= b * n THEN Reading(r, str, in, p + 1) ELSE r.stop
    <3>1. /\ ~ st /\ k <= n /\ A = F[k] % 2 ^ AccBits /\ b * k = p
      <4>1. /\ ~ st /\ k <= n /\ A = F[k] % 2 ^ AccBits /\ b * k = p + L
        BY <1>0, <1>2, <2>4 DEF Reading, F, n
      <4>2. p + 0 = p
        OBVIOUS
      <4> QED  BY <1>4, <4>1, <4>2
    <3>2. CASE k = n
      <4>1. o.stop = TRUE
        <5>1. (st \/ k >= n) = TRUE
          BY <1>1, <3>2
        <5> QED  BY <1>0, <2>2, <5>1, Zenon DEF n
      <4>2. ~ (p + 1 <= b * n)
        BY <3>1, <3>2
      <4> QED  BY <2>3, <4>1, <4>2
    <3>3. CASE k < n
      <4>1. p + 1 <= b * n
        <5>1. k * b + b <= n * b
          BY <1>1, <3>3, MultipleAbove
        <5>2. k * b = b * k /\ n * b = b * n /\ b * k \in Nat /\ b * n \in Nat
          BY <1>1
        <5> QED  BY <3>1, <5>1, <5>2
      <4>2. ~ o.stop /\ o.v = k + 1 /\ o.acc = F[k + 1] % 2 ^ AccBits
        <5>1. (st \/ k >= n) = FALSE
          BY <1>1, <3>1, <3>3
        <5> QED  BY <1>0, <2>2, <3>1, <3>3, <5>1, Zenon DEF n, F
      <4>3. b * (k + 1) = (p + 1) + (b - 1) /\ b - 1 < b /\ k + 1 <= n
        <5>1. b * (k + 1) = b * k + b
          OBVIOUS
        <5> QED  BY <1>1, <3>1, <3>3, <5>1
      <4>4. Reading(r, str, in, p + 1)
        BY <1>2, <2>3, <4>2, <4>3, Zenon DEF Reading, F, n
      <4> QED  BY <4>1, <4>4
    <3> QED  BY <1>1, <3>1, <3>2, <3>3
  <2> QED  BY <1>0, <1>2, <2>2, <2>3, <2>4, Zenon DEF r, n
<1> QED  BY <1>3, <1>4


(* Reading the sign and the low bits of an element.                        *)
LEMMA LowPartKeeps ==
  ASSUME NEW in \in Seq(Bytes), NEW str \in Seq(Bytes), Agrees(in, str), NEW t \in Readers
  PROVE  /\ LowPart(t, in, Len(in)) \in Readers
         /\ t.stop => LowPart(t, in, Len(in)).stop
         /\ \A p \in Nat : Reading(t, str, in, p) =>
              IF p + ByteBits <= ByteBits * Len(in)
              THEN /\ Reading(LowPart(t, in, Len(in)), str, in, p + ByteBits)
                   /\ LowPart(t, in, Len(in)).s \in 0 .. 1
                   /\ LowPart(t, in, Len(in)).m \in 0 .. 2 ^ LowBits - 1
                   /\ LowPart(t, in, Len(in)).s * 2 ^ LowBits + LowPart(t, in, Len(in)).m =
                        Front(str, ByteBits, p + ByteBits) % 2 ^ ByteBits
              ELSE LowPart(t, in, Len(in)).stop
<1> DEFINE r == LowPart(t, in, Len(in))
           o == ReadByte(t, in, Len(in))
           n == Len(in)
           F == ValueOf(str, ByteBits)
           d == (o.acc \div 2 ^ o.len) % 2 ^ ByteBits
           P == 2 ^ LowBits
<1>0. PICK A \in Nat, L \in Nat, k \in Nat, g \in Nat, m \in Nat, st \in BOOLEAN :
        /\ t = [acc |-> A, len |-> L, v |-> k, s |-> g, m |-> m, stop |-> st]
        /\ t.acc = A /\ t.len = L /\ t.v = k /\ t.s = g /\ t.m = m /\ t.stop = st
  BY ReaderNumbers
<1>1. n \in Nat
  OBVIOUS
<1>2. PICK b \in Nat \ {0} : b = ByteBits
  BY Parameters
<1>3. /\ o \in Readers /\ o.len = t.len
      /\ o.stop = (t.stop \/ t.v >= Len(in))
      /\ t.v < Len(in) /\ t.acc = ValueOf(str, ByteBits)[t.v] % 2 ^ AccBits =>
            /\ o.v = t.v + 1
            /\ o.acc = ValueOf(str, ByteBits)[t.v + 1] % 2 ^ AccBits
  BY ReadByteKeeps
<1>4. r = [o EXCEPT !.s = d \div P, !.m = d % P]
  BY DEF LowPart
<1> HIDE DEF r, o, n, F
<1>5. PICK X \in Nat, Y \in Nat, y \in Nat, w \in BOOLEAN :
        /\ o.acc = X /\ o.len = L /\ o.v = Y /\ o.stop = w
        /\ o = [acc |-> X, len |-> L, v |-> Y, s |-> o.s, m |-> y, stop |-> w]
  <2>1. /\ o.acc \in Nat /\ o.v \in Nat /\ o.m \in Nat /\ o.stop \in BOOLEAN
        /\ o = [acc |-> o.acc, len |-> o.len, v |-> o.v, s |-> o.s, m |-> o.m, stop |-> o.stop]
    BY <1>3, ReaderFields
  <2> QED  BY <1>0, <1>3, <2>1, Zenon
<1>6. P \in Nat \ {0} /\ 2 ^ b = 2 * P /\ 2 ^ b \in Nat \ {0} /\ 2 ^ L \in Nat \ {0}
  <2>1. LowBits \in Nat /\ b = LowBits + 1 /\ b \in Nat
    BY <1>2, Parameters
  <2> QED  BY <2>1, PowerOfTwo, PowerPositive
<1>7. d \in 0 .. 2 ^ b - 1
  <2> DEFINE z == X \div 2 ^ L
  <2>1. z \in Nat
    BY <1>6, QuotientRemainder
  <2>2. d = z % 2 ^ b
    BY <1>2, <1>5
  <2> HIDE DEF z
  <2>3. z % 2 ^ b \in 0 .. 2 ^ b - 1
    BY <1>6, <2>1, QuotientRemainder
  <2> QED  BY <2>2, <2>3
<1> DEFINE c == d \div P
           e == d % P
<1>8. c \in 0 .. 1 /\ e \in 0 .. P - 1 /\ c * P + e = d
  <2> HIDE DEF d, P
  <2>1. d \in Nat /\ d < 2 * P
    BY <1>6, <1>7
  <2>2. c \in Nat /\ e \in 0 .. P - 1 /\ d = c * P + e
    BY <1>6, <2>1, QuotientRemainder
  <2> HIDE DEF c, e
  <2>3. c < 2
    <3>1. CASE 1 < c
      <4>1. 1 * P + P <= c * P
        BY <1>6, <2>2, <3>1, MultipleAbove
      <4>2. c * P \in Nat
        BY <1>6, <2>2
      <4> QED  BY <1>6, <2>1, <2>2, <4>1, <4>2
    <3> QED  BY <2>2, <3>1
  <2> QED  BY <2>2, <2>3
<1> HIDE DEF c, e
<1>9. r = [acc |-> X, len |-> L, v |-> Y, s |-> c, m |-> e, stop |-> w]
  <2>1. r = [o EXCEPT !.s = c, !.m = e]
    BY <1>4 DEF c, e
  <2> QED  BY <1>5, <2>1
<1>10. /\ r \in Readers /\ r.acc = X /\ r.len = L /\ r.v = Y /\ r.s = c /\ r.m = e /\ r.stop = w
  <2>1. c \in Nat /\ e \in Nat
    BY <1>6, <1>8
  <2> QED  BY <1>9, <2>1 DEF Readers
<1>11. t.stop => r.stop
  BY <1>3, <1>5, <1>10
<1>12. ASSUME NEW p \in Nat, Reading(t, str, in, p)
       PROVE  IF p + b <= b * n
              THEN Reading(r, str, in, p + b) /\ d = Front(str, ByteBits, p + b) % 2 ^ b
              ELSE r.stop
  <2>1. /\ ~ st /\ k <= n /\ A = F[k] % 2 ^ AccBits /\ L < b /\ b * k = p + L
    BY <1>0, <1>2, <1>12 DEF Reading, F, n
  <2>2. CASE k = n
    <3>1. o.stop = TRUE
      <4>1. (st \/ k >= n) = TRUE
        BY <1>1, <2>2
      <4> QED  BY <1>0, <1>3, <4>1, Zenon DEF n
    <3>2. ~ (p + b <= b * n)
      BY <2>1, <2>2
    <3> QED  BY <1>5, <1>10, <3>1, <3>2
  <2>3. CASE k < n
    <3>1. b * (k + 1) = (p + b) + L /\ k + 1 <= n
      <4>1. b * (k + 1) = b * k + b
        OBVIOUS
      <4> QED  BY <1>1, <2>1, <2>3, <4>1
    <3>2. p + b <= b * n
      <4>1. k * b + b <= n * b
        BY <1>1, <2>3, MultipleAbove
      <4>2. k * b = b * k /\ n * b = b * n /\ b * k \in Nat /\ b * n \in Nat
        BY <1>1
      <4> QED  BY <2>1, <4>1, <4>2
    <3>3. ~ w /\ Y = k + 1 /\ X = F[k + 1] % 2 ^ AccBits
      <4>1. (st \/ k >= n) = FALSE
        BY <1>1, <2>1, <2>3
      <4> QED  BY <1>0, <1>3, <1>5, <2>1, <2>3, <4>1, Zenon DEF n, F
    <3>4. Reading(r, str, in, p + b)
      BY <1>2, <1>10, <2>1, <3>1, <3>3, Zenon DEF Reading, F, n
    <3>5. d = Front(str, ByteBits, p + b) % 2 ^ b
      <4>1. p + b \in Nat /\ k + 1 \in Nat /\ b \in Nat /\ LowBits + b <= AccBits
        BY <1>2, RoomToRead
      <4>2. /\ X = ValueOf(str, ByteBits)[k + 1] % 2 ^ AccBits
            /\ L < ByteBits /\ ByteBits * (k + 1) = (p + b) + L
        BY <1>2, <2>1, <3>1, <3>3 DEF F
      <4>3. SeesBits(X, L, b, str, p + b)
        BY <4>1, <4>2, LookBack
      <4> QED  BY <1>2, <1>5, <4>3 DEF SeesBits
    <3> QED  BY <3>2, <3>4, <3>5
  <2> QED  BY <1>1, <2>1, <2>2, <2>3
<1> HIDE DEF d
<1> QED  BY <1>2, <1>8, <1>10, <1>11, <1>12, Zenon DEF r, n, P

(* The last bit that was read.                                             *)
LEMMA IsOneMeans ==
  ASSUME NEW in \in Seq(Bytes), NEW str \in Seq(Bytes), NEW t, NEW p \in Nat,
         Reading(t, str, in, p)
  PROVE  IsOne(t) <=> Front(str, ByteBits, p) % 2 = 1
<1>1. PICK A \in Nat, L \in Nat, k \in Nat, g \in Nat, m \in Nat, st \in BOOLEAN :
        /\ t = [acc |-> A, len |-> L, v |-> k, s |-> g, m |-> m, stop |-> st]
        /\ t.acc = A /\ t.len = L /\ t.v = k /\ t.s = g /\ t.m = m /\ t.stop = st
  BY ReaderNumbers DEF Reading
<1>2. A = ValueOf(str, ByteBits)[k] % 2 ^ AccBits /\ L < ByteBits /\ ByteBits * k = p + L
  BY <1>1 DEF Reading
<1>3. (A \div 2 ^ L) % 2 ^ 1 = Front(str, ByteBits, p) % 2 ^ 1
  <2>1. 1 \in Nat /\ LowBits + 1 <= AccBits
    BY RoomToRead
  <2>2. SeesBits(A, L, 1, str, p)
    BY <1>2, <2>1, LookBack
  <2> QED  BY <2>2 DEF SeesBits
<1>4. 2 ^ 1 = 2
  BY PowerOfTwo
<1> QED  BY <1>1, <1>3, <1>4 DEF IsOne


(* A front is a number, and so is a multiple of it.                        *)
LEMMA FrontTimes ==
  ASSUME NEW str \in Seq(Bytes), NEW p \in Nat, NEW i \in Nat
  PROVE  /\ Front(str, ByteBits, p) \in Nat
         /\ Front(str, ByteBits, p) * 2 ^ i \in Nat
<1>1. PICK b \in Nat \ {0} : b = ByteBits
  BY Parameters
<1>2. str \in Seq(Digits(b)) /\ 0 \in Nat
  BY <1>1 DEF Bytes
<1>3. Front(str, b, p) \in Nat
  BY <1>2, FrontShift
<1>4. 2 ^ i \in Nat
  BY PowerPositive
<1>5. \A y \in Nat, z \in Nat : y * z \in Nat
  OBVIOUS
<1> QED  BY <1>1, <1>3, <1>4, <1>5

(* A run of zeros, with or without a one at its end, starts with zeros.    *)
LEMMA FrontZeros ==
  ASSUME NEW str \in Seq(Bytes), NEW p \in Nat, NEW i \in Nat, NEW j \in Nat \ {0}, NEW c \in 0 .. 1,
         Front(str, ByteBits, p + (i + j)) = Front(str, ByteBits, p) * 2 ^ (i + j) + c
  PROVE  Front(str, ByteBits, p + i) = Front(str, ByteBits, p) * 2 ^ i
<1>1. PICK b \in Nat \ {0} : b = ByteBits
  BY Parameters
<1>2. str \in Seq(Digits(b)) /\ p + i \in Nat /\ j \in Nat
  BY <1>1 DEF Bytes
<1>3. /\ Front(str, b, p + i) \in Nat
      /\ Front(str, b, (p + i) + j) \div 2 ^ j = Front(str, b, p + i)
  <2>1. PICK e \in Nat : e = p + i
    BY <1>2
  <2>2. Front(str, b, e) \in Nat
    BY <1>2, FrontShift
  <2>3. Front(str, b, e + j) \div 2 ^ j = Front(str, b, e)
    BY <1>2, FrontShift
  <2> QED  BY <2>1, <2>2, <2>3
<1>4. PICK g \in Nat : g = Front(str, b, p)
  <2>1. Front(str, b, p) \in Nat
    BY <1>2, FrontShift
  <2> QED  BY <2>1
<1>5. PICK I \in Nat \ {0}, J \in Nat \ {0} : I = 2 ^ i /\ J = 2 ^ j /\ 2 ^ (i + j) = I * J /\ 2 <= J
  <2>1. 2 ^ i \in Nat \ {0} /\ 2 ^ j \in Nat \ {0} /\ 2 ^ (i + j) = 2 ^ i * 2 ^ j /\ j + 1 <= 2 ^ j
    BY <1>2, PowerPositive, PowerSum
  <2> QED  BY <2>1
<1>6. (p + i) + j = p + (i + j)
  OBVIOUS
<1>7. Front(str, b, (p + i) + j) = g * (I * J) + c
  BY <1>1, <1>4, <1>5, <1>6
<1>8. (g * (I * J) + c) \div J = g * I
  <2>1. PICK z \in Nat : z = g * I
    <3>1. g * I \in Nat
      OBVIOUS
    <3> QED  BY <3>1
  <2>2. g * (I * J) = z * J
    BY <2>1
  <2>3. c \in 0 .. J - 1 /\ z \in Int
    BY <1>5
  <2>4. (z * J + c) \div J = z
    BY <2>3, QuotientUnique
  <2> QED  BY <2>1, <2>2, <2>4
<1> QED  BY <1>1, <1>3, <1>4, <1>5, <1>7, <1>8

(* After p bits come h zeros and a one, within the bytes given, and the    *)
(* absolute value they make is in range.                                   *)
Closes(str, in, p, lo, h) ==
  /\ lo + h * 2 ^ LowBits <= MaxAbs
  /\ p + (h + 1) <= ByteBits * Len(in)
  /\ Front(str, ByteBits, p + (h + 1)) = Front(str, ByteBits, p) * 2 ^ (h + 1) + 1

(* There is one such number of zeros at most.                              *)
LEMMA ClosesOnce ==
  ASSUME NEW str \in Seq(Bytes), NEW p \in Nat, NEW k \in Nat, NEW c \in 0 .. 1,
         Front(str, ByteBits, p + (k + 1)) = Front(str, ByteBits, p) * 2 ^ (k + 1) + c
  PROVE  \A h \in Nat : h < k =>
           Front(str, ByteBits, p + (h + 1)) # Front(str, ByteBits, p) * 2 ^ (h + 1) + 1
<1> SUFFICES ASSUME NEW h \in Nat, h < k
             PROVE  Front(str, ByteBits, p + (h + 1)) # Front(str, ByteBits, p) * 2 ^ (h + 1) + 1
  OBVIOUS
<1>1. PICK j \in Nat \ {0}, i \in Nat : i = h + 1 /\ i + j = k + 1
  <2>1. k - h \in Nat \ {0} /\ (h + 1) + (k - h) = k + 1 /\ h + 1 \in Nat
    OBVIOUS
  <2> QED  BY <2>1
<1>2. Front(str, ByteBits, p + i) = Front(str, ByteBits, p) * 2 ^ i
  <2>1. Front(str, ByteBits, p + (i + j)) = Front(str, ByteBits, p) * 2 ^ (i + j) + c
    BY <1>1
  <2> QED  BY <2>1, FrontZeros
<1>3. Front(str, ByteBits, p) * 2 ^ i \in Nat
  BY FrontTimes
<1> QED  BY <1>1, <1>2, <1>3

(* States while the high part is scanned.  The input was refused, because  *)
(* there is no end of the run; or the one was found, after h zeros; or     *)
(* there were zeros only, and k of them were counted.                      *)
Missed(z, str, in, p, lo) == z.stop /\ \A h \in Nat : ~ Closes(str, in, p, lo, h)
Found(z, str, in, p, lo, h) ==
  /\ h \in Nat /\ Closes(str, in, p, lo, h) /\ Reading(z, str, in, p + (h + 1))
  /\ z.m = lo + h * 2 ^ LowBits /\ IsOne(z)
Open(z, str, in, p, lo, k) ==
  /\ Reading(z, str, in, p + (k + 1)) /\ ~ IsOne(z)
  /\ z.m = lo + k * 2 ^ LowBits /\ z.m <= MaxAbs
  /\ Front(str, ByteBits, p + (k + 1)) = Front(str, ByteBits, p) * 2 ^ (k + 1)
Scanned(z, str, in, p, lo, g, k) ==
  /\ z \in Readers /\ z.s = g
  /\ \/ Missed(z, str, in, p, lo)
     \/ \E h \in Nat : Found(z, str, in, p, lo, h)
     \/ Open(z, str, in, p, lo, k)

(* A bit is read after k zeros.                                            *)
LEMMA ScanBit ==
  ASSUME NEW in \in Seq(Bytes), NEW str \in Seq(Bytes), Agrees(in, str),
         NEW p \in Nat, NEW k \in Nat, NEW lo \in Nat, NEW g,
         NEW t \in Readers, Reading(t, str, in, p + k), t.s = g,
         t.m = lo + k * 2 ^ LowBits, t.m <= MaxAbs,
         Front(str, ByteBits, p + k) = Front(str, ByteBits, p) * 2 ^ k
  PROVE  Scanned(OneBit(t, in, Len(in)), str, in, p, lo, g, k)
<1> DEFINE z == OneBit(t, in, Len(in))
<1>1. p + k \in Nat /\ (p + k) + 1 = p + (k + 1) /\ k + 1 \in Nat /\ p + (k + 1) \in Nat
  OBVIOUS
<1>2. /\ z \in Readers /\ z.s = t.s /\ z.m = t.m
      /\ \A y \in Nat : Reading(t, str, in, y) =>
              IF y + 1 <= ByteBits * Len(in) THEN Reading(z, str, in, y + 1) ELSE z.stop
  BY OneBitKeeps
<1> HIDE DEF z
<1>3. IF p + (k + 1) <= ByteBits * Len(in) THEN Reading(z, str, in, p + (k + 1)) ELSE z.stop
  BY <1>1, <1>2
<1>4. PICK b \in Nat \ {0} : b = ByteBits
  BY Parameters
<1>5. str \in Seq(Digits(b))
  BY <1>4 DEF Bytes
<1>6. PICK F \in Nat : F = Front(str, b, p)
  <2>1. Front(str, b, p) \in Nat
    BY <1>5, FrontShift
  <2> QED  BY <2>1
<1>7. PICK K \in Nat \ {0} : K = 2 ^ k /\ 2 ^ (k + 1) = 2 * K
  <2>1. 2 ^ k \in Nat \ {0} /\ 2 ^ (k + 1) = 2 * 2 ^ k
    BY PowerOfTwo, PowerPositive
  <2> QED  BY <2>1
<1>8. PICK c \in 0 .. 1 : /\ c = Front(str, b, p + (k + 1)) % 2
                          /\ Front(str, b, p + (k + 1)) = F * 2 ^ (k + 1) + c
  <2>1. PICK y \in Nat : y = Front(str, b, p + (k + 1))
    <3>1. Front(str, b, p + (k + 1)) \in Nat
      BY <1>1, <1>5, FrontShift
    <3> QED  BY <3>1
  <2>2. Front(str, b, (p + k) + 1) = Front(str, b, p + k) * 2 ^ 1 + (Front(str, b, (p + k) + 1) % 2 ^ 1)
    <3>1. PICK e \in Nat : e = p + k
      BY <1>1
    <3>2. 1 \in Nat
      OBVIOUS
    <3>3. FrontGrows(str, b, e, 1)
      BY <1>5, <3>2, FrontGrown
    <3> QED  BY <3>1, <3>3 DEF FrontGrows
  <2>3. y = (F * K) * 2 + (y % 2)
    BY <1>1, <1>4, <1>6, <1>7, <2>1, <2>2, PowerOfTwo
  <2>4. (F * K) * 2 = F * (2 * K)
    OBVIOUS
  <2>5. y % 2 \in 0 .. 1
    OBVIOUS
  <2> QED  BY <1>7, <2>1, <2>3, <2>4, <2>5
<1>9. CASE ~ (p + (k + 1) <= ByteBits * Len(in))
  <2>1. z.stop
    BY <1>3, <1>9
  <2>2. ASSUME NEW h \in Nat
        PROVE  ~ Closes(str, in, p, lo, h)
    <3>1. CASE h < k
      <4>1. Front(str, ByteBits, p + (h + 1)) # Front(str, ByteBits, p) * 2 ^ (h + 1) + 1
        <5>1. Front(str, ByteBits, p + (k + 1)) = Front(str, ByteBits, p) * 2 ^ (k + 1) + c
          BY <1>4, <1>6, <1>8
        <5> QED  BY <3>1, <5>1, ClosesOnce
      <4> QED  BY <4>1 DEF Closes
    <3>2. CASE ~ (h < k)
      <4>1. PICK w \in Nat : w = ByteBits * Len(in)
        <5>1. Len(in) \in Nat
          OBVIOUS
        <5>2. \A y \in Nat : b * y \in Nat
          OBVIOUS
        <5> QED  BY <1>4, <5>1, <5>2
      <4>2. ~ (p + (h + 1) <= w)
        BY <1>9, <3>2, <4>1
      <4> QED  BY <4>1, <4>2 DEF Closes
    <3> QED  BY <3>1, <3>2
  <2> QED  BY <1>2, <2>1, <2>2 DEF Scanned, Missed, z
<1>10. CASE p + (k + 1) <= ByteBits * Len(in)
  <2>1. Reading(z, str, in, p + (k + 1))
    BY <1>3, <1>10
  <2>2. IsOne(z) <=> c = 1
    <3>1. IsOne(z) <=> Front(str, ByteBits, p + (k + 1)) % 2 = 1
      BY <1>1, <2>1, IsOneMeans
    <3> QED  BY <1>4, <1>8, <3>1
  <2>3. CASE c = 1
    <3>1. Closes(str, in, p, lo, k)
      BY <1>4, <1>6, <1>8, <1>10, <2>3 DEF Closes
    <3>2. Found(z, str, in, p, lo, k)
      BY <1>2, <2>1, <2>2, <2>3, <3>1 DEF Found
    <3> QED  BY <1>2, <3>2 DEF Scanned, z
  <2>4. CASE c = 0
    <3>1. Front(str, b, p + (k + 1)) = F * 2 ^ (k + 1)
      <4>1. F * (2 * K) \in Nat
        OBVIOUS
      <4> QED  BY <1>7, <1>8, <2>4, <4>1
    <3>2. ~ IsOne(z)
      BY <2>2, <2>4
    <3>3. Open(z, str, in, p, lo, k)
      BY <1>2, <1>4, <1>6, <2>1, <3>1, <3>2 DEF Open
    <3> QED  BY <1>2, <3>3 DEF Scanned, z
  <2> QED  BY <2>3, <2>4
<1> QED  BY <1>9, <1>10


(* A state in which the end was missed or found stays as it is; otherwise  *)
(* the next bit is read, unless the value is out of range.                 *)
LEMMA ScanStep ==
  ASSUME NEW in \in Seq(Bytes), NEW str \in Seq(Bytes), Agrees(in, str),
         NEW p \in Nat, NEW k \in Nat, NEW lo \in Nat, NEW g, NEW t,
         Scanned(t, str, in, p, lo, g, k)
  PROVE  Scanned(NextHigh(t, in, Len(in)), str, in, p, lo, g, k + 1)
<1> DEFINE z == NextHigh(t, in, Len(in))
           y == [t EXCEPT !.m = t.m + 2 ^ LowBits]
<1>1. t \in Readers /\ t.s = g
  BY DEF Scanned
<1>2. CASE Missed(t, str, in, p, lo)
  <2>1. z = t
    BY <1>2 DEF NextHigh, Missed
  <2> HIDE DEF z
  <2> QED  BY <1>1, <1>2, <2>1 DEF Scanned, z
<1>3. CASE \E h \in Nat : Found(t, str, in, p, lo, h)
  <2>1. IsOne(t)
    BY <1>3 DEF Found
  <2>2. z = t
    BY <2>1 DEF NextHigh
  <2> HIDE DEF z
  <2> QED  BY <1>1, <1>3, <2>2 DEF Scanned, z
<1>4. CASE Open(t, str, in, p, lo, k)
  <2>1. ~ t.stop /\ ~ IsOne(t) /\ Reading(t, str, in, p + (k + 1)) /\ t.m = lo + k * 2 ^ LowBits
    BY <1>4 DEF Open, Reading
  <2>2. Front(str, ByteBits, p + (k + 1)) = Front(str, ByteBits, p) * 2 ^ (k + 1)
    BY <1>4 DEF Open
  <2>3. PICK P \in Nat \ {0} : P = 2 ^ LowBits
    BY Parameters, PowerPositive
  <2>4. t.m + P = lo + (k + 1) * P
    <3>1. (k + 1) * P = k * P + P /\ k * P \in Nat
      OBVIOUS
    <3> QED  BY <2>1, <2>3, <3>1
  <2>5. CASE t.m + P > MaxAbs
    <3>1. z = [t EXCEPT !.stop = TRUE]
      BY <2>1, <2>3, <2>5 DEF NextHigh
    <3> HIDE DEF z
    <3>2. PICK A \in Nat, L \in Nat, v \in Nat, s \in Nat, m \in Nat, st \in BOOLEAN :
        /\ t = [acc |-> A, len |-> L, v |-> v, s |-> s, m |-> m, stop |-> st]
        /\ t.acc = A /\ t.len = L /\ t.v = v /\ t.s = s /\ t.m = m /\ t.stop = st
      BY <1>1, ReaderNumbers
    <3>3. z = [acc |-> A, len |-> L, v |-> v, s |-> s, m |-> m, stop |-> TRUE]
      BY <3>1, <3>2
    <3>4. z \in Readers /\ z.s = g /\ z.stop
      BY <1>1, <3>2, <3>3 DEF Readers
    <3>5. ASSUME NEW h \in Nat
          PROVE  ~ Closes(str, in, p, lo, h)
      <4>1. CASE h < k
        <5>1. Front(str, ByteBits, p + (h + 1)) # Front(str, ByteBits, p) * 2 ^ (h + 1) + 1
          <6>1. Front(str, ByteBits, p + (k + 1)) = Front(str, ByteBits, p) * 2 ^ (k + 1) + 0
            <7>1. Front(str, ByteBits, p) * 2 ^ (k + 1) \in Nat
              BY FrontTimes
            <7> QED  BY <2>2, <7>1
          <6>2. 0 \in 0 .. 1
            OBVIOUS
          <6> QED  BY <4>1, <6>1, <6>2, ClosesOnce
        <5> QED  BY <5>1 DEF Closes
      <4>2. CASE h = k
        <5>1. Front(str, ByteBits, p) * 2 ^ (k + 1) \in Nat
          BY FrontTimes
        <5> QED  BY <2>2, <4>2, <5>1 DEF Closes
      <4>3. CASE k < h
        <5>1. ~ (lo + h * P <= MaxAbs)
          <6>1. (k + 1) * P <= h * P
            <7>1. k + 1 = h \/ (k + 1) * P + P <= h * P
              BY <4>3, MultipleAbove
            <7>2. (k + 1) * P \in Nat /\ h * P \in Nat
              OBVIOUS
            <7> QED  BY <7>1, <7>2
          <6>2. (k + 1) * P \in Nat /\ h * P \in Nat /\ MaxAbs \in Nat
            BY Parameters
          <6> QED  BY <2>4, <2>5, <6>1, <6>2
        <5> QED  BY <2>3, <5>1 DEF Closes
      <4> QED  BY <4>1, <4>2, <4>3
    <3> QED  BY <3>4, <3>5 DEF Scanned, Missed, z
  <2>6. CASE ~ (t.m + P > MaxAbs)
    <3>1. z = OneBit(y, in, Len(in))
      BY <2>1, <2>3, <2>6 DEF NextHigh
    <3>2. PICK A \in Nat, L \in Nat, v \in Nat, s \in Nat, m \in Nat, st \in BOOLEAN :
        /\ t = [acc |-> A, len |-> L, v |-> v, s |-> s, m |-> m, stop |-> st]
        /\ t.acc = A /\ t.len = L /\ t.v = v /\ t.s = s /\ t.m = m /\ t.stop = st
      BY <1>1, ReaderNumbers
    <3>3. y = [acc |-> A, len |-> L, v |-> v, s |-> s, m |-> m + P, stop |-> st]
      BY <2>3, <3>2
    <3> HIDE DEF y, z
    <3>4. /\ y \in Readers /\ y.acc = A /\ y.len = L /\ y.v = v /\ y.s = g /\ y.m = m + P
          /\ y.stop = st
      BY <1>1, <3>2, <3>3 DEF Readers
    <3>5. Reading(y, str, in, p + (k + 1))
      BY <2>1, <3>2, <3>4, Zenon DEF Reading
    <3>6. y.m = lo + (k + 1) * 2 ^ LowBits /\ y.m <= MaxAbs
      BY <2>3, <2>4, <2>6, <3>2, <3>4, Parameters
    <3>7. PICK e \in Nat : e = k + 1
      OBVIOUS
    <3>8. Scanned(OneBit(y, in, Len(in)), str, in, p, lo, g, e)
      BY <2>2, <3>4, <3>5, <3>6, <3>7, ScanBit
    <3> QED  BY <3>1, <3>7, <3>8 DEF z
  <2> QED  BY <2>5, <2>6
<1> QED  BY <1>2, <1>3, <1>4 DEF Scanned

(* Refusing the input leaves a reader a reader.                            *)
LEMMA RefuseKeeps ==
  ASSUME NEW t \in Readers
  PROVE  /\ [t EXCEPT !.stop = TRUE] \in Readers
         /\ [t EXCEPT !.stop = TRUE].stop
         /\ [t EXCEPT !.stop = TRUE].s = t.s
<1> DEFINE z == [t EXCEPT !.stop = TRUE]
<1>1. z \in Readers
  BY DEF Readers
<1>2. z.stop /\ z.s = t.s
  BY DEF Readers
<1> QED  BY <1>1, <1>2

(* The definition of Scanning, as equations.                               *)
LEMMA ScanningSteps ==
  ASSUME NEW in \in Seq(Bytes), NEW str \in Seq(Bytes), Agrees(in, str), NEW t \in Readers
  PROVE  /\ HighSteps \in Nat
         /\ Scanning(t, in, Len(in))[0] = OneBit(t, in, Len(in))
         /\ \A i \in 1 .. HighSteps :
              Scanning(t, in, Len(in))[i] = NextHigh(Scanning(t, in, Len(in))[i - 1], in, Len(in))
         /\ \A i \in 0 .. HighSteps :
              /\ Scanning(t, in, Len(in))[i] \in Readers
              /\ t.stop => Scanning(t, in, Len(in))[i].stop
<1> DEFINE S == {z \in Readers : t.stop => z.stop}
           n == HighSteps
           f0 == OneBit(t, in, Len(in))
           Step(z) == NextHigh(z, in, Len(in))
           G == [i \in Nat |-> [z \in S |-> Step(z)]]
           Rule(f) == f = [k \in 0 .. n |-> IF k = 0 THEN f0 ELSE Step(f[k - 1])]
           V == Scanning(t, in, Len(in))
<1>0. n \in Nat
  <2>1. 2 ^ LowBits \in Nat \ {0}
    BY Parameters, PowerPositive
  <2>2. MaxAbs \div 2 ^ LowBits \in Nat
    BY <2>1, Parameters, QuotientRemainder
  <2> QED  BY <2>2 DEF HighSteps
<1>1. IsStep(G, S) /\ f0 \in S
  <2>1. ASSUME NEW z \in S
        PROVE  Step(z) \in S
    <3>1. z \in Readers /\ (t.stop => z.stop)
      OBVIOUS
    <3>2. CASE z.stop \/ IsOne(z)
      <4>1. Step(z) = z
        BY <3>2 DEF NextHigh
      <4> HIDE DEF Step, S
      <4> QED  BY <4>1
    <3>3. CASE ~ (z.stop \/ IsOne(z))
      <4>1. PICK A \in Nat, L \in Nat, v \in Nat, s \in Nat, m \in Nat, st \in BOOLEAN :
          /\ z = [acc |-> A, len |-> L, v |-> v, s |-> s, m |-> m, stop |-> st]
          /\ z.acc = A /\ z.len = L /\ z.v = v /\ z.s = s /\ z.m = m /\ z.stop = st
        BY <3>1, ReaderNumbers
      <4>2. ~ t.stop
        BY <3>1, <3>3
      <4>3. CASE z.m + 2 ^ LowBits > MaxAbs
        <5>1. Step(z) = [z EXCEPT !.stop = TRUE]
          BY <3>3, <4>3 DEF NextHigh
        <5>3. Step(z) \in Readers
          BY <3>1, <5>1, RefuseKeeps
        <5> QED  BY <4>2, <5>3
      <4>4. CASE ~ (z.m + 2 ^ LowBits > MaxAbs)
        <5> DEFINE y == [z EXCEPT !.m = z.m + 2 ^ LowBits]
        <5>1. Step(z) = OneBit(y, in, Len(in))
          BY <3>3, <4>4 DEF NextHigh
        <5>2. PICK P \in Nat : P = 2 ^ LowBits
          BY Parameters, PowerPositive
        <5>3. y = [acc |-> A, len |-> L, v |-> v, s |-> s, m |-> m + P, stop |-> st]
          BY <4>1, <5>2
        <5> HIDE DEF y, Step
        <5>4. y \in Readers
          BY <5>3 DEF Readers
        <5>5. OneBit(y, in, Len(in)) \in Readers
          BY <5>4, OneBitKeeps
        <5> QED  BY <4>2, <5>1, <5>5
      <4> QED  BY <4>3, <4>4
    <3> QED  BY <3>2, <3>3
  <2>2. f0 \in S
    BY OneBitKeeps
  <2> HIDE DEF Step, S, f0
  <2> QED  BY <2>1, <2>2 DEF IsStep
<1>2. PICK h : Obeys(h, n, S, f0, G)
  <2> HIDE DEF G, S, n, f0
  <2> QED  BY <1>0, <1>1, FiniteRecursion
<1>3. Rule(h)
  <2>1. ASSUME NEW i \in 0 .. n, i # 0
        PROVE  h[i] = Step(h[i - 1])
    <3>1. i \in 1 .. n /\ i - 1 \in 0 .. n - 1 /\ i - 1 \in 0 .. n /\ (i - 1) + 1 = i
      BY <1>0, <2>1
    <3>2. h[i] = G[i - 1][h[i - 1]] /\ h[i - 1] \in S /\ i - 1 \in Nat
      <4> HIDE DEF G, S, n, f0
      <4> QED  BY <1>2, <3>1 DEF Obeys
    <3> HIDE DEF Step, S
    <3> QED  BY <3>1, <3>2
  <2>2. h = [i \in 0 .. n |-> h[i]] /\ h[0] = f0
    <3> HIDE DEF S, G, n, f0
    <3> QED  BY <1>2 DEF Obeys
  <2> HIDE DEF S, G, n, f0, Step
  <2> QED  BY <2>1, <2>2
<1>4. V = CHOOSE f : Rule(f)
  BY DEF Scanning
<1>5. Rule(V)
  <2> HIDE DEF Rule, V
  <2> QED  BY <1>3, <1>4
<1> HIDE DEF V, n, f0, Step
<1>6. V[0] = f0
  BY <1>0, <1>5
<1>7. ASSUME NEW i \in 1 .. n
      PROVE  V[i] = Step(V[i - 1])
  <2>1. i \in 0 .. n /\ i # 0
    BY <1>0
  <2> QED  BY <1>5, <2>1
<1>8. \A i \in 0 .. n : V[i] \in S
  <2> DEFINE T == {i \in Nat : i <= n => V[i] \in S}
  <2> HIDE DEF S
  <2>1. 0 \in T
    BY <1>1, <1>6
  <2>2. ASSUME NEW i \in Nat, i \in T
        PROVE  i + 1 \in T
    <3> SUFFICES ASSUME i + 1 <= n
                 PROVE  V[i + 1] \in S
      OBVIOUS
    <3>1. i + 1 \in 1 .. n /\ (i + 1) - 1 = i /\ V[i] \in S /\ i \in Nat
      BY <1>0, <2>2
    <3>2. V[i + 1] = Step(V[i])
      BY <1>7, <3>1
    <3>3. Step(V[i]) \in S
      <4>1. G[0] = [z \in S |-> Step(z)]
        OBVIOUS
      <4>2. G[0][V[i]] \in S
        <5> HIDE DEF G
        <5> QED  BY <1>1, <3>1 DEF IsStep
      <4> QED  BY <3>1, <4>1, <4>2
    <3> QED  BY <3>2, <3>3
  <2> HIDE DEF T
  <2>3. \A i \in Nat : i \in T
    BY <2>1, <2>2, Induction
  <2> QED  BY <1>0, <2>3 DEF T
<1>9. \A i \in 0 .. n : V[i] \in Readers /\ (t.stop => V[i].stop)
  BY <1>8
<1> QED  BY <1>0, <1>6, <1>7, <1>9 DEF V, n, f0, Step

-----------------------------------------------------------------------------
(* The compressed encoding: reading an element.                            *)

(* The high part of an element: the end is missed, or found.               *)
LEMMA HighPartKeeps ==
  ASSUME NEW in \in Seq(Bytes), NEW str \in Seq(Bytes), Agrees(in, str),
         NEW p \in Nat, NEW lo \in 0 .. 2 ^ LowBits - 1, NEW g,
         NEW t \in Readers, Reading(t, str, in, p), t.s = g, t.m = lo
  PROVE  /\ HighPart(t, in, Len(in)) \in Readers
         /\ HighPart(t, in, Len(in)).s = g
         /\ \/ Missed(HighPart(t, in, Len(in)), str, in, p, lo)
            \/ \E h \in Nat : Found(HighPart(t, in, Len(in)), str, in, p, lo, h)
<1> DEFINE V == Scanning(t, in, Len(in))
           n == HighSteps
           Good(k) == Scanned(V[k], str, in, p, lo, g, k)
           T == {k \in Nat : k <= n => Good(k)}
<1>1. /\ n \in Nat
      /\ V[0] = OneBit(t, in, Len(in))
      /\ \A i \in 1 .. n : V[i] = NextHigh(V[i - 1], in, Len(in))
  BY ScanningSteps
<1>2. PICK P \in Nat \ {0} : P = 2 ^ LowBits
  BY Parameters, PowerPositive
<1>3. lo \in Nat /\ lo < P /\ lo <= MaxAbs
  BY <1>2, Parameters, AccumulatorAssumption
<1> HIDE DEF V, n
<1>4. 0 \in T
  <2>1. Front(str, ByteBits, p) = Front(str, ByteBits, p) * 2 ^ 0
    <3>1. 2 ^ 0 = 1
      BY PowerOfTwo
    <3>2. Front(str, ByteBits, p) \in Nat
      BY FrontTimes
    <3> QED  BY <3>1, <3>2
  <2>2. p + 0 = p /\ 0 \in Nat /\ t.m = lo + 0 * 2 ^ LowBits /\ t.m <= MaxAbs
    BY <1>2, <1>3
  <2>3. Reading(t, str, in, p + 0) /\ Front(str, ByteBits, p + 0) = Front(str, ByteBits, p) * 2 ^ 0
    BY <2>1, <2>2
  <2>4. Scanned(OneBit(t, in, Len(in)), str, in, p, lo, g, 0)
    BY <1>3, <2>2, <2>3, ScanBit
  <2> QED  BY <1>1, <2>4
<1>5. ASSUME NEW k \in Nat, k \in T
      PROVE  k + 1 \in T
  <2> SUFFICES ASSUME k + 1 <= n
               PROVE  Good(k + 1)
    OBVIOUS
  <2>1. Scanned(V[k], str, in, p, lo, g, k) /\ k + 1 \in 1 .. n /\ (k + 1) - 1 = k
    BY <1>1, <1>5
  <2>2. V[k + 1] = NextHigh(V[k], in, Len(in))
    BY <1>1, <2>1
  <2>3. Scanned(NextHigh(V[k], in, Len(in)), str, in, p, lo, g, k + 1)
    BY <1>3, <2>1, ScanStep
  <2> QED  BY <2>2, <2>3
<1>6. Good(n)
  <2> HIDE DEF Good
  <2>1. \A k \in T : k <= n => Good(k)
    OBVIOUS
  <2> HIDE DEF T
  <2>2. \A k \in Nat : k \in T
    BY <1>4, <1>5, Induction
  <2> QED  BY <1>1, <2>1, <2>2
<1>7. ~ Open(V[n], str, in, p, lo, n)
  <2> SUFFICES ASSUME Open(V[n], str, in, p, lo, n)
               PROVE  FALSE
    OBVIOUS
  <2>1. lo + n * P <= MaxAbs
    <3>1. V[n].m = lo + n * P /\ V[n].m <= MaxAbs
      BY <1>2 DEF Open
    <3> QED  BY <3>1
  <2>2. PICK M \in Nat, d \in Nat, e \in 0 .. P - 1 : M = MaxAbs /\ M = d * P + e /\ n = d + 1
    <3>1. MaxAbs \div P \in Nat /\ MaxAbs % P \in 0 .. P - 1 /\ MaxAbs = (MaxAbs \div P) * P + (MaxAbs % P)
      BY <1>2, Parameters, QuotientRemainder
    <3>2. n = (MaxAbs \div P) + 1
      BY <1>2 DEF n, HighSteps
    <3> QED  BY <3>1, <3>2, Parameters
  <2>3. (d + 1) * P = d * P + P /\ d * P \in Nat
    OBVIOUS
  <2> QED  BY <1>3, <2>1, <2>2, <2>3
<1>8. V[n] = HighPart(t, in, Len(in))
  BY DEF V, n, HighPart
<1> QED  BY <1>6, <1>7, <1>8 DEF Scanned

(* After p bits of str come those of the element a.                        *)
Follows(str, p, a) ==
  Front(str, ByteBits, p + ElementSize(a)) =
    Front(str, ByteBits, p) * 2 ^ ElementSize(a) + ElementBits(a)

(* The same in two parts: sign and low bits, and the high part.            *)
FollowsInParts(str, p, w, h) ==
  /\ Front(str, ByteBits, p + ByteBits) % 2 ^ ByteBits = w
  /\ Front(str, ByteBits, (p + ByteBits) + (h + 1)) =
       Front(str, ByteBits, p + ByteBits) * 2 ^ (h + 1) + 1

(* The two forms say the same.                                             *)
LEMMA ElementInParts ==
  ASSUME NEW str \in Seq(Bytes), NEW p \in Nat, NEW a \in Elements
  PROVE  Follows(str, p, a) <=>
           FollowsInParts(str, p, Sign(a) * 2 ^ LowBits + Low(a), High(a))
<1>1. PICK b \in Nat \ {0} : b = ByteBits
  BY Parameters
<1>2. str \in Seq(Digits(b))
  BY <1>1 DEF Bytes
<1>3. PICK h \in Nat : h = High(a)
  BY ElementParts
<1>4. PICK w \in 0 .. 2 ^ b - 1 : w = Sign(a) * 2 ^ LowBits + Low(a)
  BY <1>1, ElementNumbers
<1>5. PICK B \in Nat \ {0}, H \in Nat \ {0} :
        B = 2 ^ b /\ H = 2 ^ (h + 1) /\ 2 <= H /\ 2 ^ ElementSize(a) = B * H
  <2>1. 2 ^ b \in Nat \ {0} /\ 2 ^ (h + 1) \in Nat \ {0}
    BY PowerPositive
  <2>2. 2 <= 2 ^ (h + 1)
    <3>1. 2 ^ h \in Nat \ {0} /\ 2 ^ (h + 1) = 2 * 2 ^ h
      BY PowerOfTwo, PowerPositive
    <3> QED  BY <3>1
  <2>3. 2 ^ ElementSize(a) = 2 ^ b * 2 ^ (h + 1)
    BY <1>1, <1>3, ElementNumbers
  <2> QED  BY <2>1, <2>2, <2>3
<1>6. PICK e \in Nat, i \in Nat, z \in Nat : e = p + b /\ i = h + 1 /\ z = p + ElementSize(a) /\ z = e + i
  <2>1. ElementSize(a) = b + (h + 1)
    BY <1>1, <1>3 DEF ElementSize
  <2>2. p + (b + (h + 1)) = (p + b) + (h + 1) /\ p + b \in Nat /\ h + 1 \in Nat /\ (p + b) + (h + 1) \in Nat
    OBVIOUS
  <2> QED  BY <2>1, <2>2
<1>7. PICK F \in Nat, E \in Nat, Z \in Nat :
        F = Front(str, b, p) /\ E = Front(str, b, e) /\ Z = Front(str, b, z)
  <2>1. Front(str, b, p) \in Nat
    BY <1>2, FrontShift
  <2>2. Front(str, b, e) \in Nat
    BY <1>2, FrontShift
  <2>3. Front(str, b, z) \in Nat
    BY <1>2, FrontShift
  <2> QED  BY <2>1, <2>2, <2>3
<1>8. Z \div H = E
  <2>1. Front(str, b, e + i) \div 2 ^ i = Front(str, b, e)
    BY <1>2, FrontShift
  <2> QED  BY <1>5, <1>6, <1>7, <2>1
<1>9. E = F * B + (E % B)
  <2>1. FrontGrows(str, b, p, b)
    BY <1>2, FrontGrown
  <2>2. Front(str, b, p + b) = Front(str, b, p) * 2 ^ b + (Front(str, b, p + b) % 2 ^ b)
    BY <2>1 DEF FrontGrows
  <2> QED  BY <1>5, <1>6, <1>7, <2>2
<1>10. Follows(str, p, a) <=> Z = F * (B * H) + (w * H + 1)
  BY <1>1, <1>3, <1>4, <1>5, <1>6, <1>7 DEF Follows, ElementBits
<1>11. FollowsInParts(str, p, w, h) <=> E % B = w /\ Z = E * H + 1
  BY <1>1, <1>5, <1>6, <1>7 DEF FollowsInParts
<1>12. F * (B * H) + (w * H + 1) = (F * B + w) * H + 1
  OBVIOUS
<1>13. ASSUME Z = (F * B + w) * H + 1
       PROVE  E % B = w /\ E = F * B + w
  <2>1. PICK y \in Nat : y = F * B + w
    OBVIOUS
  <2>2. (y * H + 1) \div H = y
    <3>1. 1 \in 0 .. H - 1 /\ y \in Int
      BY <1>5
    <3> QED  BY <3>1, QuotientUnique
  <2>3. (F * B + w) % B = w
    <3>1. w \in 0 .. B - 1 /\ F \in Int
      BY <1>5
    <3> QED  BY <3>1, QuotientUnique
  <2> QED  BY <1>8, <1>13, <2>1, <2>2, <2>3
<1>14. (E % B = w /\ Z = E * H + 1) <=> Z = (F * B + w) * H + 1
  <2>1. ASSUME E % B = w, Z = E * H + 1
        PROVE  Z = (F * B + w) * H + 1
    BY <1>9, <2>1
  <2> QED  BY <1>13, <2>1
<1> QED  BY <1>3, <1>4, <1>10, <1>11, <1>12, <1>14

(* The element of a sign, of low bits and of a high part, unless it is     *)
(* minus zero.                                                             *)
LEMMA ElementOf ==
  ASSUME NEW s \in 0 .. 1, NEW lo \in 0 .. 2 ^ LowBits - 1, NEW h \in Nat, NEW m,
         m = lo + h * 2 ^ LowBits, m <= MaxAbs, ~ (s = 1 /\ m = 0), NEW a,
         a = IF s = 1 THEN - m ELSE m
  PROVE  a \in Elements /\ Sign(a) = s /\ Low(a) = lo /\ High(a) = h
<1>1. PICK P \in Nat \ {0} : P = 2 ^ LowBits
  BY Parameters, PowerPositive
<1>2. lo \in Nat /\ lo \in 0 .. P - 1 /\ h \in Int
  BY <1>1
<1>3. PICK y \in Nat : y = m /\ y = h * P + lo
  <2>1. h * P \in Nat
    OBVIOUS
  <2> QED  BY <1>1, <1>2, <2>1
<1>4. (h * P + lo) \div P = h /\ (h * P + lo) % P = lo
  BY <1>2, QuotientUnique
<1>5. a \in Elements /\ Abs(a) = y /\ Sign(a) = s
  BY <1>3, Parameters DEF Elements, Abs, Sign
<1> QED  BY <1>1, <1>3, <1>4, <1>5 DEF Low, High

(* After p bits of str come those of a, and all of them are in the bytes   *)
(* given.                                                                  *)
Holds(str, in, p, a) ==
  /\ a \in Elements /\ p + ElementSize(a) <= ByteBits * Len(in)
  /\ Follows(str, p, a)

(* The parts of an element are those the decoder sees.                     *)
LEMMA PartsSeen ==
  ASSUME NEW in \in Seq(Bytes), NEW str \in Seq(Bytes), NEW p \in Nat, NEW a, Holds(str, in, p, a),
         NEW s \in 0 .. 1, NEW lo \in 0 .. 2 ^ LowBits - 1,
         s * 2 ^ LowBits + lo = Front(str, ByteBits, p + ByteBits) % 2 ^ ByteBits
  PROVE  /\ Sign(a) = s /\ Low(a) = lo /\ High(a) \in Nat
         /\ Closes(str, in, p + ByteBits, lo, High(a))
<1>1. a \in Elements /\ p + ElementSize(a) <= ByteBits * Len(in)
  BY DEF Holds
<1>2. FollowsInParts(str, p, Sign(a) * 2 ^ LowBits + Low(a), High(a))
  BY <1>1, ElementInParts DEF Holds
<1>3. /\ Sign(a) \in 0 .. 1 /\ Low(a) \in 0 .. 2 ^ LowBits - 1 /\ High(a) \in Nat
      /\ Abs(a) \in 0 .. MaxAbs /\ Abs(a) = High(a) * 2 ^ LowBits + Low(a)
  BY <1>1, ElementParts
<1>4. PICK P \in Nat \ {0} : P = 2 ^ LowBits
  BY Parameters, PowerPositive
<1>5. PICK c \in 0 .. 1, d \in 0 .. P - 1, h \in Nat : c = Sign(a) /\ d = Low(a) /\ h = High(a)
  BY <1>3, <1>4
<1>6. c * P + d = s * P + lo
  BY <1>2, <1>4, <1>5 DEF FollowsInParts
<1>7. c = s /\ d = lo
  <2>1. c \in Int /\ s \in Int /\ lo \in 0 .. P - 1
    BY <1>4
  <2>2. (c * P + d) \div P = c /\ (c * P + d) % P = d
    BY <2>1, QuotientUnique
  <2>3. (s * P + lo) \div P = s /\ (s * P + lo) % P = lo
    BY <2>1, QuotientUnique
  <2> QED  BY <1>6, <2>2, <2>3
<1>8. lo + h * P <= MaxAbs
  <2>1. h * P \in Nat
    OBVIOUS
  <2>2. h * P + d <= MaxAbs
    BY <1>3, <1>4, <1>5, Parameters
  <2> QED  BY <1>7, <2>1, <2>2
<1>9. (p + ByteBits) + (h + 1) <= ByteBits * Len(in)
  <2>1. p + (ByteBits + (h + 1)) <= ByteBits * Len(in)
    BY <1>1, <1>5 DEF ElementSize
  <2>2. p + (ByteBits + (h + 1)) = (p + ByteBits) + (h + 1)
    BY Parameters
  <2> QED  BY <2>1, <2>2
<1>10. Closes(str, in, p + ByteBits, lo, h)
  BY <1>2, <1>4, <1>5, <1>8, <1>9 DEF Closes, FollowsInParts
<1> QED  BY <1>5, <1>7, <1>10

(* The number of zeros is determined.                                      *)
LEMMA ClosesUnique ==
  ASSUME NEW in \in Seq(Bytes), NEW str \in Seq(Bytes), NEW p \in Nat, NEW lo \in Nat,
         NEW h \in Nat, Closes(str, in, p, lo, h), NEW k \in Nat, Closes(str, in, p, lo, k)
  PROVE  h = k
<1>1. 1 \in 0 .. 1
  OBVIOUS
<1>2. ~ (h < k)
  BY <1>1, ClosesOnce DEF Closes
<1>3. ~ (k < h)
  BY <1>1, ClosesOnce DEF Closes
<1> QED  BY <1>2, <1>3

(* An element is determined by its parts.                                  *)
LEMMA ElementUnique ==
  ASSUME NEW a \in Elements, NEW c \in Elements,
         Sign(a) = Sign(c), Low(a) = Low(c), High(a) = High(c)
  PROVE  a = c
<1>1. Abs(a) = Abs(c) /\ a \in Int /\ c \in Int
  BY ElementParts, Parameters DEF Elements
<1> QED  BY <1>1 DEF Sign, Abs

(* The decoder reads the element that comes next, if there is one and the  *)
(* bytes given hold all of it; otherwise it refuses its input.             *)
LEMMA NextElementKeeps ==
  ASSUME NEW in \in Seq(Bytes), NEW str \in Seq(Bytes), Agrees(in, str), NEW p \in Nat,
         NEW t \in Readers, Reading(t, str, in, p), NEW r, r = NextElement(t, in, Len(in))
  PROVE  /\ r \in Readers
         /\ \/ r.stop /\ \A a \in Elements : ~ Holds(str, in, p, a)
            \/ \E a \in Elements :
                 /\ Holds(str, in, p, a) /\ \A c \in Elements : Holds(str, in, p, c) => c = a
                 /\ Value(r) = a /\ Reading(r, str, in, p + ElementSize(a))
<1> DEFINE y == LowPart(t, in, Len(in))
           z == HighPart(y, in, Len(in))
<1>1. ~ t.stop
  BY DEF Reading
<1>2. r = IF MinusZero(z) THEN [z EXCEPT !.stop = TRUE] ELSE z
  BY <1>1 DEF NextElement
<1>3. PICK b \in Nat \ {0}, n \in Nat, P \in Nat \ {0} : b = ByteBits /\ n = b * Len(in) /\ P = 2 ^ LowBits
  <2>1. Len(in) \in Nat
    OBVIOUS
  <2>2. \A i \in Nat, j \in Nat : i * j \in Nat
    OBVIOUS
  <2> QED  BY <2>1, <2>2, Parameters, PowerPositive
<1>4. y \in Readers
  BY LowPartKeeps
<1>5. CASE ~ (p + b <= n)
  <2>1. y.stop
    BY <1>3, <1>5, LowPartKeeps
  <2>2. z \in Readers /\ z.stop
    <3>1. HighSteps \in 0 .. HighSteps
      BY <1>4, ScanningSteps
    <3> HIDE DEF y
    <3> QED  BY <1>4, <2>1, <3>1, ScanningSteps DEF HighPart
  <2> HIDE DEF z
  <2>3. r \in Readers /\ r.stop
    BY <1>2, <2>2, RefuseKeeps
  <2>4. ASSUME NEW a \in Elements
        PROVE  ~ Holds(str, in, p, a)
    <3>1. PICK h \in Nat : ElementSize(a) = b + (h + 1)
      BY <1>3, ElementParts DEF ElementSize
    <3>2. ~ (p + (b + (h + 1)) <= n)
      BY <1>5
    <3> QED  BY <1>3, <3>1, <3>2 DEF Holds
  <2> QED  BY <2>3, <2>4
<1>6. CASE p + b <= n
  <2>1. PICK s \in 0 .. 1, lo \in 0 .. 2 ^ LowBits - 1 :
          /\ y.s = s /\ y.m = lo /\ Reading(y, str, in, p + ByteBits)
          /\ s * 2 ^ LowBits + lo = Front(str, ByteBits, p + ByteBits) % 2 ^ ByteBits
    BY <1>3, <1>6, LowPartKeeps
  <2>2. p + ByteBits \in Nat /\ lo \in Nat /\ lo < P
    BY <1>3
  <2> HIDE DEF y
  <2>3. /\ z \in Readers /\ z.s = s
        /\ \/ Missed(z, str, in, p + ByteBits, lo)
           \/ \E h \in Nat : Found(z, str, in, p + ByteBits, lo, h)
    BY <1>4, <2>1, <2>2, HighPartKeeps
  <2> HIDE DEF z
  <2>4. \A a \in Elements : Holds(str, in, p, a) =>
          /\ Sign(a) = s /\ Low(a) = lo /\ High(a) \in Nat
          /\ Closes(str, in, p + ByteBits, lo, High(a))
    BY <2>1, PartsSeen
  <2>5. CASE Missed(z, str, in, p + ByteBits, lo)
    <3>1. z.stop /\ \A h \in Nat : ~ Closes(str, in, p + ByteBits, lo, h)
      BY <2>5 DEF Missed
    <3>2. r \in Readers /\ r.stop
      BY <1>2, <2>3, <3>1, RefuseKeeps
    <3> QED  BY <2>4, <3>1, <3>2
  <2>6. CASE \E h \in Nat : Found(z, str, in, p + ByteBits, lo, h)
    <3>1. PICK h \in Nat : Found(z, str, in, p + ByteBits, lo, h)
      BY <2>6
    <3>2. /\ Closes(str, in, p + ByteBits, lo, h) /\ Reading(z, str, in, (p + ByteBits) + (h + 1))
          /\ z.m = lo + h * 2 ^ LowBits
      BY <3>1 DEF Found
    <3>3. \A a \in Elements : Holds(str, in, p, a) => Sign(a) = s /\ Low(a) = lo /\ High(a) = h
      BY <2>2, <2>4, <3>2, ClosesUnique
    <3>4. PICK m \in Nat : m = z.m /\ m = lo + h * 2 ^ LowBits /\ m <= MaxAbs
      <4>1. lo + h * P \in Nat
        BY <2>2
      <4> QED  BY <1>3, <3>2, <4>1 DEF Closes
    <3>5. CASE MinusZero(z)
      <4>1. r \in Readers /\ r.stop
        BY <1>2, <2>3, <3>5, RefuseKeeps
      <4>2. s = 1 /\ m = 0
        BY <2>3, <3>4, <3>5 DEF MinusZero
      <4>3. ASSUME NEW a \in Elements, Holds(str, in, p, a)
            PROVE  FALSE
        <5>1. Sign(a) = 1 /\ Low(a) = lo /\ High(a) = h
          BY <3>3, <4>2, <4>3
        <5>2. Abs(a) = High(a) * 2 ^ LowBits + Low(a)
          BY ElementParts
        <5>3. Abs(a) = h * P + lo
          BY <1>3, <5>1, <5>2
        <5>4. h * P + lo = 0
          <6>1. h * P \in Nat
            OBVIOUS
          <6> QED  BY <1>3, <2>2, <3>4, <4>2, <6>1
        <5>5. a < 0 /\ a \in Int
          BY <5>1, Parameters DEF Sign, Elements
        <5> QED  BY <5>3, <5>4, <5>5 DEF Abs
      <4> QED  BY <4>1, <4>3
    <3>6. CASE ~ MinusZero(z)
      <4> DEFINE a == IF s = 1 THEN - m ELSE m
      <4>1. r = z /\ Value(r) = a
        BY <1>2, <2>3, <3>4, <3>6 DEF Value
      <4>2. ~ (s = 1 /\ m = 0)
        BY <2>3, <3>4, <3>6 DEF MinusZero
      <4>3. a \in Elements /\ Sign(a) = s /\ Low(a) = lo /\ High(a) = h
        BY <3>4, <4>2, ElementOf
      <4> HIDE DEF a
      <4>4. p + ElementSize(a) = (p + ByteBits) + (h + 1)
        <5>1. p + (b + (h + 1)) = (p + b) + (h + 1)
          OBVIOUS
        <5> QED  BY <1>3, <4>3, <5>1 DEF ElementSize
      <4>5. Holds(str, in, p, a)
        <5>1. FollowsInParts(str, p, s * 2 ^ LowBits + lo, h)
          BY <2>1, <3>2 DEF FollowsInParts, Closes
        <5>2. Follows(str, p, a)
          BY <4>3, <5>1, ElementInParts
        <5>3. p + ElementSize(a) <= ByteBits * Len(in)
          BY <3>2, <4>4 DEF Closes
        <5> QED  BY <4>3, <5>2, <5>3 DEF Holds
      <4>6. \A c \in Elements : Holds(str, in, p, c) => c = a
        BY <3>3, <4>3, ElementUnique
      <4>7. Reading(r, str, in, p + ElementSize(a))
        BY <3>2, <4>1, <4>4
      <4> QED  BY <2>3, <4>1, <4>3, <4>5, <4>6, <4>7
    <3> QED  BY <3>5, <3>6
  <2> QED  BY <2>3, <2>5, <2>6
<1> QED  BY <1>5, <1>6

(* Reading an element leaves a reader a reader.                            *)
LEMMA NextElementType ==
  ASSUME NEW in \in Seq(Bytes), NEW str \in Seq(Bytes), Agrees(in, str), NEW t \in Readers
  PROVE  NextElement(t, in, Len(in)) \in Readers
<1> DEFINE y == LowPart(t, in, Len(in))
           z == HighPart(y, in, Len(in))
<1>1. y \in Readers
  BY LowPartKeeps
<1>2. z \in Readers
  <2> HIDE DEF y
  <2>1. HighSteps \in 0 .. HighSteps
    BY <1>1, ScanningSteps
  <2> QED  BY <1>1, <2>1, ScanningSteps DEF HighPart
<1>3. NextElement(t, in, Len(in)) =
        IF t.stop THEN t ELSE IF MinusZero(z) THEN [z EXCEPT !.stop = TRUE] ELSE z
  BY DEF NextElement
<1> HIDE DEF z
<1>4. [z EXCEPT !.stop = TRUE] \in Readers
  BY <1>2, RefuseKeeps
<1> QED  BY <1>2, <1>3, <1>4

(* The definition of CompUnpacking, as equations.                          *)
LEMMA CompUnpackingSteps ==
  ASSUME NEW in \in Seq(Bytes), NEW str \in Seq(Bytes), Agrees(in, str), NEW n \in Nat
  PROVE  /\ CompUnpacking(in, Len(in), n)[0] = Start
         /\ \A i \in 1 .. n :
              CompUnpacking(in, Len(in), n)[i] =
                NextElement(CompUnpacking(in, Len(in), n)[i - 1], in, Len(in))
         /\ \A i \in 0 .. n : CompUnpacking(in, Len(in), n)[i] \in Readers
<1> DEFINE S == Readers
           f0 == Start
           Step(z) == NextElement(z, in, Len(in))
           G == [i \in Nat |-> [z \in S |-> Step(z)]]
           Rule(f) == f = [k \in 0 .. n |-> IF k = 0 THEN f0 ELSE Step(f[k - 1])]
           V == CompUnpacking(in, Len(in), n)
<1>0. n \in Nat
  OBVIOUS
<1>1. IsStep(G, S) /\ f0 \in S
  <2>1. ASSUME NEW z \in S
        PROVE  Step(z) \in S
    BY NextElementType
  <2>2. f0 \in S
    BY DEF Start, Readers
  <2> HIDE DEF Step, S, f0
  <2> QED  BY <2>1, <2>2 DEF IsStep
<1>2. PICK h : Obeys(h, n, S, f0, G)
  <2> HIDE DEF G, S, f0
  <2> QED  BY <1>0, <1>1, FiniteRecursion
<1>3. Rule(h)
  <2>1. ASSUME NEW i \in 0 .. n, i # 0
        PROVE  h[i] = Step(h[i - 1])
    <3>1. i \in 1 .. n /\ i - 1 \in 0 .. n - 1 /\ i - 1 \in 0 .. n /\ (i - 1) + 1 = i
      BY <1>0, <2>1
    <3>2. h[i] = G[i - 1][h[i - 1]] /\ h[i - 1] \in S /\ i - 1 \in Nat
      <4> HIDE DEF G, S, f0
      <4> QED  BY <1>2, <3>1 DEF Obeys
    <3> HIDE DEF Step, S
    <3> QED  BY <3>1, <3>2
  <2>2. h = [i \in 0 .. n |-> h[i]] /\ h[0] = f0
    <3> HIDE DEF S, G, f0
    <3> QED  BY <1>2 DEF Obeys
  <2> HIDE DEF S, G, f0, Step
  <2> QED  BY <2>1, <2>2
<1>4. V = CHOOSE f : Rule(f)
  BY DEF CompUnpacking
<1>5. Rule(V)
  <2> HIDE DEF Rule, V
  <2> QED  BY <1>3, <1>4
<1> HIDE DEF V, f0, Step
<1>6. V[0] = f0
  BY <1>0, <1>5
<1>7. ASSUME NEW i \in 1 .. n
      PROVE  V[i] = Step(V[i - 1])
  <2>1. i \in 0 .. n /\ i # 0
    BY <1>0
  <2> QED  BY <1>5, <2>1
<1>8. \A i \in 0 .. n : V[i] \in S
  <2> DEFINE T == {i \in Nat : i <= n => V[i] \in S}
  <2> HIDE DEF S
  <2>1. 0 \in T
    BY <1>1, <1>6
  <2>2. ASSUME NEW i \in Nat, i \in T
        PROVE  i + 1 \in T
    <3> SUFFICES ASSUME i + 1 <= n
                 PROVE  V[i + 1] \in S
      OBVIOUS
    <3>1. i + 1 \in 1 .. n /\ (i + 1) - 1 = i /\ V[i] \in S
      BY <1>0, <2>2
    <3>2. V[i + 1] = Step(V[i])
      BY <1>7, <3>1
    <3>3. \A z \in S : Step(z) \in S
      BY NextElementType DEF S, Step
    <3> QED  BY <3>1, <3>2, <3>3
  <2> HIDE DEF T
  <2>3. \A i \in Nat : i \in T
    BY <2>1, <2>2, Induction
  <2> QED  BY <1>0, <2>3 DEF T
<1> QED  BY <1>0, <1>6, <1>7, <1>8 DEF V, f0, Step

-----------------------------------------------------------------------------
(* The compressed encoding: a string holds one vector, and a vector        *)
(* is in one string.                                                       *)

(* The element that comes next is determined.                              *)
LEMMA HoldsUnique ==
  ASSUME NEW in \in Seq(Bytes), NEW str \in Seq(Bytes), NEW p \in Nat,
         NEW a, Holds(str, in, p, a), NEW c, Holds(str, in, p, c)
  PROVE  a = c
<1>1. a \in Elements /\ c \in Elements
  BY DEF Holds
<1>2. Sign(a) \in 0 .. 1 /\ Low(a) \in 0 .. 2 ^ LowBits - 1 /\ High(a) \in Nat
  BY <1>1, ElementParts
<1>3. Sign(a) * 2 ^ LowBits + Low(a) = Front(str, ByteBits, p + ByteBits) % 2 ^ ByteBits
  BY <1>1, ElementInParts DEF Holds, FollowsInParts
<1>4. Closes(str, in, p + ByteBits, Low(a), High(a))
  BY <1>2, <1>3, PartsSeen
<1>5. /\ Sign(c) = Sign(a) /\ Low(c) = Low(a) /\ High(c) \in Nat
      /\ Closes(str, in, p + ByteBits, Low(a), High(c))
  BY <1>2, <1>3, PartsSeen
<1>6. p + ByteBits \in Nat /\ Low(a) \in Nat
  <2>1. PICK P \in Nat \ {0} : P = 2 ^ LowBits
    BY Parameters, PowerPositive
  <2>2. Low(a) \in Nat
    BY <1>2, <2>1
  <2> QED  BY <2>2, Parameters
<1>7. High(a) = High(c)
  BY <1>2, <1>4, <1>5, <1>6, ClosesUnique
<1> QED  BY <1>1, <1>5, <1>7, ElementUnique

(* Bits fill one number of bytes.                                          *)
LEMMA BytesUnique ==
  ASSUME NEW e \in Nat, NEW k \in Nat, NEW n \in Nat, NEW m \in Nat, m < ByteBits,
         NEW d \in Nat, d < ByteBits,
         ByteBits * k = e + m, ByteBits * n = e + d
  PROVE  k = n /\ m = d
<1>1. PICK b \in Nat \ {0} : b = ByteBits
  BY Parameters
<1>2. b * k \in Nat /\ b * n \in Nat /\ b * k = k * b /\ b * n = n * b
  OBVIOUS
<1>3. ~ (k < n)
  <2> SUFFICES ASSUME k < n PROVE FALSE
    OBVIOUS
  <2>1. k * b + b <= n * b
    BY MultipleAbove
  <2> QED  BY <1>1, <1>2, <2>1
<1>4. ~ (n < k)
  <2> SUFFICES ASSUME n < k PROVE FALSE
    OBVIOUS
  <2>1. n * b + b <= k * b
    BY MultipleAbove
  <2> QED  BY <1>1, <1>2, <2>1
<1> QED  BY <1>1, <1>2, <1>3, <1>4

(* At first nothing has been read.                                         *)
LEMMA StartReads ==
  ASSUME NEW in \in Seq(Bytes), NEW str \in Seq(Bytes)
  PROVE  /\ Reading(Start, str, in, 0) /\ ~ Start.stop
         /\ Front(str, ByteBits, 0) = 0
<1>1. PICK b \in Nat \ {0} : b = ByteBits
  BY Parameters
<1>2. str \in Seq(Digits(b))
  BY <1>1 DEF Bytes
<1>3. ValueOf(str, b)[0] = 0
  BY <1>2, ValueStep
<1>4. Front(str, b, 0) = 0
  <2>1. PICK n \in Nat, m \in Nat, p \in Nat : n = 0 /\ m = 0 /\ p = 0 /\ b * n = p + m
    <3>1. 0 \in Nat /\ b * 0 = 0 + 0
      OBVIOUS
    <3> QED  BY <3>1
  <2>2. Front(str, b, p) = ValueOf(str, b)[n] \div 2 ^ m
    <3>1. b * n = p + m
      BY <2>1
    <3> QED  BY <1>2, <3>1, FrontAt
  <2>3. 2 ^ 0 = 1
    BY PowerOfTwo
  <2> QED  BY <1>3, <2>1, <2>2, <2>3
<1>5. 0 = 0 % 2 ^ AccBits
  <2>1. 2 ^ AccBits \in Nat \ {0}
    BY Parameters, PowerPositive
  <2> QED  BY <2>1
<1>6. Start \in Readers /\ ~ Start.stop /\ Start.v = 0 /\ Start.acc = 0 /\ Start.len = 0
  BY DEF Start, Readers
<1>7. b * 0 = 0 + 0 /\ 0 < b /\ 0 <= Len(in)
  OBVIOUS
<1>8. Reading(Start, str, in, 0)
  BY <1>1, <1>3, <1>5, <1>6, <1>7 DEF Reading
<1> QED  BY <1>1, <1>4, <1>6, <1>8

(* Reading what starts with the bits of v: the elements of v are read, as  *)
(* far as the bytes given reach.                                           *)
LEMMA CompReads ==
  ASSUME NEW in \in Seq(Bytes), NEW str \in Seq(Bytes), Agrees(in, str),
         NEW v \in Seq(Elements), NEW n, n = Len(v),
         NEW bytes \in Seq(Bytes), CompSize(v, n) <= ByteBits * Len(bytes), Len(in) <= Len(bytes),
         \A i \in 0 .. n : Front(str, ByteBits, CompSize(v, i)) = CompBits(v, i)
  PROVE  /\ \A i \in 0 .. n :
              \/ CompUnpacking(in, Len(in), n)[i].stop
              \/ /\ Reading(CompUnpacking(in, Len(in), n)[i], str, in, CompSize(v, i))
                 /\ i # 0 => Value(CompUnpacking(in, Len(in), n)[i]) = v[i]
         /\ CompSize(v, n) <= ByteBits * Len(in) =>
              \A i \in 0 .. n : ~ CompUnpacking(in, Len(in), n)[i].stop
<1> DEFINE V == CompUnpacking(in, Len(in), n)
           B == ByteBits * Len(in)
           W == ByteBits * Len(bytes)
           Good(i) == /\ \/ V[i].stop
                         \/ /\ Reading(V[i], str, in, CompSize(v, i))
                            /\ i # 0 => Value(V[i]) = v[i]
                      /\ CompSize(v, n) <= B => ~ V[i].stop
           T == {i \in Nat : i <= n => Good(i)}
<1>0. n \in Nat
  OBVIOUS
<1>1. /\ V[0] = Start
      /\ \A i \in 1 .. n : V[i] = NextElement(V[i - 1], in, Len(in))
      /\ \A i \in 0 .. n : V[i] \in Readers
  BY <1>0, CompUnpackingSteps
<1>2. B \in Nat /\ W \in Nat /\ B <= W
  <2>1. PICK b \in Nat : b = ByteBits
    BY Parameters
  <2>2. Len(in) \in Nat /\ Len(bytes) \in Nat
    OBVIOUS
  <2>3. \A i \in Nat, j \in Nat : i <= j => b * i \in Nat /\ b * j \in Nat /\ b * i <= b * j
    <3> SUFFICES ASSUME NEW i \in Nat, NEW j \in Nat, i <= j
                 PROVE  b * i \in Nat /\ b * j \in Nat /\ b * i <= b * j
      OBVIOUS
    <3>1. PICK y \in Nat : j = i + y
      <4>1. j - i \in Nat /\ j = i + (j - i)
        OBVIOUS
      <4> QED  BY <4>1
    <3>2. b * i \in Nat /\ b * y \in Nat /\ b * (i + y) = b * i + b * y
      OBVIOUS
    <3> QED  BY <3>1, <3>2
  <2> QED  BY <2>1, <2>2, <2>3
<1> HIDE DEF V, B, W
<1>3. 0 \in T
  <2>1. CompSize(v, 0) = 0
    BY CompPackingKeeps
  <2>2. Reading(V[0], str, in, CompSize(v, 0)) /\ ~ V[0].stop
    BY <1>1, <2>1, StartReads
  <2> QED  BY <2>2
<1>4. ASSUME NEW i \in Nat, i \in T
      PROVE  i + 1 \in T
  <2> SUFFICES ASSUME i + 1 <= n
               PROVE  Good(i + 1)
    OBVIOUS
  <2>1. /\ i + 1 \in 1 .. n /\ i + 1 \in 0 .. n /\ (i + 1) - 1 = i /\ i \in 0 .. n - 1 /\ i \in 0 .. n
        /\ i + 1 # 0
    BY <1>0
  <2>2. V[i + 1] = NextElement(V[i], in, Len(in)) /\ V[i] \in Readers
    BY <1>1, <2>1
  <2>3. /\ \/ V[i].stop
           \/ Reading(V[i], str, in, CompSize(v, i))
        /\ CompSize(v, n) <= B => ~ V[i].stop
    BY <1>0, <1>4, <2>1
  <2>4. CASE V[i].stop
    <3>1. V[i + 1] = V[i]
      BY <2>2, <2>4 DEF NextElement
    <3> QED  BY <2>3, <2>4, <3>1
  <2>5. CASE Reading(V[i], str, in, CompSize(v, i))
    <3>1. PICK p \in Nat, a \in Elements, e \in Nat :
            /\ p = CompSize(v, i) /\ a = v[i + 1] /\ CompSize(v, i + 1) = p + ElementSize(a)
            /\ CompSize(v, n) = (p + ElementSize(a)) + e
      <4>1. CompSize(v, i) \in Nat /\ CompSize(v, i + 1) = CompSize(v, i) + ElementSize(v[i + 1])
        BY <2>1, CompPackingKeeps
      <4>2. v[i + 1] \in Elements
        BY <2>1
      <4>3. PICK e \in Nat : CompSize(v, n) = CompSize(v, i + 1) + e
        BY <2>1, CompFront
      <4> QED  BY <4>1, <4>2, <4>3
    <3>2. PICK z \in Nat : z = p + ElementSize(a)
      <4>1. ElementSize(a) \in Nat
        BY ElementNumbers
      <4> QED  BY <4>1
    <3>3. Follows(str, p, a)
      <4>1. CompBits(v, i + 1) = CompBits(v, i) * 2 ^ ElementSize(a) + ElementBits(a)
        BY <2>1, <3>1, CompPackingKeeps
      <4>2. /\ Front(str, ByteBits, CompSize(v, i)) = CompBits(v, i)
            /\ Front(str, ByteBits, CompSize(v, i + 1)) = CompBits(v, i + 1)
        BY <2>1
      <4> QED  BY <3>1, <4>1, <4>2 DEF Follows
    <3>4. Holds(str, bytes, p, a)
      <4>1. z + e <= W
        BY <3>1, <3>2 DEF W
      <4>2. z <= W
        BY <1>2, <4>1
      <4> QED  BY <3>2, <3>3, <4>2 DEF Holds, W
    <3>5. \A c \in Elements : Holds(str, in, p, c) => c = a
      <4> SUFFICES ASSUME NEW c \in Elements, Holds(str, in, p, c)
                   PROVE  c = a
        OBVIOUS
      <4>1. PICK y \in Nat : y = p + ElementSize(c)
        <5>1. ElementSize(c) \in Nat
          BY ElementNumbers
        <5> QED  BY <5>1
      <4>2. y <= B
        BY <4>1 DEF Holds, B
      <4>3. y <= W
        BY <1>2, <4>2
      <4>4. Holds(str, bytes, p, c)
        BY <4>1, <4>3 DEF Holds, W
      <4> QED  BY <3>4, <4>4, HoldsUnique
    <3>6. CompSize(v, n) <= B => Holds(str, in, p, a)
      <4>1. z + e <= B => z <= B
        BY <1>2
      <4> QED  BY <3>1, <3>2, <3>3, <4>1 DEF Holds, B
    <3>7. Reading(V[i], str, in, p)
      BY <2>5, <3>1
    <3>8. \/ V[i + 1].stop /\ \A c \in Elements : ~ Holds(str, in, p, c)
          \/ \E c \in Elements :
                 /\ Holds(str, in, p, c)
                 /\ Value(V[i + 1]) = c /\ Reading(V[i + 1], str, in, p + ElementSize(c))
      BY <2>2, <3>7, NextElementKeeps
    <3>9. CASE V[i + 1].stop /\ \A c \in Elements : ~ Holds(str, in, p, c)
      BY <3>6, <3>9
    <3>10. CASE \E c \in Elements :
                 /\ Holds(str, in, p, c)
                 /\ Value(V[i + 1]) = c /\ Reading(V[i + 1], str, in, p + ElementSize(c))
      <4>1. Value(V[i + 1]) = v[i + 1] /\ Reading(V[i + 1], str, in, CompSize(v, i + 1))
        BY <3>1, <3>5, <3>10
      <4>2. ~ V[i + 1].stop
        BY <4>1 DEF Reading
      <4> QED  BY <4>1, <4>2
    <3> QED  BY <3>8, <3>9, <3>10
  <2> QED  BY <2>3, <2>4, <2>5
<1>5. \A i \in 0 .. n : Good(i)
  <2> HIDE DEF Good
  <2>1. \A i \in T : i <= n => Good(i)
    OBVIOUS
  <2> HIDE DEF T
  <2>2. \A i \in Nat : i \in T
    BY <1>3, <1>4, Induction
  <2>3. \A i \in 0 .. n : i \in Nat /\ i <= n
    BY <1>0
  <2> QED  BY <2>1, <2>2, <2>3
<1> QED  BY <1>5 DEF V, B

(* The first bits of what an encoding starts with are those of the first   *)
(* elements.                                                               *)
LEMMA FrontOfPacked ==
  ASSUME NEW v \in Seq(Elements), NEW str \in Seq(Bytes), NEW n \in Nat,
         NEW pad \in Nat, ByteBits * n = CompSize(v, Len(v)) + pad,
         ValueOf(str, ByteBits)[n] = CompBits(v, Len(v)) * 2 ^ pad
  PROVE  \A i \in 0 .. Len(v) : Front(str, ByteBits, CompSize(v, i)) = CompBits(v, i)
<1>1. PICK b \in Nat \ {0} : b = ByteBits
  BY Parameters
<1>2. str \in Seq(Digits(b))
  BY <1>1 DEF Bytes
<1>3. PICK e \in Nat, C \in Nat : e = CompSize(v, Len(v)) /\ C = CompBits(v, Len(v))
  <2>1. Len(v) \in 0 .. Len(v)
    OBVIOUS
  <2> QED  BY <2>1, CompPackingKeeps
<1>4. Front(str, b, e) = C
  <2>1. b * n = e + pad
    BY <1>1, <1>3
  <2>2. Front(str, b, e) = ValueOf(str, b)[n] \div 2 ^ pad
    BY <1>2, <2>1, FrontAt
  <2>3. PICK d \in Nat \ {0} : d = 2 ^ pad
    BY PowerPositive
  <2>4. (C * d + 0) \div d = C
    <3>1. C \in Int /\ 0 \in 0 .. d - 1
      OBVIOUS
    <3> QED  BY <3>1, QuotientUnique
  <2>5. C * d + 0 = C * d
    <3>1. C * d \in Nat
      OBVIOUS
    <3> QED  BY <3>1
  <2> QED  BY <1>1, <1>3, <2>2, <2>3, <2>4, <2>5
<1> SUFFICES ASSUME NEW i \in 0 .. Len(v)
             PROVE  Front(str, ByteBits, CompSize(v, i)) = CompBits(v, i)
  OBVIOUS
<1>5. PICK p \in Nat, k \in Nat : p = CompSize(v, i) /\ e = p + k /\ C \div 2 ^ k = CompBits(v, i)
  <2>1. CompSize(v, i) \in Nat
    BY CompPackingKeeps
  <2>2. PICK k \in Nat : /\ CompSize(v, Len(v)) = CompSize(v, i) + k
                         /\ CompBits(v, Len(v)) \div 2 ^ k = CompBits(v, i)
    BY CompFront
  <2> QED  BY <1>3, <2>1, <2>2
<1>6. Front(str, b, p + k) \div 2 ^ k = Front(str, b, p)
  BY <1>2, FrontShift
<1> QED  BY <1>1, <1>4, <1>5, <1>6

(* What comp_encode writes is read back, from the bytes written whatever   *)
(* follows them, and refused without its last byte.                        *)
LEMMA CompUnpackPacked ==
  ASSUME NEW v \in Seq(Elements), NEW bytes, bytes = LastByte(CompPacking(v)[Len(v)]),
         NEW in \in Seq(Bytes)
  PROVE  /\ Len(in) < Len(bytes) /\ (\A i \in 1 .. Len(in) : in[i] = bytes[i]) =>
              comp_decode(in, Len(in), Len(v)) = Rejected
         /\ Len(in) >= Len(bytes) /\ (\A i \in 1 .. Len(bytes) : in[i] = bytes[i]) =>
              comp_decode(in, Len(in), Len(v)) = [len |-> Len(bytes), x |-> v]
<1> DEFINE n == Len(v)
           V == CompUnpacking(in, Len(in), n)
<1>0. n \in Nat /\ n \in 0 .. n /\ Len(in) \in Nat /\ in \in Seq(Digits(ByteBits)) /\ ByteBits \in Nat
  BY Parameters DEF Bytes
<1>1. PICK pad \in 0 .. ByteBits - 1 :
        /\ bytes \in Seq(Bytes)
        /\ ByteBits * Len(bytes) = CompSize(v, n) + pad
        /\ Whole(bytes, ByteBits) = CompBits(v, n) * 2 ^ pad
  BY CompPacked
<1>2. pad \in Nat /\ pad < ByteBits /\ Len(bytes) \in Nat /\ bytes \in Seq(Digits(ByteBits))
  BY <1>0, <1>1, Parameters DEF Bytes
<1>3. PICK e \in Nat, C \in Nat : e = CompSize(v, n) /\ C = CompBits(v, n)
  BY <1>0, CompPackingKeeps
<1>4. PICK L \in Nat : L = Len(bytes) /\ ByteBits * L = e + pad /\ e <= ByteBits * L
  BY <1>1, <1>2, <1>3, Parameters
<1>5. comp_decode(in, Len(in), n) =
        IF V[n].stop \/ Pending(V[n]) # 0 THEN Rejected
        ELSE [len |-> V[n].v, x |-> [j \in 1 .. n |-> Value(V[j])]]
  BY DEF comp_decode
<1> HIDE DEF V
<1>6. ASSUME Len(in) < Len(bytes), \A i \in 1 .. Len(in) : in[i] = bytes[i]
      PROVE  comp_decode(in, Len(in), n) = Rejected
  <2>1. Agrees(in, bytes)
    <3>1. \A i \in 1 .. Len(in) : i \in DOMAIN bytes
      BY <1>0, <1>2, <1>6
    <3> QED  BY <1>6, <3>1 DEF Agrees, Digit
  <2>2. \A i \in 0 .. n : Front(bytes, ByteBits, CompSize(v, i)) = CompBits(v, i)
    <3>1. ValueOf(bytes, ByteBits)[L] = CompBits(v, n) * 2 ^ pad
      BY <1>1, <1>4 DEF Whole
    <3>2. ByteBits * L = CompSize(v, n) + pad
      BY <1>3, <1>4
    <3> HIDE DEF n
    <3> QED  BY <1>1, <1>2, <3>1, <3>2, FrontOfPacked DEF n
  <2>3. Len(in) <= Len(bytes) /\ CompSize(v, n) <= ByteBits * Len(bytes)
    BY <1>0, <1>2, <1>3, <1>4, <1>6
  <2>4. \A i \in 0 .. n : V[i].stop \/ Reading(V[i], bytes, in, CompSize(v, i))
    BY <1>1, <2>1, <2>2, <2>3, CompReads DEF V
  <2>5. ~ Reading(V[n], bytes, in, CompSize(v, n))
    <3> SUFFICES ASSUME Reading(V[n], bytes, in, CompSize(v, n))
                 PROVE  FALSE
      OBVIOUS
    <3>1. PICK k \in Nat, m \in Nat : k = V[n].v /\ m = V[n].len /\ k <= Len(in) /\ m < ByteBits
                                      /\ ByteBits * k = e + m
      <4>1. V[n].v \in Nat /\ V[n].len \in Nat
        BY ReaderFields DEF Reading
      <4> QED  BY <1>3, <4>1 DEF Reading
    <3>2. k = L
      <4>1. m < ByteBits /\ pad < ByteBits /\ pad \in Nat
        BY <1>2, <3>1
      <4>2. ByteBits * k = e + m /\ ByteBits * L = e + pad
        BY <1>4, <3>1
      <4> QED  BY <4>1, <4>2, BytesUnique
    <3> QED  BY <1>0, <1>2, <1>4, <1>6, <3>1, <3>2
  <2> QED  BY <1>0, <1>5, <2>4, <2>5
<1>7. ASSUME Len(in) >= Len(bytes), \A i \in 1 .. Len(bytes) : in[i] = bytes[i]
      PROVE  comp_decode(in, Len(in), n) = [len |-> Len(bytes), x |-> v]
  <2>1. Agrees(in, in)
    <3>1. \A i \in 1 .. Len(in) : i \in DOMAIN in
      OBVIOUS
    <3> QED  BY <3>1 DEF Agrees, Digit
  <2>2. ValueOf(in, ByteBits)[L] = C * 2 ^ pad
    <3>1. \A i \in 1 .. L : Digit(in, i) = Digit(bytes, i)
      <4>1. \A i \in 1 .. L : i \in DOMAIN in /\ i \in DOMAIN bytes
        BY <1>0, <1>2, <1>4, <1>7
      <4> QED  BY <1>4, <1>7, <4>1 DEF Digit
    <3>2. L \in 0 .. L
      OBVIOUS
    <3>3. \A i \in 0 .. L : ValueOf(in, ByteBits)[i] = ValueOf(bytes, ByteBits)[i]
      BY <1>0, <1>2, <3>1, ValueSame
    <3> QED  BY <1>1, <1>3, <1>4, <3>2, <3>3 DEF Whole
  <2>3. \A i \in 0 .. n : Front(in, ByteBits, CompSize(v, i)) = CompBits(v, i)
    <3>1. ByteBits * L = CompSize(v, n) + pad /\ ValueOf(in, ByteBits)[L] = CompBits(v, n) * 2 ^ pad
      BY <1>3, <1>4, <2>2
    <3> HIDE DEF n
    <3> QED  BY <1>2, <3>1, FrontOfPacked DEF n
  <2>4. CompSize(v, n) <= ByteBits * Len(in)
    <3>1. PICK b \in Nat, i \in Nat : b = ByteBits /\ Len(in) = L + i
      <4>1. Len(in) - L \in Nat /\ Len(in) = L + (Len(in) - L)
        BY <1>0, <1>4, <1>7
      <4> QED  BY <1>0, <4>1
    <3>2. b * (L + i) = b * L + b * i /\ b * L \in Nat /\ b * i \in Nat
      OBVIOUS
    <3> QED  BY <1>3, <1>4, <3>1, <3>2
  <2>5. \A i \in 0 .. n : /\ ~ V[i].stop /\ Reading(V[i], in, in, CompSize(v, i))
                          /\ i # 0 => Value(V[i]) = v[i]
    <3>1. Len(in) <= Len(in)
      BY <1>0
    <3> QED  BY <2>1, <2>3, <2>4, <3>1, CompReads DEF V
  <2>6. PICK k \in Nat, m \in Nat : /\ k = V[n].v /\ m = V[n].len /\ m < ByteBits
                                    /\ ByteBits * k = e + m
                                    /\ V[n].acc = ValueOf(in, ByteBits)[k] % 2 ^ AccBits
    <3>1. Reading(V[n], in, in, CompSize(v, n))
      BY <1>0, <2>5
    <3>2. V[n].v \in Nat /\ V[n].len \in Nat
      BY <3>1, ReaderFields DEF Reading
    <3> QED  BY <1>3, <3>1, <3>2 DEF Reading
  <2>7. k = L /\ m = pad
    <3>1. m < ByteBits /\ pad < ByteBits /\ pad \in Nat
      BY <1>2, <2>6
    <3>2. ByteBits * k = e + m /\ ByteBits * L = e + pad
      BY <1>4, <2>6
    <3>3. k = L
      BY <3>1, <3>2, BytesUnique
    <3>4. m = pad
      BY <3>1, <3>2, BytesUnique
    <3> QED  BY <3>3, <3>4
  <2>8. Pending(V[n]) = 0
    <3>1. PICK z \in Nat, d \in Nat \ {0} : d = 2 ^ pad /\ z = C * d
      <4>1. 2 ^ pad \in Nat \ {0}
        BY <1>2, PowerPositive
      <4>2. \A y \in Nat : C * y \in Nat
        OBVIOUS
      <4> QED  BY <4>1, <4>2
    <3>2. Pending(V[n]) = (z % 2 ^ AccBits) % 2 ^ pad
      BY <2>2, <2>6, <2>7, <3>1 DEF Pending
    <3>3. (z % 2 ^ AccBits) % 2 ^ pad = z % 2 ^ pad
      <4>1. pad <= AccBits /\ AccBits \in Nat
        BY <1>2, RoomToRead, Parameters
      <4> QED  BY <1>2, <4>1, RemainderOfPower
    <3>4. (C * d + 0) % d = 0
      <4>1. C \in Int /\ 0 \in 0 .. d - 1
        OBVIOUS
      <4> QED  BY <4>1, QuotientUnique
    <3>5. C * d + 0 = z
      BY <3>1
    <3> QED  BY <3>1, <3>2, <3>3, <3>4, <3>5
  <2>9. [j \in 1 .. n |-> Value(V[j])] = v
    <3>1. \A j \in 1 .. n : Value(V[j]) = v[j]
      <4>1. \A j \in 1 .. n : j \in 0 .. n /\ j # 0
        BY <1>0
      <4> QED  BY <2>5, <4>1
    <3>2. [j \in 1 .. n |-> Value(V[j])] = [j \in 1 .. n |-> v[j]]
      BY <3>1
    <3>3. v = [j \in 1 .. n |-> v[j]]
      OBVIOUS
    <3> QED  BY <3>2, <3>3
  <2>10. ~ V[n].stop
    BY <1>0, <2>5
  <2> HIDE DEF n
  <2> QED  BY <1>4, <1>5, <2>6, <2>7, <2>8, <2>9, <2>10
<1> QED  BY <1>6, <1>7

(* What comp_decode accepts is what comp_encode writes for the result.     *)
LEMMA CompPackUnpacked ==
  ASSUME NEW in \in Seq(Bytes), NEW n \in Nat, NEW r, r = comp_decode(in, Len(in), n)
  PROVE  \/ r = Rejected
         \/ /\ r.len \in Nat /\ r.len <= Len(in)
            /\ r.x \in Seq(Elements) /\ Len(r.x) = n
            /\ LastByte(CompPacking(r.x)[Len(r.x)]) = SubSeq(in, 1, r.len)
<1> DEFINE V == CompUnpacking(in, Len(in), n)
           y == [j \in 1 .. n |-> Value(V[j])]
<1>0. /\ n \in 0 .. n /\ Len(in) \in Nat /\ in \in Seq(Digits(ByteBits)) /\ ByteBits \in Nat
      /\ ByteBits \in Nat \ {0}
  BY Parameters DEF Bytes
<1>1. Agrees(in, in)
  <2>1. \A i \in 1 .. Len(in) : i \in DOMAIN in
    OBVIOUS
  <2> QED  BY <2>1 DEF Agrees, Digit
<1>2. /\ V[0] = Start
      /\ \A i \in 1 .. n : V[i] = NextElement(V[i - 1], in, Len(in))
      /\ \A i \in 0 .. n : V[i] \in Readers
  BY <1>1, CompUnpackingSteps
<1> SUFFICES ASSUME ~ V[n].stop, Pending(V[n]) = 0
             PROVE  /\ r.len \in Nat /\ r.len <= Len(in)
                    /\ r.x \in Seq(Elements) /\ Len(r.x) = n
                    /\ LastByte(CompPacking(r.x)[Len(r.x)]) = SubSeq(in, 1, r.len)
  <2>1. CASE V[n].stop \/ Pending(V[n]) # 0
    BY <2>1 DEF comp_decode
  <2> QED  BY <2>1
<1>3. r = [len |-> V[n].v, x |-> y]
  BY DEF comp_decode
<1> HIDE DEF V
<1>4. \A i \in 1 .. n : V[i - 1].stop => V[i].stop
  BY <1>2 DEF NextElement
<1>5. \A i \in 0 .. n : ~ V[i].stop
  <2> DEFINE T == {j \in Nat : j <= n => ~ V[n - j].stop}
  <2>1. 0 \in T
    <3>1. n - 0 = n
      OBVIOUS
    <3> QED  BY <3>1
  <2>2. ASSUME NEW j \in Nat, j \in T
        PROVE  j + 1 \in T
    <3> SUFFICES ASSUME j + 1 <= n
                 PROVE  ~ V[n - (j + 1)].stop
      OBVIOUS
    <3>1. ~ V[n - j].stop /\ n - j \in 1 .. n /\ (n - j) - 1 = n - (j + 1)
      BY <2>2
    <3> QED  BY <1>4, <3>1
  <2> HIDE DEF T
  <2>3. \A j \in Nat : j \in T
    BY <2>1, <2>2, Induction
  <2> SUFFICES ASSUME NEW i \in 0 .. n
               PROVE  ~ V[i].stop
    OBVIOUS
  <2>4. n - i \in Nat /\ n - i <= n /\ n - (n - i) = i
    OBVIOUS
  <2>5. n - i \in T
    BY <2>3, <2>4
  <2> QED  BY <2>4, <2>5 DEF T
<1> DEFINE Reads(i) == \E p \in Nat : Reading(V[i], in, in, p)
<1>6. \A i \in 0 .. n : Reads(i)
  <2> DEFINE T == {i \in Nat : i <= n => Reads(i)}
  <2>1. 0 \in T
    <3>1. Reading(V[0], in, in, 0)
      BY <1>2, StartReads
    <3> QED  BY <3>1
  <2>2. ASSUME NEW i \in Nat, i \in T
        PROVE  i + 1 \in T
    <3> SUFFICES ASSUME i + 1 <= n
                 PROVE  Reads(i + 1)
      OBVIOUS
    <3>1. /\ i + 1 \in 1 .. n /\ i + 1 \in 0 .. n /\ (i + 1) - 1 = i /\ i \in 0 .. n
      OBVIOUS
    <3>2. PICK p \in Nat : Reading(V[i], in, in, p)
      BY <2>2, <3>1
    <3>3. V[i + 1] = NextElement(V[i], in, Len(in)) /\ V[i] \in Readers /\ ~ V[i + 1].stop
      BY <1>2, <1>5, <3>1
    <3>4. PICK a \in Elements : Reading(V[i + 1], in, in, p + ElementSize(a))
      BY <1>1, <3>2, <3>3, NextElementKeeps
    <3>5. p + ElementSize(a) \in Nat
      BY ElementNumbers
    <3> QED  BY <3>4, <3>5
  <2> HIDE DEF T, Reads
  <2>3. \A i \in Nat : i \in T
    BY <2>1, <2>2, Induction
  <2>4. \A i \in 0 .. n : i \in Nat /\ i <= n
    OBVIOUS
  <2> QED  BY <2>3, <2>4 DEF T
<1> HIDE DEF Reads
<1>7. ASSUME NEW i \in 1 .. n, NEW p \in Nat, Reading(V[i - 1], in, in, p)
      PROVE  /\ Value(V[i]) \in Elements /\ Holds(in, in, p, Value(V[i]))
             /\ Reading(V[i], in, in, p + ElementSize(Value(V[i])))
  <2>1. V[i] = NextElement(V[i - 1], in, Len(in)) /\ V[i - 1] \in Readers /\ ~ V[i].stop
    <3>1. i - 1 \in 0 .. n /\ i \in 0 .. n
      OBVIOUS
    <3> QED  BY <1>2, <1>5, <3>1
  <2>2. \E a \in Elements : /\ Holds(in, in, p, a)
                            /\ Value(V[i]) = a /\ Reading(V[i], in, in, p + ElementSize(a))
    BY <1>1, <1>7, <2>1, NextElementKeeps
  <2> QED  BY <2>2
<1>8. y \in Seq(Elements) /\ Len(y) = n /\ \A i \in 1 .. n : y[i] = Value(V[i])
  <2>1. \A i \in 1 .. n : Value(V[i]) \in Elements
    <3> SUFFICES ASSUME NEW i \in 1 .. n
                 PROVE  Value(V[i]) \in Elements
      OBVIOUS
    <3>1. i - 1 \in 0 .. n
      OBVIOUS
    <3>2. PICK p \in Nat : Reading(V[i - 1], in, in, p)
      BY <1>6, <3>1 DEF Reads
    <3> QED  BY <1>7, <3>2
  <2> QED  BY <2>1
<1> HIDE DEF y
<1> DEFINE Good(i) == /\ Reading(V[i], in, in, CompSize(y, i))
                      /\ Front(in, ByteBits, CompSize(y, i)) = CompBits(y, i)
<1>9. Good(n)
  <2> DEFINE T == {i \in Nat : i <= n => Good(i)}
  <2>1. 0 \in T
    <3>1. CompSize(y, 0) = 0 /\ CompBits(y, 0) = 0
      BY <1>8, CompPackingKeeps
    <3> QED  BY <1>2, <3>1, StartReads
  <2>2. ASSUME NEW i \in Nat, i \in T
        PROVE  i + 1 \in T
    <3> SUFFICES ASSUME i + 1 <= n
                 PROVE  Good(i + 1)
      OBVIOUS
    <3>1. i + 1 \in 1 .. n /\ (i + 1) - 1 = i /\ i \in 0 .. n - 1 /\ i \in 0 .. n
      OBVIOUS
    <3>2. Reading(V[i], in, in, CompSize(y, i)) /\ Front(in, ByteBits, CompSize(y, i)) = CompBits(y, i)
      BY <2>2, <3>1
    <3>3. /\ CompSize(y, i) \in Nat /\ CompSize(y, i + 1) = CompSize(y, i) + ElementSize(y[i + 1])
          /\ CompBits(y, i + 1) = CompBits(y, i) * 2 ^ ElementSize(y[i + 1]) + ElementBits(y[i + 1])
      BY <1>8, <3>1, CompPackingKeeps
    <3>4. /\ Holds(in, in, CompSize(y, i), y[i + 1])
          /\ Reading(V[i + 1], in, in, CompSize(y, i) + ElementSize(y[i + 1]))
      BY <1>7, <1>8, <3>1, <3>2, <3>3
    <3>5. Front(in, ByteBits, CompSize(y, i + 1)) = CompBits(y, i + 1)
      BY <3>2, <3>3, <3>4 DEF Holds, Follows
    <3> QED  BY <3>3, <3>4, <3>5
  <2> HIDE DEF Good
  <2>3. \A i \in T : i <= n => Good(i)
    OBVIOUS
  <2> HIDE DEF T
  <2>4. \A i \in Nat : i \in T
    BY <2>1, <2>2, Induction
  <2> QED  BY <1>0, <2>3, <2>4
<1> HIDE DEF Good
<1> DEFINE bytes == LastByte(CompPacking(y)[Len(y)])
<1>10. PICK pad \in 0 .. ByteBits - 1 :
         /\ bytes \in Seq(Bytes)
         /\ ByteBits * Len(bytes) = CompSize(y, n) + pad
         /\ Whole(bytes, ByteBits) = CompBits(y, n) * 2 ^ pad
  BY <1>8, CompPacked
<1> HIDE DEF bytes
<1>11. PICK e \in Nat, C \in Nat : e = CompSize(y, n) /\ C = CompBits(y, n)
  BY <1>0, <1>8, CompPackingKeeps
<1>12. PICK k \in Nat, m \in Nat :
         /\ k = V[n].v /\ m = V[n].len /\ k <= Len(in) /\ m < ByteBits /\ ByteBits * k = e + m
         /\ V[n].acc = ValueOf(in, ByteBits)[k] % 2 ^ AccBits
  <2>1. Reading(V[n], in, in, CompSize(y, n))
    BY <1>9 DEF Good
  <2>2. V[n].v \in Nat /\ V[n].len \in Nat
    BY <2>1, ReaderFields DEF Reading
  <2> QED  BY <1>11, <2>1, <2>2 DEF Reading
<1>13. PICK K \in Nat : K = Len(bytes) /\ K = k /\ pad = m
  <2>1. Len(bytes) \in Nat /\ pad \in Nat /\ pad < ByteBits /\ m < ByteBits
    BY <1>0, <1>10, <1>12
  <2>2. ByteBits * Len(bytes) = e + pad /\ ByteBits * k = e + m
    BY <1>10, <1>11, <1>12
  <2>3. Len(bytes) = k
    BY <2>1, <2>2, BytesUnique
  <2>4. pad = m
    BY <2>1, <2>2, BytesUnique
  <2> QED  BY <2>1, <2>3, <2>4
<1>14. PICK z \in Nat : z = ValueOf(in, ByteBits)[k]
  <2>1. ValueOf(in, ByteBits) \in [Nat -> Nat]
    BY <1>0, ValueStep
  <2> QED  BY <2>1
<1>15. z = C * 2 ^ m
  <2>1. PICK d \in Nat \ {0} : d = 2 ^ m
    BY PowerPositive
  <2>2. z % d = 0
    <3>1. (z % 2 ^ AccBits) % 2 ^ m = 0
      BY <1>12, <1>14 DEF Pending
    <3>2. m <= AccBits /\ AccBits \in Nat
      BY <1>12, RoomToRead, Parameters
    <3>3. (z % 2 ^ AccBits) % 2 ^ m = z % 2 ^ m
      BY <3>2, RemainderOfPower
    <3> QED  BY <2>1, <3>1, <3>3
  <2>3. z \div d = C
    <3>1. PICK b \in Nat \ {0} : b = ByteBits
      BY Parameters
    <3>2. in \in Seq(Digits(b)) /\ b * k = e + m
      BY <1>0, <1>12, <3>1
    <3>3. Front(in, b, e) = ValueOf(in, b)[k] \div 2 ^ m
      BY <3>2, FrontAt
    <3> QED  BY <1>9, <1>11, <1>14, <2>1, <3>1, <3>3 DEF Good
  <2>4. z = (z \div d) * d + (z % d)
    BY QuotientRemainder
  <2>5. z = C * d + 0
    BY <2>2, <2>3, <2>4
  <2>6. C * d + 0 = C * d
    <3>1. C * d \in Nat
      OBVIOUS
    <3> QED  BY <3>1
  <2>7. z = C * d
    BY <2>5, <2>6
  <2> QED  BY <2>1, <2>7
<1> DEFINE front == SubSeq(in, 1, k)
<1>16. front \in Seq(Bytes) /\ Len(front) = k /\ \A i \in 1 .. k : front[i] = in[i]
  BY <1>12
<1>17. Whole(front, ByteBits) = z
  <2> HIDE DEF front
  <2>1. \A i \in 1 .. k : Digit(front, i) = Digit(in, i)
    <3>1. \A i \in 1 .. k : i \in DOMAIN in /\ i \in DOMAIN front
      BY <1>0, <1>12, <1>16
    <3> QED  BY <1>16, <3>1 DEF Digit
  <2>2. k \in 0 .. k
    OBVIOUS
  <2>3. \A i \in 0 .. k : ValueOf(front, ByteBits)[i] = ValueOf(in, ByteBits)[i]
    BY <1>0, <1>16, <2>1, ValueSame DEF Bytes
  <2> QED  BY <1>14, <1>16, <2>2, <2>3 DEF Whole
<1>18. bytes = front
  <2> HIDE DEF front
  <2>1. Whole(bytes, ByteBits) = Whole(front, ByteBits)
    BY <1>10, <1>11, <1>13, <1>15, <1>17
  <2>2. /\ bytes \in Seq(Digits(ByteBits)) /\ front \in Seq(Digits(ByteBits))
        /\ Len(bytes) = Len(front)
    BY <1>10, <1>13, <1>16 DEF Bytes
  <2> QED  BY <1>0, <2>1, <2>2, WholeUnique
<1> HIDE DEF front
<1>19. r.len = k /\ r.x = y
  BY <1>3, <1>12
<1> QED  BY <1>8, <1>12, <1>18, <1>19 DEF bytes, front

-----------------------------------------------------------------------------
(* The calls, for each encoding.                                           *)

(* The fixed-width encodings as one: the width of the words they make of   *)
(* the elements, the elements they take, and these words.                  *)
Width(c) ==
  CASE c[1] = "modq"                 -> QBits
    [] c[1] \in {"i8", "i16"}        -> c[2]
    [] c[1] \in {"ep_modq", "ep_comp"} -> 2 * ByteBits

Allowed(c) ==
  CASE c[1] = "comp"                -> Elements
    [] c[1] \in {"modq", "ep_modq"} -> 0 .. q - 1
    [] c[1] \in {"i8", "i16"}       -> -(2 ^ (c[2] - 1) - 1) .. 2 ^ (c[2] - 1) - 1
    [] c[1] = "ep_comp"             -> -q + 1 .. q - 1

Word(c, a) ==
  CASE c[1] \in {"modq", "ep_modq"} -> a
    [] c[1] \in {"i8", "i16"}       -> a % 2 ^ c[2]
    [] c[1] = "ep_comp"             -> IF a < 0 THEN a + q ELSE a

Words(c, v) == [j \in 1 .. Len(v) |-> Word(c, v[j])]

(* The bytes of v.                                                         *)
Written(c, v) ==
  IF c[1] = "comp" THEN LastByte(CompPacking(v)[Len(v)])
  ELSE LastByte(Packing(Words(c, v), Width(c))[Len(v)])

(* Kinds of encodings.                                                     *)
LEMMA Kinds ==
  ASSUME NEW c \in Codings
  PROVE  \/ c[1] = "modq" \/ c[1] = "comp" \/ c[1] = "ep_modq" \/ c[1] = "ep_comp"
         \/ c[1] \in {"i8", "i16"} /\ c[2] \in Widths
<1>1. I8Bits \subseteq Widths /\ I16Bits \subseteq Widths
  BY InputAssumption
<1> QED  BY <1>1 DEF Codings

(* Signed values fit their width, and TwosComplement gives them back.      *)
LEMMA SignedWord ==
  ASSUME NEW bits \in Nat \ {0}
  PROVE  /\ 2 ^ (bits - 1) \in Nat \ {0} /\ 2 ^ bits = 2 * 2 ^ (bits - 1)
         /\ \A a \in -(2 ^ (bits - 1) - 1) .. 2 ^ (bits - 1) - 1 :
              a % 2 ^ bits \in Digits(bits) /\ TwosComplement(a % 2 ^ bits, bits) = a
         /\ \A w \in Digits(bits) : TwosComplement(w, bits) % 2 ^ bits = w
<1>1. PICK n \in Nat : bits = n + 1 /\ bits - 1 = n
  <2>1. bits - 1 \in Nat /\ bits = (bits - 1) + 1
    OBVIOUS
  <2> QED  BY <2>1
<1>2. PICK h \in Nat \ {0} : h = 2 ^ (bits - 1) /\ 2 ^ bits = 2 * h
  <2>1. 2 ^ n \in Nat \ {0} /\ 2 ^ (n + 1) = 2 * 2 ^ n
    BY PowerOfTwo, PowerPositive
  <2> QED  BY <1>1, <2>1
<1>3. ASSUME NEW a \in -(h - 1) .. h - 1
      PROVE  /\ a % (2 * h) \in 0 .. 2 * h - 1
             /\ (IF a % (2 * h) >= h THEN (a % (2 * h)) - 2 * h ELSE a % (2 * h)) = a
  <2>1. CASE a >= 0
    <3>1. a \in 0 .. 2 * h - 1 /\ 0 \in Int /\ 2 * h \in Nat \ {0}
      BY <2>1
    <3>2. (0 * (2 * h) + a) % (2 * h) = a
      BY <3>1, QuotientUnique
    <3>3. 0 * (2 * h) + a = a
      OBVIOUS
    <3> QED  BY <2>1, <3>1, <3>2, <3>3
  <2>2. CASE a < 0
    <3>1. PICK d \in 0 .. 2 * h - 1 : d = a + 2 * h /\ d >= h
      <4>1. a + 2 * h \in 0 .. 2 * h - 1 /\ a + 2 * h >= h
        BY <2>2
      <4> QED  BY <4>1
    <3>2. -1 \in Int /\ 2 * h \in Nat \ {0}
      OBVIOUS
    <3>3. (-1 * (2 * h) + d) % (2 * h) = d
      BY <3>2, QuotientUnique
    <3>4. -1 * (2 * h) + d = a
      BY <3>1
    <3> QED  BY <3>1, <3>3, <3>4
  <2> QED  BY <2>1, <2>2
<1>4. ASSUME NEW w \in 0 .. 2 * h - 1
      PROVE  (IF w >= h THEN w - 2 * h ELSE w) % (2 * h) = w
  <2>1. /\ 0 \in Int /\ -1 \in Int /\ 2 * h \in Nat \ {0}
        /\ 0 * (2 * h) + w = w /\ -1 * (2 * h) + w = w - 2 * h
    OBVIOUS
  <2>2. (0 * (2 * h) + w) % (2 * h) = w
    BY <2>1, QuotientUnique
  <2>3. (-1 * (2 * h) + w) % (2 * h) = w
    BY <2>1, QuotientUnique
  <2> QED  BY <2>1, <2>2, <2>3
<1> QED  BY <1>2, <1>3, <1>4 DEF TwosComplement, Digits

(* The elements a fixed-width encoder takes make words of its width.       *)
LEMMA WordsFit ==
  ASSUME NEW c \in Codings, c[1] # "comp"
  PROVE  /\ Width(c) \in Widths /\ Width(c) \in Nat \ {0}
         /\ \A a \in Allowed(c) : a \in Int /\ Word(c, a) \in Digits(Width(c))
<1>1. /\ QBits \in Widths /\ 2 * ByteBits \in Widths /\ q \in Nat
      /\ q <= 2 ^ QBits /\ q <= 2 ^ (2 * ByteBits - 1)
  BY AccumulatorAssumption
<1>2. \A b \in Widths : b \in Nat \ {0}
  BY DEF Widths
<1>3. CASE c[1] = "modq"
  <2>1. Width(c) = QBits /\ Allowed(c) = 0 .. q - 1 /\ \A a : Word(c, a) = a
    BY <1>3 DEF Width, Allowed, Word
  <2>2. PICK m \in Nat : m = 2 ^ QBits
    BY <1>1, <1>2, PowerPositive
  <2> QED  BY <1>1, <1>2, <2>1, <2>2 DEF Digits
<1>4. CASE c[1] \in {"ep_modq", "ep_comp"}
  <2>1. Width(c) = 2 * ByteBits
    BY <1>4 DEF Width
  <2>2. PICK m \in Nat : m = 2 ^ (2 * ByteBits) /\ q <= m
    <3>1. 2 * ByteBits \in Nat \ {0}
      BY <1>1, <1>2
    <3>2. 2 ^ (2 * ByteBits - 1) \in Nat \ {0} /\ 2 ^ (2 * ByteBits) = 2 * 2 ^ (2 * ByteBits - 1)
      BY <3>1, SignedWord
    <3> QED  BY <1>1, <3>2
  <2>3. CASE c[1] = "ep_modq"
    <3>1. Allowed(c) = 0 .. q - 1 /\ \A a : Word(c, a) = a
      BY <2>3 DEF Allowed, Word
    <3> QED  BY <1>1, <1>2, <2>1, <2>2, <3>1 DEF Digits
  <2>4. CASE c[1] = "ep_comp"
    <3>1. Allowed(c) = -q + 1 .. q - 1 /\ \A a : Word(c, a) = IF a < 0 THEN a + q ELSE a
      BY <2>4 DEF Allowed, Word
    <3> QED  BY <1>1, <1>2, <2>1, <2>2, <3>1 DEF Digits
  <2> QED  BY <1>4, <2>3, <2>4
<1>5. CASE c[1] \in {"i8", "i16"} /\ c[2] \in Widths
  <2>1. PICK b \in Nat \ {0} : b = c[2]
    BY <1>2, <1>5
  <2>2. /\ Width(c) = b /\ Allowed(c) = -(2 ^ (b - 1) - 1) .. 2 ^ (b - 1) - 1
        /\ \A a : Word(c, a) = a % 2 ^ b
    BY <1>5, <2>1 DEF Width, Allowed, Word
  <2>3. /\ 2 ^ (b - 1) \in Nat \ {0}
        /\ \A a \in -(2 ^ (b - 1) - 1) .. 2 ^ (b - 1) - 1 : a % 2 ^ b \in Digits(b)
    BY SignedWord
  <2>4. \A a \in -(2 ^ (b - 1) - 1) .. 2 ^ (b - 1) - 1 : a \in Int
    BY <2>3
  <2> QED  BY <1>5, <2>1, <2>2, <2>3, <2>4
<1> QED  BY <1>3, <1>4, <1>5, Kinds

(* Elements in range have words of their width, one each.                  *)
LEMMA WordsType ==
  ASSUME NEW c \in Codings, c[1] # "comp", NEW v \in Seq(Int), AllIn(v, Allowed(c))
  PROVE  /\ Words(c, v) \in Seq(Digits(Width(c)))
         /\ Len(Words(c, v)) = Len(v)
<1>1. \A j \in 1 .. Len(v) : Word(c, v[j]) \in Digits(Width(c))
  BY WordsFit DEF AllIn
<1>2. Len(v) \in Nat
  OBVIOUS
<1> HIDE DEF Word
<1> QED  BY <1>1, <1>2 DEF Words

(* A fixed-width encoder writes all bytes of the words, if there is room.  *)
LEMMA FixedWidthMeans ==
  ASSUME NEW bits \in Widths, NEW words \in Seq(Digits(bits)), NEW size \in Nat \cup {Null},
         NEW bytes, bytes = LastByte(Packing(words, bits)[Len(words)])
  PROVE  FixedWidth(words, size, bits) = IfRoom(bytes, size) /\ bytes \in Seq(Bytes)
<1>1. bytes \in Seq(Bytes) /\ Len(bytes) = FixedLength(Len(words), bits)
  BY PackedWords
<1>2. Len(bytes) \in Nat /\ Null \notin Nat
  BY <1>1, AccumulatorAssumption
<1>3. FixedWidth(words, size, bits) =
        IF size = Null THEN [len |-> Len(bytes), bytes |-> <<>>]
        ELSE IF Len(bytes) > size THEN Failure ELSE [len |-> Len(bytes), bytes |-> bytes]
  BY <1>1 DEF FixedWidth
<1>4. IfRoom(bytes, size) =
        IF size = Null THEN [len |-> Len(bytes), bytes |-> <<>>]
        ELSE IF Len(bytes) > size THEN Failure ELSE [len |-> Len(bytes), bytes |-> bytes]
  BY DEF IfRoom
<1> QED  BY <1>1, <1>3, <1>4

(* What every encoder does: it fails on a vector with an element it does   *)
(* not take, and otherwise writes the bytes of the vector if there is room.*)
LEMMA EncodeMeans ==
  ASSUME NEW c \in Codings, NEW v \in Seq(Int), NEW size \in Nat \cup {Null}
  PROVE  /\ Encode(c, v, size) = IF AllIn(v, Allowed(c)) THEN IfRoom(Written(c, v), size) ELSE Failure
         /\ AllIn(v, Allowed(c)) => Written(c, v) \in Seq(Bytes)
<1>1. CASE c[1] = "comp"
  <2>1. Allowed(c) = Elements /\ Written(c, v) = LastByte(CompPacking(v)[Len(v)])
    BY <1>1 DEF Allowed, Written
  <2>2. Encode(c, v, size) = comp_encode(v, size)
    BY <1>1 DEF Encode
  <2>3. AllIn(v, Elements) => v \in Seq(Elements)
    BY DEF AllIn
  <2>4. v \in Seq(Elements) => LastByte(CompPacking(v)[Len(v)]) \in Seq(Bytes)
    BY CompPacked
  <2> QED  BY <2>1, <2>2, <2>3, <2>4 DEF comp_encode, Elements
<1>2. CASE c[1] # "comp"
  <2> DEFINE w == Words(c, v)
  <2>1. Width(c) \in Widths
    BY <1>2, WordsFit
  <2>2. Written(c, v) = LastByte(Packing(w, Width(c))[Len(v)])
    BY <1>2 DEF Written
  <2>3. ASSUME AllIn(v, Allowed(c))
        PROVE  FixedWidth(w, size, Width(c)) = IfRoom(Written(c, v), size) /\ Written(c, v) \in Seq(Bytes)
    <3>1. w \in Seq(Digits(Width(c))) /\ Len(w) = Len(v)
      BY <1>2, <2>3, WordsType
    <3> HIDE DEF w
    <3> QED  BY <2>1, <2>2, <3>1, FixedWidthMeans
  <2>4. Encode(c, v, size) = IF AllIn(v, Allowed(c)) THEN FixedWidth(w, size, Width(c)) ELSE Failure
    <3>1. DOMAIN v = 1 .. Len(v) /\ v = [j \in 1 .. Len(v) |-> v[j]]
      OBVIOUS
    <3>2. CASE c[1] \in {"modq", "ep_modq"}
      <4>1. w = v
        BY <3>1, <3>2 DEF Words, Word
      <4>2. CASE c[1] = "modq"
        <5>1. Encode(c, v, size) = modq_encode(v, size) /\ Allowed(c) = 0 .. q - 1 /\ Width(c) = QBits
          BY <4>2 DEF Encode, Allowed, Width
        <5> QED  BY <4>1, <5>1 DEF modq_encode
      <4>3. CASE c[1] = "ep_modq"
        <5>1. /\ Encode(c, v, size) = ep_modq_encode16(v, size)
              /\ Allowed(c) = 0 .. q - 1 /\ Width(c) = 2 * ByteBits
          BY <4>3 DEF Encode, Allowed, Width
        <5> QED  BY <4>1, <5>1 DEF ep_modq_encode16
      <4> QED  BY <3>2, <4>2, <4>3
    <3>3. CASE c[1] = "ep_comp"
      <4>1. w = [j \in DOMAIN v |-> IF v[j] < 0 THEN v[j] + q ELSE v[j]]
        BY <3>1, <3>3 DEF Words, Word
      <4>2. /\ Encode(c, v, size) = ep_comp_encode16(v, size)
            /\ Allowed(c) = -q + 1 .. q - 1 /\ Width(c) = 2 * ByteBits
        BY <3>3 DEF Encode, Allowed, Width
      <4> QED  BY <4>1, <4>2 DEF ep_comp_encode16
    <3>4. CASE c[1] \in {"i8", "i16"}
      <4>1. w = [j \in DOMAIN v |-> v[j] % 2 ^ c[2]]
        BY <3>1, <3>4 DEF Words, Word
      <4>2. /\ Encode(c, v, size) = trim_i16_encode(v, size, c[2])
            /\ Allowed(c) = -(2 ^ (c[2] - 1) - 1) .. 2 ^ (c[2] - 1) - 1 /\ Width(c) = c[2]
        BY <3>4 DEF Encode, Allowed, Width, trim_i8_encode
      <4> QED  BY <4>1, <4>2 DEF trim_i16_encode
    <3> QED  BY <1>2, <3>2, <3>3, <3>4, Kinds
  <2> HIDE DEF w
  <2> QED  BY <2>3, <2>4
<1> QED  BY <1>1, <1>2

(* A result of an encoder, by what became of it.                           *)
LEMMA EncodeResult ==
  ASSUME NEW c \in Codings, NEW v \in Seq(Int), NEW size \in Nat \cup {Null}, NEW e,
         e = Encode(c, v, size)
  PROVE  /\ e.len \in Nat /\ e.bytes \in Seq(Bytes)
         /\ e.len > 0 =>
              /\ AllIn(v, Allowed(c)) /\ Written(c, v) \in Seq(Bytes)
              /\ e.len = Len(Written(c, v))
              /\ size # Null => e.bytes = Written(c, v) /\ e.len <= size
         /\ size # Null => Len(e.bytes) <= size
         /\ v = <<>> => e = Failure
<1> DEFINE w == Written(c, v)
<1>1. /\ e = IF AllIn(v, Allowed(c)) THEN IfRoom(w, size) ELSE Failure
      /\ AllIn(v, Allowed(c)) => w \in Seq(Bytes)
  BY EncodeMeans
<1>2. Null \notin Nat
  BY AccumulatorAssumption
<1>3. v = <<>> => w = <<>>
  <2>1. Fresh.len = 0 /\ Fresh.out = <<>>
    BY DEF Fresh
  <2>2. LastByte(Fresh) = <<>>
    BY <2>1 DEF LastByte
  <2>3. CASE c[1] = "comp"
    <3>1. <<>> \in Seq(Elements) /\ Len(<<>>) = 0
      OBVIOUS
    <3>2. CompPacking(<<>>)[0] = Fresh
      BY <3>1, CompPackingSteps
    <3> QED  BY <2>2, <2>3, <3>1, <3>2 DEF Written
  <2>4. CASE c[1] # "comp"
    <3> SUFFICES ASSUME v = <<>>
                 PROVE  w = <<>>
      OBVIOUS
    <3>1. Len(v) = 0 /\ AllIn(v, Allowed(c))
      BY DEF AllIn
    <3>2. Words(c, v) \in Seq(Nat) /\ Width(c) \in Nat
      <4>1. Width(c) \in Nat
        BY <2>4, WordsFit
      <4>2. 1 .. Len(v) = {}
        BY <3>1
      <4>3. Words(c, v) \in [1 .. Len(v) -> Nat] /\ Len(v) \in Nat
        BY <4>2 DEF Words
      <4> QED  BY <4>1, <4>3
    <3>3. Packing(Words(c, v), Width(c))[0] = Fresh
      BY <3>2, PackingSteps
    <3> QED  BY <2>2, <2>4, <3>1, <3>3 DEF Written
  <2> QED  BY <2>3, <2>4
<1> HIDE DEF w
<1>4. CASE ~ AllIn(v, Allowed(c))
  <2>1. e = [len |-> 0, bytes |-> <<>>]
    BY <1>1, <1>4 DEF Failure
  <2> QED  BY <1>2, <2>1 DEF Failure
<1>5. CASE AllIn(v, Allowed(c))
  <2>1. w \in Seq(Bytes) /\ Len(w) \in Nat /\ e = IfRoom(w, size)
    BY <1>1, <1>5
  <2>2. CASE size = Null
    <3>1. e = [len |-> Len(w), bytes |-> <<>>]
      BY <2>1, <2>2 DEF IfRoom
    <3>2. <<>> \in Seq(Bytes) /\ Len(<<>>) = 0
      OBVIOUS
    <3>3. e.len = Len(w) /\ e.bytes = <<>>
      BY <3>1
    <3>4. v = <<>> => e = Failure
      BY <1>3, <3>1, <3>2 DEF Failure
    <3> QED  BY <1>5, <2>1, <2>2, <3>2, <3>3, <3>4 DEF w
  <2>3. CASE size # Null /\ Len(w) > size
    <3>1. e = [len |-> 0, bytes |-> <<>>] /\ size \in Nat
      BY <2>1, <2>3 DEF IfRoom, Failure
    <3> QED  BY <3>1 DEF Failure
  <2>4. CASE size # Null /\ ~ (Len(w) > size)
    <3>1. e = [len |-> Len(w), bytes |-> w] /\ size \in Nat
      BY <2>1, <2>4 DEF IfRoom
    <3> QED  BY <1>3, <1>5, <2>1, <2>4, <3>1 DEF w, Failure
  <2> QED  BY <2>2, <2>3, <2>4
<1> QED  BY <1>4, <1>5

(* The fixed-width decoders as one: the words they accept, and the         *)
(* elements they make of them.                                             *)
TwoByteWord(w) == TwosComplement(w, 2 * ByteBits)

Readable(c, w) ==
  CASE c[1] = "modq"                 -> w \in 0 .. q - 1
    [] c[1] \in {"i8", "i16"}        ->
         TwosComplement(w, c[2]) \in -(2 ^ (c[2] - 1)) + 1 .. 2 ^ (c[2] - 1) - 1
    [] c[1] \in {"ep_modq", "ep_comp"} -> TwoByteWord(w) \in -(2 ^ (2 * ByteBits)) .. q - 1

FromWord(c, w) ==
  CASE c[1] = "modq"          -> w
    [] c[1] \in {"i8", "i16"} -> TwosComplement(w, c[2])
    [] c[1] = "ep_modq"       -> Centred16(TwoByteWord(w)) % 2 ^ (2 * ByteBits)
    [] c[1] = "ep_comp"       -> Centred16(TwoByteWord(w))

(* What the reader gets of the element a: it is itself but in the two-byte *)
(* format of keys, which is centred when it is read.                       *)
ReadAs(c, a) == IF c[1] = "ep_modq" THEN Centred16(a) % 2 ^ (2 * ByteBits) ELSE a

(* The elements the reader gets back: all, but in the two-byte format of   *)
(* signatures.                                                             *)
Returns(c, a) == a \in Allowed(c) /\ (c[1] = "ep_comp" => a \in MaxAbs - q .. MaxAbs - 1)

(* Two bytes hold a number modulo q as a positive one.                     *)
LEMMA TwoByteWords ==
  /\ 2 * ByteBits \in Nat \ {0} /\ q \in Nat /\ MaxAbs \in Nat
  /\ \A w \in 0 .. q - 1 :
       TwoByteWord(w) = w /\ w \in -(2 ^ (2 * ByteBits)) .. q - 1
  /\ \A w \in Digits(2 * ByteBits) : TwoByteWord(w) \in Int
<1>1. /\ 2 * ByteBits \in Nat \ {0} /\ q \in Nat /\ MaxAbs \in Nat
      /\ q <= 2 ^ (2 * ByteBits - 1)
  BY AccumulatorAssumption
<1>2. PICK b \in Nat \ {0} : b = 2 * ByteBits
  BY <1>1
<1>3. PICK h \in Nat \ {0} : h = 2 ^ (b - 1) /\ 2 ^ b = 2 * h /\ q <= h
  BY <1>1, <1>2, SignedWord
<1> QED  BY <1>1, <1>2, <1>3 DEF TwoByteWord, TwosComplement, Digits

(* An element that was written is read as it has to be.                    *)
LEMMA WordsReturn ==
  ASSUME NEW c \in Codings, c[1] # "comp", NEW a, Returns(c, a)
  PROVE  Readable(c, Word(c, a)) /\ FromWord(c, Word(c, a)) = ReadAs(c, a)
<1>0. a \in Allowed(c)
  BY DEF Returns
<1>1. CASE c[1] = "modq"
  BY <1>0, <1>1 DEF Allowed, Word, Readable, FromWord, ReadAs
<1>2. CASE c[1] = "ep_modq"
  <2>1. a \in 0 .. q - 1 /\ Word(c, a) = a
    BY <1>0, <1>2 DEF Allowed, Word
  <2>2. TwoByteWord(a) = a /\ a \in -(2 ^ (2 * ByteBits)) .. q - 1
    BY <2>1, TwoByteWords
  <2> QED  BY <1>2, <2>1, <2>2 DEF Readable, FromWord, ReadAs
<1>3. CASE c[1] = "ep_comp"
  <2>1. a \in MaxAbs - q .. MaxAbs - 1 /\ a \in -q + 1 .. q - 1 /\ Word(c, a) = IF a < 0 THEN a + q ELSE a
    BY <1>0, <1>3 DEF Allowed, Word, Returns
  <2>2. PICK w \in 0 .. q - 1 : w = Word(c, a)
    BY <2>1, TwoByteWords
  <2>3. TwoByteWord(w) = w /\ w \in -(2 ^ (2 * ByteBits)) .. q - 1
    BY TwoByteWords
  <2>4. Centred16(w) = a
    BY <2>1, <2>2, TwoByteWords DEF Centred16
  <2> QED  BY <1>3, <2>2, <2>3, <2>4 DEF Readable, FromWord, ReadAs
<1>4. CASE c[1] \in {"i8", "i16"} /\ c[2] \in Widths
  <2>1. PICK b \in Nat \ {0} : b = c[2]
    BY <1>4 DEF Widths
  <2>2. a \in -(2 ^ (b - 1) - 1) .. 2 ^ (b - 1) - 1 /\ Word(c, a) = a % 2 ^ b
    BY <1>0, <1>4, <2>1 DEF Allowed, Word
  <2>3. TwosComplement(a % 2 ^ b, b) = a
    BY <2>2, SignedWord
  <2>4. PICK h \in Nat \ {0} : h = 2 ^ (b - 1)
    BY SignedWord
  <2>5. a \in -h + 1 .. h - 1
    BY <2>2, <2>4
  <2>6. Readable(c, Word(c, a)) <=> TwosComplement(Word(c, a), b) \in -h + 1 .. h - 1
    BY <1>4, <2>1, <2>4 DEF Readable
  <2>7. FromWord(c, Word(c, a)) = TwosComplement(Word(c, a), b) /\ ReadAs(c, a) = a
    BY <1>4, <2>1 DEF FromWord, ReadAs
  <2> QED  BY <2>2, <2>3, <2>5, <2>6, <2>7
<1> QED  BY <1>1, <1>2, <1>3, <1>4, Kinds

(* A word that is accepted is written for the element it stands for.       *)
LEMMA WordsOnce ==
  ASSUME NEW c \in Codings, c[1] \in {"modq", "i8", "i16"}, NEW w \in Digits(Width(c)),
         Readable(c, w)
  PROVE  FromWord(c, w) \in Allowed(c) /\ Word(c, FromWord(c, w)) = w
<1>1. CASE c[1] = "modq"
  BY <1>1 DEF Allowed, Word, Readable, FromWord
<1>2. CASE c[1] \in {"i8", "i16"} /\ c[2] \in Widths
  <2>1. PICK b \in Nat \ {0} : b = c[2]
    BY <1>2 DEF Widths
  <2>2. PICK h \in Nat \ {0} : h = 2 ^ (b - 1)
    BY SignedWord
  <2>3. w \in Digits(b)
    BY <1>2, <2>1 DEF Width
  <2>4. TwosComplement(w, b) % 2 ^ b = w
    BY <2>3, SignedWord
  <2>5. FromWord(c, w) = TwosComplement(w, b) /\ \A a : Word(c, a) = a % 2 ^ b
    BY <1>2, <2>1 DEF FromWord, Word
  <2>6. TwosComplement(w, b) \in -h + 1 .. h - 1
    BY <1>2, <2>1, <2>2 DEF Readable
  <2>7. Allowed(c) = -(h - 1) .. h - 1
    BY <1>2, <2>1, <2>2 DEF Allowed
  <2>8. \A i \in -h + 1 .. h - 1 : i \in -(h - 1) .. h - 1
    OBVIOUS
  <2> QED  BY <2>4, <2>5, <2>6, <2>7, <2>8
<1> QED  BY <1>1, <1>2, Kinds

(* What every fixed-width decoder does.                                    *)
LEMMA DecodeMeans ==
  ASSUME NEW c \in Codings, c[1] # "comp", NEW in \in Seq(Bytes), NEW n \in Nat,
         NEW r, r = Unpack(in, Len(in), n, Width(c))
  PROVE  Decode(c, in, Len(in), n) =
           IF \A j \in 1 .. Len(r.x) : Readable(c, r.x[j])
           THEN [len |-> r.len, x |-> [j \in 1 .. Len(r.x) |-> FromWord(c, r.x[j])]]
           ELSE Rejected
<1>1. Width(c) \in Widths
  BY WordsFit
<1>2. r = Rejected \/ r.x \in Seq(Digits(Width(c)))
  BY <1>1, PackUnpacked
<1>3. DOMAIN r.x = 1 .. Len(r.x) /\ Len(r.x) \in Nat /\ r.x = [j \in 1 .. Len(r.x) |-> r.x[j]]
  <2>1. CASE r = Rejected
    <3>1. r.x = <<>> /\ <<>> \in Seq(Nat)
      BY <2>1 DEF Rejected
    <3> QED  BY <3>1
  <2> QED  BY <1>2, <2>1
<1>4. CASE c[1] = "modq"
  <2>1. Decode(c, in, Len(in), n) = modq_decode(in, Len(in), n) /\ Width(c) = QBits
    BY <1>4 DEF Decode, Width
  <2>2. Decode(c, in, Len(in), n) = Accept(r, r.x, 0 .. q - 1)
    BY <2>1 DEF modq_decode
  <2>3. \A w : (Readable(c, w) <=> w \in 0 .. q - 1) /\ FromWord(c, w) = w
    BY <1>4 DEF Readable, FromWord
  <2> QED  BY <1>3, <2>2, <2>3 DEF Accept, AllIn
<1>5. CASE c[1] \in {"i8", "i16"}
  <2> DEFINE y == [j \in DOMAIN r.x |-> TwosComplement(r.x[j], c[2])]
             D == -(2 ^ (c[2] - 1)) + 1 .. 2 ^ (c[2] - 1) - 1
  <2>1. Decode(c, in, Len(in), n) = trim_i16_decode(in, Len(in), n, c[2]) /\ Width(c) = c[2]
    BY <1>5 DEF Decode, Width, trim_i8_decode
  <2>2. Decode(c, in, Len(in), n) = Accept(r, y, D)
    BY <2>1 DEF trim_i16_decode
  <2>3. \A w : (Readable(c, w) <=> TwosComplement(w, c[2]) \in D) /\ FromWord(c, w) = TwosComplement(w, c[2])
    BY <1>5 DEF Readable, FromWord
  <2> HIDE DEF D
  <2> QED  BY <1>3, <2>2, <2>3 DEF Accept, AllIn
<1>6. CASE c[1] \in {"ep_modq", "ep_comp"}
  <2> DEFINE y == [j \in DOMAIN r.x |-> TwoByteWord(r.x[j])]
             D == -(2 ^ (2 * ByteBits)) .. q - 1
             s == Accept(r, y, D)
  <2>1. Width(c) = 2 * ByteBits
    BY <1>6 DEF Width
  <2>2. ep_words(in, Len(in), n) = s
    BY <2>1 DEF ep_words, TwoByteWord
  <2>3. \A w : Readable(c, w) <=> TwoByteWord(w) \in D
    BY <1>6 DEF Readable
  <2>4. CASE \A j \in 1 .. Len(r.x) : Readable(c, r.x[j])
    <3>1. s = [len |-> r.len, x |-> y]
      BY <1>3, <2>3, <2>4 DEF Accept, AllIn
    <3>2. DOMAIN y = 1 .. Len(r.x) /\ \A j \in 1 .. Len(r.x) : y[j] = TwoByteWord(r.x[j])
      BY <1>3
    <3> HIDE DEF s, y
    <3>5. s.len = r.len /\ s.x = y
      BY <3>1
    <3>3. CASE c[1] = "ep_comp"
      <4>1. Decode(c, in, Len(in), n) = [len |-> r.len, x |-> [j \in 1 .. Len(r.x) |-> Centred16(y[j])]]
        BY <2>2, <3>2, <3>3, <3>5 DEF Decode, ep_comp_decode16
      <4>2. \A w : FromWord(c, w) = Centred16(TwoByteWord(w))
        BY <3>3 DEF FromWord
      <4>3. [j \in 1 .. Len(r.x) |-> Centred16(y[j])] = [j \in 1 .. Len(r.x) |-> FromWord(c, r.x[j])]
        BY <3>2, <4>2
      <4> QED  BY <2>4, <4>1, <4>3
    <3>4. CASE c[1] = "ep_modq"
      <4>1. Decode(c, in, Len(in), n) =
              [len |-> r.len, x |-> [j \in 1 .. Len(r.x) |-> Centred16(y[j]) % 2 ^ (2 * ByteBits)]]
        BY <2>2, <3>2, <3>4, <3>5 DEF Decode, ep_modq_decode16
      <4>2. \A w : FromWord(c, w) = Centred16(TwoByteWord(w)) % 2 ^ (2 * ByteBits)
        BY <3>4 DEF FromWord
      <4>3. [j \in 1 .. Len(r.x) |-> Centred16(y[j]) % 2 ^ (2 * ByteBits)] =
              [j \in 1 .. Len(r.x) |-> FromWord(c, r.x[j])]
        BY <3>2, <4>2
      <4> QED  BY <2>4, <4>1, <4>3
    <3> QED  BY <1>6, <3>3, <3>4
  <2>5. CASE ~ \A j \in 1 .. Len(r.x) : Readable(c, r.x[j])
    <3>1. s = Rejected
      BY <1>3, <2>3, <2>5 DEF Accept, AllIn
    <3>2. s.len = 0 /\ s.x = <<>> /\ DOMAIN s.x = {}
      BY <3>1 DEF Rejected
    <3> HIDE DEF s
    <3>3. CASE c[1] = "ep_comp"
      <4>1. Decode(c, in, Len(in), n) = [len |-> s.len, x |-> [j \in DOMAIN s.x |-> Centred16(s.x[j])]]
        BY <2>2, <3>3 DEF Decode, ep_comp_decode16
      <4>2. [j \in DOMAIN s.x |-> Centred16(s.x[j])] = <<>>
        BY <3>2
      <4> QED  BY <2>5, <3>2, <4>1, <4>2 DEF Rejected
    <3>4. CASE c[1] = "ep_modq"
      <4>1. Decode(c, in, Len(in), n) =
              [len |-> s.len, x |-> [j \in DOMAIN s.x |-> Centred16(s.x[j]) % 2 ^ (2 * ByteBits)]]
        BY <2>2, <3>4 DEF Decode, ep_modq_decode16
      <4>2. [j \in DOMAIN s.x |-> Centred16(s.x[j]) % 2 ^ (2 * ByteBits)] = <<>>
        BY <3>2
      <4> QED  BY <2>5, <3>2, <4>1, <4>2 DEF Rejected
    <3> QED  BY <1>6, <3>3, <3>4
  <2> QED  BY <2>4, <2>5
<1> QED  BY <1>4, <1>5, <1>6, Kinds

(* The elements a decoder makes of words are numbers.                      *)
LEMMA FromWordType ==
  ASSUME NEW c \in Codings, c[1] # "comp", NEW w \in Digits(Width(c))
  PROVE  FromWord(c, w) \in Int
<1>1. CASE c[1] = "modq"
  <2>1. Width(c) \in Nat \ {0}
    BY <1>1, WordsFit
  <2>2. 2 ^ Width(c) \in Nat
    BY <2>1, PowerPositive
  <2> QED  BY <1>1, <2>2 DEF FromWord, Digits
<1>2. CASE c[1] \in {"ep_modq", "ep_comp"}
  <2>1. PICK y \in Int : y = TwoByteWord(w)
    BY <1>2, TwoByteWords DEF Width
  <2>2. PICK z \in Int : z = Centred16(y)
    BY TwoByteWords DEF Centred16
  <2>3. PICK m \in Nat \ {0} : m = 2 ^ (2 * ByteBits)
    BY TwoByteWords, PowerPositive
  <2>4. z % m \in Int
    OBVIOUS
  <2> QED  BY <1>2, <2>1, <2>2, <2>3, <2>4 DEF FromWord
<1>3. CASE c[1] \in {"i8", "i16"} /\ c[2] \in Widths
  <2>1. PICK b \in Nat \ {0} : b = c[2] /\ w \in Digits(b)
    BY <1>3 DEF Widths, Width
  <2>2. PICK h \in Nat \ {0} : h = 2 ^ (b - 1) /\ 2 ^ b = 2 * h
    BY SignedWord
  <2>3. w \in 0 .. 2 * h - 1 /\ FromWord(c, w) = IF w >= h THEN w - 2 * h ELSE w
    BY <1>3, <2>1, <2>2 DEF FromWord, Digits, TwosComplement
  <2> QED  BY <2>3
<1> QED  BY <1>1, <1>2, <1>3, Kinds

(* What a decoder returns: no more bytes than it was given, and integers.  *)
LEMMA DecodeType ==
  ASSUME NEW c \in Codings, NEW in \in Seq(Bytes), NEW n \in Nat,
         NEW d, d = Decode(c, in, Len(in), n)
  PROVE  d.len \in Nat /\ d.len <= Len(in) /\ d.x \in Seq(Int)
<1>0. Rejected.len = 0 /\ Rejected.x = <<>> /\ <<>> \in Seq(Int) /\ Len(in) \in Nat
  BY DEF Rejected
<1> DEFINE Fine == d.len \in Nat /\ d.len <= Len(in) /\ d.x \in Seq(Int)
<1>3. d = Rejected => Fine
  <2> SUFFICES ASSUME d = Rejected
               PROVE  Fine
    OBVIOUS
  <2>1. d.len = 0 /\ d.x = <<>>
    BY <1>0
  <2> QED  BY <1>0, <2>1
<1> HIDE DEF Fine
<1>1. CASE c[1] = "comp"
  <2>1. d = comp_decode(in, Len(in), n)
    BY <1>1 DEF Decode
  <2>2. \/ d = Rejected
        \/ d.len \in Nat /\ d.len <= Len(in) /\ d.x \in Seq(Elements)
    BY <2>1, CompPackUnpacked
  <2>3. d.x \in Seq(Elements) => d.x \in Seq(Int)
    BY Parameters DEF Elements
  <2> QED  BY <1>3, <2>2, <2>3 DEF Fine
<1>2. CASE c[1] # "comp"
  <2>1. PICK r : r = Unpack(in, Len(in), n, Width(c))
    OBVIOUS
  <2>2. Width(c) \in Widths
    BY <1>2, WordsFit
  <2>3. \/ r = Rejected
        \/ r.len \in Nat /\ r.len <= Len(in) /\ r.x \in Seq(Digits(Width(c)))
    BY <2>1, <2>2, PackUnpacked
  <2> DEFINE y == [j \in 1 .. Len(r.x) |-> FromWord(c, r.x[j])]
  <2>4. d = [len |-> r.len, x |-> y] \/ d = Rejected
    BY <1>2, <2>1, DecodeMeans
  <2>5. CASE r = Rejected
    <3>1. Len(r.x) = 0 /\ r.len = 0
      BY <1>0, <2>5
    <3>2. y = <<>>
      <4>1. 1 .. Len(r.x) = {}
        BY <3>1
      <4> QED  BY <4>1
    <3> HIDE DEF y
    <3>3. d = [len |-> 0, x |-> <<>>] \/ d = Rejected
      BY <2>4, <3>1, <3>2
    <3> QED  BY <1>3, <3>3 DEF Rejected, Fine
  <2>6. CASE r.len \in Nat /\ r.len <= Len(in) /\ r.x \in Seq(Digits(Width(c)))
    <3>1. \A j \in 1 .. Len(r.x) : FromWord(c, r.x[j]) \in Int
      BY <1>2, <2>6, FromWordType
    <3>2. Len(r.x) \in Nat
      BY <2>6
    <3>3. y \in Seq(Int)
      BY <3>1, <3>2
    <3> HIDE DEF y
    <3>4. d = [len |-> r.len, x |-> y] => Fine
      <4> SUFFICES ASSUME d = [len |-> r.len, x |-> y]
                   PROVE  Fine
        OBVIOUS
      <4>1. d.len = r.len /\ d.x = y
        OBVIOUS
      <4> QED  BY <2>6, <3>3, <4>1 DEF Fine
    <3> QED  BY <1>3, <2>4, <3>4 DEF Fine
  <2> QED  BY <2>3, <2>5, <2>6
<1> QED  BY <1>1, <1>2 DEF Fine

(* What was written is read back, whatever follows it, and refused without *)
(* its last byte.                                                          *)
LEMMA DecodeWritten ==
  ASSUME NEW c \in Codings, NEW v \in Seq(Int), AllIn(v, Allowed(c)),
         NEW bytes, bytes = Written(c, v), NEW in \in Seq(Bytes)
  PROVE  /\ Len(in) < Len(bytes) /\ (\A i \in 1 .. Len(in) : in[i] = bytes[i]) =>
              Decode(c, in, Len(in), Len(v)) = Rejected
         /\ /\ Len(in) >= Len(bytes) /\ (\A i \in 1 .. Len(bytes) : in[i] = bytes[i])
            /\ \A j \in 1 .. Len(v) : Returns(c, v[j])
            => Decode(c, in, Len(in), Len(v)) =
                 [len |-> Len(bytes), x |-> [j \in 1 .. Len(v) |-> ReadAs(c, v[j])]]
<1>1. CASE c[1] = "comp"
  <2>1. v \in Seq(Elements) /\ bytes = LastByte(CompPacking(v)[Len(v)])
    BY <1>1 DEF AllIn, Allowed, Written
  <2>2. Decode(c, in, Len(in), Len(v)) = comp_decode(in, Len(in), Len(v))
    BY <1>1 DEF Decode
  <2>3. [j \in 1 .. Len(v) |-> ReadAs(c, v[j])] = v
    BY <1>1 DEF ReadAs
  <2> QED  BY <2>1, <2>2, <2>3, CompUnpackPacked
<1>2. CASE c[1] # "comp"
  <2> DEFINE w == Words(c, v)
             r == Unpack(in, Len(in), Len(w), Width(c))
             y == [j \in 1 .. Len(r.x) |-> FromWord(c, r.x[j])]
  <2>1. Width(c) \in Widths
    BY <1>2, WordsFit
  <2>2. w \in Seq(Digits(Width(c))) /\ Len(w) = Len(v) /\ Len(v) \in Nat
    BY <1>2, WordsType
  <2>3. \A j \in 1 .. Len(v) : w[j] = Word(c, v[j])
    BY DEF Words
  <2> HIDE DEF w
  <2>4. bytes = LastByte(Packing(w, Width(c))[Len(w)])
    BY <1>2, <2>2 DEF Written, w
  <2>5. /\ Len(in) < Len(bytes) => r = Rejected
        /\ Len(in) >= Len(bytes) /\ (\A i \in 1 .. Len(bytes) : in[i] = bytes[i]) =>
             r = [len |-> Len(bytes), x |-> w]
    BY <2>1, <2>2, <2>4, UnpackPacked
  <2>6. Decode(c, in, Len(in), Len(v)) =
          IF \A j \in 1 .. Len(r.x) : Readable(c, r.x[j])
          THEN [len |-> r.len, x |-> y]
          ELSE Rejected
    <3>1. r = Unpack(in, Len(in), Len(v), Width(c))
      BY <2>2
    <3> HIDE DEF r
    <3> QED  BY <1>2, <2>2, <3>1, DecodeMeans
  <2> HIDE DEF r
  <2>7. ASSUME Len(in) < Len(bytes)
        PROVE  Decode(c, in, Len(in), Len(v)) = Rejected
    <3>1. r.len = 0 /\ r.x = <<>> /\ Len(r.x) = 0
      BY <2>5, <2>7 DEF Rejected
    <3>2. y = <<>>
      <4>1. 1 .. Len(r.x) = {}
        BY <3>1
      <4> QED  BY <4>1
    <3> HIDE DEF y
    <3> QED  BY <2>6, <3>1, <3>2 DEF Rejected
  <2>8. ASSUME Len(in) >= Len(bytes), \A i \in 1 .. Len(bytes) : in[i] = bytes[i],
               \A j \in 1 .. Len(v) : Returns(c, v[j])
        PROVE  Decode(c, in, Len(in), Len(v)) =
                 [len |-> Len(bytes), x |-> [j \in 1 .. Len(v) |-> ReadAs(c, v[j])]]
    <3>1. r.len = Len(bytes) /\ r.x = w
      BY <2>5, <2>8
    <3>2. \A j \in 1 .. Len(v) :
            Readable(c, Word(c, v[j])) /\ FromWord(c, Word(c, v[j])) = ReadAs(c, v[j])
      BY <1>2, <2>8, WordsReturn
    <3>3. \A j \in 1 .. Len(r.x) : Readable(c, r.x[j])
      BY <2>2, <2>3, <3>1, <3>2
    <3>4. y = [j \in 1 .. Len(v) |-> ReadAs(c, v[j])]
      <4>1. \A j \in 1 .. Len(v) : FromWord(c, r.x[j]) = ReadAs(c, v[j])
        BY <2>3, <3>1, <3>2
      <4> QED  BY <2>2, <3>1, <4>1
    <3> HIDE DEF y
    <3> QED  BY <2>6, <3>1, <3>3, <3>4
  <2> QED  BY <2>7, <2>8
<1> QED  BY <1>1, <1>2

(* What a decoder of codec.c accepts is what the encoder writes for the    *)
(* result, into a buffer of the size of the input.                         *)
LEMMA EncodeDecoded ==
  ASSUME NEW c \in Codings, c[1] \in {"modq", "comp", "i8", "i16"},
         NEW in \in Seq(Bytes), NEW n \in Nat, NEW d, d = Decode(c, in, Len(in), n), d.len > 0
  PROVE  Encode(c, d.x, Len(in)) = [len |-> d.len, bytes |-> SubSeq(in, 1, d.len)]
<1>0. d # Rejected /\ d.len \in Nat /\ d.len <= Len(in) /\ d.x \in Seq(Int)
  <2>1. d.len \in Nat /\ d.len <= Len(in) /\ d.x \in Seq(Int)
    BY DecodeType
  <2> QED  BY <2>1 DEF Rejected
<1>1. AllIn(d.x, Allowed(c)) /\ Written(c, d.x) = SubSeq(in, 1, d.len)
  <2>1. CASE c[1] = "comp"
    <3>1. d = comp_decode(in, Len(in), n)
      BY <2>1 DEF Decode
    <3>2. d.x \in Seq(Elements) /\ LastByte(CompPacking(d.x)[Len(d.x)]) = SubSeq(in, 1, d.len)
      BY <1>0, <3>1, CompPackUnpacked
    <3> QED  BY <2>1, <3>2 DEF AllIn, Allowed, Written
  <2>2. CASE c[1] # "comp"
    <3>1. PICK r : r = Unpack(in, Len(in), n, Width(c))
      OBVIOUS
    <3> DEFINE y == [j \in 1 .. Len(r.x) |-> FromWord(c, r.x[j])]
    <3>2. Width(c) \in Widths
      BY <2>2, WordsFit
    <3>3. d = [len |-> r.len, x |-> y] /\ \A j \in 1 .. Len(r.x) : Readable(c, r.x[j])
      BY <1>0, <2>2, <3>1, DecodeMeans
    <3>4. d.len = r.len /\ d.x = y
      <4> HIDE DEF y
      <4> QED  BY <3>3
    <3>5. /\ r.x \in Seq(Digits(Width(c))) /\ Len(r.x) \in Nat
          /\ LastByte(Packing(r.x, Width(c))[Len(r.x)]) = SubSeq(in, 1, r.len)
      <4>1. r # Rejected
        BY <1>0, <3>4 DEF Rejected
      <4> HIDE DEF y
      <4> QED  BY <3>1, <3>2, <4>1, PackUnpacked
    <3>6. \A j \in 1 .. Len(r.x) :
            FromWord(c, r.x[j]) \in Allowed(c) /\ Word(c, FromWord(c, r.x[j])) = r.x[j]
      BY <2>2, <3>3, <3>5, WordsOnce
    <3>7. DOMAIN y = 1 .. Len(r.x) /\ Len(y) = Len(r.x) /\ \A j \in 1 .. Len(r.x) : y[j] = FromWord(c, r.x[j])
      <4>1. y \in Seq(Allowed(c))
        BY <3>5, <3>6
      <4> QED  BY <3>5, <4>1
    <3> HIDE DEF y
    <3>8. Words(c, y) = r.x
      <4>1. Words(c, y) = [j \in 1 .. Len(r.x) |-> Word(c, y[j])]
        BY <3>7 DEF Words
      <4>2. [j \in 1 .. Len(r.x) |-> Word(c, y[j])] = [j \in 1 .. Len(r.x) |-> r.x[j]]
        BY <3>6, <3>7
      <4>3. r.x = [j \in 1 .. Len(r.x) |-> r.x[j]]
        BY <3>5
      <4> QED  BY <4>1, <4>2, <4>3
    <3>9. AllIn(y, Allowed(c))
      BY <3>6, <3>7 DEF AllIn
    <3> QED  BY <2>2, <3>4, <3>5, <3>7, <3>8, <3>9 DEF Written
  <2> QED  BY <2>1, <2>2
<1>2. Len(in) \in Nat \cup {Null}
  OBVIOUS
<1>3. Encode(c, d.x, Len(in)) = IfRoom(SubSeq(in, 1, d.len), Len(in))
  BY <1>0, <1>1, <1>2, EncodeMeans
<1>4. Len(SubSeq(in, 1, d.len)) = d.len /\ ~ (d.len > Len(in)) /\ Len(in) # Null
  BY <1>0, AccumulatorAssumption
<1> QED  BY <1>3, <1>4 DEF IfRoom

-----------------------------------------------------------------------------
(* The writer and the reader.                                              *)

(* The inductive invariant of the writer and the reader says where each    *)
(* part of the state came from.  Every value has its type.                 *)
CodecTypes ==
  /\ coding \in Codings /\ x \in Seq(Int) /\ room \in Nat \cup {Null}
  /\ input \in Seq(Bytes) /\ decoded.len \in Nat /\ decoded.x \in Seq(Int)

(* Unless the reader started from bytes, the encoding is that of x.        *)
Wrote == (x # <<>> \/ input = <<>>) => encoded = Encode(coding, x, room)

(* As far as both go, the bytes are the same.                              *)
Begins(in, bytes) == \A i \in 1 .. Len(in) : i <= Len(bytes) => in[i] = bytes[i]

(* What the reader read of the writer begins as the encoding does.         *)
ReadOwn ==
  (x # <<>> /\ input # <<>>) =>
    /\ room # Null /\ encoded.len > 0 /\ Begins(input, encoded.bytes)
    /\ decoded = Decode(coding, input, Len(input), Len(x))

(* What the reader received it decoded, and the result was encoded again.  *)
Received ==
  (x = <<>> /\ input # <<>>) =>
    /\ room = Len(input)
    /\ \E n \in Nat : decoded = Decode(coding, input, Len(input), n)
    /\ encoded = Encode(coding, decoded.x, Len(input))

CodecInv == CodecTypes /\ Wrote /\ ReadOwn /\ Received

(* The empty vector takes no bytes.                                        *)
LEMMA NothingToWrite ==
  ASSUME NEW c \in Codings, NEW size \in Nat \cup {Null}, NEW v, v = <<>>
  PROVE  Encode(c, v, size) = Failure
<1>1. v \in Seq(Int)
  OBVIOUS
<1>2. PICK e : e = Encode(c, v, size)
  OBVIOUS
<1>3. v = <<>> => e = Failure
  BY <1>1, <1>2, EncodeResult
<1> QED  BY <1>2, <1>3

(* Initially nothing was written.                                          *)
LEMMA CodecStarts == CodecInit => CodecInv
<1> SUFFICES ASSUME CodecInit
             PROVE  CodecInv
  OBVIOUS
<1>1. /\ coding \in Codings /\ x = <<>> /\ room = Null /\ encoded = Failure
      /\ input = <<>> /\ decoded = Rejected
  BY DEF CodecInit
<1>2. <<>> \in Seq(Int) /\ <<>> \in Seq(Bytes) /\ Null \in Nat \cup {Null}
  OBVIOUS
<1>3. decoded.len = 0 /\ decoded.x = <<>>
  BY <1>1 DEF Rejected
<1>4. Encode(coding, <<>>, Null) = Failure
  BY <1>1, <1>2, NothingToWrite
<1> QED  BY <1>1, <1>2, <1>3, <1>4 DEF CodecInv, CodecTypes, Wrote, ReadOwn, Received

(* Reading back what was written gives one of the forms ReadOwn speaks of. *)
LEMMA FormsBegin ==
  ASSUME NEW bytes \in Seq(Bytes), Len(bytes) > 0,
         NEW in \in {bytes, Append(bytes, 1), SubSeq(bytes, 1, Len(bytes) - 1)}
  PROVE  in \in Seq(Bytes) /\ Begins(in, bytes)
<1>1. 1 \in Bytes
  <2>1. PICK h \in Nat \ {0} : 2 ^ ByteBits = 2 * h
    BY Parameters, SignedWord
  <2> QED  BY <2>1 DEF Bytes, Digits
<1> HIDE DEF Bytes
<1>2. CASE in = bytes
  BY <1>2 DEF Begins
<1>3. CASE in = Append(bytes, 1)
  BY <1>1, <1>3 DEF Begins
<1>4. CASE in = SubSeq(bytes, 1, Len(bytes) - 1)
  <2>1. PICK n \in Nat : n = Len(bytes) - 1 /\ n <= Len(bytes)
    OBVIOUS
  <2>2. in \in Seq(Bytes) /\ Len(in) = n /\ \A i \in 1 .. n : in[i] = bytes[i]
    BY <1>4, <2>1
  <2> QED  BY <2>2 DEF Begins
<1> QED  BY <1>2, <1>3, <1>4

(* Every step keeps the invariant.                                         *)
LEMMA CodecSteps == CodecInv /\ [CodecNext]_codecVars => CodecInv'
<1> SUFFICES ASSUME CodecInv, [CodecNext]_codecVars
             PROVE  CodecInv'
  OBVIOUS
<1> USE DEF CodecInv
<1>0. /\ coding \in Codings /\ x \in Seq(Int) /\ room \in Nat \cup {Null}
      /\ input \in Seq(Bytes) /\ decoded.len \in Nat /\ decoded.x \in Seq(Int)
  BY DEF CodecTypes
<1>e. <<>> \in Seq(Int) /\ <<>> \in Seq(Bytes)
  OBVIOUS
<1>1. CASE AskLength
  <2>1. /\ x = <<>> /\ input = <<>> /\ x' \in Vectors /\ room' = Null
        /\ encoded' = Encode(coding, x', Null)
        /\ coding' = coding /\ input' = input /\ decoded' = decoded
    BY <1>1 DEF AskLength
  <2>2. x' \in Seq(Int)
    BY <2>1, InputAssumption
  <2>3. CodecTypes'
    BY <1>0, <2>1, <2>2 DEF CodecTypes
  <2>4. Wrote'
    BY <2>1 DEF Wrote
  <2>5. ReadOwn' /\ Received'
    BY <2>1 DEF ReadOwn, Received
  <2> QED  BY <2>3, <2>4, <2>5
<1>2. CASE Write
  <2>1. /\ encoded.len > 0 /\ room = Null
        /\ room' \in {encoded.len - 1, encoded.len, encoded.len + 1}
        /\ encoded' = Encode(coding, x, room')
        /\ coding' = coding /\ x' = x /\ input' = input /\ decoded' = decoded
    BY <1>2 DEF Write
  <2>2. input = <<>>
    <3>1. Len(input) # Null
      BY <1>0, AccumulatorAssumption
    <3> QED  BY <2>1, <3>1 DEF ReadOwn, Received
  <2>3. room' \in Nat
    <3>1. encoded.len \in Nat
      BY <1>0, <2>2, EncodeResult DEF Wrote
    <3> QED  BY <2>1, <3>1
  <2>4. CodecTypes'
    BY <1>0, <2>1, <2>3 DEF CodecTypes
  <2>5. Wrote'
    BY <2>1 DEF Wrote
  <2>6. ReadOwn' /\ Received'
    BY <2>1, <2>2 DEF ReadOwn, Received
  <2> QED  BY <2>4, <2>5, <2>6
<1>3. CASE ReadBack
  <2>1. /\ room # Null /\ encoded.len > 0 /\ input = <<>>
        /\ input' \in {encoded.bytes, Append(encoded.bytes, 1),
                 SubSeq(encoded.bytes, 1, encoded.len - 1)}
        /\ decoded' = Decode(coding, input', Len(input'), Len(x))
        /\ coding' = coding /\ x' = x /\ room' = room /\ encoded' = encoded
    BY <1>3 DEF ReadBack
  <2>2. encoded = Encode(coding, x, room)
    BY <2>1 DEF Wrote
  <2>3. /\ encoded.bytes \in Seq(Bytes) /\ encoded.len = Len(encoded.bytes)
        /\ x # <<>>
    <3>1. /\ encoded.bytes \in Seq(Bytes) /\ encoded.len = Len(encoded.bytes)
      BY <1>0, <2>1, <2>2, EncodeResult
    <3>2. x = <<>> => encoded = Failure
      BY <1>0, <2>2, NothingToWrite
    <3> QED  BY <2>1, <3>1, <3>2 DEF Failure
  <2>4. input' \in Seq(Bytes) /\ Begins(input', encoded.bytes)
    <3>1. PICK bytes \in Seq(Bytes) : bytes = encoded.bytes /\ Len(bytes) = encoded.len
      BY <2>3
    <3>2. input' \in {bytes, Append(bytes, 1), SubSeq(bytes, 1, Len(bytes) - 1)} /\ Len(bytes) > 0
      BY <2>1, <3>1
    <3>3. input' \in Seq(Bytes) /\ Begins(input', bytes)
      BY <3>2, FormsBegin
    <3> QED  BY <3>1, <3>3
  <2>5. CodecTypes'
    <3>1. Len(x) \in Nat
      BY <1>0
    <3>2. decoded'.len \in Nat /\ decoded'.x \in Seq(Int)
      BY <1>0, <2>1, <2>4, <3>1, DecodeType
    <3> QED  BY <1>0, <2>1, <2>4, <3>2 DEF CodecTypes
  <2>6. Wrote'
    BY <2>1, <2>2 DEF Wrote
  <2>7. ReadOwn' /\ Received'
    BY <2>1, <2>3, <2>4 DEF ReadOwn, Received
  <2> QED  BY <2>5, <2>6, <2>7
<1>4. CASE Receive
  <2>1. PICK in \in Strings, n \in {Len(v) : v \in Vectors} :
          /\ input' = in
          /\ decoded' = Decode(coding, in, Len(in), n)
          /\ decoded'.len > 0
          /\ encoded' = Encode(coding, decoded'.x, Len(in))
          /\ room' = Len(in)
    BY <1>4 DEF Receive
  <2>2. x = <<>> /\ coding' = coding /\ x' = x
    BY <1>4 DEF Receive
  <2>3. in \in Seq(Bytes) /\ Len(in) \in Nat /\ n \in Nat
    <3>1. in \in Seq(Bytes)
      BY InputAssumption DEF Bytes, Digits
    <3>2. \A v \in Vectors : Len(v) \in Nat
      BY InputAssumption
    <3> QED  BY <3>1, <3>2
  <2>4. decoded'.len \in Nat /\ decoded'.len <= Len(in) /\ decoded'.x \in Seq(Int)
    BY <1>0, <2>1, <2>3, DecodeType
  <2>5. in # <<>>
    <3>1. Len(<<>>) = 0
      OBVIOUS
    <3> QED  BY <2>1, <2>3, <2>4, <3>1
  <2>6. CodecTypes'
    BY <1>0, <2>1, <2>2, <2>3, <2>4 DEF CodecTypes
  <2>7. Wrote' /\ ReadOwn'
    BY <2>1, <2>2, <2>5 DEF Wrote, ReadOwn
  <2>8. Received'
    BY <2>1, <2>2, <2>3 DEF Received
  <2> QED  BY <2>6, <2>7, <2>8
<1>5. CASE ConvertToCT
  <2>1. PICK bits \in I16Bits :
          /\ coding' = <<"i16", bits>>
          /\ x' = decoded.x
          /\ room' = FixedLength(Len(decoded.x), bits)
          /\ encoded' = trim_i16_encode(decoded.x, room', bits)
    BY <1>5 DEF ConvertToCT
  <2>2. input' = <<>> /\ decoded' = Rejected
    BY <1>5 DEF ConvertToCT
  <2>3. coding' \in Codings /\ coding'[1] = "i16" /\ coding'[2] = bits
    BY <2>1 DEF Codings
  <2>4. room' \in Nat
    <3>1. Len(decoded.x) \in Nat /\ bits \in Nat
      BY <1>0, InputAssumption DEF Widths
    <3> QED  BY <2>1, <3>1, LengthPads
  <2>5. decoded'.len = 0 /\ decoded'.x = <<>>
    BY <2>2 DEF Rejected
  <2>6. CodecTypes'
    BY <1>0, <1>e, <2>1, <2>2, <2>3, <2>4, <2>5 DEF CodecTypes
  <2>7. Wrote'
    <3>1. encoded' = Encode(coding', x', room')
      BY <2>1, <2>3 DEF Encode
    <3> QED  BY <3>1 DEF Wrote
  <2>8. ReadOwn' /\ Received'
    BY <2>2 DEF ReadOwn, Received
  <2> QED  BY <2>6, <2>7, <2>8
<1>6. CASE UNCHANGED codecVars
  BY <1>6 DEF codecVars, CodecTypes, Wrote, ReadOwn, Received
<1> QED  BY <1>1, <1>2, <1>3, <1>4, <1>5, <1>6 DEF CodecNext

(* The invariant of every reachable state.                                 *)
THEOREM CodecAlways == CodecSpec => []CodecInv
BY CodecStarts, CodecSteps, PTL DEF CodecSpec

(* The room asked for is the room that is needed, and no encoder writes    *)
(* past the end of its buffer.                                             *)
THEOREM RoomIsEnoughHolds == CodecSpec => []RoomIsEnough
<1>1. CodecInv => RoomIsEnough
  <2> SUFFICES ASSUME CodecInv, x # <<>>, room # Null
               PROVE  /\ Len(encoded.bytes) <= room
                      /\ encoded.len > 0 <=>
                           Encode(coding, x, Null).len > 0 /\ Encode(coding, x, Null).len <= room
                      /\ encoded.len > 0 => encoded.len = Encode(coding, x, Null).len
    BY DEF RoomIsEnough
  <2> DEFINE a == Encode(coding, x, Null)
             w == Written(coding, x)
             fits == AllIn(x, Allowed(coding))
  <2>1. /\ coding \in Codings /\ x \in Seq(Int) /\ room \in Nat
        /\ Null \in Nat \cup {Null} /\ room \in Nat \cup {Null}
    BY DEF CodecInv, CodecTypes
  <2>2. encoded = Encode(coding, x, room)
    BY DEF CodecInv, Wrote
  <2>3. /\ encoded = IF fits THEN IfRoom(w, room) ELSE Failure
        /\ a = IF fits THEN IfRoom(w, Null) ELSE Failure
        /\ fits => w \in Seq(Bytes)
    BY <2>1, <2>2, EncodeMeans
  <2> HIDE DEF a, w, fits
  <2>4. CASE ~ fits
    <3>1. encoded.len = 0 /\ encoded.bytes = <<>> /\ a.len = 0 /\ Len(<<>>) = 0
      BY <2>3, <2>4 DEF Failure
    <3> QED  BY <2>1, <3>1 DEF a
  <2>5. CASE fits
    <3>1. PICK n \in Nat : n = Len(w) /\ w \in Seq(Bytes)
      BY <2>3, <2>5
    <3>2. a.len = n
      BY <2>3, <2>5, <3>1 DEF IfRoom
    <3>3. CASE n > room
      <4>1. encoded.len = 0 /\ encoded.bytes = <<>> /\ Len(<<>>) = 0
        BY <2>3, <2>5, <3>1, <3>3 DEF IfRoom, Failure
      <4> QED  BY <2>1, <3>2, <3>3, <4>1 DEF a
    <3>4. CASE ~ (n > room)
      <4>1. encoded.len = n /\ encoded.bytes = w
        BY <2>3, <2>5, <3>1, <3>4 DEF IfRoom
      <4> QED  BY <2>1, <3>1, <3>2, <3>4, <4>1 DEF a
    <3> QED  BY <3>3, <3>4
  <2> QED  BY <2>4, <2>5
<1> QED  BY <1>1, CodecAlways, PTL

(* What the encoders write is read back, from the bytes written and        *)
(* whatever follows them, and refused without the last byte.               *)
THEOREM RoundTripHolds == CodecSpec => []RoundTrip
<1>1. CodecInv => RoundTrip
  <2> SUFFICES ASSUME CodecInv, x # <<>>, input # <<>>
               PROVE  IF Len(input) < encoded.len THEN decoded = Rejected
                      ELSE (coding[1] = "ep_comp" => AllIn(x, MaxAbs - q .. MaxAbs - 1)) =>
                             /\ decoded.len = encoded.len
                             /\ decoded.x = IF coding[1] = "ep_modq"
                                            THEN [j \in DOMAIN x |-> Centred16(x[j]) % 2 ^ (2 * ByteBits)]
                                            ELSE x
    BY DEF RoundTrip
  <2>1. /\ coding \in Codings /\ x \in Seq(Int) /\ room \in Nat \cup {Null} /\ input \in Seq(Bytes)
        /\ room # Null /\ encoded.len > 0 /\ Begins(input, encoded.bytes)
        /\ decoded = Decode(coding, input, Len(input), Len(x))
        /\ encoded = Encode(coding, x, room)
    BY DEF CodecInv, CodecTypes, Wrote, ReadOwn
  <2>2. PICK w \in Seq(Bytes) :
          /\ w = Written(coding, x) /\ encoded.bytes = w /\ encoded.len = Len(w)
          /\ AllIn(x, Allowed(coding))
    BY <2>1, EncodeResult
  <2>3. Len(w) \in Nat /\ Len(input) \in Nat
    BY <2>1, <2>2
  <2>4. CASE Len(input) < Len(w)
    <3>1. \A i \in 1 .. Len(input) : input[i] = w[i]
      BY <2>1, <2>2, <2>3, <2>4 DEF Begins
    <3>2. decoded = Rejected
      BY <2>1, <2>2, <2>4, <3>1, DecodeWritten
    <3> QED  BY <2>2, <2>4, <3>2
  <2>5. CASE ~ (Len(input) < Len(w))
    <3> SUFFICES ASSUME coding[1] = "ep_comp" => AllIn(x, MaxAbs - q .. MaxAbs - 1)
                 PROVE  /\ decoded.len = Len(w)
                        /\ decoded.x = IF coding[1] = "ep_modq"
                                       THEN [j \in DOMAIN x |-> Centred16(x[j]) % 2 ^ (2 * ByteBits)]
                                       ELSE x
      BY <2>2, <2>5
    <3>1. Len(input) >= Len(w) /\ \A i \in 1 .. Len(w) : input[i] = w[i]
      BY <2>1, <2>2, <2>3, <2>5 DEF Begins
    <3>2. \A j \in 1 .. Len(x) : Returns(coding, x[j])
      <4>1. DOMAIN x = 1 .. Len(x)
        BY <2>1
      <4> QED  BY <2>2, <4>1 DEF Returns, AllIn
    <3> DEFINE y == [j \in 1 .. Len(x) |-> ReadAs(coding, x[j])]
    <3>3. decoded = [len |-> Len(w), x |-> y]
      BY <2>1, <2>2, <3>1, <3>2, DecodeWritten
    <3>4. y = IF coding[1] = "ep_modq"
              THEN [j \in DOMAIN x |-> Centred16(x[j]) % 2 ^ (2 * ByteBits)]
              ELSE x
      <4>1. DOMAIN x = 1 .. Len(x) /\ x = [j \in 1 .. Len(x) |-> x[j]]
        BY <2>1
      <4> QED  BY <4>1 DEF ReadAs
    <3> HIDE DEF y
    <3> QED  BY <3>3, <3>4
  <2> QED  BY <2>4, <2>5
<1> QED  BY <1>1, CodecAlways, PTL

(* A vector has one encoding: whatever string a decoder of codec.c         *)
(* accepts, its first bytes are what the encoder writes for the result.    *)
THEOREM OneEncodingHolds == CodecSpec => []OneEncoding
<1>1. CodecInv => OneEncoding
  <2> SUFFICES ASSUME CodecInv, input # <<>>, decoded.len > 0, coding[1] \in {"modq", "comp", "i8", "i16"}
               PROVE  /\ encoded.len = decoded.len
                      /\ encoded.bytes = SubSeq(input, 1, decoded.len)
    BY DEF OneEncoding
  <2>1. /\ coding \in Codings /\ x \in Seq(Int) /\ room \in Nat \cup {Null} /\ input \in Seq(Bytes)
        /\ Len(input) \in Nat
    BY DEF CodecInv, CodecTypes
  <2>2. CASE x = <<>>
    <3>1. PICK n \in Nat : decoded = Decode(coding, input, Len(input), n)
      BY <2>2 DEF CodecInv, Received
    <3>2. encoded = Encode(coding, decoded.x, Len(input))
      BY <2>2 DEF CodecInv, Received
    <3>3. encoded = [len |-> decoded.len, bytes |-> SubSeq(input, 1, decoded.len)]
      BY <2>1, <3>1, <3>2, EncodeDecoded
    <3> QED  BY <3>3
  <2>3. CASE x # <<>>
    <3>1. /\ room # Null /\ encoded.len > 0 /\ Begins(input, encoded.bytes)
          /\ decoded = Decode(coding, input, Len(input), Len(x))
          /\ encoded = Encode(coding, x, room)
      BY <2>3 DEF CodecInv, Wrote, ReadOwn
    <3>2. PICK w \in Seq(Bytes) :
            /\ w = Written(coding, x) /\ encoded.bytes = w /\ encoded.len = Len(w)
            /\ AllIn(x, Allowed(coding))
      BY <2>1, <3>1, EncodeResult
    <3>3. Len(w) \in Nat
      BY <3>2
    <3>4. Len(input) >= Len(w)
      <4> SUFFICES ASSUME Len(input) < Len(w)
                   PROVE  FALSE
        BY <2>1, <3>3
      <4>1. \A i \in 1 .. Len(input) : input[i] = w[i]
        BY <2>1, <3>1, <3>2, <3>3 DEF Begins
      <4>2. decoded = Rejected
        BY <2>1, <3>1, <3>2, <4>1, DecodeWritten
      <4> QED  BY <4>2 DEF Rejected
    <3>5. \A i \in 1 .. Len(w) : input[i] = w[i]
      BY <2>1, <3>1, <3>2, <3>3, <3>4 DEF Begins
    <3>6. \A j \in 1 .. Len(x) : Returns(coding, x[j])
      <4>1. DOMAIN x = 1 .. Len(x)
        BY <2>1
      <4> QED  BY <3>2, <4>1 DEF Returns, AllIn
    <3> DEFINE y == [j \in 1 .. Len(x) |-> ReadAs(coding, x[j])]
    <3>7. decoded = [len |-> Len(w), x |-> y]
      BY <2>1, <3>1, <3>2, <3>4, <3>5, <3>6, DecodeWritten
    <3> HIDE DEF y
    <3>8. decoded.len = Len(w)
      BY <3>7
    <3>9. SubSeq(input, 1, Len(w)) = w
      BY <2>1, <3>2, <3>3, <3>4, <3>5
    <3> QED  BY <3>2, <3>8, <3>9
  <2> QED  BY <2>2, <2>3
<1> QED  BY <1>1, CodecAlways, PTL

-----------------------------------------------------------------------------
(* The norm test.                                                          *)

USE HalfAssumption, BoundAssumption, NAssumption

(* A square is at most 2^30.                                               *)
LEMMA SquareType ==
  ASSUME NEW z \in Coeffs
  PROVE  z * z \in 0 .. Half
BY CoeffAssumption

(* Adding one square to an accumulator below 2^31 does not wrap around.    *)
LEMMA PlusExact ==
  ASSUME NEW s \in 0 .. Half - 1, NEW z \in Coeffs
  PROVE  Plus(s, z) = s + z * z
<1> DEFINE sq == z * z
<1>1. sq \in 0 .. Half
  BY SquareType
<1>2. (s + sq) % (2 * Half) = s + sq
  <2> HIDE DEF sq
  <2>1. s + sq \in 0 .. 2 * Half - 1
    BY <1>1
  <2>2. \A m \in Nat \ {0} : \A a \in 0 .. m - 1 : a % m = a
    OBVIOUS
  <2>3. 2 * Half \in Nat \ {0}
    OBVIOUS
  <2> QED  BY <2>1, <2>2, <2>3
<1> QED  BY <1>2 DEF Plus

(* An accumulator holds 32 bits whatever is added to it.                   *)
LEMMA PlusType ==
  ASSUME NEW s \in 0 .. 2 * Half - 1, NEW z \in Coeffs
  PROVE  Plus(s, z) \in 0 .. 2 * Half - 1
<1> DEFINE sq == z * z
<1>1. sq \in Nat
  BY SquareType
<1>2. (s + sq) % (2 * Half) \in 0 .. 2 * Half - 1
  <2> HIDE DEF sq
  <2>1. s + sq \in Nat /\ 2 * Half \in Nat \ {0}
    BY <1>1
  <2>2. \A a \in Nat, m \in Nat \ {0} : a % m \in 0 .. m - 1
    OBVIOUS
  <2> QED  BY <2>1, <2>2
<1> QED  BY <1>2 DEF Plus

(* Replacing the accumulator by all ones keeps it in range.                *)
LEMMA SaturateType ==
  ASSUME NEW s \in 0 .. 2 * Half - 1, NEW over \in BOOLEAN
  PROVE  Saturate(s, over) \in 0 .. 2 * Half - 1
BY DEF Saturate

(* A comparison has a truth value.                                         *)
LEMMA ComparisonType ==
  ASSUME NEW a \in Int, NEW b \in Int
  PROVE  (a <= b) \in BOOLEAN /\ (a >= b) \in BOOLEAN
OBVIOUS

(* Every value has its type.                                               *)
THEOREM TypeCorrect == Spec => []TypeOK
<1>1. Init => TypeOK
  <2> SUFFICES ASSUME Init PROVE TypeOK
    OBVIOUS
  <2>1. ng \in BOOLEAN /\ signerOk \in BOOLEAN /\ verifierOk \in BOOLEAN
    BY Zenon DEF Init
  <2>2. u \in 1 .. N + 1 /\ acc \in 0 .. 2 * Half - 1 /\ norm \in Nat
    BY DEF Init
  <2> QED  BY <2>1, <2>2, Zenon DEF Init, TypeOK, Passes
<1>2. TypeOK /\ [Next]_vars => TypeOK'
  <2> SUFFICES ASSUME TypeOK, [Next]_vars PROVE TypeOK'
    OBVIOUS
  <2> USE DEF TypeOK, Passes
  <2>1. \A i \in 1 .. N : s1[i] \in Coeffs /\ s2[i] \in Coeffs
    OBVIOUS
  <2>2. \A i \in 1 .. N : s1[i] * s1[i] \in Nat /\ s2[i] * s2[i] \in Nat
    BY <2>1, SquareType
  <2>3. CASE SignerAddS1
    <3>1. u \in 1 .. N
      BY <2>3 DEF SignerAddS1
    <3>2. Plus(acc, s1[u]) \in 0 .. 2 * Half - 1
      BY <3>1, <2>1, PlusType
    <3>3. norm + s1[u] * s1[u] \in Nat
      BY <3>1, <2>2
    <3>4. ng' \in BOOLEAN
      BY <2>3, Zenon DEF SignerAddS1
    <3>5. acc' \in 0 .. 2 * Half - 1 /\ norm' \in Nat /\ u' \in 1 .. N + 1
      BY <2>3, <3>1, <3>2, <3>3 DEF SignerAddS1
    <3> QED  BY <2>3, <3>4, <3>5, Zenon DEF SignerAddS1
  <2>4. CASE SignerHandOver
    <3>1. acc' \in 0 .. 2 * Half - 1
      BY <2>4, SaturateType, Zenon DEF SignerHandOver
    <3>2. ng' \in BOOLEAN
      <4>1. (acc' >= Half) \in BOOLEAN
        BY <3>1, ComparisonType
      <4> QED  BY <2>4, <4>1, Zenon DEF SignerHandOver, TopBit
    <3>3. u' \in 1 .. N + 1
      BY <2>4 DEF SignerHandOver
    <3> QED  BY <2>4, <3>1, <3>2, <3>3, Zenon DEF SignerHandOver
  <2>5. CASE SignerAddS2
    <3>1. u \in 1 .. N
      BY <2>5 DEF SignerAddS2
    <3>2. Plus(acc, s2[u]) \in 0 .. 2 * Half - 1
      BY <3>1, <2>1, PlusType
    <3>3. norm + s2[u] * s2[u] \in Nat
      BY <3>1, <2>2
    <3>4. ng' \in BOOLEAN
      BY <2>5, Zenon DEF SignerAddS2
    <3>5. acc' \in 0 .. 2 * Half - 1 /\ norm' \in Nat /\ u' \in 1 .. N + 1
      BY <2>5, <3>1, <3>2, <3>3 DEF SignerAddS2
    <3> QED  BY <2>5, <3>4, <3>5, Zenon DEF SignerAddS2
  <2>6. CASE SignerDecide
    <3>1. acc' \in 0 .. 2 * Half - 1 /\ norm' \in Nat /\ u' \in 1 .. N + 1
      BY <2>6 DEF SignerDecide
    <3>2. (Saturate(acc, ng) <= Bound) \in BOOLEAN
      BY SaturateType, ComparisonType
    <3>3. ng' \in BOOLEAN /\ signerOk' \in BOOLEAN
      BY <2>6, <3>2, Zenon DEF SignerDecide
    <3> QED  BY <2>6, <3>1, <3>3, Zenon DEF SignerDecide
  <2>7. CASE VerifierAdd
    <3>1. u \in 1 .. N
      BY <2>7 DEF VerifierAdd
    <3>2. Plus(Plus(acc, s1[u]), s2[u]) \in 0 .. 2 * Half - 1
      BY <3>1, <2>1, PlusType
    <3>3. norm + s1[u] * s1[u] + s2[u] * s2[u] \in Nat
      BY <3>1, <2>2
    <3> QED  BY <2>7, <3>1, <3>2, <3>3 DEF VerifierAdd
  <2>8. CASE VerifierDecide
    BY <2>8 DEF VerifierDecide
  <2>9. CASE UNCHANGED vars
    BY <2>9 DEF vars
  <2> QED  BY <2>3, <2>4, <2>5, <2>6, <2>7, <2>8, <2>9 DEF Next
<1> QED  BY <1>1, <1>2, PTL DEF Spec

----------------------------------------------------------------------------
(* NothingForgotten says nothing of how large an unsaturated accumulator   *)
(* is; the next addition is exact only because it is below 2^31.           *)
Unsaturated == ~ng => acc < Half

IInv == NothingForgotten /\ Unsaturated

(* The accumulator is exact, or its overflow is remembered, in every pass. *)
THEOREM Invariance == Spec => []IInv
<1>1. Init => IInv
  BY DEF Init, IInv, NothingForgotten, Unsaturated
<1>2. IInv /\ TypeOK /\ [Next]_vars => IInv'
  <2> SUFFICES ASSUME IInv, TypeOK, [Next]_vars PROVE IInv'
    OBVIOUS
  <2> USE DEF IInv, NothingForgotten, Unsaturated
  <2>1. \A i \in 1 .. N : s1[i] \in Coeffs /\ s2[i] \in Coeffs
    BY DEF TypeOK
  <2>2. ASSUME NEW z \in Coeffs, pc # "done",
               acc' = Plus(acc, z), ng' = (ng \/ TopBit(acc')),
               norm' = norm + z * z
        PROVE  IInv'
    <3> DEFINE sq == z * z
    <3>1. sq \in 0 .. Half
      BY SquareType
    <3>2. norm' = norm + sq
      BY <2>2
    <3>3. CASE ng
      <4> HIDE DEF sq
      <4>1. ng'
        BY <2>2, <3>3, Zenon
      <4>2. norm' >= Half
        BY <2>2, <3>1, <3>2, <3>3 DEF TypeOK
      <4> QED  BY <4>1, <4>2
    <3>4. CASE ~ng
      <4>1. acc' = acc + sq /\ acc = norm
        BY <2>2, <3>4, PlusExact DEF TypeOK
      <4>2. ng' <=> TopBit(acc')
        BY <2>2, <3>4, Zenon
      <4> HIDE DEF sq
      <4>3. acc' = norm' /\ acc' \in Nat
        BY <3>1, <3>2, <4>1 DEF TypeOK
      <4> QED  BY <4>2, <4>3 DEF TopBit
    <3> QED  BY <3>3, <3>4
  <2>3. CASE SignerAddS1
    <3>1. u \in 1 .. N
      BY <2>3 DEF SignerAddS1, TypeOK
    <3> QED  BY <2>1, <2>2, <2>3, <3>1 DEF SignerAddS1
  <2>4. CASE SignerHandOver
    BY <2>4 DEF SignerHandOver, Saturate, TopBit, TypeOK
  <2>5. CASE SignerAddS2
    <3>1. u \in 1 .. N
      BY <2>5 DEF SignerAddS2, TypeOK
    <3> QED  BY <2>1, <2>2, <2>5, <3>1 DEF SignerAddS2
  <2>6. CASE SignerDecide
    BY <2>6 DEF SignerDecide
  <2>7. CASE VerifierAdd
    <3> DEFINE a == s1[u] * s1[u]
               b == s2[u] * s2[u]
               half == Plus(acc, s1[u])
    <3>1. u \in 1 .. N /\ s1[u] \in Coeffs /\ s2[u] \in Coeffs
      BY <2>1, <2>7 DEF VerifierAdd, TypeOK
    <3>2. a \in 0 .. Half /\ b \in 0 .. Half
      BY <3>1, SquareType
    <3>3. /\ acc' = Plus(half, s2[u])
          /\ ng' = (ng \/ TopBit(half) \/ TopBit(acc'))
          /\ norm' = norm + a + b
          /\ pc # "done"
      BY <2>7 DEF VerifierAdd
    <3>4. CASE ng
      <4> HIDE DEF a, b, half
      <4>1. ng'
        BY <3>3, <3>4, Zenon
      <4>2. norm' >= Half
        BY <3>2, <3>3, <3>4 DEF TypeOK
      <4> QED  BY <4>1, <4>2
    <3>5. CASE ~ng
      <4>1. half = acc + a /\ acc = norm /\ acc \in 0 .. Half - 1
        BY <3>1, <3>3, <3>5, PlusExact DEF TypeOK
      <4>2. CASE half < Half
        <5>1. acc' = half + b
          BY <3>1, <3>2, <3>3, <4>1, <4>2, PlusExact
        <5> HIDE DEF a, b, half
        <5>2. norm' = acc' /\ acc' \in Nat
          BY <3>2, <3>3, <4>1, <5>1 DEF TypeOK
        <5>3. ~TopBit(half)
          BY <3>2, <4>1, <4>2 DEF TopBit
        <5>4. ng' <=> TopBit(acc')
          BY <3>3, <3>5, <5>3, Zenon
        <5> QED  BY <5>2, <5>4 DEF TopBit
      <4>3. CASE ~(half < Half)
        <5> HIDE DEF a, b, half
        <5>1. half >= Half
          BY <3>2, <4>1, <4>3
        <5>2. ng'
          BY <3>3, <5>1, Zenon DEF TopBit
        <5>3. norm' >= Half
          BY <3>2, <3>3, <4>1, <5>1 DEF TypeOK
        <5> QED  BY <5>2, <5>3
      <4> QED  BY <4>2, <4>3
    <3> QED  BY <3>4, <3>5
  <2>8. CASE VerifierDecide
    BY <2>8 DEF VerifierDecide
  <2>9. CASE UNCHANGED vars
    BY <2>9 DEF vars
  <2> QED  BY <2>3, <2>4, <2>5, <2>6, <2>7, <2>8, <2>9 DEF Next
<1> QED  BY <1>1, <1>2, TypeCorrect, PTL DEF Spec

(* No overflow of either test is lost.                                     *)
THEOREM NothingForgottenHolds == Spec => []NothingForgotten
<1>1. IInv => NothingForgotten
  BY DEF IInv
<1> QED  BY <1>1, Invariance, PTL

(* Signer and verifier decide exactly "norm <= Bound".                     *)
THEOREM ExactDecisionsHold == Spec => ExactDecisions
<1> DEFINE A == /\ SignerDecide => (signerOk' <=> norm <= Bound)
                /\ VerifierDecide => (verifierOk' <=> norm <= Bound)
<1>1. IInv /\ TypeOK /\ [Next]_vars => [A]_vars
  <2> SUFFICES ASSUME IInv, TypeOK PROVE A
    OBVIOUS
  <2>1. pc # "done" => (Saturate(acc, ng) <= Bound <=> norm <= Bound)
    BY DEF IInv, NothingForgotten, Unsaturated, Saturate, TypeOK
  <2> QED  BY <2>1 DEF SignerDecide, VerifierDecide
<1> QED  BY <1>1, Invariance, TypeCorrect, PTL DEF Spec, ExactDecisions

----------------------------------------------------------------------------
(* The two tests add the same squares in different orders and in           *)
(* different pieces.  PartialSums(s)[n] is the exact sum of the first n    *)
(* squares of s; in each pass, norm is made of such sums.                  *)
PartialSums(s) ==
  CHOOSE f \in [Nat -> Nat] :
    /\ f[0] = 0
    /\ \A n \in 0 .. N - 1 : f[n + 1] = f[n] + s[n + 1] * s[n + 1]

Norm == PartialSums(s1)[N] + PartialSums(s2)[N]

Progress ==
  norm = CASE pc = "signer_s1" -> PartialSums(s1)[u - 1]
           [] pc = "signer_s2" -> PartialSums(s1)[N] + PartialSums(s2)[u - 1]
           [] pc = "verifier"  -> PartialSums(s1)[u - 1] + PartialSums(s2)[u - 1]
           [] OTHER -> norm

Decided ==
  /\ pc \in {"verifier", "done"} => (signerOk <=> Norm <= Bound)
  /\ pc = "done" => (verifierOk <=> Norm <= Bound)

(* The sums of the first n squares exist and add one square at a time.     *)
LEMMA PartialSumsExact ==
  ASSUME NEW s \in [1 .. N -> Coeffs]
  PROVE  /\ PartialSums(s) \in [Nat -> Nat]
         /\ PartialSums(s)[0] = 0
         /\ \A n \in 1 .. N :
              PartialSums(s)[n] = PartialSums(s)[n - 1] + s[n] * s[n]
<1> DEFINE sqr == [n \in Nat |-> IF n + 1 \in 1 .. N THEN s[n + 1] * s[n + 1] ELSE 0]
           G == [n \in Nat |-> [a \in Nat |-> a + sqr[n]]]
<1>1. sqr \in [Nat -> Nat]
  <2>1. \A n \in 1 .. N : s[n] \in Coeffs
    OBVIOUS
  <2>2. \A n \in 1 .. N : s[n] * s[n] \in Nat
    BY <2>1, SquareType
  <2> QED  BY <2>2
<1>2. IsStep(G, Nat)
  <2> HIDE DEF sqr
  <2>1. \A n \in Nat : sqr[n] \in Nat
    BY <1>1
  <2>2. \A n \in Nat : [a \in Nat |-> a + sqr[n]] \in [Nat -> Nat]
    BY <2>1
  <2> QED  BY <2>2 DEF IsStep
<1>3. PICK f : Solves(f, Nat, 0, G)
  <2> HIDE DEF G
  <2> QED  BY <1>2, RecursiveDefinition
<1>4. \A n \in 0 .. N - 1 : f[n + 1] = f[n] + s[n + 1] * s[n + 1]
  <2> SUFFICES ASSUME NEW n \in 0 .. N - 1
               PROVE  f[n + 1] = f[n] + s[n + 1] * s[n + 1]
    OBVIOUS
  <2>1. G[n][f[n]] = f[n] + sqr[n]
    <3> HIDE DEF sqr
    <3> QED  BY <1>3 DEF Solves
  <2>2. sqr[n] = s[n + 1] * s[n + 1]
    OBVIOUS
  <2> HIDE DEF G, sqr
  <2> QED  BY <1>3, <2>1, <2>2 DEF Solves
<1>5. \E g \in [Nat -> Nat] :
        /\ g[0] = 0
        /\ \A n \in 0 .. N - 1 : g[n + 1] = g[n] + s[n + 1] * s[n + 1]
  BY <1>3, <1>4 DEF Solves
<1>6. /\ PartialSums(s) \in [Nat -> Nat]
      /\ PartialSums(s)[0] = 0
      /\ \A n \in 0 .. N - 1 :
           PartialSums(s)[n + 1] = PartialSums(s)[n] + s[n + 1] * s[n + 1]
  BY <1>5 DEF PartialSums
<1>7. ASSUME NEW n \in 1 .. N
      PROVE  PartialSums(s)[n] = PartialSums(s)[n - 1] + s[n] * s[n]
  <2>1. n - 1 \in 0 .. N - 1 /\ (n - 1) + 1 = n
    OBVIOUS
  <2> QED  BY <1>6, <2>1
<1> QED  BY <1>6, <1>7

(* Where each test stands in the sums, and what it decided from them.      *)
LEMMA SumsFollowed == Spec => [](Progress /\ Decided)
<1>1. Init => Progress /\ Decided
  <2> SUFFICES ASSUME Init PROVE Progress /\ Decided
    OBVIOUS
  <2>1. PartialSums(s1)[0] = 0
    BY PartialSumsExact DEF Init
  <2> QED  BY <2>1 DEF Init, Progress, Decided
<1>2. Progress /\ Decided /\ IInv /\ TypeOK /\ [Next]_vars => (Progress /\ Decided)'
  <2> SUFFICES ASSUME Progress, Decided, IInv, TypeOK, [Next]_vars
               PROVE  Progress' /\ Decided'
    OBVIOUS
  <2> DEFINE P == PartialSums(s1)
             Q == PartialSums(s2)
  <2>1. /\ P \in [Nat -> Nat] /\ P[0] = 0
        /\ Q \in [Nat -> Nat] /\ Q[0] = 0
        /\ \A n \in 1 .. N : P[n] = P[n - 1] + s1[n] * s1[n]
        /\ \A n \in 1 .. N : Q[n] = Q[n - 1] + s2[n] * s2[n]
    BY PartialSumsExact DEF TypeOK
  <2>2. \A n \in 1 .. N : s1[n] * s1[n] \in Nat /\ s2[n] * s2[n] \in Nat
    <3>1. \A n \in 1 .. N : s1[n] \in Coeffs /\ s2[n] \in Coeffs
      BY DEF TypeOK
    <3> QED  BY <3>1, SquareType
  <2>3. u \in 1 .. N + 1 /\ norm \in Nat /\ (u <= N => u \in 1 .. N)
    BY DEF TypeOK
  <2>4. Norm = P[N] + Q[N]
    BY DEF Norm
  <2>5. norm = CASE pc = "signer_s1" -> P[u - 1]
                 [] pc = "signer_s2" -> P[N] + Q[u - 1]
                 [] pc = "verifier"  -> P[u - 1] + Q[u - 1]
                 [] OTHER -> norm
    BY DEF Progress
  <2>6. UNCHANGED <<s1, s2>> =>
          /\ Norm' = Norm
          /\ Progress' <=>
               norm' = CASE pc' = "signer_s1" -> P[u' - 1]
                         [] pc' = "signer_s2" -> P[N] + Q[u' - 1]
                         [] pc' = "verifier"  -> P[u' - 1] + Q[u' - 1]
                         [] OTHER -> norm'
    BY DEF Norm, Progress
  <2>7. pc # "done" => (Saturate(acc, ng) <= Bound <=> norm <= Bound)
    BY DEF IInv, NothingForgotten, Unsaturated, Saturate, TypeOK
  <2> HIDE DEF P, Q, Norm
  <2>8. CASE SignerAddS1
    <3>1. /\ u \in 1 .. N /\ pc = "signer_s1" /\ pc' = pc /\ u' = u + 1
          /\ norm' = norm + s1[u] * s1[u] /\ UNCHANGED <<s1, s2>>
      BY <2>8, <2>3 DEF SignerAddS1
    <3>2. norm' = P[u' - 1]
      BY <3>1, <2>1, <2>3, <2>5
    <3> QED  BY <3>1, <3>2, <2>6 DEF Decided
  <2>9. CASE SignerHandOver
    <3>1. /\ u = N + 1 /\ pc = "signer_s1" /\ pc' = "signer_s2" /\ u' = 1
          /\ norm' = norm /\ UNCHANGED <<s1, s2>>
      BY <2>9 DEF SignerHandOver
    <3>2. norm' = P[N] + Q[u' - 1]
      BY <3>1, <2>1, <2>3, <2>5
    <3> QED  BY <3>1, <3>2, <2>6 DEF Decided
  <2>10. CASE SignerAddS2
    <3>1. /\ u \in 1 .. N /\ pc = "signer_s2" /\ pc' = pc /\ u' = u + 1
          /\ norm' = norm + s2[u] * s2[u] /\ UNCHANGED <<s1, s2>>
      BY <2>10, <2>3 DEF SignerAddS2
    <3>2. norm' = P[N] + Q[u' - 1]
      BY <3>1, <2>1, <2>2, <2>3, <2>5
    <3> QED  BY <3>1, <3>2, <2>6 DEF Decided
  <2>11. CASE SignerDecide
    <3>1. /\ u = N + 1 /\ pc = "signer_s2" /\ pc' = "verifier" /\ u' = 1
          /\ norm' = 0 /\ UNCHANGED <<s1, s2>>
      BY <2>11 DEF SignerDecide
    <3>2. norm = Norm
      BY <3>1, <2>4, <2>5
    <3>3. signerOk' <=> Norm <= Bound
      BY <2>11, <3>1, <3>2, <2>7 DEF SignerDecide
    <3>4. norm' = P[u' - 1] + Q[u' - 1]
      BY <3>1, <2>1
    <3> QED  BY <3>1, <3>3, <3>4, <2>6 DEF Decided
  <2>12. CASE VerifierAdd
    <3>1. /\ u \in 1 .. N /\ pc = "verifier" /\ pc' = pc /\ u' = u + 1
          /\ norm' = norm + s1[u] * s1[u] + s2[u] * s2[u]
          /\ UNCHANGED <<s1, s2, signerOk>>
      BY <2>12, <2>3 DEF VerifierAdd
    <3>2. norm' = P[u' - 1] + Q[u' - 1]
      BY <3>1, <2>1, <2>2, <2>3, <2>5
    <3> QED  BY <3>1, <3>2, <2>6 DEF Decided
  <2>13. CASE VerifierDecide
    <3>1. /\ u = N + 1 /\ pc = "verifier" /\ pc' = "done"
          /\ UNCHANGED <<s1, s2, signerOk, norm>>
      BY <2>13 DEF VerifierDecide
    <3>2. norm = Norm
      BY <3>1, <2>4, <2>5
    <3>3. verifierOk' <=> Norm <= Bound
      BY <2>13, <3>1, <3>2, <2>7 DEF VerifierDecide
    <3> QED  BY <3>1, <3>3, <2>6 DEF Decided
  <2>14. CASE UNCHANGED vars
    BY <2>14, <2>5, <2>6 DEF vars, Decided
  <2> QED  BY <2>8, <2>9, <2>10, <2>11, <2>12, <2>13, <2>14 DEF Next
<1> QED  BY <1>1, <1>2, Invariance, TypeCorrect, PTL DEF Spec

(* Two tests that add up the same vector differently decide the same.      *)
THEOREM SignerVerifierAgreeHolds == Spec => []SignerVerifierAgree
<1>1. Decided => SignerVerifierAgree
  BY DEF Decided, SignerVerifierAgree
<1> QED  BY <1>1, SumsFollowed, PTL
=============================================================================
