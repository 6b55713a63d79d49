------------------------- MODULE HashToPoint_proofs -------------------------
(***************************************************************************)
(* Proofs about HashToPoint, for every modulus, degree, number of samples  *)
(* and stream of samples: the passes of hash_to_point_ct lose, repeat and  *)
(* overtake no value and move values into free cells only, and both        *)
(* functions return the same polynomial.                                   *)
(***************************************************************************)
EXTENDS HashToPoint, NumberLemmas, SequenceTheorems, TLAPS

USE ParameterAssumption

Values == 0 .. q - 1

Contents == [Cells -> Values \cup {Invalid}]

(* What the samples stand for, and the valid ones among them.              *)
Sampled == [i \in Cells |-> IF stream[i] < 5 * q THEN stream[i] % q ELSE Invalid]

Found == ValidOf(Sampled)

(* The valid cells of f below n hold the elements of s in their order:     *)
(* element r is in cell pos[r].                                            *)
Placed(n, f, s, pos) ==
  /\ pos \in [1 .. Len(s) -> 0 .. n - 1]
  /\ \A r \in 1 .. Len(s) : f[pos[r]] = s[r] /\ r - 1 <= pos[r]
  /\ \A r \in 1 .. Len(s) : \A t \in r .. Len(s) : t - r <= pos[t] - pos[r]
  /\ \A i \in 0 .. n - 1 : f[i] # Invalid => \E r \in 1 .. Len(s) : pos[r] = i

Multiple(n, d) == \E k \in Nat : n = k * d

(* In the pass with jump p, the distance of every value to its place is a  *)
(* multiple of p; the first v values have been passed, and their distances *)
(* are multiples of 2p.                                                    *)
Squeezing(pos) ==
  /\ Placed(M, cells, Found, pos)
  /\ v <= Len(Found)
  /\ \A r \in 1 .. v : pos[r] < u /\ Multiple(pos[r] - (r - 1), 2 * p)
  /\ \A r \in v + 1 .. Len(Found) : u <= pos[r] /\ Multiple(pos[r] - (r - 1), p)

IInv ==
  /\ TypeOK /\ cells \in Contents
  /\ x = ValidUpTo(Sampled)[drawn]
  /\ pc \in {"vartime", "fill"} => p = 1 /\ u = 0 /\ v = 0
  /\ pc \in {"squeeze", "done"} => \E pos : Squeezing(pos)
  /\ pc = "done" => p > Over

----------------------------------------------------------------------------
(* The samples drawn and how they are reduced.                             *)

(* There is at least one cell, and the last one has a number.              *)
LEMMA CellTypes == M \in Nat \ {0} /\ N <= M /\ M = N + Over
BY DEF M

(* Three conditional subtractions compute the remainder.                   *)
LEMMA ReducedIsRemainder ==
  ASSUME NEW w \in Nat
  PROVE  /\ w % q \in Values
         /\ Reduced(w) = IF w < 5 * q THEN w % q ELSE Invalid
<1>1. w % q \in Values
  BY DEF Values
<1>2. ASSUME w < 5 * q
      PROVE  Reduced(w) = w % q
  <2> DEFINE z == Subtract(Subtract(Subtract(w, 2 * q), 2 * q), q)
  <2>1. \E k \in {0, 1, 2, 3, 4} : w = k * q + z /\ z \in 0 .. q - 1
    BY <1>2 DEF Subtract
  <2>2. PICK k \in Nat : w = k * q + z /\ z \in 0 .. q - 1
    BY <2>1
  <2> HIDE DEF z
  <2>3. w % q = z
    BY <2>2, QuotientUnique
  <2> QED  BY <1>2, <2>3 DEF Reduced, Accepted, z
<1> QED  BY <1>1, <1>2 DEF Reduced, Accepted

(* Each cell holds the reduced sample that was drawn for it, as            *)
(* hash_to_point_ct computes it.                                           *)
LEMMA SampledType ==
  ASSUME stream \in [Cells -> Samples]
  PROVE  /\ Sampled \in Contents
         /\ Sampled = [i \in Cells |-> Reduced(stream[i])]
<1>1. \A i \in Cells : stream[i] \in Nat
  OBVIOUS
<1> QED  BY <1>1, ReducedIsRemainder DEF Sampled, Contents

----------------------------------------------------------------------------
(* The valid values of an array.                                           *)

(* The recursive definition of the valid values, as equations: one more    *)
(* cell adds its value if that is valid.                                   *)
LEMMA ValidUpToStep ==
  ASSUME NEW f \in Contents
  PROVE  /\ ValidUpTo(f)[0] = <<>>
         /\ \A i \in Cells : /\ f[i] = Invalid => ValidUpTo(f)[i + 1] = ValidUpTo(f)[i]
                             /\ f[i] # Invalid =>
                                  ValidUpTo(f)[i + 1] = Append(ValidUpTo(f)[i], f[i])
         /\ \A i \in 0 .. M : ValidUpTo(f)[i] \in Seq(Values)
<1> DEFINE Step(i, s) == IF i \in Cells /\ f[i] # Invalid THEN Append(s, f[i]) ELSE s
           G == [i \in Nat |-> [s \in Seq(Values) |-> Step(i, s)]]
           Upwards(g) ==
             g = [i \in 0 .. M |->
                   IF i = 0 THEN <<>>
                   ELSE IF f[i - 1] = Invalid THEN g[i - 1] ELSE Append(g[i - 1], f[i - 1])]
           U == ValidUpTo(f)
<1>1. IsStep(G, Seq(Values))
  <2>1. \A i \in Nat : \A s \in Seq(Values) : Step(i, s) \in Seq(Values)
    BY AppendProperties DEF Contents
  <2> HIDE DEF Step
  <2> QED  BY <2>1 DEF IsStep
<1>2. PICK g : Solves(g, Seq(Values), <<>>, G)
  <2>1. <<>> \in Seq(Values)
    OBVIOUS
  <2> HIDE DEF G
  <2> QED  BY <1>1, <2>1, RecursiveDefinition
<1>3. Upwards([i \in 0 .. M |-> g[i]])
  <2> DEFINE h == [i \in 0 .. M |-> g[i]]
  <2>1. ASSUME NEW i \in 1 .. M
        PROVE  g[i] = IF f[i - 1] = Invalid THEN g[i - 1] ELSE Append(g[i - 1], f[i - 1])
    <3>1. i - 1 \in Cells /\ i - 1 \in Nat /\ (i - 1) + 1 = i
      BY CellTypes DEF Cells
    <3>2. g[i] = G[i - 1][g[i - 1]] /\ g[i - 1] \in Seq(Values)
      <4> HIDE DEF G
      <4>1. g[(i - 1) + 1] = G[i - 1][g[i - 1]] /\ g[i - 1] \in Seq(Values)
        BY <1>2, <3>1 DEF Solves
      <4> QED  BY <3>1, <4>1
    <3>3. g[i] = Step(i - 1, g[i - 1])
      <4> HIDE DEF Step
      <4> QED  BY <3>1, <3>2
    <3> QED  BY <3>1, <3>3
  <2>2. g[0] = <<>>
    BY <1>2 DEF Solves
  <2>3. ASSUME NEW i \in 0 .. M
        PROVE  h[i] = IF i = 0 THEN <<>>
                      ELSE IF f[i - 1] = Invalid THEN h[i - 1] ELSE Append(h[i - 1], f[i - 1])
    <3>1. CASE i = 0
      BY <2>2, <3>1
    <3>2. CASE i # 0
      <4>1. i \in 1 .. M /\ h[i] = g[i] /\ h[i - 1] = g[i - 1]
        BY <3>2, CellTypes
      <4> QED  BY <2>1, <3>2, <4>1
    <3> QED  BY <3>1, <3>2
  <2>4. h = [i \in 0 .. M |-> h[i]]
    OBVIOUS
  <2> HIDE DEF h
  <2> QED  BY <2>3, <2>4 DEF h
<1>4. U = CHOOSE h : Upwards(h)
  BY DEF ValidUpTo
<1>5. Upwards(U)
  <2> HIDE DEF Upwards, U
  <2> QED  BY <1>3, <1>4
<1> HIDE DEF U
<1>6. U[0] = <<>>
  BY <1>5, CellTypes
<1>7. ASSUME NEW i \in Cells
      PROVE  U[i + 1] = IF f[i] = Invalid THEN U[i] ELSE Append(U[i], f[i])
  <2>1. i + 1 \in 0 .. M /\ i + 1 # 0 /\ (i + 1) - 1 = i
    BY CellTypes DEF Cells
  <2> QED  BY <1>5, <2>1
<1> DEFINE T == {i \in Nat : i <= M => U[i] \in Seq(Values)}
<1>8. \A i \in Nat : i \in T
  <2>1. 0 \in T
    <3>1. U[0] \in Seq(Values)
      BY <1>6, EmptySeq
    <3> QED  BY <3>1
  <2>2. ASSUME NEW i \in Nat, i \in T
        PROVE  i + 1 \in T
    <3> SUFFICES ASSUME i + 1 <= M
                 PROVE  U[i + 1] \in Seq(Values)
      OBVIOUS
    <3>1. i \in Cells /\ U[i] \in Seq(Values)
      BY <2>2, CellTypes DEF Cells
    <3>2. CASE f[i] = Invalid
      BY <1>7, <3>1, <3>2
    <3>3. CASE f[i] # Invalid
      <4>1. f[i] \in Values /\ U[i + 1] = Append(U[i], f[i])
        BY <1>7, <3>1, <3>3 DEF Contents
      <4> QED  BY <3>1, <4>1, AppendProperties
    <3> QED  BY <3>2, <3>3
  <2> HIDE DEF T
  <2> QED  BY <2>1, <2>2, Induction
<1>9. \A i \in 0 .. M : U[i] \in Seq(Values)
  BY <1>8, CellTypes
<1>10. \A i \in Cells : /\ f[i] = Invalid => U[i + 1] = U[i]
                        /\ f[i] # Invalid => U[i + 1] = Append(U[i], f[i])
  BY <1>7
<1> HIDE DEF T
<1> QED  BY <1>6, <1>9, <1>10 DEF U

(* Every array has its valid values in some cells.                         *)
LEMMA PlacedExists ==
  ASSUME NEW f \in Contents
  PROVE  \E pos : Placed(M, f, ValidOf(f), pos)
<1> DEFINE U == ValidUpTo(f)
           T == {n \in Nat : n <= M => \E pos : Placed(n, f, U[n], pos)}
<1>1. 0 \in T
  <2>1. Placed(0, f, U[0], <<>>)
    <3>1. U[0] = <<>> /\ Len(<<>>) = 0
      BY ValidUpToStep
    <3> HIDE DEF U
    <3>2. 1 .. 0 = {} /\ 0 .. 0 - 1 = {} /\ <<>> \in [{} -> {}]
      OBVIOUS
    <3> QED  BY <3>1, <3>2 DEF Placed
  <2> QED  BY <2>1
<1>2. ASSUME NEW n \in Nat, n \in T
      PROVE  n + 1 \in T
  <2> SUFFICES ASSUME n + 1 <= M
               PROVE  \E pos : Placed(n + 1, f, U[n + 1], pos)
    OBVIOUS
  <2> DEFINE s == U[n]
             L == Len(s)
  <2>1. n \in Cells /\ s \in Seq(Values) /\ L \in Nat /\ n \in 0 .. M
    BY ValidUpToStep, CellTypes, LenProperties DEF Cells
  <2>2. PICK pos : Placed(n, f, s, pos)
    BY <1>2, CellTypes
  <2>3. /\ f[n] = Invalid => U[n + 1] = s
        /\ f[n] # Invalid => U[n + 1] = Append(s, f[n])
    BY <2>1, ValidUpToStep
  <2> HIDE DEF U, s, L
  <2>4. /\ pos \in [1 .. L -> 0 .. n - 1]
        /\ \A r \in 1 .. L : f[pos[r]] = s[r] /\ r - 1 <= pos[r]
        /\ \A r \in 1 .. L : \A t \in r .. L : t - r <= pos[t] - pos[r]
        /\ \A i \in 0 .. n - 1 : f[i] # Invalid => \E r \in 1 .. L : pos[r] = i
    BY <2>2 DEF Placed, L
  <2>5. /\ (n + 1) - 1 = n /\ 0 .. n - 1 \subseteq 0 .. n
        /\ \A i \in 0 .. n : i \in 0 .. n - 1 \/ i = n
    OBVIOUS
  <2>6. CASE f[n] = Invalid
    <3>1. pos \in [1 .. L -> 0 .. n]
      BY <2>4, <2>5
    <3>2. \A i \in 0 .. n : f[i] # Invalid => \E r \in 1 .. L : pos[r] = i
      BY <2>4, <2>5, <2>6
    <3>3. Placed(n + 1, f, s, pos)
      BY <2>4, <2>5, <3>1, <3>2 DEF Placed, L
    <3> QED  BY <2>3, <2>6, <3>3
  <2>7. CASE f[n] # Invalid
    <3> DEFINE s2 == Append(s, f[n])
               next == [r \in 1 .. L + 1 |-> IF r <= L THEN pos[r] ELSE n]
    <3>1. f[n] \in Values
      BY <2>1, <2>7 DEF Contents
    <3>2. /\ Len(s2) = L + 1 /\ s2[L + 1] = f[n]
          /\ \A r \in 1 .. L : s2[r] = s[r]
      BY <2>1, <3>1, AppendProperties DEF L
    <3>3. \A r \in 1 .. L : pos[r] \in 0 .. n - 1
      BY <2>4
    <3>4. /\ \A r \in 1 .. L : next[r] = pos[r]
          /\ next[L + 1] = n
          /\ \A r \in 1 .. L + 1 : r \in 1 .. L \/ r = L + 1
      BY <2>1
    <3>5. next \in [1 .. L + 1 -> 0 .. n]
      BY <2>1, <2>5, <3>3
    <3> HIDE DEF next, s2
    <3>6. \A r \in 1 .. L : L - r <= n - 1 - pos[r]
      <4> SUFFICES ASSUME NEW r \in 1 .. L
                   PROVE  L - r <= n - 1 - pos[r]
        OBVIOUS
      <4>1. L \in r .. L /\ L \in 1 .. L
        BY <2>1
      <4>2. L - r <= pos[L] - pos[r] /\ pos[L] \in 0 .. n - 1 /\ pos[r] \in 0 .. n - 1
        BY <2>4, <3>3, <4>1
      <4> QED  BY <2>1, <4>2
    <3>7. L <= n
      <4>1. CASE L = 0
        BY <4>1
      <4>2. CASE L # 0
        <5>1. L \in 1 .. L
          BY <2>1, <4>2
        <5>2. L - 1 <= pos[L] /\ pos[L] \in 0 .. n - 1
          BY <2>4, <3>3, <5>1
        <5> QED  BY <2>1, <5>2
      <4> QED  BY <4>1, <4>2
    <3>8. \A r \in 1 .. L + 1 : f[next[r]] = s2[r] /\ r - 1 <= next[r]
      <4>1. \A r \in 1 .. L : f[next[r]] = s2[r] /\ r - 1 <= next[r]
        BY <2>4, <3>2, <3>4
      <4>2. f[next[L + 1]] = s2[L + 1] /\ (L + 1) - 1 <= next[L + 1]
        BY <2>1, <3>2, <3>4, <3>7
      <4> QED  BY <3>4, <4>1, <4>2
    <3>9. ASSUME NEW r \in 1 .. L + 1, NEW t \in r .. L + 1
          PROVE  t - r <= next[t] - next[r]
      <4>1. CASE t \in 1 .. L
        <5>1. r \in 1 .. L /\ t \in r .. L
          BY <2>1, <4>1
        <5> QED  BY <2>4, <3>4, <5>1
      <4>2. CASE t = L + 1 /\ r \in 1 .. L
        <5>1. next[t] = n /\ next[r] = pos[r] /\ pos[r] \in Int /\ L - r <= n - 1 - pos[r]
          BY <3>3, <3>4, <3>6, <4>2
        <5> QED  BY <2>1, <4>2, <5>1
      <4>3. CASE t = L + 1 /\ r = L + 1
        BY <2>1, <3>4, <4>3
      <4> QED  BY <2>1, <3>4, <4>1, <4>2, <4>3
    <3>10. ASSUME NEW i \in 0 .. n, f[i] # Invalid
           PROVE  \E r \in 1 .. L + 1 : next[r] = i
      <4>1. CASE i \in 0 .. n - 1
        <5>1. PICK r \in 1 .. L : pos[r] = i
          BY <2>4, <3>10, <4>1
        <5> QED  BY <2>1, <3>4, <5>1
      <4>2. CASE i = n
        <5>1. L + 1 \in 1 .. L + 1
          BY <2>1
        <5> QED  BY <3>4, <4>2, <5>1
      <4> QED  BY <2>5, <4>1, <4>2
    <3>11. Placed(n + 1, f, s2, next)
      BY <2>5, <3>2, <3>5, <3>8, <3>9, <3>10 DEF Placed
    <3> QED  BY <2>3, <2>7, <3>11 DEF s2
  <2> QED  BY <2>6, <2>7
<1> HIDE DEF T
<1>3. M \in T
  BY <1>1, <1>2, Induction, CellTypes
<1> QED  BY <1>3, CellTypes DEF T, ValidOf

(* Wherever the values are, reading the valid cells upwards yields them in *)
(* order, and those below cell n are the first so many of them.            *)
LEMMA PlacedDetermines ==
  ASSUME NEW f \in Contents, NEW s \in Seq(Values), NEW pos, Placed(M, f, s, pos)
  PROVE  /\ ValidOf(f) = s
         /\ \A n \in 0 .. M : LET a == ValidUpTo(f)[n]
                              IN  Len(a) <= Len(s) /\ \A r \in 1 .. Len(a) : a[r] = s[r]
<1> DEFINE U == ValidUpTo(f)
           L == Len(s)
           Reads(n, c) ==
             /\ Len(U[n]) = c
             /\ \A r \in 1 .. c : U[n][r] = s[r]
             /\ \A r \in 1 .. L : r <= c <=> pos[r] < n
           T == {n \in Nat : n <= M => \E c \in 0 .. L : Reads(n, c)}
<1>1. /\ L \in Nat
      /\ pos \in [1 .. L -> Cells]
      /\ \A r \in 1 .. L : f[pos[r]] = s[r]
      /\ \A r \in 1 .. L : \A t \in r .. L : t - r <= pos[t] - pos[r]
      /\ \A i \in Cells : f[i] # Invalid => \E r \in 1 .. L : pos[r] = i
      /\ \A r \in 1 .. L : s[r] \in Values
  BY LenProperties DEF Placed, Cells
<1>2. /\ U[0] = <<>>
      /\ \A i \in Cells : /\ f[i] = Invalid => U[i + 1] = U[i]
                          /\ f[i] # Invalid => U[i + 1] = Append(U[i], f[i])
      /\ \A i \in 0 .. M : U[i] \in Seq(Values)
  BY ValidUpToStep
<1> HIDE DEF U, L
<1>3. 0 \in T
  <2>1. ASSUME NEW r \in 1 .. L
        PROVE  ~(pos[r] < 0) /\ ~(r <= 0)
    <3>1. pos[r] \in Cells
      BY <1>1
    <3> QED  BY <1>1, <3>1 DEF Cells
  <2>2. Len(U[0]) = 0 /\ 1 .. 0 = {} /\ 0 \in 0 .. L
    BY <1>1, <1>2
  <2>3. Reads(0, 0)
    BY <2>1, <2>2
  <2> HIDE DEF Reads
  <2> QED  BY <2>2, <2>3
<1>4. ASSUME NEW n \in Nat, n \in T
      PROVE  n + 1 \in T
  <2> SUFFICES ASSUME n + 1 <= M
               PROVE  \E c \in 0 .. L : Reads(n + 1, c)
    OBVIOUS
  <2>1. n \in Cells /\ n \in 0 .. M
    BY CellTypes DEF Cells
  <2>2. PICK c \in 0 .. L : Reads(n, c)
    <3> HIDE DEF Reads
    <3> QED  BY <1>4, CellTypes
  <2>3. \A r \in 1 .. L : pos[r] \in Int /\ (pos[r] < n + 1 <=> pos[r] < n \/ pos[r] = n)
    <3> SUFFICES ASSUME NEW r \in 1 .. L
                 PROVE  pos[r] \in Int /\ (pos[r] < n + 1 <=> pos[r] < n \/ pos[r] = n)
      OBVIOUS
    <3>1. pos[r] \in Cells
      BY <1>1
    <3> QED  BY <3>1 DEF Cells
  <2>4. CASE f[n] = Invalid
    <3>1. \A r \in 1 .. L : pos[r] # n
      <4>1. \A w \in Values : w # Invalid
        BY DEF Values
      <4>2. \A r \in 1 .. L : f[pos[r]] # Invalid
        BY <1>1, <4>1
      <4> QED  BY <2>4, <4>2
    <3>2. U[n + 1] = U[n]
      BY <1>2, <2>1, <2>4
    <3>3. Reads(n + 1, c)
      BY <2>2, <2>3, <3>1, <3>2
    <3> QED  BY <3>3
  <2>5. CASE f[n] # Invalid
    <3>1. PICK r \in 1 .. L : pos[r] = n
      BY <1>1, <2>1, <2>5
    <3>2. ~(r <= c)
      BY <2>2, <3>1
    <3>3. c + 1 \in 1 .. L /\ r \in c + 1 .. L
      BY <1>1, <3>2
    <3>4. r = c + 1
      <4>1. r - (c + 1) <= pos[r] - pos[c + 1] /\ pos[c + 1] \in Int
        BY <1>1, <2>3, <3>3
      <4>2. ~(pos[c + 1] < n)
        BY <2>2, <3>3
      <4> QED  BY <3>1, <3>3, <4>1, <4>2
    <3>5. f[n] = s[c + 1] /\ f[n] \in Values /\ U[n + 1] = Append(U[n], f[n])
      BY <1>1, <1>2, <2>1, <2>5, <3>1, <3>4
    <3>6. /\ Len(U[n + 1]) = c + 1
          /\ \A t \in 1 .. c + 1 : U[n + 1][t] = s[t]
      <4>1. U[n] \in Seq(Values) /\ Len(U[n]) = c
        BY <1>2, <2>1, <2>2
      <4>2. /\ Len(U[n + 1]) = c + 1
            /\ \A t \in 1 .. c : U[n + 1][t] = U[n][t]
            /\ U[n + 1][c + 1] = f[n]
        BY <3>5, <4>1, AppendProperties
      <4>3. \A t \in 1 .. c + 1 : t \in 1 .. c \/ t = c + 1
        OBVIOUS
      <4>4. \A t \in 1 .. c : U[n][t] = s[t]
        BY <2>2
      <4> QED  BY <3>5, <4>2, <4>3, <4>4
    <3>7. ASSUME NEW t \in 1 .. L
          PROVE  t <= c + 1 <=> pos[t] < n + 1
      <4>1. CASE t <= c
        BY <2>2, <2>3, <4>1
      <4>2. CASE t = c + 1
        BY <2>3, <3>1, <3>4, <4>2
      <4>3. CASE t > c + 1
        <5>1. t \in r .. L
          BY <1>1, <3>4, <4>3
        <5>2. t - r <= pos[t] - pos[r]
          BY <1>1, <5>1
        <5> QED  BY <2>3, <3>1, <3>4, <4>3, <5>2
      <4> QED  BY <4>1, <4>2, <4>3
    <3>8. Reads(n + 1, c + 1)
      BY <3>6, <3>7
    <3>9. c + 1 \in 0 .. L
      BY <3>3
    <3> HIDE DEF Reads
    <3> QED  BY <3>8, <3>9
  <2> QED  BY <2>4, <2>5
<1> HIDE DEF T
<1>5. \A n \in Nat : n \in T
  BY <1>3, <1>4, Induction
<1>6. \A n \in 0 .. M : \E c \in 0 .. L : Reads(n, c)
  <2> HIDE DEF Reads
  <2> QED  BY <1>5, CellTypes DEF T
<1>7. U[M] = s
  <2>1. PICK c \in 0 .. L : Reads(M, c)
    BY <1>6, CellTypes
  <2>2. \A r \in 1 .. L : pos[r] < M
    <3>1. \A i \in Cells : i < M
      BY CellTypes DEF Cells
    <3> QED  BY <1>1, <3>1
  <2>3. c = L
    <3>1. CASE L = 0
      BY <3>1
    <3>2. CASE L # 0
      <4>1. L \in 1 .. L
        BY <1>1, <3>2
      <4> QED  BY <1>1, <2>1, <2>2, <4>1
    <3> QED  BY <3>1, <3>2
  <2>4. U[M] \in Seq(Values) /\ Len(U[M]) = Len(s) /\ \A r \in 1 .. Len(s) : U[M][r] = s[r]
    BY <1>2, <2>1, <2>3, CellTypes DEF L
  <2> QED  BY <2>4, SeqEqual
<1>8. ASSUME NEW n \in 0 .. M
      PROVE  Len(U[n]) <= L /\ \A r \in 1 .. Len(U[n]) : U[n][r] = s[r]
  BY <1>1, <1>6
<1> QED  BY <1>7, <1>8 DEF U, L, ValidOf

----------------------------------------------------------------------------
(* One step of a pass.                                                     *)

(* The values found are reduced samples.                                   *)
LEMMA FoundType ==
  ASSUME stream \in [Cells -> Samples]
  PROVE  /\ Found \in Seq(Values) /\ Len(Found) \in Nat
         /\ \A r \in 1 .. Len(Found) : Found[r] \in Values /\ Found[r] # Invalid
<1>1. Found \in Seq(Values)
  BY SampledType, ValidUpToStep, CellTypes DEF Found, ValidOf
<1>2. Len(Found) \in Nat
  BY <1>1, LenProperties
<1>3. \A w \in Values : w # Invalid
  BY DEF Values
<1> QED  BY <1>1, <1>2, <1>3, ElementOfSeq

(* An even multiple of d that is not above h pairs of d plus one d is not  *)
(* above the h pairs.                                                      *)
LEMMA EvenBelow ==
  ASSUME NEW d \in Nat \ {0}, NEW k \in Nat, NEW h \in Nat, k * (2 * d) <= h * (2 * d) + d
  PROVE  k * (2 * d) <= h * (2 * d)
<1> DEFINE e == 2 * d
           a == k * e
           b == h * e
<1>1. e \in Nat /\ a \in Nat /\ b \in Nat /\ e > d /\ a <= b + d
  OBVIOUS
<1>2. h < k => b + e <= a
  BY <1>1, MultipleAbove
<1>3. k < h => a + e <= b
  BY <1>1, MultipleAbove
<1>4. k = h => a = b
  OBVIOUS
<1> HIDE DEF a, b, e
<1>5. a <= b
  BY <1>1, <1>2, <1>3, <1>4
<1> QED  BY <1>5 DEF a, b, e

(* Values lie at least as far apart as their ranks.                        *)
LEMMA Spacing ==
  ASSUME NEW pos, Squeezing(pos), NEW r \in 1 .. Len(Found), NEW t \in r .. Len(Found)
  PROVE  pos[r] \in 0 .. M - 1 /\ t - r <= pos[t] - pos[r]
BY DEF Squeezing, Placed

(* What the pass finds at a valid cell: it is the next value, and whether  *)
(* it jumps is the parity of its distance in units of p.                   *)
LEMMA AtValidCell ==
  ASSUME IInv, NEW pos, Squeezing(pos), u < M, cells[u] # Invalid
  PROVE  /\ v + 1 \in 1 .. Len(Found) /\ pos[v + 1] = u
         /\ \E h \in Nat : IF Jumps THEN u - v = h * (2 * p) + p
                                    ELSE u - v = h * (2 * p)
<1>1. /\ u \in Nat /\ u \in Cells /\ v \in 0 .. u /\ p \in Nat \ {0}
      /\ Len(Found) \in Nat
  BY CellTypes, FoundType DEF IInv, TypeOK, Cells
<1>2. /\ pos \in [1 .. Len(Found) -> 0 .. M - 1]
      /\ \A r \in 1 .. Len(Found) : \A t \in r .. Len(Found) : t - r <= pos[t] - pos[r]
      /\ \A i \in 0 .. M - 1 : cells[i] # Invalid => \E r \in 1 .. Len(Found) : pos[r] = i
  BY DEF Squeezing, Placed
<1>3. PICK r \in 1 .. Len(Found) : pos[r] = u
  BY <1>1, <1>2 DEF Cells
<1>4. r > v
  <2>1. \A t \in 1 .. v : pos[t] < u
    BY DEF Squeezing
  <2> QED  BY <1>1, <1>3, <2>1
<1>5. v + 1 \in 1 .. Len(Found) /\ r \in v + 1 .. Len(Found)
  BY <1>1, <1>4
<1>6. r = v + 1
  <2>1. r - (v + 1) <= pos[r] - pos[v + 1] /\ pos[v + 1] \in Int
    BY <1>1, <1>5, Spacing
  <2>2. u <= pos[v + 1]
    BY <1>1, <1>5 DEF Squeezing
  <2> QED  BY <1>1, <1>3, <1>5, <2>1, <2>2
<1>7. PICK k \in Nat : u - v = k * p
  <2>1. Multiple(pos[v + 1] - ((v + 1) - 1), p)
    BY <1>1, <1>5, <1>6 DEF Squeezing
  <2>2. pos[v + 1] - ((v + 1) - 1) = u - v
    BY <1>1, <1>3, <1>6
  <2> QED  BY <2>1, <2>2 DEF Multiple
<1>8. (u - v) \div p = k
  <2>1. (k * p + 0) \div p = k
    BY <1>1, QuotientUnique
  <2> QED  BY <1>1, <1>7, <2>1
<1>9. Jumps <=> u >= p /\ k % 2 = 1
  BY <1>8 DEF Jumps
<1>10. PICK h \in Nat : k = 2 * h \/ k = 2 * h + 1
  <2>1. k \div 2 \in Nat /\ (k = 2 * (k \div 2) \/ k = 2 * (k \div 2) + 1)
    BY ONLY k \in Nat
  <2> QED  BY <2>1
<1>11. CASE k = 2 * h
  <2>1. ~Jumps
    BY <1>9, <1>11
  <2>2. u - v = h * (2 * p)
    BY <1>1, <1>7, <1>11
  <2> QED  BY <1>3, <1>5, <1>6, <2>1, <2>2
<1>12. CASE k = 2 * h + 1
  <2>1. u - v = h * (2 * p) + p
    BY <1>1, <1>7, <1>12
  <2>2. u >= p
    <3> DEFINE a == h * (2 * p)
    <3>1. a \in Nat
      BY <1>1
    <3>2. u - v = a + p
      BY <2>1
    <3> HIDE DEF a
    <3> QED  BY <1>1, <3>1, <3>2
  <2>3. Jumps
    BY <1>9, <1>12, <2>2
  <2> QED  BY <1>3, <1>5, <1>6, <2>1, <2>3
<1> QED  BY <1>10, <1>11, <1>12

(* The values passed so far lie, by the distance in ranks, below the cell  *)
(* that a jump leads to, which is therefore free.                          *)
LEMMA JumpLandsFree ==
  ASSUME IInv, NEW pos, Squeezing(pos), u < M, Jumps
  PROVE  /\ u - p \in Cells /\ cells[u - p] = Invalid
         /\ v <= u - p /\ Multiple(u - p - v, 2 * p)
         /\ \A r \in 1 .. v : v + 1 - r <= u - p - pos[r]
<1>1. /\ u \in Nat /\ u \in Cells /\ v \in 0 .. u /\ p \in Nat \ {0} /\ v \in Nat
      /\ Len(Found) \in Nat
  BY CellTypes, FoundType DEF IInv, TypeOK, Cells
<1>2. /\ v + 1 \in 1 .. Len(Found) /\ pos[v + 1] = u
      /\ \E h \in Nat : u - v = h * (2 * p) + p
  BY AtValidCell DEF Jumps
<1>3. PICK h \in Nat : u - v = h * (2 * p) + p
  BY <1>2
<1>4. u - p - v = h * (2 * p) /\ h * (2 * p) \in Nat
  <2> DEFINE a == h * (2 * p)
  <2>1. a \in Nat /\ u - v = a + p
    BY <1>1, <1>3
  <2> HIDE DEF a
  <2>2. u - p - v = a
    BY <1>1, <2>1
  <2> QED  BY <2>1, <2>2 DEF a
<1>5. v <= u - p /\ Multiple(u - p - v, 2 * p)
  <2>1. u - p - v \in Nat
    BY <1>4
  <2> QED  BY <1>1, <1>4, <2>1 DEF Multiple
<1>6. /\ pos \in [1 .. Len(Found) -> 0 .. M - 1]
      /\ \A r \in 1 .. Len(Found) : \A t \in r .. Len(Found) : t - r <= pos[t] - pos[r]
      /\ \A i \in 0 .. M - 1 : cells[i] # Invalid => \E r \in 1 .. Len(Found) : pos[r] = i
  BY DEF Squeezing, Placed
<1>7. ASSUME NEW r \in 1 .. v
      PROVE  v + 1 - r <= u - p - pos[r]
  <2>1. r \in 1 .. Len(Found) /\ v + 1 \in r .. Len(Found)
    BY <1>1, <1>2
  <2>2. pos[r] \in Int /\ v + 1 - r <= u - pos[r]
    <3>1. pos[r] \in Int
      BY <1>6, <2>1
    <3>2. v + 1 - r <= pos[v + 1] - pos[r]
      BY <1>1, <1>6, <2>1
    <3> QED  BY <1>2, <3>1, <3>2
  <2>3. PICK k \in Nat : pos[r] - (r - 1) = k * (2 * p)
    BY DEF Squeezing, Multiple
  <2> DEFINE a == k * (2 * p)
             b == h * (2 * p)
  <2>4. a \in Int /\ b \in Int /\ pos[r] - (r - 1) = a /\ u - v = b + p /\ u - p - v = b
    BY <1>1, <1>3, <1>4, <2>3
  <2>5. a <= b + p
    <3> HIDE DEF a, b
    <3> QED  BY <1>1, <2>1, <2>2, <2>4
  <2>6. a <= b
    BY <1>1, <2>5, EvenBelow
  <2> HIDE DEF a, b
  <2> QED  BY <1>1, <2>2, <2>4, <2>6
<1>8. u - p \in Cells
  BY <1>1, <1>5, CellTypes DEF Cells
<1>9. ASSUME NEW r \in 1 .. Len(Found)
      PROVE  pos[r] # u - p
  <2>1. pos[r] \in Int
    BY <1>6
  <2>2. CASE r \in 1 .. v
    BY <1>1, <1>7, <2>1, <2>2
  <2>3. CASE r \in v + 1 .. Len(Found)
    <3>1. u <= pos[r]
      BY <2>3 DEF Squeezing
    <3> QED  BY <1>1, <2>1, <3>1
  <2> QED  BY <1>1, <2>2, <2>3
<1> QED  BY <1>5, <1>6, <1>7, <1>8, <1>9 DEF Cells

(* A step of a pass keeps the values placed.                               *)
LEMMA SqueezeKeeps ==
  ASSUME IInv, NEW pos, Squeezing(pos), Squeeze
  PROVE  (\E next : Squeezing(next))'
<1> DEFINE L == Len(Found)
<1>1. /\ u \in Cells /\ u \in Nat /\ u < M /\ v \in 0 .. u /\ v \in Nat /\ p \in Nat \ {0}
      /\ L \in Nat /\ cells \in Contents
      /\ \A r \in 1 .. L : Found[r] \in Values /\ Found[r] # Invalid
  BY CellTypes, FoundType DEF IInv, TypeOK, Cells, Squeeze
<1>2. /\ u' = u + 1 /\ Found' = Found /\ p' = p
      /\ v' = IF cells[u] # Invalid THEN v + 1 ELSE v
      /\ cells' = IF Jumps
                  THEN [cells EXCEPT ![u] = cells[u - p], ![u - p] = cells[u]]
                  ELSE cells
  BY DEF Squeeze, Found, Sampled
<1>3. /\ pos \in [1 .. L -> 0 .. M - 1]
      /\ \A r \in 1 .. L : cells[pos[r]] = Found[r] /\ r - 1 <= pos[r] /\ pos[r] \in Nat
      /\ \A i \in 0 .. M - 1 : cells[i] # Invalid => \E r \in 1 .. L : pos[r] = i
      /\ v <= L
  <2>1. v <= L /\ pos \in [1 .. L -> 0 .. M - 1]
    BY DEF Squeezing, Placed
  <2>2. \A r \in 1 .. L : cells[pos[r]] = Found[r] /\ r - 1 <= pos[r]
    BY DEF Squeezing, Placed
  <2>3. \A i \in 0 .. M - 1 : cells[i] # Invalid => \E r \in 1 .. L : pos[r] = i
    BY DEF Squeezing, Placed
  <2>4. \A r \in 1 .. L : pos[r] \in Nat
    BY <2>1
  <2> QED  BY <2>1, <2>2, <2>3, <2>4
<1>4. /\ \A r \in 1 .. v : pos[r] < u /\ Multiple(pos[r] - (r - 1), 2 * p)
      /\ \A r \in v + 1 .. L : u <= pos[r] /\ Multiple(pos[r] - (r - 1), p)
  BY DEF Squeezing
<1> HIDE DEF L
<1>5. CASE cells[u] = Invalid
  <2>1. cells' = cells /\ v' = v
    BY <1>2, <1>5 DEF Jumps
  <2>2. Placed(M, cells', Found, pos)
    BY <2>1 DEF Squeezing
  <2>3. \A r \in 1 .. v : pos[r] < u + 1
    BY <1>1, <1>3, <1>4
  <2>4. ASSUME NEW r \in v + 1 .. L
        PROVE  u + 1 <= pos[r]
    <3>1. r \in 1 .. L /\ u <= pos[r]
      BY <1>1, <1>4
    <3>2. pos[r] # u
      BY <1>1, <1>3, <1>5, <3>1
    <3> QED  BY <1>1, <1>3, <3>1, <3>2
  <2>5. Squeezing(pos)'
    BY <1>2, <1>3, <1>4, <2>1, <2>2, <2>3, <2>4 DEF Squeezing, L
  <2> QED  BY <2>5
<1>6. CASE cells[u] # Invalid /\ ~Jumps
  <2>1. cells' = cells /\ v' = v + 1
    BY <1>2, <1>6
  <2>2. Placed(M, cells', Found, pos)
    BY <2>1 DEF Squeezing
  <2>3. /\ v + 1 \in 1 .. L /\ pos[v + 1] = u
        /\ \E h \in Nat : u - v = h * (2 * p)
    BY <1>1, <1>6, AtValidCell DEF L
  <2>4. Multiple(pos[v + 1] - ((v + 1) - 1), 2 * p)
    <3>1. pos[v + 1] - ((v + 1) - 1) = u - v
      BY <1>1, <2>3
    <3> QED  BY <2>3, <3>1 DEF Multiple
  <2>5. \A r \in 1 .. v + 1 : pos[r] < u + 1 /\ Multiple(pos[r] - (r - 1), 2 * p)
    <3> SUFFICES ASSUME NEW r \in 1 .. v + 1
                 PROVE  pos[r] < u + 1 /\ Multiple(pos[r] - (r - 1), 2 * p)
      OBVIOUS
    <3>1. CASE r \in 1 .. v
      <4>1. r \in 1 .. L
        BY <1>1, <1>3, <3>1
      <4> QED  BY <1>1, <1>3, <1>4, <3>1, <4>1
    <3>2. CASE r = v + 1
      BY <1>1, <2>3, <2>4, <3>2
    <3> QED  BY <1>1, <3>1, <3>2
  <2>6. ASSUME NEW r \in v + 1 + 1 .. L
        PROVE  u + 1 <= pos[r] /\ Multiple(pos[r] - (r - 1), p)
    <3>1. r \in v + 1 .. L /\ v + 1 \in 1 .. L /\ r >= v + 2
      BY <1>1, <2>3
    <3>2. r - (v + 1) <= pos[r] - pos[v + 1]
      BY <3>1, Spacing DEF L
    <3>3. u + 1 <= pos[r]
      <4>1. r \in 1 .. L
        BY <1>1, <3>1
      <4>2. pos[r] \in Nat
        BY <1>3, <4>1
      <4> QED  BY <1>1, <2>3, <3>1, <3>2, <4>2
    <3> QED  BY <1>4, <3>1, <3>3
  <2>7. v + 1 <= L
    BY <1>1, <2>3
  <2>8. Squeezing(pos)'
    BY <1>2, <2>1, <2>2, <2>5, <2>6, <2>7 DEF Squeezing, L
  <2> QED  BY <2>8
<1>7. CASE Jumps
  <2> PICK next : next = [pos EXCEPT ![v + 1] = u - p]
    OBVIOUS
  <2>1. /\ v + 1 \in 1 .. L /\ pos[v + 1] = u /\ cells[u] # Invalid
    BY <1>1, <1>7, AtValidCell DEF Jumps, L
  <2>2. /\ u - p \in Cells /\ cells[u - p] = Invalid
        /\ v <= u - p /\ Multiple(u - p - v, 2 * p)
        /\ \A r \in 1 .. v : v + 1 - r <= u - p - pos[r]
    BY <1>1, <1>7, JumpLandsFree
  <2>3. /\ v' = v + 1
        /\ cells' = [cells EXCEPT ![u] = cells[u - p], ![u - p] = cells[u]]
    BY <1>2, <1>7, <2>1
  <2>4. /\ cells'[u - p] = cells[u] /\ cells'[u] = Invalid
        /\ \A i \in Cells \ {u, u - p} : cells'[i] = cells[i]
    BY <1>1, <2>2, <2>3 DEF Contents
  <2>5. /\ next \in [1 .. L -> 0 .. M - 1]
        /\ next[v + 1] = u - p
        /\ \A r \in 1 .. L : r # v + 1 => next[r] = pos[r]
    BY <1>3, <2>1, <2>2 DEF Cells
  <2>6. \A r \in v + 2 .. L : u + 1 <= pos[r] /\ r \in 1 .. L /\ r - (v + 1) <= pos[r] - u
    <3> SUFFICES ASSUME NEW r \in v + 2 .. L
                 PROVE  u + 1 <= pos[r] /\ r \in 1 .. L /\ r - (v + 1) <= pos[r] - u
      OBVIOUS
    <3>1. r \in v + 1 .. L /\ r \in 1 .. L
      BY <1>1
    <3>2. r - (v + 1) <= pos[r] - pos[v + 1] /\ pos[r] \in Nat
      BY <1>3, <2>1, <3>1, Spacing DEF L
    <3> QED  BY <1>1, <2>1, <3>1, <3>2
  <2>7. \A r \in 1 .. v : pos[r] < u - p /\ pos[r] \in Nat /\ r \in 1 .. L
    <3> SUFFICES ASSUME NEW r \in 1 .. v
                 PROVE  pos[r] < u - p /\ pos[r] \in Nat /\ r \in 1 .. L
      OBVIOUS
    <3>1. r \in 1 .. L
      BY <1>1, <1>3
    <3>2. pos[r] \in Nat /\ v + 1 - r <= u - p - pos[r]
      BY <1>3, <2>2, <3>1
    <3> QED  BY <1>1, <3>1, <3>2
  <2>8. \A r \in 1 .. L : r \in 1 .. v \/ r = v + 1 \/ r \in v + 2 .. L
    BY <1>1
  <2>9. \A r \in 1 .. L : cells'[next[r]] = Found[r] /\ r - 1 <= next[r]
    <3> SUFFICES ASSUME NEW r \in 1 .. L
                 PROVE  cells'[next[r]] = Found[r] /\ r - 1 <= next[r]
      OBVIOUS
    <3>1. CASE r = v + 1
      <4>1. cells'[next[r]] = cells[pos[r]] /\ next[r] = u - p
        BY <2>1, <2>4, <2>5, <3>1
      <4> QED  BY <1>1, <1>3, <2>2, <3>1, <4>1
    <3>2. CASE r # v + 1
      <4>1. next[r] = pos[r] /\ pos[r] \in Cells /\ pos[r] # u /\ pos[r] # u - p
        <5>1. next[r] = pos[r] /\ pos[r] \in Cells /\ pos[r] \in Nat
          BY <1>3, <2>5, <3>2 DEF Cells
        <5>2. CASE r \in 1 .. v
          <6>1. pos[r] < u - p
            BY <2>7, <5>2
          <6> QED  BY <1>1, <5>1, <6>1
        <5>3. CASE r \in v + 2 .. L
          <6>1. u + 1 <= pos[r]
            BY <2>6, <5>3
          <6> QED  BY <1>1, <5>1, <6>1
        <5> QED  BY <2>8, <3>2, <5>2, <5>3
      <4> QED  BY <1>3, <2>4, <4>1
    <3> QED  BY <3>1, <3>2
  <2>10. ASSUME NEW r \in 1 .. L, NEW t \in r .. L
         PROVE  t - r <= next[t] - next[r]
    <3>1. t \in 1 .. L /\ t - r <= pos[t] - pos[r] /\ pos[r] \in Nat /\ pos[t] \in Nat
      <4>1. t \in 1 .. L
        OBVIOUS
      <4> QED  BY <1>3, <4>1, Spacing DEF L
    <3>2. CASE r # v + 1 /\ t # v + 1
      BY <2>5, <3>1, <3>2
    <3>3. CASE r = v + 1 /\ t = v + 1
      BY <1>1, <2>2, <2>5, <3>3 DEF Cells
    <3>4. CASE r = v + 1 /\ t # v + 1
      <4>1. next[r] = u - p /\ next[t] = pos[t] /\ pos[r] = u
        BY <2>1, <2>5, <3>1, <3>4
      <4> QED  BY <1>1, <3>1, <4>1
    <3>5. CASE r # v + 1 /\ t = v + 1
      <4>1. r \in 1 .. v /\ next[t] = u - p /\ next[r] = pos[r]
        BY <1>1, <2>5, <3>5
      <4>2. v + 1 - r <= u - p - pos[r]
        BY <2>2, <4>1
      <4> QED  BY <1>1, <3>1, <3>5, <4>1, <4>2
    <3> QED  BY <3>2, <3>3, <3>4, <3>5
  <2>11. ASSUME NEW i \in 0 .. M - 1, cells'[i] # Invalid
         PROVE  \E r \in 1 .. L : next[r] = i
    <3>1. CASE i = u - p
      BY <2>1, <2>5, <3>1
    <3>2. CASE i # u - p
      <4>1. i # u /\ cells[i] # Invalid
        BY <2>4, <2>11, <3>2 DEF Cells
      <4>2. PICK r \in 1 .. L : pos[r] = i
        BY <1>3, <4>1
      <4>3. r # v + 1
        BY <2>1, <4>1, <4>2
      <4> QED  BY <2>5, <4>2, <4>3
    <3> QED  BY <3>1, <3>2
  <2>12. Placed(M, cells', Found, next)
    BY <2>5, <2>9, <2>10, <2>11 DEF Placed, L
  <2>13. \A r \in 1 .. v + 1 : next[r] < u + 1 /\ Multiple(next[r] - (r - 1), 2 * p)
    <3> SUFFICES ASSUME NEW r \in 1 .. v + 1
                 PROVE  next[r] < u + 1 /\ Multiple(next[r] - (r - 1), 2 * p)
      OBVIOUS
    <3>1. CASE r \in 1 .. v
      <4>1. r \in 1 .. L /\ r # v + 1 /\ pos[r] \in Nat
        BY <1>1, <2>7, <3>1
      <4>2. next[r] = pos[r]
        BY <2>5, <4>1
      <4> QED  BY <1>1, <1>4, <3>1, <4>1, <4>2
    <3>2. CASE r = v + 1
      <4>1. next[r] = u - p /\ next[r] - (r - 1) = u - p - v /\ u - p < u + 1
        BY <1>1, <2>5, <3>2
      <4> QED  BY <2>2, <4>1
    <3> QED  BY <1>1, <3>1, <3>2
  <2>14. ASSUME NEW r \in v + 1 + 1 .. L
         PROVE  u + 1 <= next[r] /\ Multiple(next[r] - (r - 1), p)
    <3>1. r \in v + 2 .. L /\ r # v + 1 /\ r \in v + 1 .. L
      BY <1>1
    <3>2. u + 1 <= pos[r] /\ r \in 1 .. L
      BY <2>6, <3>1
    <3>3. next[r] = pos[r]
      BY <2>5, <3>1, <3>2
    <3> QED  BY <1>4, <3>1, <3>2, <3>3
  <2>15. v + 1 <= L
    BY <1>1, <2>1
  <2>16. Squeezing(next)'
    BY <1>2, <2>3, <2>12, <2>13, <2>14, <2>15 DEF Squeezing, L
  <2> QED  BY <2>16
<1> QED  BY <1>5, <1>6, <1>7

----------------------------------------------------------------------------
(* Before the first sample both functions have an empty result.            *)
LEMMA InitHolds == Init => IInv
<1> SUFFICES ASSUME Init
             PROVE  IInv
  OBVIOUS
<1>1. TypeOK
  BY CellTypes DEF Init, TypeOK
<1>2. cells \in Contents
  BY DEF Init, Contents
<1>3. x = ValidUpTo(Sampled)[drawn]
  BY SampledType, ValidUpToStep DEF Init
<1> QED  BY <1>1, <1>2, <1>3 DEF Init, IInv

(* vartime appends the sample if it is valid.                              *)
LEMMA DrawKeeps ==
  ASSUME IInv, Draw
  PROVE  IInv'
<1> DEFINE U == ValidUpTo(Sampled)
           w == stream[drawn]
<1>1. /\ pc = "vartime" /\ Len(x) < N /\ drawn < M
      /\ x' = IF Accepted(w) THEN Append(x, w % q) ELSE x
      /\ drawn' = drawn + 1
      /\ UNCHANGED <<stream, pc, cells, p, u, v>>
  BY DEF Draw
<1>2. drawn \in Cells /\ drawn \in Nat /\ drawn + 1 \in 0 .. M /\ w \in Nat /\ w % q \in Values
  <2>1. drawn \in Cells /\ drawn \in Nat /\ drawn + 1 \in 0 .. M
    BY <1>1, CellTypes DEF IInv, TypeOK, Cells
  <2>2. w \in Nat
    BY <2>1 DEF IInv, TypeOK
  <2> QED  BY <2>1, <2>2, ReducedIsRemainder
<1>3. x' = U[drawn + 1]
  <2>1. Sampled[drawn] = IF Accepted(w) THEN w % q ELSE Invalid
    BY <1>2 DEF Sampled, Accepted
  <2>2. w % q # Invalid
    BY <1>2 DEF Values
  <2>3. /\ Sampled[drawn] = Invalid => U[drawn + 1] = U[drawn]
        /\ Sampled[drawn] # Invalid => U[drawn + 1] = Append(U[drawn], Sampled[drawn])
    BY <1>2, SampledType, ValidUpToStep DEF IInv, TypeOK
  <2> QED  BY <1>1, <2>1, <2>2, <2>3 DEF IInv
<1>4. Sampled' = Sampled /\ ValidUpTo(Sampled)' = U
  BY <1>1 DEF Sampled, ValidUpTo
<1>5. x' \in Seq(0 .. q - 1) /\ Len(x') <= N
  <2>1. x \in Seq(0 .. q - 1) /\ Len(x) \in Nat
    BY LenProperties DEF IInv, TypeOK
  <2>2. N \in Nat /\ w % q \in 0 .. q - 1
    BY <1>2 DEF Values
  <2>3. Append(x, w % q) \in Seq(0 .. q - 1) /\ Len(Append(x, w % q)) = Len(x) + 1
    BY <2>1, <2>2, AppendProperties
  <2> HIDE DEF w
  <2>4. (x' = x \/ x' = Append(x, w % q)) /\ Len(x) + 1 <= N
    BY <1>1, <2>1, <2>2
  <2>5. CASE x' = x
    BY <2>1, <2>2, <2>4, <2>5
  <2>6. CASE x' = Append(x, w % q)
    BY <2>3, <2>4, <2>6
  <2> QED  BY <2>4, <2>5, <2>6
<1>6. TypeOK'
  BY <1>1, <1>2, <1>5 DEF IInv, TypeOK
<1> QED  BY <1>1, <1>3, <1>4, <1>6 DEF IInv

(* The values are in some cells when the passes start.                     *)
LEMMA FillKeeps ==
  ASSUME IInv, Fill
  PROVE  IInv'
<1>1. /\ cells' = [i \in Cells |-> Reduced(stream[i])] /\ pc' = "squeeze"
      /\ UNCHANGED <<stream, x, drawn, p, u, v>>
      /\ p = 1 /\ u = 0 /\ v = 0
  BY DEF Fill, IInv
<1>2. cells' = Sampled /\ Sampled \in Contents
  BY <1>1, SampledType DEF IInv, TypeOK
<1>3. Sampled' = Sampled /\ Found' = Found /\ ValidUpTo(Sampled)' = ValidUpTo(Sampled)
  BY <1>1 DEF Sampled, Found
<1>4. TypeOK'
  <2>1. \A i \in Cells : cells'[i] = Invalid \/ cells'[i] \in 0 .. q - 1
    BY <1>2 DEF Contents, Values
  <2> QED  BY <1>1, <2>1 DEF IInv, TypeOK
<1>5. PICK pos : Placed(M, Sampled, Found, pos)
  BY <1>2, PlacedExists DEF Found
<1>6. /\ Len(Found) \in Nat
      /\ \A r \in 1 .. Len(Found) : pos[r] \in Nat /\ r - 1 <= pos[r]
  <2>1. Len(Found) \in Nat
    BY FoundType DEF IInv, TypeOK
  <2>2. pos \in [1 .. Len(Found) -> 0 .. M - 1]
    BY <1>5 DEF Placed
  <2>3. \A r \in 1 .. Len(Found) : r - 1 <= pos[r]
    BY <1>5 DEF Placed
  <2> QED  BY <2>1, <2>2, <2>3
<1>7. \A r \in 1 .. Len(Found) : Multiple(pos[r] - (r - 1), 1)
  <2> SUFFICES ASSUME NEW r \in 1 .. Len(Found)
               PROVE  Multiple(pos[r] - (r - 1), 1)
    OBVIOUS
  <2>1. pos[r] - (r - 1) \in Nat /\ pos[r] - (r - 1) = (pos[r] - (r - 1)) * 1
    BY <1>6
  <2> QED  BY <2>1 DEF Multiple
<1>8. Squeezing(pos)'
  BY <1>1, <1>2, <1>3, <1>5, <1>6, <1>7 DEF Squeezing
<1> QED  BY <1>1, <1>2, <1>3, <1>4, <1>8 DEF IInv

(* When a pass ends all distances are multiples of 2p, which the next      *)
(* pass starts from.                                                       *)
LEMMA NextPassKeeps ==
  ASSUME IInv, NextPass
  PROVE  IInv'
<1>1. /\ pc = "squeeze" /\ u = M /\ p' = 2 * p /\ u' = 0 /\ v' = 0
      /\ UNCHANGED <<stream, pc, x, drawn, cells>>
  BY DEF NextPass
<1>2. Sampled' = Sampled /\ Found' = Found /\ ValidUpTo(Sampled)' = ValidUpTo(Sampled)
  BY <1>1 DEF Sampled, Found
<1>3. PICK pos : Squeezing(pos)
  BY <1>1 DEF IInv
<1>4. /\ Placed(M, cells, Found, pos)
      /\ \A r \in 1 .. Len(Found) : pos[r] \in 0 .. M - 1
      /\ v <= Len(Found) /\ v \in Nat /\ Len(Found) \in Nat
  <2>1. Len(Found) \in Nat /\ v \in Nat
    BY FoundType DEF IInv, TypeOK
  <2>2. Placed(M, cells, Found, pos) /\ v <= Len(Found)
    BY <1>3 DEF Squeezing
  <2>3. pos \in [1 .. Len(Found) -> 0 .. M - 1]
    BY <2>2 DEF Placed
  <2> QED  BY <2>1, <2>2, <2>3
<1>5. \A r \in 1 .. Len(Found) : 0 <= pos[r] /\ Multiple(pos[r] - (r - 1), 2 * p)
  <2> SUFFICES ASSUME NEW r \in 1 .. Len(Found)
               PROVE  0 <= pos[r] /\ Multiple(pos[r] - (r - 1), 2 * p)
    OBVIOUS
  <2>1. r \in 1 .. v
    <3>1. ~(M <= pos[r])
      BY <1>4, CellTypes
    <3>2. ~(r \in v + 1 .. Len(Found))
      BY <1>1, <1>3, <3>1 DEF Squeezing
    <3> QED  BY <1>4, <3>2
  <2> QED  BY <1>3, <1>4, <2>1 DEF Squeezing
<1>6. Squeezing(pos)'
  <2>1. 1 .. 0 = {} /\ 0 + 1 = 1
    OBVIOUS
  <2> QED  BY <1>1, <1>2, <1>4, <1>5, <2>1 DEF Squeezing
<1>7. TypeOK'
  BY <1>1 DEF IInv, TypeOK
<1> QED  BY <1>1, <1>2, <1>6, <1>7 DEF IInv

(* One step of a pass, whether it moves a value or not, keeps the          *)
(* invariant.                                                              *)
LEMMA SqueezeHolds ==
  ASSUME IInv, Squeeze
  PROVE  IInv'
<1>1. /\ pc = "squeeze" /\ u < M /\ u' = u + 1
      /\ UNCHANGED <<stream, pc, x, drawn, p>>
      /\ v' = IF cells[u] # Invalid THEN v + 1 ELSE v
      /\ cells' = IF Jumps
                  THEN [cells EXCEPT ![u] = cells[u - p], ![u - p] = cells[u]]
                  ELSE cells
  BY DEF Squeeze
<1>2. Sampled' = Sampled /\ ValidUpTo(Sampled)' = ValidUpTo(Sampled)
  BY <1>1 DEF Sampled
<1>3. PICK pos : Squeezing(pos)
  BY <1>1 DEF IInv
<1>4. (\E next : Squeezing(next))'
  BY <1>3, SqueezeKeeps
<1>5. u \in Cells /\ u \in Nat /\ v \in 0 .. u
  BY <1>1, CellTypes DEF IInv, TypeOK, Cells
<1>6. cells' \in Contents
  <2>1. CASE Jumps
    <3>1. u - p \in Cells
      BY <1>1, <1>3, <2>1, JumpLandsFree
    <3>2. cells[u] \in Values \cup {Invalid} /\ cells[u - p] \in Values \cup {Invalid}
      BY <1>5, <3>1 DEF IInv, Contents
    <3> QED  BY <1>1, <1>5, <2>1, <3>1, <3>2 DEF IInv, Contents
  <2>2. CASE ~Jumps
    BY <1>1, <2>2 DEF IInv
  <2> QED  BY <2>1, <2>2
<1>7. TypeOK'
  <2>1. \A i \in Cells : cells'[i] = Invalid \/ cells'[i] \in 0 .. q - 1
    BY <1>6 DEF Contents, Values
  <2>2. u' \in 0 .. M /\ v' \in 0 .. u'
    BY <1>1, <1>5, CellTypes
  <2> QED  BY <1>1, <2>1, <2>2 DEF IInv, TypeOK
<1> QED  BY <1>1, <1>2, <1>4, <1>6, <1>7 DEF IInv

(* Steps that change pc at most.                                           *)
LEMMA StillHolds ==
  ASSUME IInv, UNCHANGED <<stream, x, drawn, cells, p, u, v>>,
         \/ pc' = pc
         \/ pc = "vartime" /\ pc' = "fill"
         \/ pc = "squeeze" /\ p > Over /\ pc' = "done"
  PROVE  IInv'
<1>1. Sampled' = Sampled /\ Found' = Found /\ ValidUpTo(Sampled)' = ValidUpTo(Sampled)
  BY DEF Sampled, Found
<1>2. ASSUME NEW pos
      PROVE  Squeezing(pos)' <=> Squeezing(pos)
  BY <1>1 DEF Squeezing
<1>3. TypeOK'
  BY DEF IInv, TypeOK
<1>4. pc' \in {"squeeze", "done"} => (\E pos : Squeezing(pos))'
  <2>1. pc' \in {"squeeze", "done"} => \E pos : Squeezing(pos)
    BY DEF IInv
  <2> QED  BY <1>2, <2>1
<1> QED  BY <1>1, <1>3, <1>4 DEF IInv

(* Every step of the two functions keeps the invariant.                    *)
LEMMA Invariance == Spec => []IInv
<1>1. IInv /\ [Next]_vars => IInv'
  <2> SUFFICES ASSUME IInv, [Next]_vars
               PROVE  IInv'
    OBVIOUS
  <2>1. CASE Draw
    BY <2>1, DrawKeeps
  <2>2. CASE VartimeLeaves
    BY <2>2, StillHolds DEF VartimeLeaves
  <2>3. CASE Fill
    BY <2>3, FillKeeps
  <2>4. CASE Squeeze
    BY <2>4, SqueezeHolds
  <2>5. CASE NextPass
    BY <2>5, NextPassKeeps
  <2>6. CASE CtReturns
    BY <2>6, StillHolds DEF CtReturns
  <2>7. CASE UNCHANGED vars
    BY <2>7, StillHolds DEF vars
  <2> QED  BY <2>1, <2>2, <2>3, <2>4, <2>5, <2>6, <2>7 DEF Next
<1> QED  BY <1>1, InitHolds, PTL DEF Spec

----------------------------------------------------------------------------
(* The indices of both functions stay inside their arrays.                 *)
THEOREM TypeCorrect == Spec => []TypeOK
<1>1. IInv => TypeOK
  BY DEF IInv
<1> QED  BY <1>1, Invariance, PTL

(* common.c's claim about hash_to_point_ct: a value is moved down into a   *)
(* free slot, whatever the stream, the modulus and the number of samples.  *)
THEOREM FreeDestinationHolds == Spec => FreeDestination
<1>1. IInv /\ [Next]_vars => [Squeeze /\ Jumps => cells[u - p] = Invalid]_vars
  <2> SUFFICES ASSUME IInv, Squeeze, Jumps
               PROVE  cells[u - p] = Invalid
    OBVIOUS
  <2>1. u < M /\ \E pos : Squeezing(pos)
    BY DEF Squeeze, IInv
  <2> QED  BY <2>1, JumpLandsFree
<1> QED  BY <1>1, Invariance, PTL DEF Spec, FreeDestination

(* The passes of hash_to_point_ct lose, repeat and overtake no value.      *)
THEOREM OrderKeptHolds == Spec => []OrderKept
<1>1. IInv => OrderKept
  <2> SUFFICES ASSUME IInv, pc \in {"squeeze", "done"}
               PROVE  ValidOf(cells) = ValidOf(Sampled)
    BY DEF OrderKept, Sampled
  <2>1. PICK pos : Squeezing(pos)
    BY DEF IInv
  <2>2. Placed(M, cells, Found, pos)
    BY <2>1 DEF Squeezing
  <2>3. cells \in Contents /\ Found \in Seq(Values)
    BY FoundType DEF IInv, TypeOK
  <2>4. ValidOf(cells) = Found
    BY <2>2, <2>3, PlacedDetermines
  <2> QED  BY <2>4 DEF Found
<1> QED  BY <1>1, Invariance, PTL

(* hash_to_point_vartime and hash_to_point_ct return the same polynomial   *)
(* whenever the first is done within the samples that the second draws: at *)
(* the end every distance is a multiple of a jump wider than overtab, and  *)
(* at most overtab cells can lie between a value and its place.            *)
THEOREM AgreementHolds == Spec => []Agreement
<1>1. IInv => Agreement
  <2> SUFFICES ASSUME IInv, pc = "done", Len(x) = N, NEW i \in 1 .. N
               PROVE  x[i] = cells[i - 1]
    BY DEF Agreement
  <2> DEFINE L == Len(Found)
  <2>1. PICK pos : Squeezing(pos)
    BY DEF IInv
  <2>2. /\ stream \in [Cells -> Samples] /\ drawn \in 0 .. M /\ p \in Nat \ {0} /\ p > Over
        /\ x = ValidUpTo(Sampled)[drawn] /\ v \in Nat /\ v <= L
    BY <2>1 DEF IInv, TypeOK, Squeezing
  <2>3. Sampled \in Contents /\ Found \in Seq(Values) /\ L \in Nat
    BY <2>2, SampledType, FoundType
  <2>4. N <= L /\ \A r \in 1 .. N : x[r] = Found[r]
    <3>1. PICK first : Placed(M, Sampled, Found, first)
      BY <2>3, PlacedExists DEF Found
    <3>2. \A n \in 0 .. M : LET a == ValidUpTo(Sampled)[n]
                            IN  Len(a) <= Len(Found) /\ \A r \in 1 .. Len(a) : a[r] = Found[r]
      BY <2>3, <3>1, PlacedDetermines
    <3> QED  BY <2>2, <3>2
  <2>5. i \in 1 .. L /\ L \in i .. L
    BY <2>3, <2>4
  <2>6. /\ cells[pos[i]] = Found[i] /\ i - 1 <= pos[i]
        /\ pos[i] \in 0 .. M - 1 /\ pos[L] \in 0 .. M - 1
        /\ L - i <= pos[L] - pos[i]
    <3>1. Placed(M, cells, Found, pos)
      BY <2>1 DEF Squeezing
    <3>2. L \in 1 .. L
      BY <2>3, <2>5
    <3> QED  BY <2>5, <3>1, <3>2 DEF Placed
  <2>7. pos[i] - (i - 1) <= Over
    BY <2>3, <2>4, <2>6, CellTypes
  <2>8. PICK k \in Nat : pos[i] - (i - 1) = k * p
    <3>1. CASE i \in 1 .. v
      <4>1. PICK h \in Nat : pos[i] - (i - 1) = h * (2 * p)
        BY <2>1, <3>1 DEF Squeezing, Multiple
      <4>2. h * (2 * p) = (2 * h) * p /\ 2 * h \in Nat
        BY <2>2
      <4> QED  BY <4>1, <4>2
    <3>2. CASE i \in v + 1 .. L
      BY <2>1, <3>2 DEF Squeezing, Multiple
    <3> QED  BY <2>2, <2>5, <3>1, <3>2
  <2>9. k = 0
    <3>1. 0 < k => 0 * p + p <= k * p
      BY <2>2, MultipleAbove
    <3> DEFINE a == k * p
    <3>2. a <= Over /\ a \in Nat /\ (0 < k => p <= a)
      BY <2>2, <2>7, <2>8, <3>1
    <3> HIDE DEF a
    <3> QED  BY <2>2, <3>2
  <2>10. pos[i] = i - 1
    <3>1. pos[i] - (i - 1) = 0
      BY <2>2, <2>8, <2>9
    <3> QED  BY <2>6, <3>1
  <2> QED  BY <2>4, <2>6, <2>10
<1> QED  BY <1>1, Invariance, PTL
=============================================================================
