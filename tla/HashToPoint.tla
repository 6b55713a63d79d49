---------------------------- MODULE HashToPoint ----------------------------
(***************************************************************************)
(* The two ways crypto/common.c turns a hash stream into a polynomial.     *)
(*                                                                         *)
(* hash_to_point_vartime rejects samples as it draws them; the signer and  *)
(* the compressed verifier use it.  hash_to_point_ct draws a fixed number  *)
(* of samples and moves the valid ones down to the front in passes of      *)
(* doubling jump width; the CT format and the coefficient calls use it.    *)
(* A deterministic signature is made with the first and, once converted to *)
(* CT, verified with the second: it verifies only because the two agree.   *)
(*                                                                         *)
(* The Keccak variants are the same code over the other context.  The      *)
(* arrays x, tt1 and tt2 are one array here, and 0xFFFF is Invalid.  A     *)
(* behaviour runs both functions on the same stream.                       *)
(***************************************************************************)
EXTENDS Integers, Sequences

CONSTANTS
  q,        (* 12289                                                       *)
  N,        (* 2^logn                                                      *)
  Over,     (* overtab[logn]: samples drawn beyond N                       *)
  Samples,  (* values of a 16-bit sample                                   *)
  Invalid   (* 0xFFFF                                                      *)

ASSUME ParameterAssumption == /\ {q, N, Over} \subseteq Nat \ {0}
                              /\ Samples \subseteq Nat
                              /\ Invalid \notin Nat

M == N + Over

Cells == 0 .. M - 1

VARIABLES
  stream,  (* the samples; vartime may want more than these M              *)
  pc,      (* the loop in progress                                         *)
  x,       (* vartime: coefficients found so far                           *)
  drawn,   (* vartime: samples drawn so far                                *)
  cells,   (* ct: the array                                                *)
  p,       (* ct: jump width of the pass                                   *)
  u,       (* ct: the cell the pass is at                                  *)
  v        (* ct: valid cells before u, where its value belongs            *)

vars == <<stream, pc, x, drawn, cells, p, u, v>>

TypeOK ==
  /\ stream \in [Cells -> Samples]
  /\ pc \in {"vartime", "fill", "squeeze", "done"}
  /\ x \in Seq(0 .. q - 1) /\ Len(x) <= N
  /\ drawn \in 0 .. M
  /\ \A i \in Cells : cells[i] = Invalid \/ cells[i] \in 0 .. q - 1
  /\ p \in Nat \ {0}
  /\ u \in 0 .. M
  /\ v \in 0 .. u

----------------------------------------------------------------------------
Accepted(w) == w < 5 * q

(* Deliberate bug, for the runs' mutants: a comparison that is off by one. *)
SubtractLate(w, m) == IF w <= m THEN w ELSE w - m

(* ct: three conditional subtractions instead of a division.               *)
Subtract(w, m) == IF w < m THEN w ELSE w - m

(* Deliberate bug: without the last subtraction.                           *)
ReducedPartly(w) ==
  IF Accepted(w) THEN Subtract(Subtract(w, 2 * q), 2 * q) ELSE Invalid

Reduced(w) ==
  IF Accepted(w) THEN Subtract(Subtract(Subtract(w, 2 * q), 2 * q), q) ELSE Invalid

Init ==
  /\ stream \in [Cells -> Samples]
  /\ pc = "vartime"
  /\ x = <<>> /\ drawn = 0
  /\ cells = [i \in Cells |-> Invalid]
  /\ p = 1 /\ u = 0 /\ v = 0

(* hash_to_point_vartime: one sample, kept if below 5q, modulo q.          *)
Draw ==
  /\ pc = "vartime"
  /\ Len(x) < N /\ drawn < M
  /\ x' = IF Accepted(stream[drawn]) THEN Append(x, stream[drawn] % q) ELSE x
  /\ drawn' = drawn + 1
  /\ UNCHANGED <<stream, pc, cells, p, u, v>>

(* vartime returns, or goes on to samples that ct never draws.             *)
VartimeLeaves ==
  /\ pc = "vartime"
  /\ Len(x) = N \/ drawn = M
  /\ pc' = "fill"
  /\ UNCHANGED <<stream, x, drawn, cells, p, u, v>>

(* hash_to_point_ct: all M samples, reduced or marked invalid.             *)
Fill ==
  /\ pc = "fill"
  /\ cells' = [i \in Cells |-> Reduced(stream[i])]
  /\ pc' = "squeeze"
  /\ UNCHANGED <<stream, x, drawn, p, u, v>>

(* The pass with jump p at cell u: a valid value whose distance to its     *)
(* place has bit p set changes places with the cell p below.               *)
Jumps == cells[u] # Invalid /\ u >= p /\ ((u - v) \div p) % 2 = 1

(* Deliberate bugs: the value is copied instead of swapped; and it counts  *)
(* as settled only when it stays.                                          *)
SqueezeCopies ==
  /\ pc = "squeeze"
  /\ p <= Over /\ u < M
  /\ cells' = IF Jumps THEN [cells EXCEPT ![u - p] = cells[u]] ELSE cells
  /\ v' = IF cells[u] # Invalid THEN v + 1 ELSE v
  /\ u' = u + 1
  /\ UNCHANGED <<stream, pc, x, drawn, p>>

SqueezeMiscounts ==
  /\ pc = "squeeze"
  /\ p <= Over /\ u < M
  /\ cells' = IF Jumps
              THEN [cells EXCEPT ![u] = cells[u - p], ![u - p] = cells[u]]
              ELSE cells
  /\ v' = IF cells[u] # Invalid /\ ~Jumps THEN v + 1 ELSE v
  /\ u' = u + 1
  /\ UNCHANGED <<stream, pc, x, drawn, p>>

Squeeze ==
  /\ pc = "squeeze"
  /\ p <= Over /\ u < M
  /\ cells' = IF Jumps
              THEN [cells EXCEPT ![u] = cells[u - p], ![u - p] = cells[u]]
              ELSE cells
  /\ v' = IF cells[u] # Invalid THEN v + 1 ELSE v
  /\ u' = u + 1
  /\ UNCHANGED <<stream, pc, x, drawn, p>>

NextPass ==
  /\ pc = "squeeze"
  /\ p <= Over /\ u = M
  /\ p' = 2 * p
  /\ u' = 0 /\ v' = 0
  /\ UNCHANGED <<stream, pc, x, drawn, cells>>

CtReturns ==
  /\ pc = "squeeze"
  /\ p > Over
  /\ pc' = "done"
  /\ UNCHANGED <<stream, x, drawn, cells, p, u, v>>

Next == Draw \/ VartimeLeaves \/ Fill \/ Squeeze \/ NextPass \/ CtReturns

Spec == Init /\ [][Next]_vars

----------------------------------------------------------------------------
(* Properties.                                                             *)

(* Whenever the signer's function is done within the samples the other one *)
(* draws, both return the same polynomial: a converted signature verifies. *)
Agreement ==
  pc = "done" /\ Len(x) = N => \A i \in 1 .. N : x[i] = cells[i - 1]

(* common.c: "in all cases where the loop decides that a value has to be   *)
(* moved down by p slots, the destination slot is 'free' (i.e. contains an *)
(* invalid value)", here also when there are too few valid values.         *)
FreeDestination ==
  [][Squeeze /\ Jumps => cells[u - p] = Invalid]_vars

(* ValidUpTo(f)[i]: the valid values in the cells of f below i, upwards.   *)
ValidUpTo(f) ==
  LET upTo[i \in 0 .. M] ==
        IF i = 0 THEN <<>>
        ELSE IF f[i - 1] = Invalid THEN upTo[i - 1] ELSE Append(upTo[i - 1], f[i - 1])
  IN  upTo

ValidOf(f) == ValidUpTo(f)[M]

(* The passes drop, repeat or overtake no value: at every moment the valid *)
(* cells, read upwards, are the valid samples in the order drawn.          *)
OrderKept ==
  pc \in {"squeeze", "done"} =>
    ValidOf(cells) = ValidOf([i \in Cells |-> IF stream[i] < 5 * q THEN stream[i] % q
                                              ELSE Invalid])
=============================================================================
