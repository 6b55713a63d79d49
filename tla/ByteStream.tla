----------------------------- MODULE ByteStream -----------------------------
(***************************************************************************)
(* What a hashing context promises its callers: the bytes it delivers are  *)
(* a function of the bytes it absorbed and of their position, never of how *)
(* either was cut into calls.                                              *)
(***************************************************************************)
EXTENDS Sequences, Naturals

CONSTANTS
  Byte(_, _)  (* Byte(in, n): byte n (from 0) of the output for input `in` *)

VARIABLES
  absorbed,   (* the input since the last initialization                   *)
  phase,      (* "input" or "output"                                       *)
  output      (* the bytes delivered since the last initialization         *)

vars == <<absorbed, phase, output>>

Fresh == /\ absorbed = <<>>
         /\ phase = "input"
         /\ output = <<>>

Initialize == Fresh'

(* The longer input extends the shorter one.                               *)
Absorb ==
  /\ phase = "input"
  /\ Len(absorbed) <= Len(absorbed')
  /\ absorbed = SubSeq(absorbed', 1, Len(absorbed))
  /\ UNCHANGED <<phase, output>>

Flip ==
  /\ phase = "input"
  /\ phase' = "output"
  /\ UNCHANGED <<absorbed, output>>

(* The delivered bytes continue the stream where the last ones ended.      *)
Deliver ==
  /\ phase = "output"
  /\ Len(output) <= Len(output')
  /\ output' = [n \in 1 .. Len(output') |-> Byte(absorbed, n - 1)]
  /\ UNCHANGED <<absorbed, phase>>

Next == Initialize \/ Absorb \/ Flip \/ Deliver

Spec == Fresh /\ [][Next]_vars
=============================================================================
