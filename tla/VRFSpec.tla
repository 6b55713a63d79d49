------------------------------ MODULE VRFSpec ------------------------------
(***************************************************************************)
(* What a verifiable random function promises its users.                   *)
(*                                                                         *)
(* A key holder evaluates the function on a message under a mode.  A       *)
(* consumer that holds a public key obtains outputs only at points the key *)
(* holder evaluated, and the output it obtains there is the function's one *)
(* value at that point, whatever happened to the proof on its way.         *)
(***************************************************************************)
CONSTANTS
  Points,  (* <<key, message, mode>> triples                               *)
  Value    (* the function: Value[p] is its output at point p              *)

VARIABLES
  evaluated,  (* points the key holder has evaluated                       *)
  outputs     (* <<point, output>> pairs consumers have accepted           *)

vars == <<evaluated, outputs>>

Init == evaluated = {} /\ outputs = {}

Evaluate(p) == evaluated' = evaluated \cup {p} /\ UNCHANGED outputs

Accept(p) ==
  /\ p \in evaluated
  /\ outputs' = outputs \cup {<<p, Value[p]>>}
  /\ UNCHANGED evaluated

Next == \E p \in Points : Evaluate(p) \/ Accept(p)

Spec == Init /\ [][Next]_vars
=============================================================================
