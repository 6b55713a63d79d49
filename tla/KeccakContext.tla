--------------------------- MODULE KeccakContext ---------------------------
(***************************************************************************)
(* The Keccak-256 generator of crypto/keccak_prng.c: i_keccak256_init,     *)
(* inject, flip and extract.                                               *)
(*                                                                         *)
(* The input is collected in a fixed buffer and hashed once, by flip, into *)
(* a 32-byte state; output block number c is Keccak-256(state || c), and   *)
(* what a call does not take of it waits in out_buffer for the next one.   *)
(* The hash is ideal: the state is the buffer that was hashed, a block is  *)
(* the pair of state and counter.                                          *)
(*                                                                         *)
(* Calls the code refuses (return value < 0) are in the model, because     *)
(* deterministic.c goes on after a refusal.                                *)
(***************************************************************************)
EXTENDS Integers, Sequences

CONSTANTS
  Output,     (* KECCAK256_OUTPUT: 32                                      *)
  Capacity,   (* MAX_BUFFER_SIZE: 4096                                     *)
  MaxCall,    (* bound: bytes per call                                     *)
  MaxOutput   (* bound: bytes delivered between two initializations        *)

ASSUME OutputAssumption   == Output \in Nat \ {0}
ASSUME CapacityAssumption == Capacity \in Nat /\ {MaxCall, MaxOutput} \subseteq Nat

VARIABLES
  buffer,      (* buffer[0 .. buffer_len - 1]                              *)
  finalized,   (* has flip been called                                     *)
  state,       (* the buffer that was hashed into it                       *)
  counter,     (* number of the next block                                 *)
  outBuffer,   (* the block in out_buffer                                  *)
  outPos,      (* out_buffer_pos                                           *)
  outLen,      (* out_buffer_len                                           *)
  len,         (* bytes the extract call in progress has still to deliver  *)
  ret,         (* what the last call returned                              *)
  output       (* history: all bytes delivered                             *)

vars == <<buffer, finalized, state, counter, outBuffer, outPos, outLen, len, ret, output>>
outputBuffer == <<counter, outBuffer, outPos, outLen>>

Minimum(m, n) == IF m < n THEN m ELSE n

Idle == len = 0

----------------------------------------------------------------------------
Fresh ==
  /\ buffer = <<>> /\ finalized = FALSE /\ state = <<>>
  /\ counter = 0
  /\ outPos = 0 /\ outLen = 0
  /\ len = 0 /\ ret = 0
  /\ output = <<>>

Init == Fresh /\ outBuffer = <<>>

(* Deliberate bug, for the runs' mutants: out_buffer is not emptied.       *)
InitializeInput ==
  /\ Idle
  /\ buffer' = <<>> /\ finalized' = FALSE /\ state' = <<>>
  /\ ret' = 0
  /\ output' = <<>>
  /\ UNCHANGED <<outputBuffer, len>>

(* i_keccak256_init: out_buffer keeps what it held.                        *)
Initialize ==
  /\ Idle
  /\ buffer' = <<>> /\ finalized' = FALSE /\ state' = <<>>
  /\ counter' = 0
  /\ outPos' = 0 /\ outLen' = 0
  /\ ret' = 0
  /\ output' = <<>>
  /\ UNCHANGED <<outBuffer, len>>

(* i_keccak256_inject of n bytes; all bytes of the input are distinct.     *)
Inject(n) ==
  /\ Idle
  /\ ~finalized
  /\ Len(buffer) + n <= Capacity
  /\ buffer' = buffer \o [i \in 1 .. n |-> Len(buffer) + i]
  /\ ret' = 0
  /\ UNCHANGED <<finalized, state, outputBuffer, len, output>>

InjectRefused(n) ==
  /\ Idle
  /\ \/ finalized /\ ret' = -2
     \/ ~finalized /\ Len(buffer) + n > Capacity /\ ret' = -3
  /\ UNCHANGED <<buffer, finalized, state, outputBuffer, len, output>>

(* i_keccak256_flip.                                                       *)
Flip ==
  /\ Idle
  /\ ~finalized
  /\ state' = buffer
  /\ finalized' = TRUE
  /\ outPos' = 0 /\ outLen' = 0
  /\ ret' = 0
  /\ UNCHANGED <<buffer, counter, outBuffer, len, output>>

FlipRefused ==
  /\ Idle
  /\ finalized
  /\ ret' = -2
  /\ UNCHANGED <<buffer, finalized, state, outputBuffer, len, output>>

(* Deliberate bug: takes what the caller wants from a non-empty out_buffer. *)
ExtractBeyond(n) ==
  LET copy == IF outLen > outPos THEN n ELSE 0
  IN  /\ Idle
      /\ finalized
      /\ Len(output) + n <= MaxOutput
      /\ output' = output \o [i \in 1 .. copy |-> <<outBuffer, outPos + i - 1>>]
      /\ outPos' = outPos + copy
      /\ len' = n - copy
      /\ ret' = 0
      /\ UNCHANGED <<buffer, finalized, state, counter, outBuffer, outLen>>

(* i_keccak256_extract of n bytes: first what is left in out_buffer.       *)
Extract(n) ==
  LET copy == IF outLen > outPos THEN Minimum(n, outLen - outPos) ELSE 0
  IN  /\ Idle
      /\ finalized
      /\ Len(output) + n <= MaxOutput
      /\ output' = output \o [i \in 1 .. copy |-> <<outBuffer, outPos + i - 1>>]
      /\ outPos' = outPos + copy
      /\ len' = n - copy
      /\ ret' = 0
      /\ UNCHANGED <<buffer, finalized, state, counter, outBuffer, outLen>>

ExtractRefused ==
  /\ Idle
  /\ ~finalized
  /\ ret' = -2
  /\ UNCHANGED <<buffer, finalized, state, outputBuffer, len, output>>

(* Deliberate bug: the loop serves whole blocks only.                      *)
ExtractBlockWhole ==
  /\ len >= Output
  /\ outBuffer' = <<state, counter>>
  /\ outLen' = Output
  /\ output' = output \o [i \in 1 .. Output |-> <<outBuffer', i - 1>>]
  /\ outPos' = Output
  /\ counter' = counter + 1
  /\ len' = len - Output
  /\ UNCHANGED <<buffer, finalized, state, ret>>

(* One iteration of its loop: a new block.                                 *)
ExtractBlock ==
  LET copy == Minimum(len, Output) IN
  /\ len > 0
  /\ outBuffer' = <<state, counter>>
  /\ outLen' = Output
  /\ output' = output \o [i \in 1 .. copy |-> <<outBuffer', i - 1>>]
  /\ outPos' = copy
  /\ counter' = counter + 1
  /\ len' = len - copy
  /\ UNCHANGED <<buffer, finalized, state, ret>>

Next ==
  \/ Initialize
  \/ \E n \in 1 .. MaxCall : Inject(n) \/ InjectRefused(n)
  \/ Flip \/ FlipRefused
  \/ \E n \in 1 .. MaxCall : Extract(n)
  \/ ExtractRefused
  \/ ExtractBlock

(* A loop in progress is run to its end.                                   *)
Spec == Init /\ [][Next]_vars /\ WF_vars(ExtractBlock)

----------------------------------------------------------------------------
(* Properties.                                                             *)

TypeOK ==
  /\ buffer \in Seq(Nat) /\ Len(buffer) <= Capacity
  /\ finalized \in BOOLEAN
  /\ state \in Seq(Nat)
  /\ counter \in Nat
  /\ outPos \in 0 .. outLen
  /\ outLen \in {0, Output}
  /\ len \in 0 .. MaxCall
  /\ ret \in {0, -2, -3}

(* Block number n \div Output of the stream, and the offset in it.         *)
KeccakByte(input, n) == <<<<input, n \div Output>>, n % Output>>

Stream == INSTANCE ByteStream WITH
  Byte <- KeccakByte,
  absorbed <- buffer,
  phase <- IF finalized THEN "output" ELSE "input"

(* The output is the counter-mode stream of the accepted input, without a  *)
(* byte lost, repeated or taken from before a re-initialization, however   *)
(* the extract calls cut it.                                               *)
ImplementsStream == Stream!Spec

(* Every extract call returns.                                             *)
CallsReturn == []<>Idle
=============================================================================
