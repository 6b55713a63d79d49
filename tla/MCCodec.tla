------------------------------- MODULE MCCodec -------------------------------
(* Bytes of 3 bits and an accumulator just long enough: 8 bits.            *)
EXTENDS Codec

CVectors == [1 .. 2 -> -12 .. 29] \cup [1 .. 4 -> {-11, -1, 0, 4, 11}]
CStrings == UNION {[1 .. k -> 0 .. 7] : k \in 1 .. 4}
=============================================================================
