---------------------------- MODULE MCSignVerify ----------------------------
(* Instance of SignVerify: encodings shorter than, as long as and longer   *)
(* than the padded format has room for; every interesting buffer size.     *)
EXTENDS SignVerify

CONSTANT m1

SomeLengths    == {1, 2, 3}
SomeCapacities == 1 .. 5
OneMsg         == {m1}
=============================================================================
