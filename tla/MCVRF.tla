------------------------------- MODULE MCVRF -------------------------------
(* Instance of VRF: two keys; the empty message and one longer than what a *)
(* Keccak context can still hold after the nonce (4096 - 40 bytes).        *)
EXTENDS VRF, TLC

CONSTANTS k1, k2, m0, m1, m2

TwoKeys    == {k1, k2}
LongMsgs   == {m0, m1}
LongMsgLen == m0 :> 0 @@ m1 :> 5000
TwoLongMsgs   == {m0, m1, m2}
TwoLongMsgLen == m0 :> 0 @@ m1 :> 5000 @@ m2 :> 5000
TwoVersions == {0, 1}
=============================================================================
