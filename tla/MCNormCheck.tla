---------------------------- MODULE MCNormCheck ----------------------------
(* Instance of NormCheck: 4-bit accumulators that a vector of four pairs   *)
(* of coefficients can wrap around twice.                                  *)
EXTENDS NormCheck

SmallCoeffs == {-2, 0, 1}
=============================================================================
