--------------------------- MODULE MCHashToPoint ---------------------------
(* Instance of HashToPoint: a sample at 3q, the largest accepted one and   *)
(* the smallest rejected one, at every place of the stream.                *)
EXTENDS HashToPoint

EdgeSamples == {3 * q, 5 * q - 1, 5 * q}
=============================================================================
