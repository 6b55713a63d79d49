------------------------------ MODULE MCBezout ------------------------------
(* Instance of Bezout: three words of three bits.  Small resultants leave  *)
(* room for the solution; those near the limit overflow at every place     *)
(* the code checks.                                                        *)
EXTENDS Bezout

(* A resultant of 1 is the subject of BezoutOne.cfg.                       *)
SomeResultants == {0} \cup 2 .. 63 \cup 250 .. 255 \cup 505 .. 511
SmallResultants == 1 .. 15
=============================================================================
