------------------------------- MODULE MCClock -------------------------------
(* Instances of Clock for TLC: a three-bit offset, from -4 to 3.           *)
EXTENDS Clock

MCSkews == {-4, -2, 1, 3}
=============================================================================
