------------------------------ MODULE MCClock ------------------------------
(* An instance of Clock for TLC: three tics and seven microseconds a second, *)
(* two cycles a microsecond.                                                *)
EXTENDS Clock

MCSteps == {1, 3, 7, 20}
=============================================================================
