---------------------------- MODULE MCInterrupts ----------------------------
(* An instance of Interrupts for TLC: the timer, the keyboard, the clock (the *)
(* slave's first) and the disk, which the driver polls.                     *)
EXTENDS Interrupts

MCIrqs == {0, 1, 8, 14}
=============================================================================
