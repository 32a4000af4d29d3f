----------------------------- MODULE MCRoutines -----------------------------
(***************************************************************************)
(* Five-bit division; six bytes of memory; a screen of 4 by 2 with two     *)
(* cells of margin; frequencies on both sides of either clamp, and port    *)
(* values with and without the speaker's bits; a free list heap of seven   *)
(* units; a bump heap of six cells, requests of one byte, of one cell, of  *)
(* more than one, and of more than there is; three tics and seven          *)
(* microseconds a second, two cycles a microsecond.                        *)
(***************************************************************************)
EXTENDS Routines

MCFrequencies == {0, 1, 18, 19, 880, 1760, 600000, 1193182, 1193183, 2147483647}
MCPort61Values == {0, 3, 48, 50}
MCRequests == {1, 8, 12, 100}
MCValues == {"a"}
MCSteps == {1, 3, 7, 20}

=============================================================================
