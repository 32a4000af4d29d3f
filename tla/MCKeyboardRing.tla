--------------------------- MODULE MCKeyboardRing ---------------------------
(* Instances of KeyboardRing for TLC: the press and the release of one key  *)
(* and the press of another, enough scancodes to go twice round the ring.   *)
EXTENDS KeyboardRing

MCScancodes == {1, 2, 129}

=============================================================================
