---------------------------- MODULE MCGameInput ----------------------------
(* Instances of GameInput for TLC: the two shift keys, pressed and released, *)
(* and the prefix byte 0xE0, which the kernel takes for a release of an      *)
(* unknown key.                                                             *)
EXTENDS GameInput

ShiftScancodes == {42, 170, 54, 182}
PrefixScancodes == {57, 185, 224}
=============================================================================
