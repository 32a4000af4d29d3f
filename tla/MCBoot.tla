------------------------------- MODULE MCBoot -------------------------------
(***************************************************************************)
(* An instance of Boot for TLC: 59 sectors before the WAD, read in seven   *)
(* chunks and a rest; the largest kernel that fits and one too large; five *)
(* sectors of WAD in six from sector 59, which carries into every address  *)
(* register; the second sector may be unreadable; keys with the bits of a  *)
(* configuration byte set and clear.                                       *)
(***************************************************************************)
EXTENDS Boot

MCKernelSizes == {58, 59}
MCBssSizes == {5}
MCWadSizes == {5}
MCKeyBits == {{}, {"xlat", "off"}}
MCUnreliable == {60}
=============================================================================
