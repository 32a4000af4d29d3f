------------------------------ MODULE MCEngine ------------------------------
(***************************************************************************)
(* A ring of six commands and five tics; a zone of ten units, two lumps and*)
(* a texture of both, which do not fit together with a level's blocks;     *)
(* three thinkers, and levels with a door, which one line lets stay open,  *)
(* with a platform or with a crusher; three channels for three sounds of   *)
(* two things.  Of the tics of GameFlow the numbers are smaller than the   *)
(* program's, and their order is the same.                                 *)
(***************************************************************************)
EXTENDS Engine, TLC

MCLumps == {"l1", "l2"}
MCLumpUnits == [l \in MCLumps |-> IF l = "l1" THEN 1 ELSE 2]
MCPatches == <<"l1", "l2">>
MCPriority == [x \in {"sfx_pistol", "sfx_dorcls", "sfx_posit1"} |->
                  CASE x = "sfx_pistol" -> 64 [] x = "sfx_dorcls" -> 100 [] OTHER -> 98]
MCLevels == {{}, {"d1"}, {"p1"}, {"c1"}}

Symmetry == Permutations(Nodes)

=============================================================================
