---------------------------- MODULE MCKernelVfs ----------------------------
(* An instance of KernelVfs for TLC: two names, up to three saves, table    *)
(* slots for the WAD and three files.                                       *)
EXTENDS KernelVfs

MCFiles == {"doomsav0.dsg", "default.cfg"}
MCData == {"x", "y"}
MCCounts == {1, 3}
=============================================================================
