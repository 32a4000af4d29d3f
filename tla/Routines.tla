------------------------------ MODULE Routines ------------------------------
(***************************************************************************)
(* The parts of the kernel that share no state with anything else, and the *)
(* game clock, each explored on its own: one of them is chosen and takes   *)
(* all the steps.                                                          *)
(***************************************************************************)
EXTENDS Udivmod, MemOps, VgaScreen, Audio, PortHeap, BumpHeap, Clock

VARIABLE routine
routineVars == <<routine, divVars, memVars, vgaVars, audioVars, portVars, bumpVars, clockVars>>

RoutinesInit ==
    /\ routine \in {"division", "memory", "screen", "speaker", "port heap", "heap", "clock"}
    /\ DivInit /\ MemInit /\ ScreenInit /\ AudioInit /\ PortInit /\ BumpInit /\ ClockInit
    (* What the BIOS left in the timer matters to the speaker only.        *)
    /\ routine # "speaker" => pit.low = <<>> /\ port61 = 0

Dividing == /\ routine = "division" /\ DivNext
            /\ UNCHANGED <<routine, memVars, vgaVars, audioVars, portVars, bumpVars, clockVars>>
Copying == /\ routine = "memory" /\ MemNext
           /\ UNCHANGED <<routine, divVars, vgaVars, audioVars, portVars, bumpVars, clockVars>>
Drawing == /\ routine = "screen" /\ ScreenNext
           /\ UNCHANGED <<routine, divVars, memVars, audioVars, portVars, bumpVars, clockVars>>
Sounding == /\ routine = "speaker" /\ AudioNext
            /\ UNCHANGED <<routine, divVars, memVars, vgaVars, portVars, bumpVars, clockVars>>
Allocating == /\ routine = "port heap" /\ PortNext
              /\ UNCHANGED <<routine, divVars, memVars, vgaVars, audioVars, bumpVars, clockVars>>
Bumping == /\ routine = "heap" /\ BumpNext
           /\ UNCHANGED <<routine, divVars, memVars, vgaVars, audioVars, portVars, clockVars>>
Timing == /\ routine = "clock" /\ ClockNext
          /\ UNCHANGED <<routine, divVars, memVars, vgaVars, audioVars, portVars, bumpVars>>

(* memmove and the drawing functions are called once.                      *)
Over ==
    /\ \/ memCall # "none" /\ way = "done"
       \/ vgaPc = "done"
    /\ UNCHANGED routineVars

RoutinesNext == Dividing \/ Copying \/ Drawing \/ Sounding \/ Allocating \/ Bumping
                \/ Timing \/ Over
RoutinesSpec == RoutinesInit /\ [][RoutinesNext]_routineVars

=============================================================================
