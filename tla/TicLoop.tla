------------------------------ MODULE TicLoop ------------------------------
(***************************************************************************)
(* doom_update (PureDOOM.h): for every tic that has come due a step of the *)
(* wipe, or D_DoomLoop, which builds the player's command, runs it and     *)
(* draws the frame.  singletics is set, so TryRunTics is not used; yet     *)
(* NetUpdate, called while the frame is drawn, counts tics and builds      *)
(* commands of its own, into localcmds, which nobody reads.  The player's  *)
(* command is built for tic maketic, and the command of tic gametic is     *)
(* run, out of a ring that both share.                                     *)
(***************************************************************************)
EXTENDS Integers

CONSTANTS
    BACKUPTICS,     \* size of the ring of commands, 12
    MaxTime         \* bound on the tics of a behaviour

ASSUME TicLoopAssumption == BACKUPTICS \in Nat /\ BACKUPTICS >= 4 /\ MaxTime \in Nat

VARIABLES
    time,               \* what I_GetTime returns
    fell,               \* whether it has fallen back: Clock has the details
    lastUpdate,         \* last_update_time, of doom_update
    update,             \* "out", or where doom_update is: "loop" or "display"
    updateNow, due,     \* its locals now and delta_time
    gametime, gametic, maketic,
    netcmds,            \* for which tic the command in a slot was built
    wipes,              \* is_wiping_screen
    ran                 \* history: the last tic run, and the command it was run with

ticVars == <<time, fell, lastUpdate, update, updateNow, due, gametime, gametic,
             maketic, netcmds, wipes, ran>>

Slot(n) == n % BACKUPTICS
Cleared == -1           \* ticcmd_t of zeros: no key, no button
Least(a, b) == IF a <= b THEN a ELSE b

TicLoopInit ==
    /\ time = 0 /\ fell = FALSE /\ lastUpdate = 0 /\ update = "out"
    /\ updateNow = 0 /\ due = 0
    /\ gametime = 0 /\ gametic = 0 /\ maketic = 0
    /\ netcmds = [i \in 0 .. BACKUPTICS - 1 |-> Cleared]
    /\ wipes = FALSE
    /\ ran = [tic |-> Cleared, command |-> Cleared, built |-> Cleared]

-----------------------------------------------------------------------------
(* The counter goes on whatever the program does; the clock starts again   *)
(* from 0 when I_GetTime finds the first second over.                      *)
TimePasses ==
    /\ time < MaxTime
    /\ \/ time' = time + 1 /\ UNCHANGED fell
       \/ ~fell /\ time > 0 /\ time' = 0 /\ fell' = TRUE
    /\ UNCHANGED <<lastUpdate, update, updateNow, due, gametime, gametic, maketic,
                   netcmds, wipes, ran>>

UpdateBegins ==
    /\ update = "out"
    /\ update' = "loop" /\ updateNow' = time /\ due' = time - lastUpdate
    /\ UNCHANGED <<time, fell, lastUpdate, gametime, gametic, maketic, netcmds, wipes, ran>>

UpdateEnds ==
    /\ update = "loop" /\ due <= 0
    /\ update' = "out" /\ lastUpdate' = updateNow
    /\ UNCHANGED <<time, fell, updateNow, due, gametime, gametic, maketic, netcmds,
                   wipes, ran>>

Melt ==                                                     \* D_UpdateWipe
    /\ update = "loop" /\ due > 0 /\ wipes
    /\ due' = due - 1 /\ wipes' \in BOOLEAN
    /\ UNCHANGED <<time, fell, lastUpdate, update, updateNow, gametime, gametic,
                   maketic, netcmds, ran>>

(* D_DoomLoop, with G_BuildTiccmd and G_Ticker's copy of the command.      *)
D_DoomLoop ==
    /\ update = "loop" /\ due > 0 /\ ~wipes
    /\ due' = due - 1
    /\ netcmds' = [netcmds EXCEPT ![Slot(maketic)] = maketic]
    /\ ran' = [tic |-> gametic, command |-> netcmds'[Slot(gametic)], built |-> maketic]
    /\ gametic' = gametic + 1 /\ maketic' = maketic + 1
    /\ update' = "display"
    /\ UNCHANGED <<time, fell, lastUpdate, updateNow, gametime, wipes>>

(* NetUpdate builds as many commands as tics have come due since its last  *)
(* call, until the ring is half full.                                      *)
(*                                                                         *)
(* Mutant: as many as have come due.                                       *)
BuiltUnbounded(newtics) == IF newtics <= 0 THEN maketic ELSE maketic + newtics
Built(newtics) ==
    LET full == gametic + BACKUPTICS \div 2 - 1
    IN  IF newtics <= 0 \/ maketic >= full THEN maketic ELSE Least(maketic + newtics, full)

NetUpdate ==
    /\ maketic' = Built(time - gametime)
    /\ gametime' = time
    /\ UNCHANGED <<time, fell, lastUpdate, updateNow, due, gametic, netcmds, ran>>

(* D_Display: four times while the view is drawn, and once in any case;    *)
(* then a wipe may start.                                                  *)
DrawView == update = "display" /\ NetUpdate /\ UNCHANGED <<update, wipes>>
FrameEnds == /\ update = "display" /\ NetUpdate
             /\ update' = "loop" /\ wipes' \in BOOLEAN

TicLoopNext ==
    TimePasses \/ UpdateBegins \/ UpdateEnds \/ Melt \/ D_DoomLoop \/ DrawView \/ FrameEnds

TicLoopSpec == TicLoopInit /\ [][TicLoopNext]_ticVars

-----------------------------------------------------------------------------
(* Although maketic runs ahead, and skips slots when it does, a tic is run *)
(* with the command built for it or, in the first round of the ring, with  *)
(* a cleared one, and never with one of an earlier round, which the player *)
(* gave twelve tics ago or more; and the same holds of the tics to come.   *)
(* Only when the clock falls back can NetUpdate miss tics, skip slots      *)
(* later, and let such a command be run.                                   *)
EarlierRound(t, command) == command >= 0 /\ command < t /\ Slot(command) = Slot(t)
Good(t, command) ==
    \/ command \in {t, Cleared}
    \/ fell /\ EarlierRound(t, command)
OwnCommand ==
    /\ Good(ran.tic, ran.command)
    /\ \A t \in gametic .. maketic - 1 : Good(t, netcmds[Slot(t)])

(* "singletic update is syncronous": a tic is run with the command that    *)
(* D_DoomLoop has just built from the keys.  It is not: after the first    *)
(* frames every key reaches the game five tics late.                       *)
Synchronous == ran.command = ran.built

=============================================================================
