------------------------------- MODULE Clock -------------------------------
(***************************************************************************)
(* Game time: custom_gettime of src/kernel_main.c reads the time stamp      *)
(* counter, I_GetTime of the engine turns seconds and microseconds into    *)
(* tics, and doom_update runs the tics that have come due since its last    *)
(* call.  Between two readings the counter advances by any amount: the main *)
(* loop takes as long as it takes.                                         *)
(***************************************************************************)
EXTENDS Integers

CONSTANTS
    CyclesPerSec,    \* 2,000,000,000
    UsecPerSec,      \* 1,000,000
    TicRate,         \* TICRATE, 35
    MaxCycles,       \* bound on the cycles of a behaviour
    Steps            \* by how much the counter may advance at a time

ASSUME ClockAssumption ==
    /\ CyclesPerSec \in Nat \ {0} /\ UsecPerSec \in Nat \ {0} /\ TicRate \in Nat \ {0}
    /\ CyclesPerSec % UsecPerSec = 0 /\ TicRate <= UsecPerSec
    /\ MaxCycles \in Nat /\ Steps \subseteq Nat \ {0}

VARIABLES
    tsc,                \* the time stamp counter
    start_tsc,          \* 0 until the first call of custom_gettime
    basetime,           \* of I_GetTime
    last_update_time,   \* of doom_update
    pc,                 \* "boot" before doom_init, then "running"
    now,                \* what the last I_GetTime returned
    tics,               \* turns of doom_update's loop: tics run, or steps of a wipe
    since               \* history: the first doom_update that knew basetime

clockVars == <<tsc, start_tsc, basetime, last_update_time, pc, now, tics, since>>

ClockInit ==
    /\ tsc = 1
    /\ start_tsc = 0
    /\ basetime = 0
    /\ last_update_time = 0
    /\ pc = "boot"
    /\ now = 0
    /\ tics = 0
    /\ since = [known |-> FALSE, tics |-> 0, now |-> 0]

\* custom_gettime: since the first call, in whole seconds and microseconds.
Started == IF start_tsc = 0 THEN tsc ELSE start_tsc
Elapsed == tsc - Started
Sec  == Elapsed \div CyclesPerSec
Usec == (Elapsed % CyclesPerSec) \div (CyclesPerSec \div UsecPerSec)

\* I_GetTime: as long as basetime is 0 it takes the seconds of this call.
Base == IF basetime = 0 THEN Sec ELSE basetime
WholeSeconds == (Sec - Base) * TicRate   \* mutant: no microseconds
Tics == (Sec - Base) * TicRate + (Usec * TicRate) \div UsecPerSec

I_GetTime ==
    /\ start_tsc' = Started
    /\ basetime' = Base
    /\ now' = Tics

TscAdvances(k) ==
    /\ tsc + k <= MaxCycles
    /\ tsc' = tsc + k
    /\ UNCHANGED <<start_tsc, basetime, last_update_time, pc, now, tics, since>>

doom_init ==
    /\ pc = "boot"
    /\ I_GetTime
    /\ last_update_time' = now'
    /\ pc' = "running"
    /\ UNCHANGED <<tsc, tics, since>>

\* Mutant: a call runs one tic, however many are due.
UpdateRunsOneTic ==
    /\ pc = "running"
    /\ I_GetTime
    /\ tics' = IF now' > last_update_time THEN tics + 1 ELSE tics
    /\ last_update_time' = now'
    /\ since' = IF since.known \/ basetime' = 0 THEN since
                ELSE [known |-> TRUE, tics |-> tics', now |-> now']
    /\ UNCHANGED <<tsc, pc>>

\* delta_time = now - last_update_time; a negative delta runs no tic.
doom_update ==
    /\ pc = "running"
    /\ I_GetTime
    /\ tics' = IF now' > last_update_time THEN tics + (now' - last_update_time) ELSE tics
    /\ last_update_time' = now'
    /\ since' = IF since.known \/ basetime' = 0 THEN since
                ELSE [known |-> TRUE, tics |-> tics', now |-> now']
    /\ UNCHANGED <<tsc, pc>>

\* NetUpdate, while a frame is drawn, asks for the time as well.
EngineReadsTime ==
    /\ pc = "running"
    /\ I_GetTime
    /\ UNCHANGED <<tsc, last_update_time, pc, tics, since>>

ClockNext ==
    \/ \E k \in Steps : TscAdvances(k)
    \/ doom_init
    \/ doom_update
    \/ EngineReadsTime

ClockSpec == ClockInit /\ [][ClockNext]_clockVars

-----------------------------------------------------------------------------
(* Properties.                                                             *)

\* Once I_GetTime has its base time, the game clock never goes back, and what
\* it shows is never a whole tic away from the counter, although it is truncated
\* twice ...
Ideal == ((Elapsed - basetime * CyclesPerSec) * TicRate) \div CyclesPerSec
SteadyAndAccurate ==
    [][ /\ basetime # 0 => now' >= now
        /\ basetime' # 0 /\ (doom_update \/ EngineReadsTime)
              => now' \in {Ideal' - 1, Ideal'} ]_clockVars

\* ... and doom_update runs every tic the clock counts from then on, and none
\* twice, however long a call takes and whoever else reads the clock.
NoDrift ==
    since.known => tics - since.tics = last_update_time - since.now

\* "This guarantees a perfectly smooth 35 FPS game loop": the game clock never
\* goes back.  It does once, when the first second of the clock ends: until
\* then basetime is 0, which I_GetTime takes for "not set".
PerfectlySmooth == [][now' >= now]_clockVars
=============================================================================
