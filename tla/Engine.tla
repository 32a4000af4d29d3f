------------------------------- MODULE Engine -------------------------------
(***************************************************************************)
(* Mechanisms of the game engine that share no state in this model: the    *)
(* loop that runs the tics that have come due, what a tic does with        *)
(* requests, the zone memory, the thinkers that move a level's doors and   *)
(* platforms, and the sound channels.  One of them is chosen and takes all *)
(* the steps.                                                              *)
(***************************************************************************)
EXTENDS TicLoop, GameFlow, ZoneHeap, Movers, SoundChannels

VARIABLE mechanism
engineVars == <<mechanism, ticVars, flowVars, zoneVars, moversVars, soundVars>>

EngineInit ==
    /\ mechanism \in {"tics", "flow", "zone", "movers", "sounds"}
    /\ TicLoopInit /\ FlowInit /\ ZoneInit /\ MoversInit /\ SoundInit
    (* The levels differ for the movers only.                              *)
    /\ mechanism # "movers" => thinkercap = next[thinkercap] /\ sectors = {}

Updating == /\ mechanism = "tics" /\ TicLoopNext
            /\ UNCHANGED <<mechanism, flowVars, zoneVars, moversVars, soundVars>>
Deciding == /\ mechanism = "flow" /\ FlowNext
            /\ UNCHANGED <<mechanism, ticVars, zoneVars, moversVars, soundVars>>
Caching == /\ mechanism = "zone" /\ ZoneNext
           /\ UNCHANGED <<mechanism, ticVars, flowVars, moversVars, soundVars>>
Playing == /\ mechanism = "movers" /\ MoversNext
           /\ UNCHANGED <<mechanism, ticVars, flowVars, zoneVars, soundVars>>
Sounding == /\ mechanism = "sounds" /\ SoundNext
            /\ UNCHANGED <<mechanism, ticVars, flowVars, zoneVars, moversVars>>

EngineNext == Updating \/ Deciding \/ Caching \/ Playing \/ Sounding
EngineSpec == EngineInit /\ [][EngineNext]_engineVars

=============================================================================
