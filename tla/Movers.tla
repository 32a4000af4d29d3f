------------------------------- MODULE Movers -------------------------------
(***************************************************************************)
(* Doors, platforms and crushing ceilings (PureDOOM.h): thinkers that move *)
(* a plane of a sector, one step a tic, while things come and go below.    *)
(* sector->specialdata tells that a sector has a mover; platforms and      *)
(* ceilings are also kept in tables of fixed size, by which they are       *)
(* stopped and restarted.                                                  *)
(***************************************************************************)
EXTENDS Thinkers, Sequences

CONSTANTS
    Doors, Plats, Crushers,     \* sectors, by what their lines do
    Levels,                     \* which of them are in a level together
    DoorSides,                  \* a door's lines that let it stay open once: one a side
    Top,                        \* ceilings around; a door opens up to it
    ThingHeight,
    VDOORWAIT, PLATWAIT,        \* tics, in the model's scale
    MAXPLATS, MAXCEILINGS,      \* sizes of the tables
    DoorTypes, PlatTypes

ASSUME MoversAssumption ==
    /\ {Top, ThingHeight} \subseteq Nat /\ ThingHeight <= Top
    /\ {VDOORWAIT, PLATWAIT, MAXPLATS, MAXCEILINGS} \subseteq Nat \ {0}
    /\ IsFiniteSet(Plats) /\ Cardinality(Plats) <= MAXPLATS     \* more are an I_Error
    /\ IsFiniteSet(Crushers)
    /\ Cardinality(Crushers) <= MAXCEILINGS    \* more could not be stopped
    /\ NoMover \notin Doors \cup Plats \cup Crushers
    /\ Doors \cap Plats = {} /\ Doors \cap Crushers = {} /\ Plats \cap Crushers = {}
    /\ Levels \subseteq SUBSET (Doors \cup Plats \cup Crushers)
    /\ DoorTypes \subseteq {"door_normal", "door_open", "door_close", "close30ThenOpen"}
    /\ PlatTypes \subseteq {"downWaitUpStay", "perpetualRaise"}

VARIABLES
    sectors,        \* of the level
    floor, ceil,    \* sector heights
    specialdata,    \* the sector's mover, or NoMover
    mover,          \* the door, platform or ceiling in a node
    activeplats, activeceilings,
    thing,          \* the sectors with a thing in them
    spent           \* the lines of doors that stay open, once used

moverVars == <<sectors, floor, ceil, specialdata, mover, activeplats, activeceilings, thing, spent>>
moversVars == <<listVars, moverVars>>

Sectors == Doors \cup Plats \cup Crushers
Moverless == [type |-> NoMover]

(* A door starts shut; a platform up, where a thing does not fit below the *)
(* ceiling; a crusher open.                                                *)
PlatHigh == Top - ThingHeight
FloorsAtFirst == [s \in Sectors |-> IF s \in Plats THEN PlatHigh ELSE 0]
CeilingsAtFirst == [s \in Sectors |-> CASE s \in Doors -> 0 [] s \in Plats -> Top - 1 [] OTHER -> Top]
Empty(size) == [i \in 1 .. size |-> NoMover]

-----------------------------------------------------------------------------
(* T_MovePlane: where a plane is after a step, and what is returned.       *)
(* P_ChangeSector answers whether something does not fit; the plane is     *)
(* then put back, unless it crushes.                                       *)
Fits(s, plane, at) ==
    s \in thing =>
        (IF plane = "ceiling" THEN at - floor[s] ELSE ceil[s] - at) >= ThingHeight

Moved(s, plane, direction, dest, crush) ==
    LET at == IF plane = "ceiling" THEN ceil[s] ELSE floor[s]
        to == at + direction
        past == IF direction = 1 THEN to > dest ELSE to < dest
        rising == plane = "ceiling" /\ direction = 1        \* nothing is in its way
    IN  IF past
        THEN [res |-> "pastdest", at |-> IF Fits(s, plane, dest) THEN dest ELSE at]
        ELSE IF Fits(s, plane, to) \/ rising THEN [res |-> "ok", at |-> to]
        ELSE [res |-> "crushed", at |-> IF crush THEN to ELSE at]

(* Mutant: what is in the way is not looked for on the last step.          *)
MovesOnto(s, direction, dest, crush) ==
    IF (direction = 1 /\ ceil[s] + 1 > dest) \/ (direction = -1 /\ ceil[s] - 1 < dest)
    THEN [res |-> "pastdest", at |-> dest]
    ELSE Moved(s, "ceiling", direction, dest, crush)
MoveCeiling(s, direction, dest, crush) == Moved(s, "ceiling", direction, dest, crush)
MoveFloor(s, direction, dest, crush) == Moved(s, "floor", direction, dest, crush)

Becomes(m) == mover' = [mover EXCEPT ![current] = m]
Stays == Turn(function) /\ UNCHANGED specialdata
OverKept == Turn(Removed(function, current)) /\ UNCHANGED specialdata    \* mutant
Over == /\ Turn(Removed(function, current))
        /\ specialdata' = [specialdata EXCEPT ![mover[current].sector] = NoMover]

-----------------------------------------------------------------------------
(* T_VerticalDoor.  Direction 0 waits, 2 is the first wait of a door that  *)
(* opens after five minutes.  A countdown that starts at 0 comes back to 0 *)
(* after 2^32 tics: never.                                                 *)
Less(count) == IF count > 0 THEN count - 1 ELSE -1

DoorWaits ==
    /\ function[current] = "T_VerticalDoor" /\ mover[current].direction \in {0, 2}
    /\ LET d == mover[current]
           counted == [d EXCEPT !.topcountdown = Less(@)]
       IN  Becomes(IF counted.topcountdown # 0 THEN counted
                   ELSE CASE d.direction = 0 /\ d.type = "door_normal" ->
                                [counted EXCEPT !.direction = -1]
                          [] d.direction = 0 /\ d.type = "close30ThenOpen" ->
                                [counted EXCEPT !.direction = 1]
                          [] d.direction = 2 /\ d.type = "raiseIn5Mins" ->
                                [counted EXCEPT !.direction = 1, !.type = "door_normal"]
                          [] OTHER -> counted)
    /\ Stays
    /\ UNCHANGED <<sectors, floor, ceil, activeplats, activeceilings, thing, spent>>

DoorMoves ==
    /\ function[current] = "T_VerticalDoor" /\ mover[current].direction \in {-1, 1}
    /\ LET d == mover[current]
           s == d.sector
           m == MoveCeiling(s, d.direction, IF d.direction = 1 THEN d.topheight ELSE floor[s], FALSE)
           there == m.res = "pastdest"
           closed == there /\ d.direction = -1 /\ d.type \in {"door_normal", "door_close"}
           opened == there /\ d.direction = 1 /\ d.type \in {"close30ThenOpen", "door_open"}
       IN  /\ ceil' = [ceil EXCEPT ![s] = m.at]
           /\ IF closed \/ opened THEN Over ELSE Stays
           /\ Becomes(
                CASE closed \/ opened -> Moverless
                  [] there /\ d.direction = -1 /\ d.type = "close30ThenOpen" ->
                        [d EXCEPT !.direction = 0, !.topcountdown = VDOORWAIT]
                  [] there /\ d.direction = 1 /\ d.type = "door_normal" ->
                        [d EXCEPT !.direction = 0, !.topcountdown = d.topwait]
                  [] m.res = "crushed" /\ d.type # "door_close" -> [d EXCEPT !.direction = 1]
                  [] OTHER -> d)
    /\ UNCHANGED <<sectors, floor, activeplats, activeceilings, thing, spent>>

Door(s, type, direction) ==
    [type |-> type, sector |-> s, direction |-> direction, topheight |-> Top,
     topwait |-> VDOORWAIT, topcountdown |-> 0]

(* A new mover: Z_Malloc, P_AddThinker and sec->specialdata.               *)
Start(n, f, m) ==
    /\ Spawn(n, f)
    /\ mover' = [mover EXCEPT ![n] = m]
    /\ specialdata' = [specialdata EXCEPT ![m.sector] = n]

(* EV_DoDoor, for the sectors with the line's tag; the model's tags name   *)
(* one sector.  A sector that has a mover is passed over.                  *)
EV_DoDoor(s, n) ==
    /\ specialdata[s] = NoMover
    /\ \E type \in DoorTypes :
        Start(n, "T_VerticalDoor",
              [Door(s, type, IF type \in {"door_close", "close30ThenOpen"} THEN -1 ELSE 1)
                  EXCEPT !.topheight = IF type = "close30ThenOpen" THEN ceil[s] ELSE Top])
    /\ UNCHANGED <<sectors, floor, ceil, activeplats, activeceilings, thing, spent>>

(* EV_VerticalDoor, on a line of the doors that shut again: one that is    *)
(* moving is turned round; monsters (byPlayer = FALSE) only open doors.    *)
EV_VerticalDoor(s, n, byPlayer) ==
    LET d == specialdata[s]
    IN  /\ IF d # NoMover
           THEN /\ mover[d].direction # -1 => byPlayer
                /\ mover' = [mover EXCEPT ![d].direction =
                                IF mover[d].direction = -1 THEN 1 ELSE -1]
                /\ UNCHANGED <<listVars, specialdata>>
           ELSE Start(n, "T_VerticalDoor", Door(s, "door_normal", 1))
        /\ UNCHANGED <<sectors, floor, ceil, activeplats, activeceilings, thing, spent>>

(* The same, on a line of the doors that stay open (specials 31 to 34 and  *)
(* 118): none of the cases applies, and a door is started even if the      *)
(* sector has one.                                                         *)
EV_VerticalDoorStay(s, n, side) ==
    /\ <<s, side>> \notin spent
    /\ Start(n, "T_VerticalDoor", Door(s, "door_open", 1))
    /\ spent' = spent \cup {<<s, side>>}                          \* line->special = 0
    /\ UNCHANGED <<sectors, floor, ceil, activeplats, activeceilings, thing>>

-----------------------------------------------------------------------------
(* The tables: the first free entry is taken.                              *)
Put(table, n) ==
    [table EXCEPT ![CHOOSE i \in DOMAIN table :
        table[i] = NoMover /\ \A j \in 1 .. i - 1 : table[j] # NoMover] = n]
Without(table, n) == [i \in DOMAIN table |-> IF table[i] = n THEN NoMover ELSE table[i]]
Entries(table) == {table[i] : i \in DOMAIN table} \ {NoMover}

(* EV_StopPlat and EV_CeilingCrushStop take the thinker's function away;   *)
(* P_ActivateInStasis and P_ActivateInStasisCeiling give it back.          *)
Stop(n) ==
    /\ function[n] # "stasis"
    /\ function' = [function EXCEPT ![n] = "stasis"]
    /\ UNCHANGED <<sectors, next, prev, current, tic, turns, mover, specialdata, floor, ceil,
                   activeplats, activeceilings, thing, spent>>
Restart(n, f) ==
    /\ function[n] = "stasis"
    /\ function' = [function EXCEPT ![n] = f]
    /\ UNCHANGED <<sectors, next, prev, current, tic, turns, mover, specialdata, floor, ceil,
                   activeplats, activeceilings, thing, spent>>

EV_DoPlat(s, n) ==
    /\ specialdata[s] = NoMover
    /\ \E type \in PlatTypes, status \in {"up", "down"} :
        /\ type = "downWaitUpStay" => status = "down"      \* or P_Random() & 1
        /\ Start(n, "T_PlatRaise",
                 [type |-> type, sector |-> s, status |-> status, low |-> 0,
                  high |-> IF type = "downWaitUpStay" THEN floor[s] ELSE PlatHigh, count |-> 0])
    /\ activeplats' = Put(activeplats, n)
    /\ UNCHANGED <<sectors, floor, ceil, activeceilings, thing, spent>>

PlatMoves ==
    /\ function[current] = "T_PlatRaise" /\ mover[current].status # "waiting"
    /\ LET p == mover[current]
           s == p.sector
           m == IF p.status = "up" THEN MoveFloor(s, 1, p.high, FALSE)
                                   ELSE MoveFloor(s, -1, p.low, FALSE)
           there == m.res = "pastdest"
           last == there /\ p.status = "up" /\ p.type = "downWaitUpStay"
       IN  /\ floor' = [floor EXCEPT ![s] = m.at]
           /\ IF last THEN Over ELSE Stays
           /\ activeplats' = IF last THEN Without(activeplats, current) ELSE activeplats
           /\ Becomes(CASE last -> Moverless
                        [] there /\ ~last -> [p EXCEPT !.status = "waiting", !.count = PLATWAIT]
                        [] m.res = "crushed" /\ p.status = "up" ->
                            [p EXCEPT !.status = "down", !.count = PLATWAIT]
                        [] OTHER -> p)
    /\ UNCHANGED <<sectors, ceil, activeceilings, thing, spent>>

PlatWaits ==
    /\ function[current] = "T_PlatRaise" /\ mover[current].status = "waiting"
    /\ LET p == mover[current]
           counted == [p EXCEPT !.count = @ - 1]
       IN  Becomes(IF counted.count # 0 THEN counted
                   ELSE [counted EXCEPT !.status =
                            IF floor[p.sector] = p.low THEN "up" ELSE "down"])
    /\ Stays
    /\ UNCHANGED <<sectors, floor, ceil, activeplats, activeceilings, thing, spent>>

(* EV_DoCeiling: a crusher, which goes on for ever, or a ceiling that goes *)
(* down once.                                                              *)
EV_DoCeiling(s, n) ==
    /\ specialdata[s] = NoMover
    /\ \E type \in {"crushAndRaise", "lowerToFloor"} :
        Start(n, "T_MoveCeiling",
              [type |-> type, sector |-> s, direction |-> -1, topheight |-> ceil[s],
               bottomheight |-> floor[s] + (IF type = "lowerToFloor" THEN 0 ELSE 1)])
    /\ activeceilings' = Put(activeceilings, n)
    /\ UNCHANGED <<sectors, floor, ceil, activeplats, thing, spent>>

T_MoveCeiling ==
    /\ function[current] = "T_MoveCeiling"
    /\ LET c == mover[current]
           s == c.sector
           down == c.direction = -1
           m == MoveCeiling(s, c.direction, IF down THEN c.bottomheight ELSE c.topheight,
                            down /\ c.type = "crushAndRaise")
           there == m.res = "pastdest"
           last == there /\ down /\ c.type = "lowerToFloor"
       IN  /\ ceil' = [ceil EXCEPT ![s] = m.at]
           /\ IF last THEN Over ELSE Stays
           /\ activeceilings' = IF last THEN Without(activeceilings, current) ELSE activeceilings
           /\ Becomes(CASE last -> Moverless
                        [] there /\ ~last -> [c EXCEPT !.direction = -c.direction]
                        [] OTHER -> c)
    /\ UNCHANGED <<sectors, floor, activeplats, thing, spent>>

-----------------------------------------------------------------------------
(* What P_ChangeSector does besides to things that do not fit: a crusher   *)
(* draws blood, dropped items are removed.  It is done here just before    *)
(* the mover's step, which does not depend on it.                          *)
PIT_ChangeSector ==
    /\ tic = "running" /\ current # thinkercap
    /\ \/ /\ function[current] \in {"T_VerticalDoor", "T_PlatRaise", "T_MoveCeiling"}
          /\ RemoveMobj
       \/ /\ function[current] = "T_MoveCeiling"
          /\ mover[current].type = "crushAndRaise" /\ mover[current].sector \in thing
          /\ \E n \in Nodes : Spawn(n, "P_MobjThinker")
    /\ UNCHANGED moverVars

(* A thinker in stasis is passed over.                                     *)
InStasis == /\ function[current] = "stasis" /\ Turn(function)
            /\ UNCHANGED moverVars

RunThinker ==
    /\ current # thinkercap
    /\ \/ DoorWaits \/ DoorMoves \/ PlatMoves \/ PlatWaits \/ T_MoveCeiling
       \/ InStasis \/ PIT_ChangeSector

(* Before a tic the player, and in its turn a thing, uses or crosses a     *)
(* line, comes below a plane where it fits, or goes.                       *)
UseLine ==
    \E s \in sectors, n \in Nodes :
        \/ s \in Doors /\ EV_DoDoor(s, n)
        \/ \E byPlayer \in BOOLEAN : s \in Doors /\ EV_VerticalDoor(s, n, byPlayer)
        \/ \E side \in DoorSides : s \in Doors /\ EV_VerticalDoorStay(s, n, side)
        \/ s \in Plats /\ EV_DoPlat(s, n)
        \/ s \in Plats /\ specialdata[s] = n /\ (Stop(n) \/ Restart(n, "T_PlatRaise"))
        \/ s \in Crushers /\ EV_DoCeiling(s, n)
        \/ s \in Crushers /\ specialdata[s] = n /\ (Stop(n) \/ Restart(n, "T_MoveCeiling"))

SpawnMobj ==
    /\ \E n \in Nodes : Spawn(n, "P_MobjThinker")
    /\ UNCHANGED moverVars

Come ==
    \E s \in sectors \ thing :
        /\ ceil[s] - floor[s] >= ThingHeight
        /\ thing' = thing \cup {s}
        /\ UNCHANGED <<listVars, sectors, floor, ceil, specialdata, mover, activeplats,
                       activeceilings, spent>>
Go ==
    \E s \in thing :
        /\ thing' = thing \ {s}
        /\ UNCHANGED <<listVars, sectors, floor, ceil, specialdata, mover, activeplats,
                       activeceilings, spent>>

(* P_SetupLevel frees every thinker and clears both tables, so that a      *)
(* level starts here whatever came before.  P_SpawnSpecials may give a     *)
(* door sector a mover of its own: one that opens after five minutes, or,  *)
(* on an open door, one that closes after thirty seconds, whose topheight  *)
(* and topwait are never set: they are what Z_Malloc found in memory, too  *)
(* low or too high, none or some.                                          *)
Level(n, s, door) ==
    /\ ListInit(n, "T_VerticalDoor")
    /\ floor = FloorsAtFirst
    /\ specialdata = [x \in Sectors |-> IF x = s THEN n ELSE NoMover]
    /\ mover = [m \in Nodes |-> IF m = n THEN door ELSE Moverless]
    /\ activeplats = Empty(MAXPLATS) /\ activeceilings = Empty(MAXCEILINGS)
    /\ thing = {} /\ spent = {}

P_SpawnDoorRaiseIn5Mins(s) == [Door(s, "raiseIn5Mins", 2) EXCEPT !.topcountdown = VDOORWAIT]
P_SpawnDoorCloseIn30(s, height, wait) ==
    [Door(s, "door_normal", 0) EXCEPT !.topcountdown = VDOORWAIT, !.topheight = height,
                                      !.topwait = wait]

MoversInit ==
    /\ sectors \in Levels
    /\ \/ Level(thinkercap, NoMover, Moverless) /\ ceil = CeilingsAtFirst
       \/ \E s \in Doors \cap sectors, n \in Nodes :
            \/ Level(n, s, P_SpawnDoorRaiseIn5Mins(s)) /\ ceil = CeilingsAtFirst
            \/ /\ \E height \in {-1, Top + 1}, wait \in {0, 1} :
                    Level(n, s, P_SpawnDoorCloseIn30(s, height, wait))
               /\ ceil = [CeilingsAtFirst EXCEPT ![s] = Top]

RunThinkers ==
    \/ RunThinker
    \/ /\ TicBegins \/ Unlink \/ TurnBegins \/ TurnEnds \/ TicEnds
       /\ UNCHANGED moverVars
Play ==
    /\ tic # "running"
    /\ \/ UseLine \/ SpawnMobj \/ Come \/ Go
       \/ RemoveMobj /\ UNCHANGED moverVars

MoversNext == RunThinkers \/ Play

-----------------------------------------------------------------------------
Moving(n) == n \in Live /\ mover[n] # Moverless

(* specialdata and the movers tell the same: no sector points to a mover   *)
(* that is gone, in memory that may by now be another thinker, and a       *)
(* sector has at most one mover, unless a line of a door that stays open   *)
(* was used.  The tables hold the platforms and the ceilings, each once,   *)
(* those in stasis included, or they could not be restarted.               *)
OneMoverPerSector ==
    /\ \A s \in Sectors : specialdata[s] # NoMover =>
        Moving(specialdata[s]) /\ mover[specialdata[s]].sector = s
    /\ \A n \in Nodes :
        Moving(n) /\ (\A side \in DoorSides : <<mover[n].sector, side>> \notin spent)
            => specialdata[mover[n].sector] = n
    /\ Entries(activeplats) = {n \in Nodes : Moving(n) /\ mover[n].sector \in Plats}
    /\ Entries(activeceilings) = {n \in Nodes : Moving(n) /\ mover[n].sector \in Crushers}

(* A thing that stands in a doorway or on a platform is never left where   *)
(* it does not fit, not by the last step of a move either; only a crusher  *)
(* does not give way.                                                      *)
ThingsFit == \A s \in thing \ Crushers : ceil[s] - floor[s] >= ThingHeight

=============================================================================
