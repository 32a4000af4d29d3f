---------------------------- MODULE MoversProofs ----------------------------
(***************************************************************************)
(* Proofs about doors, platforms and crushers, for any number of sectors,  *)
(* thinkers and heights.                                                   *)
(***************************************************************************)
EXTENDS EngineProofs

-----------------------------------------------------------------------------
(* A plane's step.                                                         *)

\* A ceiling that does not crush leaves room for what has room.
LEMMA CeilingLeavesRoom ==
    ASSUME NEW s \in Sectors, NEW direction \in {-1, 1}, NEW dest \in Int, NEW crush \in BOOLEAN,
           floor[s] \in Int, ceil[s] \in Int
    PROVE  /\ MoveCeiling(s, direction, dest, crush).at \in Int
           /\ ~crush /\ s \in thing /\ ceil[s] - floor[s] >= ThingHeight =>
                MoveCeiling(s, direction, dest, crush).at - floor[s] >= ThingHeight
BY MoversAssumption DEF MoveCeiling, Moved, Fits

\* Nor does a floor crush what stands on it.
LEMMA FloorLeavesRoom ==
    ASSUME NEW s \in Sectors, NEW direction \in {-1, 1}, NEW dest \in Int,
           floor[s] \in Int, ceil[s] \in Int
    PROVE  /\ MoveFloor(s, direction, dest, FALSE).at \in Int
           /\ s \in thing /\ ceil[s] - floor[s] >= ThingHeight =>
                ceil[s] - MoveFloor(s, direction, dest, FALSE).at >= ThingHeight
BY MoversAssumption DEF MoveFloor, Moved, Fits

-----------------------------------------------------------------------------
(* What is in a node.                                                      *)

DoorLike(m) ==
    /\ m = [type |-> m.type, sector |-> m.sector, direction |-> m.direction,
            topheight |-> m.topheight, topwait |-> m.topwait, topcountdown |-> m.topcountdown]
    /\ m.type # NoMover /\ m.sector \in Doors /\ m.topheight \in Int

PlatLike(m) ==
    /\ m = [type |-> m.type, sector |-> m.sector, status |-> m.status, low |-> m.low,
            high |-> m.high, count |-> m.count]
    /\ m.type # NoMover /\ m.sector \in Plats /\ m.low \in Int /\ m.high \in Int

CeilingLike(m) ==
    /\ m = [type |-> m.type, sector |-> m.sector, direction |-> m.direction,
            topheight |-> m.topheight, bottomheight |-> m.bottomheight]
    /\ m.type # NoMover /\ m.sector \in Crushers
    /\ m.direction \in {-1, 1} /\ m.topheight \in Int /\ m.bottomheight \in Int

NodeOK(f, m) ==
    \/ f \in {"freed", "removed", "P_MobjThinker"} /\ m = Moverless
    \/ f = "T_VerticalDoor" /\ DoorLike(m)
    \/ f \in {"T_PlatRaise", "stasis"} /\ PlatLike(m)
    \/ f \in {"T_MoveCeiling", "stasis"} /\ CeilingLike(m)

Busied(m) == m # Moverless

LEMMA KindsHaveSectors ==
    ASSUME NEW m, DoorLike(m) \/ PlatLike(m) \/ CeilingLike(m)
    PROVE  Busied(m) /\ m.sector \in Sectors
BY DEF DoorLike, PlatLike, CeilingLike, Busied, Moverless, Sectors

LEMMA DoorAltered ==
    ASSUME NEW d, DoorLike(d), NEW x
    PROVE  LET Same(e) == DoorLike(e) /\ e.sector = d.sector
           IN  /\ Same([d EXCEPT !.direction = x]) /\ Same([d EXCEPT !.topcountdown = x])
               /\ x # NoMover => Same([d EXCEPT !.type = x])
               /\ x \in Int => Same([d EXCEPT !.topheight = x])
               /\ Same([d EXCEPT !.topwait = x])
<1>1. d = [type |-> d.type, sector |-> d.sector, direction |-> d.direction,
           topheight |-> d.topheight, topwait |-> d.topwait, topcountdown |-> d.topcountdown]
  BY DEF DoorLike
<1>2. [d EXCEPT !.direction = x] =
        [type |-> d.type, sector |-> d.sector, direction |-> x,
         topheight |-> d.topheight, topwait |-> d.topwait, topcountdown |-> d.topcountdown]
  BY <1>1
<1>3. [d EXCEPT !.topcountdown = x] =
        [type |-> d.type, sector |-> d.sector, direction |-> d.direction,
         topheight |-> d.topheight, topwait |-> d.topwait, topcountdown |-> x]
  BY <1>1
<1>4. [d EXCEPT !.type = x] =
        [type |-> x, sector |-> d.sector, direction |-> d.direction,
         topheight |-> d.topheight, topwait |-> d.topwait, topcountdown |-> d.topcountdown]
  BY <1>1
<1>5. [d EXCEPT !.topheight = x] =
        [type |-> d.type, sector |-> d.sector, direction |-> d.direction,
         topheight |-> x, topwait |-> d.topwait, topcountdown |-> d.topcountdown]
  BY <1>1
<1>6. [d EXCEPT !.topwait = x] =
        [type |-> d.type, sector |-> d.sector, direction |-> d.direction,
         topheight |-> d.topheight, topwait |-> x, topcountdown |-> d.topcountdown]
  BY <1>1
<1> QED
  BY <1>2, <1>3, <1>4, <1>5, <1>6 DEF DoorLike

-----------------------------------------------------------------------------
(* Sectors, movers and tables tell the same.                               *)

Told(sd, mv) ==
    \A s \in Sectors : sd[s] # NoMover => sd[s] \in Nodes /\ Busied(mv[sd[s]]) /\ mv[sd[s]].sector = s

Known(sd, mv, sp) ==
    \A n \in Nodes :
        Busied(mv[n]) /\ (\A side \in DoorSides : <<mv[n].sector, side>> \notin sp)
            => sd[mv[n].sector] = n

Lists(table, size, mv, S) ==
    /\ table = [i \in 1 .. size |-> table[i]]
    /\ \A i \in 1 .. size : table[i] # NoMover =>
          table[i] \in Nodes /\ Busied(mv[table[i]]) /\ mv[table[i]].sector \in S
    /\ \A n \in Nodes : Busied(mv[n]) /\ mv[n].sector \in S => \E i \in 1 .. size : table[i] = n
    /\ \A i, j \in 1 .. size : table[i] = table[j] /\ table[i] # NoMover => i = j

KnownAll(sd, mv, S) ==
    \A n \in Nodes : Busied(mv[n]) /\ mv[n].sector \in S => sd[mv[n].sector] = n

InSectors(mv) ==
    /\ mv = [n \in Nodes |-> mv[n]]
    /\ \A n \in Nodes : Busied(mv[n]) => mv[n].sector \in Sectors

HasFree(table, size) ==
    \E i \in 1 .. size : table[i] = NoMover /\ \A j \in 1 .. i - 1 : table[j] # NoMover

\* A mover goes on in its sector.
LEMMA GoesOn ==
    ASSUME NEW mv, NEW c \in Nodes, NEW m, InSectors(mv),
           Busied(mv[c]), Busied(m), m.sector = mv[c].sector,
           NEW sd, NEW sp, NEW table, NEW size, NEW S
    PROVE  LET mw == [mv EXCEPT ![c] = m]
           IN  /\ InSectors(mw)
               /\ Told(sd, mv) => Told(sd, mw)
               /\ Known(sd, mv, sp) => Known(sd, mw, sp)
               /\ Lists(table, size, mv, S) => Lists(table, size, mw, S)
<1> DEFINE mw == [mv EXCEPT ![c] = m]
<1>1. mw = [n \in Nodes |-> mw[n]] /\ \A n \in Nodes : mw[n] = IF n = c THEN m ELSE mv[n]
  BY DEF InSectors
<1> HIDE DEF mw
<1>2. \A n \in Nodes : /\ Busied(mw[n]) <=> Busied(mv[n])
                       /\ Busied(mv[n]) => mw[n].sector = mv[n].sector
  BY <1>1
<1>3. InSectors(mw)
  BY <1>1, <1>2 DEF InSectors
<1>4. Told(sd, mv) => Told(sd, mw)
  BY <1>2 DEF Told
<1>5. Known(sd, mv, sp) => Known(sd, mw, sp)
  BY <1>2 DEF Known
<1>6. Lists(table, size, mv, S) => Lists(table, size, mw, S)
  BY <1>2 DEF Lists
<1> QED
  BY <1>3, <1>4, <1>5, <1>6 DEF mw

\* A mover is over: its sector forgets it, and so does its table.
LEMMA IsOver ==
    ASSUME NEW mv, NEW c \in Nodes, InSectors(mv), Busied(mv[c]),
           NEW sd, sd = [s \in Sectors |-> sd[s]], NEW sp
    PROVE  LET mw == [mv EXCEPT ![c] = Moverless]
               se == [sd EXCEPT ![mv[c].sector] = NoMover]
           IN  /\ InSectors(mw)
               /\ Told(sd, mv) => Told(se, mw)
               /\ Known(sd, mv, sp) => Known(se, mw, sp)
<1> DEFINE mw == [mv EXCEPT ![c] = Moverless]
           se == [sd EXCEPT ![mv[c].sector] = NoMover]
<1>1. mw = [n \in Nodes |-> mw[n]] /\ \A n \in Nodes : mw[n] = IF n = c THEN Moverless ELSE mv[n]
  BY DEF InSectors
<1>2. \A s \in Sectors : se[s] = IF s = mv[c].sector THEN NoMover ELSE sd[s]
  BY DEF InSectors
<1>3. ~Busied(Moverless)
  BY DEF Busied
<1> HIDE DEF mw, se
<1>4. InSectors(mw)
  BY <1>1, <1>3 DEF InSectors
<1>5. Told(sd, mv) => Told(se, mw)
  BY <1>1, <1>2, <1>3 DEF Told
<1>6. ASSUME Known(sd, mv, sp) PROVE Known(se, mw, sp)
  <2> SUFFICES ASSUME NEW n \in Nodes, Busied(mw[n]),
                      \A side \in DoorSides : <<mw[n].sector, side>> \notin sp
               PROVE  se[mw[n].sector] = n
    BY DEF Known
  <2>1. n # c /\ mw[n] = mv[n]
    BY <1>1, <1>3
  <2>2. sd[mv[n].sector] = n /\ mv[n].sector \in Sectors
    BY <1>6, <2>1 DEF Known, InSectors
  <2>3. mv[n].sector # mv[c].sector
    <3>1. SUFFICES ASSUME mv[n].sector = mv[c].sector PROVE FALSE
      OBVIOUS
    <3>2. sd[mv[c].sector] = c
      BY <1>6, <2>1, <3>1 DEF Known
    <3> QED
      BY <2>1, <2>2, <3>1, <3>2
  <2> QED
    BY <1>2, <2>1, <2>2, <2>3
<1> QED
  BY <1>4, <1>5, <1>6 DEF mw, se

LEMMA TableForgets ==
    ASSUME NEW mv, NEW c \in Nodes, InSectors(mv), Busied(mv[c]),
           NEW table, NEW size, NEW S, Lists(table, size, mv, S)
    PROVE  LET mw == [mv EXCEPT ![c] = Moverless]
           IN  /\ Lists(Without(table, c), size, mw, S)
               /\ mv[c].sector \notin S => Lists(table, size, mw, S)
<1> DEFINE mw == [mv EXCEPT ![c] = Moverless]
           t == Without(table, c)
<1>1. \A n \in Nodes : mw[n] = IF n = c THEN Moverless ELSE mv[n]
  BY DEF InSectors
<1>2. DOMAIN table = 1 .. size
  BY DEF Lists
<1>3. /\ t = [i \in 1 .. size |-> t[i]]
      /\ \A i \in 1 .. size : t[i] = IF table[i] = c THEN NoMover ELSE table[i]
  BY <1>2 DEF Without
<1>4. ~Busied(Moverless) /\ NoMover \notin Nodes
  BY ThinkersAssumption DEF Busied
<1> HIDE DEF mw, t
<1>5. /\ \A i \in 1 .. size : t[i] # NoMover =>
            t[i] \in Nodes /\ Busied(mw[t[i]]) /\ mw[t[i]].sector \in S
      /\ \A i, j \in 1 .. size : t[i] = t[j] /\ t[i] # NoMover => i = j
  BY <1>1, <1>3, <1>4 DEF Lists
<1>6. ASSUME NEW n \in Nodes, Busied(mw[n]), mw[n].sector \in S
      PROVE  \E i \in 1 .. size : t[i] = n
  <2>1. n # c /\ mw[n] = mv[n]
    BY <1>1, <1>4, <1>6
  <2>2. PICK i \in 1 .. size : table[i] = n
    BY <1>6, <2>1 DEF Lists
  <2> QED
    BY <1>3, <2>1, <2>2
<1>7. Lists(t, size, mw, S)
  BY <1>3, <1>5, <1>6 DEF Lists
<1>8. ASSUME mv[c].sector \notin S PROVE Lists(table, size, mw, S)
  <2>1. \A i \in 1 .. size : table[i] # c
    BY <1>4, <1>8 DEF Lists
  <2>2. \A n \in Nodes : Busied(mw[n]) /\ mw[n].sector \in S => \E i \in 1 .. size : table[i] = n
    BY <1>1, <1>4 DEF Lists
  <2> QED
    BY <1>1, <2>1, <2>2 DEF Lists
<1> QED
  BY <1>7, <1>8 DEF mw, t

\* A node that was free becomes a mover.
LEMMA IsStarted ==
    ASSUME NEW mv, NEW n \in Nodes, NEW m, InSectors(mv), ~Busied(mv[n]), Busied(m), m.sector \in Sectors,
           NEW sd, sd = [s \in Sectors |-> sd[s]], NEW sp, NEW sq, sp \subseteq sq,
           sd[m.sector] = NoMover \/ \E side \in DoorSides : <<m.sector, side>> \in sq,
           Told(sd, mv), Known(sd, mv, sp)
    PROVE  LET mw == [mv EXCEPT ![n] = m]
               se == [sd EXCEPT ![m.sector] = n]
           IN  InSectors(mw) /\ Told(se, mw) /\ Known(se, mw, sq)
<1> DEFINE mw == [mv EXCEPT ![n] = m]
           se == [sd EXCEPT ![m.sector] = n]
<1>1. mw = [x \in Nodes |-> mw[x]] /\ \A x \in Nodes : mw[x] = IF x = n THEN m ELSE mv[x]
  BY DEF InSectors
<1>2. \A s \in Sectors : se[s] = IF s = m.sector THEN n ELSE sd[s]
  OBVIOUS
<1> HIDE DEF mw, se
<1>3. InSectors(mw)
  BY <1>1 DEF InSectors
<1>4. Told(se, mw)
  BY <1>1, <1>2 DEF Told
<1>5. ASSUME NEW x \in Nodes, Busied(mw[x]), x # n,
             \A side \in DoorSides : <<mw[x].sector, side>> \notin sq
      PROVE  se[mw[x].sector] = x
  <2>1. mw[x] = mv[x] /\ Busied(mv[x]) /\ mv[x].sector \in Sectors
    BY <1>1, <1>5 DEF InSectors
  <2>2. sd[mv[x].sector] = x
    BY <1>5, <2>1 DEF Known
  <2>3. mv[x].sector # m.sector
    BY <1>5, <2>1, <2>2, ThinkersAssumption
  <2> QED
    BY <1>2, <2>1, <2>2, <2>3
<1>6. Known(se, mw, sq)
  BY <1>1, <1>2, <1>5 DEF Known
<1> QED
  BY <1>3, <1>4, <1>6 DEF mw, se

\* There is a free entry for a sector of the kind that has no mover, since each
\* of the others has one at most.
LEMMA EntryIsFree ==
    ASSUME NEW mv, NEW table, NEW size \in Nat, NEW S, NEW s \in S, IsFiniteSet(S), Cardinality(S) <= size,
           Lists(table, size, mv, S),
           NEW sd, sd[s] = NoMover, KnownAll(sd, mv, S)
    PROVE  HasFree(table, size)
<1>1. \E i \in 1 .. size : table[i] = NoMover
  <2> SUFFICES ASSUME \A i \in 1 .. size : table[i] # NoMover PROVE FALSE
    OBVIOUS
  <2> DEFINE f == [i \in 1 .. size |-> mv[table[i]].sector]
  <2>1. ASSUME NEW i \in 1 .. size
        PROVE  /\ table[i] \in Nodes /\ f[i] \in S /\ sd[f[i]] = table[i]
               /\ f[i] # s
    BY ThinkersAssumption DEF Lists, KnownAll
  <2>2. f \in [1 .. size -> S \ {s}]
    BY <2>1
  <2>3. /\ IsFiniteSet(S \ {s}) /\ Cardinality(S \ {s}) = Cardinality(S) - 1
        /\ Cardinality(S) \in Nat
    BY FS_RemoveElement, FS_CardinalityType
  <2>4. IsFiniteSet(1 .. size) /\ Cardinality(1 .. size) = size
    BY FS_Interval
  <2> HIDE DEF f
  <2>5. Cardinality(S \ {s}) < Cardinality(1 .. size)
    BY <2>3, <2>4
  <2>6. \E i, j \in 1 .. size : i # j /\ f[i] = f[j]
    BY <2>2, <2>3, <2>4, <2>5, FS_PigeonHole
  <2> QED
    BY <2>1, <2>6 DEF Lists
<1> DEFINE free == {i \in 1 .. size : table[i] = NoMover}
<1>2. free \in SUBSET Nat /\ free # {}
  BY <1>1
<1>3. PICK i \in free : \A j \in free : i <= j
  BY <1>2, LeastExists
<1>4. \A j \in 1 .. i - 1 : j \in 1 .. size /\ ~(i <= j)
  BY <1>3
<1>5. \A j \in 1 .. i - 1 : table[j] # NoMover
  BY <1>3, <1>4
<1> QED
  BY <1>3, <1>5 DEF HasFree

LEMMA TablePuts ==
    ASSUME NEW mv, NEW n \in Nodes, NEW m, InSectors(mv), ~Busied(mv[n]), Busied(m),
           NEW table, NEW size, NEW S, Lists(table, size, mv, S)
    PROVE  LET mw == [mv EXCEPT ![n] = m]
           IN  /\ m.sector \notin S => Lists(table, size, mw, S)
               /\ m.sector \in S /\ HasFree(table, size)
                    => Lists(Put(table, n), size, mw, S)
<1> DEFINE mw == [mv EXCEPT ![n] = m]
<1>1. \A x \in Nodes : mw[x] = IF x = n THEN m ELSE mv[x]
  BY DEF InSectors
<1>2. NoMover \notin Nodes /\ \A i \in 1 .. size : table[i] # n
  BY ThinkersAssumption DEF Lists
<1> HIDE DEF mw
<1>3. ASSUME m.sector \notin S PROVE Lists(table, size, mw, S)
  <2>1. \A x \in Nodes : Busied(mw[x]) /\ mw[x].sector \in S => x # n /\ mw[x] = mv[x]
    BY <1>1, <1>3
  <2> QED
    BY <1>1, <1>2, <2>1 DEF Lists
<1>4. ASSUME m.sector \in S, HasFree(table, size)
      PROVE  Lists(Put(table, n), size, mw, S)
  <2> DEFINE e == CHOOSE i \in DOMAIN table :
                    table[i] = NoMover /\ \A j \in 1 .. i - 1 : table[j] # NoMover
             t == Put(table, n)
  <2>1. DOMAIN table = 1 .. size
    BY DEF Lists
  <2>2. e \in 1 .. size /\ table[e] = NoMover
    BY <1>4, <2>1 DEF HasFree
  <2>3. t = [table EXCEPT ![e] = n]
    BY DEF Put
  <2> HIDE DEF e, t
  <2>4. t = [i \in 1 .. size |-> t[i]] /\ \A i \in 1 .. size : t[i] = IF i = e THEN n ELSE table[i]
    BY <2>1, <2>2, <2>3
  <2>5. /\ \A i \in 1 .. size : t[i] # NoMover =>
              t[i] \in Nodes /\ Busied(mw[t[i]]) /\ mw[t[i]].sector \in S
        /\ \A i, j \in 1 .. size : t[i] = t[j] /\ t[i] # NoMover => i = j
    BY <1>1, <1>2, <1>4, <2>2, <2>4 DEF Lists
  <2>6. ASSUME NEW x \in Nodes, Busied(mw[x]), mw[x].sector \in S
        PROVE  \E i \in 1 .. size : t[i] = x
    <3>1. CASE x = n
      BY <2>2, <2>4, <3>1
    <3>2. CASE x # n
      <4>1. PICK i \in 1 .. size : table[i] = x
        BY <1>1, <2>6, <3>2 DEF Lists
      <4> QED
        BY <1>2, <2>2, <2>4, <4>1
    <3> QED
      BY <3>1, <3>2
  <2>7. Lists(t, size, mw, S)
    BY <2>4, <2>5, <2>6 DEF Lists
  <2> QED
    BY <2>7 DEF t
<1> QED
  BY <1>3, <1>4 DEF mw

-----------------------------------------------------------------------------
(* The invariant, and the kinds of steps.                                  *)

ListTypes ==
    /\ next \in [Links -> Links] /\ prev \in [Links -> Links] /\ current \in Links
    /\ function = [n \in Nodes |-> function[n]]

PlaneTypes ==
    /\ floor \in [Sectors -> Int] /\ ceil \in [Sectors -> Int]
    /\ sectors \subseteq Sectors /\ thing \subseteq Sectors
    /\ spent \subseteq Doors \X DoorSides

Accounts ==
    /\ InSectors(mover) /\ specialdata = [s \in Sectors |-> specialdata[s]]
    /\ Told(specialdata, mover) /\ Known(specialdata, mover, spent)
    /\ Lists(activeplats, MAXPLATS, mover, Plats)
    /\ Lists(activeceilings, MAXCEILINGS, mover, Crushers)

MoversInv ==
    /\ ListTypes /\ PlaneTypes /\ Accounts /\ ThingsFit
    /\ \A n \in Nodes : NodeOK(function[n], mover[n])

\* Steps of the list, of things, and of movers that are stopped or restarted.
LEMMA FunctionStep ==
    ASSUME MoversInv, UNCHANGED moverVars, ListTypes',
           \A n \in Nodes : NodeOK(function'[n], mover[n])
    PROVE  MoversInv'
BY DEF MoversInv, moverVars, PlaneTypes, Accounts, ThingsFit

\* A mover's own steps, but for the last.
LEMMA MoverStep ==
    ASSUME MoversInv, NEW c \in Nodes, NEW m, mover' = [mover EXCEPT ![c] = m],
           Busied(mover[c]), Busied(m), m.sector = mover[c].sector, NodeOK(function[c], m),
           UNCHANGED <<function, specialdata, activeplats, activeceilings, spent>>,
           ListTypes', PlaneTypes', ThingsFit'
    PROVE  MoversInv'
<1>1. Accounts'
  BY GoesOn DEF MoversInv, Accounts
<1>2. \A n \in Nodes : mover'[n] = IF n = c THEN m ELSE mover[n]
  BY DEF MoversInv, Accounts, InSectors
<1> QED
  BY <1>1, <1>2 DEF MoversInv

\* Its last step.
LEMMA LastStep ==
    ASSUME MoversInv, NEW c \in Nodes, mover' = [mover EXCEPT ![c] = Moverless],
           Busied(mover[c]), function' = Removed(function, c),
           specialdata' = [specialdata EXCEPT ![mover[c].sector] = NoMover], UNCHANGED spent,
           \/ activeplats' = Without(activeplats, c)
           \/ activeplats' = activeplats /\ mover[c].sector \notin Plats,
           \/ activeceilings' = Without(activeceilings, c)
           \/ activeceilings' = activeceilings /\ mover[c].sector \notin Crushers,
           ListTypes', PlaneTypes', ThingsFit'
    PROVE  MoversInv'
<1> USE DEF MoversInv, Accounts
<1>1. InSectors(mover)' /\ Told(specialdata, mover)' /\ Known(specialdata, mover, spent)'
  BY IsOver
<1>2. specialdata' = [s \in Sectors |-> specialdata'[s]]
  BY Zenon
<1>3. Lists(activeplats, MAXPLATS, mover, Plats)'
  <2>1. InSectors(mover) /\ Lists(activeplats, MAXPLATS, mover, Plats)
    OBVIOUS
  <2>2. /\ Lists(Without(activeplats, c), MAXPLATS, mover', Plats)
        /\ mover[c].sector \notin Plats => Lists(activeplats, MAXPLATS, mover', Plats)
    BY <2>1, TableForgets, Zenon
  <2> QED
    BY <2>2
<1>4. Lists(activeceilings, MAXCEILINGS, mover, Crushers)'
  <2>1. InSectors(mover) /\ Lists(activeceilings, MAXCEILINGS, mover, Crushers)
    OBVIOUS
  <2>2. /\ Lists(Without(activeceilings, c), MAXCEILINGS, mover', Crushers)
        /\ mover[c].sector \notin Crushers => Lists(activeceilings, MAXCEILINGS, mover', Crushers)
    BY <2>1, TableForgets, Zenon
  <2> QED
    BY <2>2
<1>5. \A n \in Nodes : /\ mover'[n] = IF n = c THEN Moverless ELSE mover[n]
                       /\ function'[n] = IF n = c THEN "removed" ELSE function[n]
  BY DEF Removed, InSectors, ListTypes
<1>6. \A n \in Nodes : NodeOK(function'[n], mover'[n])
  BY <1>5 DEF NodeOK
<1> QED
  BY <1>1, <1>2, <1>3, <1>4, <1>6

\* A line starts a mover.
LEMMA FirstStep ==
    ASSUME MoversInv, NEW n \in Nodes, NEW f, NEW m, Start(n, f, m), NodeOK(f, m), Busied(m),
           specialdata[m.sector] = NoMover \/ \E side \in DoorSides : <<m.sector, side>> \in spent',
           spent \subseteq spent', spent' \subseteq Doors \X DoorSides,
           IF m.sector \in Plats THEN activeplats' = Put(activeplats, n) ELSE UNCHANGED activeplats,
           IF m.sector \in Crushers THEN activeceilings' = Put(activeceilings, n)
                                    ELSE UNCHANGED activeceilings,
           UNCHANGED <<sectors, floor, ceil, thing>>
    PROVE  MoversInv'
<1> USE DEF MoversInv, Accounts
<1>1. /\ function[n] = "freed" /\ function' = [function EXCEPT ![n] = f]
      /\ mover' = [mover EXCEPT ![n] = m] /\ specialdata' = [specialdata EXCEPT ![m.sector] = n]
      /\ current' = current
  BY DEF Start, Spawn, Allocated
<1>2. ~Busied(mover[n])
  BY <1>1 DEF NodeOK, Busied
<1>3. m.sector \in Sectors
  BY KindsHaveSectors DEF NodeOK, Busied
<1>4. InSectors(mover)' /\ Told(specialdata, mover)' /\ Known(specialdata, mover, spent)'
  BY <1>1, <1>2, <1>3, IsStarted
<1>5. specialdata' = [s \in Sectors |-> specialdata'[s]]
  BY <1>1, Zenon
<1>6. ASSUME NEW S \in {Plats, Crushers}, m.sector \in S
      PROVE  specialdata[m.sector] = NoMover /\ KnownAll(specialdata, mover, S)
  <2>1. \A s \in S : \A side : <<s, side>> \notin spent' /\ <<s, side>> \notin spent
    BY MoversAssumption
  <2> QED
    BY <1>6, <2>1 DEF Known, KnownAll
<1>7. Lists(activeplats, MAXPLATS, mover, Plats)'
  <2>1. CASE m.sector \in Plats
    <3>1. /\ MAXPLATS \in Nat /\ IsFiniteSet(Plats) /\ Cardinality(Plats) <= MAXPLATS
          /\ Lists(activeplats, MAXPLATS, mover, Plats) /\ InSectors(mover)
      BY MoversAssumption
    <3>2. HasFree(activeplats, MAXPLATS)
      <4>1. specialdata[m.sector] = NoMover /\ KnownAll(specialdata, mover, Plats)
        BY <1>6, <2>1
      <4> QED
        BY <2>1, <3>1, <4>1, EntryIsFree, Zenon
    <3>3. Lists(Put(activeplats, n), MAXPLATS, mover', Plats)
      BY <1>1, <1>2, <2>1, <3>1, <3>2, TablePuts, Zenon
    <3> QED
      BY <2>1, <3>3
  <2>2. CASE m.sector \notin Plats
    BY <1>1, <1>2, <2>2, TablePuts
  <2> QED
    BY <2>1, <2>2
<1>8. Lists(activeceilings, MAXCEILINGS, mover, Crushers)'
  <2>1. CASE m.sector \in Crushers
    <3>1. /\ MAXCEILINGS \in Nat /\ IsFiniteSet(Crushers) /\ Cardinality(Crushers) <= MAXCEILINGS
          /\ Lists(activeceilings, MAXCEILINGS, mover, Crushers) /\ InSectors(mover)
      BY MoversAssumption
    <3>2. HasFree(activeceilings, MAXCEILINGS)
      <4>1. specialdata[m.sector] = NoMover /\ KnownAll(specialdata, mover, Crushers)
        BY <1>6, <2>1
      <4> QED
        BY <2>1, <3>1, <4>1, EntryIsFree, Zenon
    <3>3. Lists(Put(activeceilings, n), MAXCEILINGS, mover', Crushers)
      BY <1>1, <1>2, <2>1, <3>1, <3>2, TablePuts, Zenon
    <3> QED
      BY <2>1, <3>3
  <2>2. CASE m.sector \notin Crushers
    BY <1>1, <1>2, <2>2, TablePuts
  <2> QED
    BY <2>1, <2>2
<1>9. \A x \in Nodes : /\ mover'[x] = IF x = n THEN m ELSE mover[x]
                       /\ function'[x] = IF x = n THEN f ELSE function[x]
  BY <1>1 DEF InSectors, ListTypes
<1>10. ListTypes'
  <2>1. n \in Links /\ thinkercap \in Links
    BY DEF Links
  <2>2. next' \in [Links -> Links] /\ prev' \in [Links -> Links]
    BY <2>1 DEF Start, Spawn, P_AddThinker, ListTypes
  <2>3. function' = [x \in Nodes |-> function'[x]]
    BY <1>1, Zenon DEF ListTypes
  <2> QED
    BY <1>1, <2>2, <2>3 DEF ListTypes
<1> QED
  BY <1>4, <1>5, <1>7, <1>8, <1>9, <1>10 DEF PlaneTypes, ThingsFit

-----------------------------------------------------------------------------
(* The actions.                                                            *)

\* The steps of the list, and a thing's turn.
LEMMA ListSteps ==
    ASSUME MoversInv, UNCHANGED moverVars,
           \/ TicBegins \/ Unlink \/ TurnBegins \/ TurnEnds \/ TicEnds \/ RemoveMobj
           \/ \E n \in Nodes : Spawn(n, "P_MobjThinker")
    PROVE  MoversInv'
<1> USE DEF ListTypes
<1>1. /\ next \in [Links -> Links] /\ prev \in [Links -> Links] /\ current \in Links
      /\ function = [n \in Nodes |-> function[n]]
      /\ \A n \in Nodes : NodeOK(function[n], mover[n])
      /\ thinkercap \in Links /\ Nodes \subseteq Links
  BY DEF MoversInv, Links
<1>2. CASE TicBegins \/ TurnBegins \/ TurnEnds \/ TicEnds
  <2>1. ListTypes' /\ function' = function
    BY <1>1, <1>2 DEF TicBegins, TurnBegins, TurnEnds, TicEnds
  <2> QED
    BY <1>1, <2>1, FunctionStep
<1>3. CASE Unlink
  <2>1. /\ current \in Nodes /\ function[current] = "removed"
        /\ function' = [function EXCEPT ![current] = "freed"]
    BY <1>1, <1>3 DEF Unlink, Links
  <2>2. next' \in [Links -> Links] /\ prev' \in [Links -> Links] /\ current' \in Links
    BY <1>1, <1>3 DEF Unlink
  <2>3. /\ function' = [n \in Nodes |-> function'[n]]
        /\ \A n \in Nodes : function'[n] = IF n = current THEN "freed" ELSE function[n]
    BY <1>1, <2>1
  <2>4. \A n \in Nodes : NodeOK(function'[n], mover[n])
    BY <1>1, <2>1, <2>3 DEF NodeOK
  <2> QED
    BY <2>2, <2>3, <2>4, FunctionStep
<1>4. CASE RemoveMobj
  <2>1. PICK r \in Nodes : function[r] = "P_MobjThinker" /\ function' = [function EXCEPT ![r] = "removed"]
    BY <1>4 DEF RemoveMobj, Removed
  <2>2. /\ function' = [n \in Nodes |-> function'[n]]
        /\ \A n \in Nodes : function'[n] = IF n = r THEN "removed" ELSE function[n]
    BY <1>1, <2>1
  <2>3. \A n \in Nodes : NodeOK(function'[n], mover[n])
    BY <1>1, <2>1, <2>2 DEF NodeOK
  <2>4. UNCHANGED <<next, prev, current>>
    BY <1>4 DEF RemoveMobj
  <2> QED
    BY <1>1, <2>2, <2>3, <2>4, FunctionStep
<1>5. CASE \E n \in Nodes : Spawn(n, "P_MobjThinker")
  <2>1. PICK x \in Nodes : Spawn(x, "P_MobjThinker")
    BY <1>5
  <2>2. /\ function[x] = "freed" /\ function' = [function EXCEPT ![x] = "P_MobjThinker"]
        /\ current' = current
    BY <2>1 DEF Spawn, Allocated
  <2>3. next' \in [Links -> Links] /\ prev' \in [Links -> Links]
    BY <1>1, <2>1 DEF Spawn, P_AddThinker
  <2>4. /\ function' = [n \in Nodes |-> function'[n]]
        /\ \A n \in Nodes : function'[n] = IF n = x THEN "P_MobjThinker" ELSE function[n]
    BY <1>1, <2>2
  <2>5. \A n \in Nodes : NodeOK(function'[n], mover[n])
    BY <1>1, <2>2, <2>4 DEF NodeOK
  <2> QED
    BY <1>1, <2>2, <2>3, <2>4, <2>5, FunctionStep
<1> QED
  BY <1>2, <1>3, <1>4, <1>5

\* What is known of the thinker whose turn it is.
LEMMA AtCurrent ==
    ASSUME MoversInv, current # thinkercap
    PROVE  /\ current \in Nodes /\ next[current] \in Links
           /\ function[current] = "T_VerticalDoor" => DoorLike(mover[current])
           /\ function[current] = "T_PlatRaise" => PlatLike(mover[current])
           /\ function[current] = "T_MoveCeiling" => CeilingLike(mover[current])
BY DEF MoversInv, ListTypes, Links, NodeOK

\* A turn that is not the last leaves the list and its functions as they are.
LEMMA TurnStays ==
    ASSUME MoversInv, current # thinkercap, Stays
    PROVE  ListTypes' /\ UNCHANGED <<function, specialdata>>
BY AtCurrent DEF Stays, Turn, MoversInv, ListTypes

LEMMA TurnIsOver ==
    ASSUME MoversInv, current # thinkercap, Over
    PROVE  /\ ListTypes' /\ function' = Removed(function, current)
           /\ specialdata' = [specialdata EXCEPT ![mover[current].sector] = NoMover]
<1>1. /\ function' = [function EXCEPT ![current] = "removed"] /\ current' = next[current]
      /\ UNCHANGED <<next, prev>>
      /\ specialdata' = [specialdata EXCEPT ![mover[current].sector] = NoMover]
  BY DEF Over, Turn, Removed
<1>2. function' = [n \in Nodes |-> function'[n]]
  BY <1>1, Zenon DEF MoversInv, ListTypes
<1> QED
  BY <1>1, <1>2, AtCurrent DEF MoversInv, ListTypes, Removed

LEMMA DoorWaitsKeeps ==
    ASSUME MoversInv, current # thinkercap, DoorWaits
    PROVE  MoversInv'
<1> DEFINE d == mover[current]
           counted == [d EXCEPT !.topcountdown = Less(@)]
           Same(e) == DoorLike(e) /\ e.sector = d.sector
<1>1. DoorLike(d) /\ current \in Nodes /\ function[current] = "T_VerticalDoor"
  BY AtCurrent DEF DoorWaits
<1> DEFINE after == IF counted.topcountdown # 0 THEN counted
                    ELSE CASE d.direction = 0 /\ d.type = "door_normal" ->
                                [counted EXCEPT !.direction = -1]
                          [] d.direction = 0 /\ d.type = "close30ThenOpen" ->
                                [counted EXCEPT !.direction = 1]
                          [] d.direction = 2 /\ d.type = "raiseIn5Mins" ->
                                [counted EXCEPT !.direction = 1, !.type = "door_normal"]
                          [] OTHER -> counted
<1>2. Becomes(after) /\ Stays /\ UNCHANGED <<sectors, floor, ceil, activeplats, activeceilings, thing, spent>>
  BY DEF DoorWaits
<1>3. Same(counted)
  BY <1>1, DoorAltered
<1>4. Same([counted EXCEPT !.direction = -1]) /\ Same([counted EXCEPT !.direction = 1])
  BY <1>3, DoorAltered
<1>5. Same([[counted EXCEPT !.direction = 1] EXCEPT !.type = "door_normal"])
  BY <1>4, DoorAltered DEF NoMover
<1>6. [counted EXCEPT !.direction = 1, !.type = "door_normal"] =
        [[counted EXCEPT !.direction = 1] EXCEPT !.type = "door_normal"]
  BY Zenon
<1> HIDE DEF counted
<1>7. Same(after)
  BY <1>3, <1>4, <1>5, <1>6
<1> HIDE DEF after
<1>8. NodeOK("T_VerticalDoor", after) /\ Busied(after) /\ Busied(d)
  BY <1>1, <1>7, KindsHaveSectors DEF NodeOK
<1>9. PlaneTypes' /\ ThingsFit'
  BY <1>2 DEF MoversInv, PlaneTypes, ThingsFit
<1> QED
  BY <1>1, <1>2, <1>7, <1>8, <1>9, TurnStays, MoverStep DEF Becomes

\* A plane that moved where there is room left.
LEMMA CeilingMoved ==
    ASSUME MoversInv, NEW s \in Sectors, NEW at \in Int, ceil' = [ceil EXCEPT ![s] = at],
           UNCHANGED <<sectors, floor, thing, spent>>,
           s \notin Crushers /\ s \in thing /\ ceil[s] - floor[s] >= ThingHeight =>
                at - floor[s] >= ThingHeight
    PROVE  PlaneTypes' /\ ThingsFit'
BY DEF MoversInv, PlaneTypes, ThingsFit

LEMMA FloorMoved ==
    ASSUME MoversInv, NEW s \in Sectors, NEW at \in Int, floor' = [floor EXCEPT ![s] = at],
           UNCHANGED <<sectors, ceil, thing, spent>>,
           s \in thing /\ ceil[s] - floor[s] >= ThingHeight => ceil[s] - at >= ThingHeight
    PROVE  PlaneTypes' /\ ThingsFit'
BY DEF MoversInv, PlaneTypes, ThingsFit

LEMMA DoorMovesKeeps ==
    ASSUME MoversInv, current # thinkercap, DoorMoves
    PROVE  MoversInv'
<1> DEFINE d == mover[current]
           s == d.sector
           m == MoveCeiling(s, d.direction, IF d.direction = 1 THEN d.topheight ELSE floor[s], FALSE)
           there == m.res = "pastdest"
           closed == there /\ d.direction = -1 /\ d.type \in {"door_normal", "door_close"}
           opened == there /\ d.direction = 1 /\ d.type \in {"close30ThenOpen", "door_open"}
           Same(e) == DoorLike(e) /\ e.sector = d.sector
           after == CASE closed \/ opened -> Moverless
                      [] there /\ d.direction = -1 /\ d.type = "close30ThenOpen" ->
                            [d EXCEPT !.direction = 0, !.topcountdown = VDOORWAIT]
                      [] there /\ d.direction = 1 /\ d.type = "door_normal" ->
                            [d EXCEPT !.direction = 0, !.topcountdown = d.topwait]
                      [] m.res = "crushed" /\ d.type # "door_close" -> [d EXCEPT !.direction = 1]
                      [] OTHER -> d
<1>1. /\ DoorLike(d) /\ Busied(d) /\ current \in Nodes /\ function[current] = "T_VerticalDoor"
      /\ s \in Doors /\ s \in Sectors /\ d.topheight \in Int
  BY AtCurrent, KindsHaveSectors DEF DoorMoves, DoorLike, Sectors
<1>2. /\ ceil' = [ceil EXCEPT ![s] = m.at]
      /\ IF closed \/ opened THEN Over ELSE Stays
      /\ Becomes(after) /\ d.direction \in {-1, 1}
      /\ UNCHANGED <<sectors, floor, activeplats, activeceilings, thing, spent>>
  BY DEF DoorMoves
<1>3. s \notin Plats /\ s \notin Crushers
  BY <1>1, MoversAssumption
<1>4. floor[s] \in Int /\ ceil[s] \in Int
  BY <1>1 DEF MoversInv, PlaneTypes
<1>5. PlaneTypes' /\ ThingsFit'
  <2>1. /\ m.at \in Int
        /\ s \in thing /\ ceil[s] - floor[s] >= ThingHeight => m.at - floor[s] >= ThingHeight
    BY <1>1, <1>2, <1>4, CeilingLeavesRoom
  <2> HIDE DEF m, s
  <2> QED
    BY <1>1, <1>2, <2>1, CeilingMoved
<1>6. /\ Same(d) /\ Same([d EXCEPT !.direction = 1])
      /\ Same([[d EXCEPT !.direction = 0] EXCEPT !.topcountdown = VDOORWAIT])
      /\ Same([[d EXCEPT !.direction = 0] EXCEPT !.topcountdown = d.topwait])
  <2>1. Same([d EXCEPT !.direction = 0]) /\ Same([d EXCEPT !.direction = 1])
    BY <1>1, DoorAltered
  <2> QED
    BY <1>1, <2>1, DoorAltered
<1>7. /\ [d EXCEPT !.direction = 0, !.topcountdown = VDOORWAIT] =
            [[d EXCEPT !.direction = 0] EXCEPT !.topcountdown = VDOORWAIT]
      /\ [d EXCEPT !.direction = 0, !.topcountdown = d.topwait] =
            [[d EXCEPT !.direction = 0] EXCEPT !.topcountdown = d.topwait]
  BY Zenon
<1> HIDE DEF m
<1>8. CASE closed \/ opened
  <2>1. after = Moverless
    BY <1>8
  <2> HIDE DEF after
  <2>2. Over /\ mover' = [mover EXCEPT ![current] = Moverless]
    BY <1>2, <1>8, <2>1 DEF Becomes
  <2> QED
    BY <1>1, <1>2, <1>3, <1>5, <2>2, TurnIsOver, LastStep
<1>9. CASE ~(closed \/ opened)
  <2>1. Same(after)
    BY <1>6, <1>7, <1>9
  <2> HIDE DEF after
  <2>2. NodeOK("T_VerticalDoor", after) /\ Busied(after)
    BY <2>1, KindsHaveSectors DEF NodeOK
  <2> QED
    BY <1>1, <1>2, <1>5, <1>9, <2>1, <2>2, TurnStays, MoverStep DEF Becomes
<1> QED
  BY <1>8, <1>9

LEMMA PlatAltered ==
    ASSUME NEW p, PlatLike(p), NEW x
    PROVE  LET Same(e) == PlatLike(e) /\ e.sector = p.sector
           IN  Same([p EXCEPT !.status = x]) /\ Same([p EXCEPT !.count = x])
<1>1. p = [type |-> p.type, sector |-> p.sector, status |-> p.status, low |-> p.low,
           high |-> p.high, count |-> p.count]
  BY DEF PlatLike
<1>2. [p EXCEPT !.status = x] = [type |-> p.type, sector |-> p.sector, status |-> x,
                                 low |-> p.low, high |-> p.high, count |-> p.count]
  BY <1>1
<1>3. [p EXCEPT !.count = x] = [type |-> p.type, sector |-> p.sector, status |-> p.status,
                                low |-> p.low, high |-> p.high, count |-> x]
  BY <1>1
<1> QED
  BY <1>2, <1>3 DEF PlatLike

LEMMA PlatMovesKeeps ==
    ASSUME MoversInv, current # thinkercap, PlatMoves
    PROVE  MoversInv'
<1> DEFINE p == mover[current]
           s == p.sector
           m == IF p.status = "up" THEN MoveFloor(s, 1, p.high, FALSE)
                                   ELSE MoveFloor(s, -1, p.low, FALSE)
           there == m.res = "pastdest"
           last == there /\ p.status = "up" /\ p.type = "downWaitUpStay"
           Same(e) == PlatLike(e) /\ e.sector = p.sector
           after == CASE last -> Moverless
                      [] there /\ ~last -> [p EXCEPT !.status = "waiting", !.count = PLATWAIT]
                      [] m.res = "crushed" /\ p.status = "up" ->
                            [p EXCEPT !.status = "down", !.count = PLATWAIT]
                      [] OTHER -> p
<1>1. /\ PlatLike(p) /\ Busied(p) /\ current \in Nodes /\ function[current] = "T_PlatRaise"
      /\ s \in Plats /\ s \in Sectors /\ p.low \in Int /\ p.high \in Int
  BY AtCurrent, KindsHaveSectors DEF PlatMoves, PlatLike, Sectors
<1>2. /\ floor' = [floor EXCEPT ![s] = m.at]
      /\ IF last THEN Over ELSE Stays
      /\ activeplats' = IF last THEN Without(activeplats, current) ELSE activeplats
      /\ Becomes(after)
      /\ UNCHANGED <<sectors, ceil, activeceilings, thing, spent>>
  BY DEF PlatMoves
<1>3. s \notin Crushers
  BY <1>1, MoversAssumption
<1>4. floor[s] \in Int /\ ceil[s] \in Int
  BY <1>1 DEF MoversInv, PlaneTypes
<1>5. PlaneTypes' /\ ThingsFit'
  <2>1. /\ m.at \in Int
        /\ s \in thing /\ ceil[s] - floor[s] >= ThingHeight => ceil[s] - m.at >= ThingHeight
    BY <1>1, <1>4, FloorLeavesRoom
  <2> HIDE DEF m, s
  <2> QED
    BY <1>1, <1>2, <2>1, FloorMoved
<1>6. /\ Same(p)
      /\ Same([[p EXCEPT !.status = "waiting"] EXCEPT !.count = PLATWAIT])
      /\ Same([[p EXCEPT !.status = "down"] EXCEPT !.count = PLATWAIT])
  <2>1. Same([p EXCEPT !.status = "waiting"]) /\ Same([p EXCEPT !.status = "down"])
    BY <1>1, PlatAltered
  <2> QED
    BY <1>1, <2>1, PlatAltered
<1>7. /\ [p EXCEPT !.status = "waiting", !.count = PLATWAIT] =
            [[p EXCEPT !.status = "waiting"] EXCEPT !.count = PLATWAIT]
      /\ [p EXCEPT !.status = "down", !.count = PLATWAIT] =
            [[p EXCEPT !.status = "down"] EXCEPT !.count = PLATWAIT]
  BY Zenon
<1> HIDE DEF m
<1>8. CASE last
  <2>1. after = Moverless
    BY <1>8
  <2> HIDE DEF after
  <2>2. /\ Over /\ mover' = [mover EXCEPT ![current] = Moverless]
        /\ activeplats' = Without(activeplats, current)
    BY <1>2, <1>8, <2>1 DEF Becomes
  <2> QED
    BY <1>1, <1>2, <1>3, <1>5, <2>2, TurnIsOver, LastStep
<1>9. CASE ~last
  <2>1. Same(after)
    BY <1>6, <1>7, <1>9
  <2> HIDE DEF after
  <2>2. NodeOK("T_PlatRaise", after) /\ Busied(after)
    BY <2>1, KindsHaveSectors DEF NodeOK
  <2>3. Stays /\ activeplats' = activeplats
    BY <1>2, <1>9
  <2> QED
    BY <1>1, <1>2, <1>5, <2>1, <2>2, <2>3, TurnStays, MoverStep DEF Becomes
<1> QED
  BY <1>8, <1>9

LEMMA PlatWaitsKeeps ==
    ASSUME MoversInv, current # thinkercap, PlatWaits
    PROVE  MoversInv'
<1> DEFINE p == mover[current]
           counted == [p EXCEPT !.count = @ - 1]
           Same(e) == PlatLike(e) /\ e.sector = p.sector
           after == IF counted.count # 0 THEN counted
                    ELSE [counted EXCEPT !.status =
                            IF floor[p.sector] = p.low THEN "up" ELSE "down"]
<1>1. PlatLike(p) /\ Busied(p) /\ current \in Nodes /\ function[current] = "T_PlatRaise"
  BY AtCurrent, KindsHaveSectors DEF PlatWaits
<1>2. Becomes(after) /\ Stays /\ UNCHANGED <<sectors, floor, ceil, activeplats, activeceilings, thing, spent>>
  BY DEF PlatWaits
<1>3. Same(counted)
  BY <1>1, PlatAltered
<1> HIDE DEF counted
<1>4. Same(after)
  BY <1>3, PlatAltered
<1> HIDE DEF after
<1>5. NodeOK("T_PlatRaise", after) /\ Busied(after)
  BY <1>4, KindsHaveSectors DEF NodeOK
<1>6. PlaneTypes' /\ ThingsFit'
  BY <1>2 DEF MoversInv, PlaneTypes, ThingsFit
<1> QED
  BY <1>1, <1>2, <1>4, <1>5, <1>6, TurnStays, MoverStep DEF Becomes

LEMMA CeilingKeeps ==
    ASSUME MoversInv, current # thinkercap, T_MoveCeiling
    PROVE  MoversInv'
<1> DEFINE c == mover[current]
           s == c.sector
           down == c.direction = -1
           m == MoveCeiling(s, c.direction, IF down THEN c.bottomheight ELSE c.topheight,
                            down /\ c.type = "crushAndRaise")
           there == m.res = "pastdest"
           last == there /\ down /\ c.type = "lowerToFloor"
           Same(e) == CeilingLike(e) /\ e.sector = c.sector
           after == CASE last -> Moverless
                      [] there /\ ~last -> [c EXCEPT !.direction = -c.direction]
                      [] OTHER -> c
<1>1. /\ CeilingLike(c) /\ Busied(c) /\ current \in Nodes /\ function[current] = "T_MoveCeiling"
      /\ s \in Crushers /\ s \in Sectors /\ c.topheight \in Int /\ c.bottomheight \in Int
      /\ c.direction \in {-1, 1}
  BY AtCurrent, KindsHaveSectors DEF T_MoveCeiling, CeilingLike, Sectors
<1>2. /\ ceil' = [ceil EXCEPT ![s] = m.at]
      /\ IF last THEN Over ELSE Stays
      /\ activeceilings' = IF last THEN Without(activeceilings, current) ELSE activeceilings
      /\ Becomes(after)
      /\ UNCHANGED <<sectors, floor, activeplats, thing, spent>>
  BY DEF T_MoveCeiling
<1>3. s \notin Plats
  BY <1>1, MoversAssumption
<1>4. floor[s] \in Int /\ ceil[s] \in Int
  BY <1>1 DEF MoversInv, PlaneTypes
<1>5. PlaneTypes' /\ ThingsFit'
  <2>1. m.at \in Int
    <3>1. (down /\ c.type = "crushAndRaise") \in BOOLEAN
      OBVIOUS
    <3> QED
      BY <1>1, <1>4, <3>1, CeilingLeavesRoom
  <2> HIDE DEF m, s
  <2> QED
    BY <1>1, <1>2, <2>1, CeilingMoved
<1>6. Same(c) /\ Same([c EXCEPT !.direction = -c.direction])
  <2>1. c = [type |-> c.type, sector |-> c.sector, direction |-> c.direction,
             topheight |-> c.topheight, bottomheight |-> c.bottomheight]
    BY <1>1 DEF CeilingLike
  <2>2. [c EXCEPT !.direction = -c.direction] =
            [type |-> c.type, sector |-> c.sector, direction |-> -c.direction,
             topheight |-> c.topheight, bottomheight |-> c.bottomheight]
    BY <2>1
  <2> QED
    BY <1>1, <2>2 DEF CeilingLike
<1> HIDE DEF m
<1>7. CASE last
  <2>1. after = Moverless
    BY <1>7
  <2> HIDE DEF after
  <2>2. /\ Over /\ mover' = [mover EXCEPT ![current] = Moverless]
        /\ activeceilings' = Without(activeceilings, current)
    BY <1>2, <1>7, <2>1 DEF Becomes
  <2> QED
    BY <1>1, <1>2, <1>3, <1>5, <2>2, TurnIsOver, LastStep
<1>8. CASE ~last
  <2>1. Same(after)
    BY <1>6, <1>8
  <2> HIDE DEF after
  <2>2. NodeOK("T_MoveCeiling", after) /\ Busied(after)
    BY <2>1, KindsHaveSectors DEF NodeOK
  <2>3. Stays /\ activeceilings' = activeceilings
    BY <1>2, <1>8
  <2> QED
    BY <1>1, <1>2, <1>5, <2>1, <2>2, <2>3, TurnStays, MoverStep DEF Becomes
<1> QED
  BY <1>7, <1>8

\* Lines.
LEMMA DoorStarts ==
    ASSUME MoversInv, NEW s \in sectors, NEW n \in Nodes, s \in Doors,
           \/ EV_DoDoor(s, n)
           \/ \E side \in DoorSides : EV_VerticalDoorStay(s, n, side)
           \/ \E byPlayer \in BOOLEAN : EV_VerticalDoor(s, n, byPlayer)
    PROVE  MoversInv'
<1>1. s \in Sectors /\ s \notin Plats /\ s \notin Crushers
  BY MoversAssumption DEF Sectors
<1>2. \A type, direction, topheight : type # NoMover /\ topheight \in Int =>
          LET m == [Door(s, type, direction) EXCEPT !.topheight = topheight]
          IN  NodeOK("T_VerticalDoor", m) /\ Busied(m) /\ m.sector = s
  <2> TAKE type, direction, topheight
  <2> SUFFICES ASSUME type # NoMover, topheight \in Int
               PROVE  LET m == [Door(s, type, direction) EXCEPT !.topheight = topheight]
                      IN  NodeOK("T_VerticalDoor", m) /\ Busied(m) /\ m.sector = s
    OBVIOUS
  <2> DEFINE m == [Door(s, type, direction) EXCEPT !.topheight = topheight]
  <2>1. m = [type |-> type, sector |-> s, direction |-> direction, topheight |-> topheight,
             topwait |-> VDOORWAIT, topcountdown |-> 0]
    BY DEF Door
  <2> HIDE DEF m
  <2>2. DoorLike(m) /\ m.sector = s
    BY <2>1 DEF DoorLike
  <2>3. NodeOK("T_VerticalDoor", m) /\ Busied(m) /\ m.sector = s
    BY <2>2, KindsHaveSectors DEF NodeOK
  <2> QED
    BY <2>3 DEF m
<1>3. \A type, direction : type # NoMover =>
          LET m == Door(s, type, direction)
          IN  NodeOK("T_VerticalDoor", m) /\ Busied(m) /\ m.sector = s
  <2> TAKE type, direction
  <2> SUFFICES ASSUME type # NoMover
               PROVE  LET m == Door(s, type, direction)
                      IN  NodeOK("T_VerticalDoor", m) /\ Busied(m) /\ m.sector = s
    OBVIOUS
  <2> DEFINE m == Door(s, type, direction)
  <2>1. m = [type |-> type, sector |-> s, direction |-> direction, topheight |-> Top,
             topwait |-> VDOORWAIT, topcountdown |-> 0]
    BY DEF Door
  <2> HIDE DEF m
  <2>2. DoorLike(m) /\ m.sector = s
    BY <2>1, MoversAssumption DEF DoorLike
  <2>3. NodeOK("T_VerticalDoor", m) /\ Busied(m) /\ m.sector = s
    BY <2>2, KindsHaveSectors DEF NodeOK
  <2> QED
    BY <2>3 DEF m
<1>4. CASE EV_DoDoor(s, n)
  <2>1. PICK type \in DoorTypes :
          Start(n, "T_VerticalDoor",
                [Door(s, type, IF type \in {"door_close", "close30ThenOpen"} THEN -1 ELSE 1)
                    EXCEPT !.topheight = IF type = "close30ThenOpen" THEN ceil[s] ELSE Top])
    BY <1>4 DEF EV_DoDoor
  <2> DEFINE m == [Door(s, type, IF type \in {"door_close", "close30ThenOpen"} THEN -1 ELSE 1)
                    EXCEPT !.topheight = IF type = "close30ThenOpen" THEN ceil[s] ELSE Top]
  <2>2. type # NoMover /\ (IF type = "close30ThenOpen" THEN ceil[s] ELSE Top) \in Int
    BY <1>1, MoversAssumption DEF MoversInv, PlaneTypes, NoMover
  <2>3. NodeOK("T_VerticalDoor", m) /\ Busied(m) /\ m.sector = s
    BY <1>2, <2>2
  <2>4. Start(n, "T_VerticalDoor", m)
    BY <2>1
  <2> HIDE DEF m
  <2>5. specialdata[s] = NoMover /\ UNCHANGED <<sectors, floor, ceil, activeplats, activeceilings, thing, spent>>
    BY <1>4 DEF EV_DoDoor
  <2>6. spent' \subseteq Doors \X DoorSides
    BY <2>5 DEF MoversInv, PlaneTypes
  <2> QED
    BY <1>1, <2>3, <2>4, <2>5, <2>6, FirstStep
<1>5. ASSUME NEW side \in DoorSides, EV_VerticalDoorStay(s, n, side)
      PROVE  MoversInv'
  <2> DEFINE m == Door(s, "door_open", 1)
  <2>1. NodeOK("T_VerticalDoor", m) /\ Busied(m) /\ m.sector = s
    BY <1>3 DEF NoMover
  <2>2. /\ Start(n, "T_VerticalDoor", m) /\ spent' = spent \cup {<<s, side>>}
        /\ UNCHANGED <<sectors, floor, ceil, activeplats, activeceilings, thing>>
    BY <1>5 DEF EV_VerticalDoorStay
  <2> HIDE DEF m
  <2>3. /\ spent' \subseteq Doors \X DoorSides /\ spent \subseteq spent'
        /\ \E x \in DoorSides : <<s, x>> \in spent'
    BY <2>2 DEF MoversInv, PlaneTypes
  <2> QED
    BY <1>1, <2>1, <2>2, <2>3, FirstStep
<1>6. ASSUME NEW byPlayer \in BOOLEAN, EV_VerticalDoor(s, n, byPlayer)
      PROVE  MoversInv'
  <2>1. UNCHANGED <<sectors, floor, ceil, activeplats, activeceilings, thing, spent>>
    BY <1>6 DEF EV_VerticalDoor
  <2>2. CASE specialdata[s] = NoMover
    <3> DEFINE m == Door(s, "door_normal", 1)
    <3>1. NodeOK("T_VerticalDoor", m) /\ Busied(m) /\ m.sector = s
      BY <1>3 DEF NoMover
    <3>2. Start(n, "T_VerticalDoor", m)
      BY <1>6, <2>2 DEF EV_VerticalDoor
    <3> HIDE DEF m
    <3>3. spent' \subseteq Doors \X DoorSides
      BY <2>1 DEF MoversInv, PlaneTypes
    <3> QED
      BY <1>1, <2>1, <2>2, <3>1, <3>2, <3>3, FirstStep
  <2>3. CASE specialdata[s] # NoMover
    <3> DEFINE d == specialdata[s]
               x == IF mover[d].direction = -1 THEN 1 ELSE -1
               m == [mover[d] EXCEPT !.direction = x]
    <3>1. d \in Nodes /\ Busied(mover[d]) /\ mover[d].sector = s
      BY <1>1, <2>3 DEF MoversInv, Accounts, Told
    <3>2. function[d] = "T_VerticalDoor" /\ DoorLike(mover[d])
      <4>1. NodeOK(function[d], mover[d])
        BY <3>1 DEF MoversInv
      <4> QED
        BY <1>1, <3>1, <4>1 DEF NodeOK, Busied, PlatLike, CeilingLike
    <3>3. mover' = [mover EXCEPT ![d].direction = x] /\ UNCHANGED <<listVars, specialdata>>
      BY <1>6, <2>3 DEF EV_VerticalDoor
    <3>4. mover' = [mover EXCEPT ![d] = m]
      BY <3>3, Zenon
    <3>5. DoorLike(m) /\ m.sector = mover[d].sector
      BY <3>2, DoorAltered
    <3> HIDE DEF d, m
    <3>6. Busied(m) /\ NodeOK("T_VerticalDoor", m)
      BY <3>5, KindsHaveSectors DEF NodeOK
    <3>7. ListTypes' /\ PlaneTypes' /\ ThingsFit' /\ function' = function
      BY <2>1, <3>3 DEF listVars, MoversInv, ListTypes, PlaneTypes, ThingsFit
    <3>8. UNCHANGED <<function, specialdata, activeplats, activeceilings, spent>>
      BY <2>1, <3>3, <3>7
    <3> QED
      BY <3>1, <3>2, <3>4, <3>5, <3>6, <3>7, <3>8, MoverStep
  <2> QED
    BY <2>2, <2>3
<1> QED
  BY <1>4, <1>5, <1>6

LEMMA PlatStarts ==
    ASSUME MoversInv, NEW s \in sectors, NEW n \in Nodes, s \in Plats, EV_DoPlat(s, n)
    PROVE  MoversInv'
<1>1. s \in Sectors /\ s \notin Doors /\ s \notin Crushers
  BY MoversAssumption DEF Sectors
<1>2. PICK type \in PlatTypes, status \in {"up", "down"} :
        Start(n, "T_PlatRaise",
              [type |-> type, sector |-> s, status |-> status, low |-> 0,
               high |-> IF type = "downWaitUpStay" THEN floor[s] ELSE PlatHigh, count |-> 0])
  BY DEF EV_DoPlat
<1> DEFINE m == [type |-> type, sector |-> s, status |-> status, low |-> 0,
                 high |-> IF type = "downWaitUpStay" THEN floor[s] ELSE PlatHigh, count |-> 0]
<1>3. type # NoMover /\ (IF type = "downWaitUpStay" THEN floor[s] ELSE PlatHigh) \in Int
  BY <1>1, MoversAssumption DEF MoversInv, PlaneTypes, PlatHigh, NoMover
<1>4. PlatLike(m) /\ m.sector = s
  BY <1>3 DEF PlatLike
<1>5. Start(n, "T_PlatRaise", m)
  BY <1>2
<1> HIDE DEF m
<1>6. NodeOK("T_PlatRaise", m) /\ Busied(m)
  BY <1>4, KindsHaveSectors DEF NodeOK
<1>7. /\ specialdata[s] = NoMover /\ activeplats' = Put(activeplats, n)
      /\ UNCHANGED <<sectors, floor, ceil, activeceilings, thing, spent>>
  BY DEF EV_DoPlat
<1>8. spent' \subseteq Doors \X DoorSides
  BY <1>7 DEF MoversInv, PlaneTypes
<1> QED
  BY <1>1, <1>4, <1>5, <1>6, <1>7, <1>8, FirstStep

LEMMA CeilingStarts ==
    ASSUME MoversInv, NEW s \in sectors, NEW n \in Nodes, s \in Crushers, EV_DoCeiling(s, n)
    PROVE  MoversInv'
<1>1. s \in Sectors /\ s \notin Doors /\ s \notin Plats
  BY MoversAssumption DEF Sectors
<1>2. PICK type \in {"crushAndRaise", "lowerToFloor"} :
        Start(n, "T_MoveCeiling",
              [type |-> type, sector |-> s, direction |-> -1, topheight |-> ceil[s],
               bottomheight |-> floor[s] + (IF type = "lowerToFloor" THEN 0 ELSE 1)])
  BY DEF EV_DoCeiling
<1> DEFINE m == [type |-> type, sector |-> s, direction |-> -1, topheight |-> ceil[s],
                 bottomheight |-> floor[s] + (IF type = "lowerToFloor" THEN 0 ELSE 1)]
<1>3. /\ type # NoMover /\ ceil[s] \in Int
      /\ floor[s] + (IF type = "lowerToFloor" THEN 0 ELSE 1) \in Int
  BY <1>1 DEF MoversInv, PlaneTypes, NoMover
<1>4. CeilingLike(m) /\ m.sector = s
  BY <1>3 DEF CeilingLike
<1>5. Start(n, "T_MoveCeiling", m)
  BY <1>2
<1> HIDE DEF m
<1>6. NodeOK("T_MoveCeiling", m) /\ Busied(m)
  BY <1>4, KindsHaveSectors DEF NodeOK
<1>7. /\ specialdata[s] = NoMover /\ activeceilings' = Put(activeceilings, n)
      /\ UNCHANGED <<sectors, floor, ceil, activeplats, thing, spent>>
  BY DEF EV_DoCeiling
<1>8. spent' \subseteq Doors \X DoorSides
  BY <1>7 DEF MoversInv, PlaneTypes
<1> QED
  BY <1>1, <1>4, <1>5, <1>6, <1>7, <1>8, FirstStep

LEMMA StasisKeeps ==
    ASSUME MoversInv, NEW s \in sectors, NEW n \in Nodes, specialdata[s] = n,
           \/ s \in Plats /\ (Stop(n) \/ Restart(n, "T_PlatRaise"))
           \/ s \in Crushers /\ (Stop(n) \/ Restart(n, "T_MoveCeiling"))
    PROVE  MoversInv'
<1>1. s \in Sectors /\ s \notin Doors /\ (s \in Plats => s \notin Crushers)
  BY MoversAssumption DEF Sectors
<1>2. NodeOK(function[n], mover[n]) /\ Busied(mover[n]) /\ mover[n].sector = s
  BY <1>1, ThinkersAssumption DEF MoversInv, Accounts, Told
<1>3. PICK f : /\ function' = [function EXCEPT ![n] = f]
               /\ f = "stasis" \/ (s \in Plats /\ f = "T_PlatRaise") \/ (s \in Crushers /\ f = "T_MoveCeiling")
  BY DEF Stop, Restart
<1>4. NodeOK(f, mover[n])
  BY <1>1, <1>2, <1>3 DEF NodeOK, Busied, DoorLike, PlatLike, CeilingLike
<1>5. function' = [x \in Nodes |-> function'[x]]
  BY <1>3, Zenon DEF MoversInv, ListTypes
<1>6. \A x \in Nodes : function'[x] = IF x = n THEN f ELSE function[x]
  BY <1>3 DEF MoversInv, ListTypes
<1>7. UNCHANGED moverVars /\ UNCHANGED <<next, prev, current>>
  BY DEF Stop, Restart, moverVars
<1> QED
  BY <1>4, <1>5, <1>6, <1>7, FunctionStep DEF MoversInv, ListTypes

LEMMA ThingsStep ==
    ASSUME MoversInv, Come \/ Go
    PROVE  MoversInv'
<1>1. UNCHANGED <<listVars, sectors, floor, ceil, specialdata, mover, activeplats, activeceilings, spent>>
  BY DEF Come, Go
<1>2. /\ thing' \subseteq Sectors
      /\ \A s \in thing' \ thing : ceil[s] - floor[s] >= ThingHeight
  BY DEF Come, Go, MoversInv, PlaneTypes
<1>3. PlaneTypes' /\ ThingsFit'
  BY <1>1, <1>2 DEF MoversInv, PlaneTypes, ThingsFit
<1> QED
  BY <1>1, <1>3 DEF MoversInv, ListTypes, Accounts, listVars

LEMMA MoversKept ==
    ASSUME MoversInv, [MoversNext]_moversVars
    PROVE  MoversInv'
<1>1. CASE RunThinker
  <2>1. CASE InStasis
    <3>1. UNCHANGED moverVars /\ function' = function /\ ListTypes'
      BY <1>1, <2>1, AtCurrent DEF RunThinker, InStasis, Turn, MoversInv, ListTypes
    <3> QED
      BY <3>1, FunctionStep DEF MoversInv
  <2>2. CASE PIT_ChangeSector
    BY <2>2, ListSteps DEF PIT_ChangeSector
  <2> QED
    BY <1>1, <2>1, <2>2, DoorWaitsKeeps, DoorMovesKeeps, PlatMovesKeeps, PlatWaitsKeeps, CeilingKeeps
       DEF RunThinker
<1>2. CASE RunThinkers /\ ~RunThinker
  BY <1>2, ListSteps DEF RunThinkers
<1>3. CASE UseLine
  <2>1. PICK s \in sectors, n \in Nodes :
        \/ s \in Doors /\ EV_DoDoor(s, n)
        \/ \E byPlayer \in BOOLEAN : s \in Doors /\ EV_VerticalDoor(s, n, byPlayer)
        \/ \E side \in DoorSides : s \in Doors /\ EV_VerticalDoorStay(s, n, side)
        \/ s \in Plats /\ EV_DoPlat(s, n)
        \/ s \in Plats /\ specialdata[s] = n /\ (Stop(n) \/ Restart(n, "T_PlatRaise"))
        \/ s \in Crushers /\ EV_DoCeiling(s, n)
        \/ s \in Crushers /\ specialdata[s] = n /\ (Stop(n) \/ Restart(n, "T_MoveCeiling"))
    BY <1>3 DEF UseLine
  <2> QED
    BY <2>1, DoorStarts, PlatStarts, CeilingStarts, StasisKeeps
<1>4. CASE Play /\ ~UseLine
  BY <1>4, ListSteps, ThingsStep DEF Play, SpawnMobj
<1>5. CASE UNCHANGED moversVars
  BY <1>5
     DEF moversVars, listVars, moverVars, MoversInv, ListTypes, PlaneTypes, Accounts, ThingsFit
<1> QED
  BY <1>1, <1>2, <1>3, <1>4, <1>5 DEF MoversNext

-----------------------------------------------------------------------------
(* The level's beginning, and the theorems.                                *)

LEMMA LevelStarts ==
    ASSUME NEW n \in Links, NEW s, NEW door, Level(n, s, door),
           \/ n = thinkercap /\ s = NoMover
           \/ n \in Nodes /\ s \in Doors /\ DoorLike(door) /\ door.sector = s,
           sectors \in Levels, ceil \in [Sectors -> Int]
    PROVE  MoversInv
<1>1. /\ next = [l \in Links |-> IF l = thinkercap THEN n ELSE thinkercap] /\ prev = next
      /\ function = [m \in Nodes |-> IF m = n THEN "T_VerticalDoor" ELSE "freed"]
      /\ current = thinkercap /\ floor = FloorsAtFirst
      /\ specialdata = [x \in Sectors |-> IF x = s THEN n ELSE NoMover]
      /\ mover = [m \in Nodes |-> IF m = n THEN door ELSE Moverless]
      /\ activeplats = Empty(MAXPLATS) /\ activeceilings = Empty(MAXCEILINGS)
      /\ thing = {} /\ spent = {}
  BY DEF Level, ListInit
<1>2. ListTypes
  <2>1. thinkercap \in Links
    BY DEF Links
  <2> QED
    BY <1>1, <2>1 DEF ListTypes
<1>3. PlaneTypes
  <2>1. FloorsAtFirst \in [Sectors -> Int]
    BY MoversAssumption DEF FloorsAtFirst, PlatHigh
  <2> QED
    BY <1>1, <2>1, MoversAssumption DEF PlaneTypes, Sectors
<1>4. NoMover \notin Nodes /\ thinkercap \notin Nodes /\ NoMover \notin Sectors
  BY ThinkersAssumption, MoversAssumption DEF Sectors
<1>5. ~Busied(Moverless)
  BY DEF Busied
<1>6. ASSUME NEW m \in Nodes PROVE NodeOK(function[m], mover[m])
  BY <1>1, <1>4 DEF NodeOK
<1>7. ASSUME NEW m \in Nodes, Busied(mover[m])
      PROVE  m = n /\ mover[m].sector = s /\ s \in Doors /\ s \in Sectors /\ s \notin Plats
             /\ s \notin Crushers
  BY <1>1, <1>4, <1>5, <1>7, MoversAssumption DEF Sectors
<1>8. InSectors(mover)
  BY <1>1, <1>7 DEF InSectors
<1>9. Told(specialdata, mover)
  <2> SUFFICES ASSUME NEW x \in Sectors, specialdata[x] # NoMover
               PROVE  specialdata[x] \in Nodes /\ Busied(mover[specialdata[x]])
                      /\ mover[specialdata[x]].sector = x
    BY DEF Told
  <2>1. x = s /\ specialdata[x] = n /\ n \in Nodes /\ DoorLike(door) /\ door.sector = s
    BY <1>1, <1>4
  <2>2. mover[n] = door /\ Busied(door)
    BY <1>1, <2>1, KindsHaveSectors
  <2> QED
    BY <2>1, <2>2
<1>10. Known(specialdata, mover, spent)
  BY <1>1, <1>7 DEF Known
<1>11. ASSUME NEW table, NEW size, table = Empty(size), NEW S \in {Plats, Crushers}
       PROVE  Lists(table, size, mover, S)
  BY <1>7, <1>11 DEF Lists, Empty
<1>12. Accounts
  BY <1>1, <1>8, <1>9, <1>10, <1>11 DEF Accounts
<1>13. ThingsFit
  BY <1>1 DEF ThingsFit
<1> QED
  BY <1>2, <1>3, <1>6, <1>12, <1>13 DEF MoversInv

LEMMA MoversStart == MoversInit => MoversInv
<1> SUFFICES ASSUME MoversInit PROVE MoversInv
  OBVIOUS
<1>1. CeilingsAtFirst \in [Sectors -> Int]
  BY MoversAssumption DEF CeilingsAtFirst
<1>2. CASE Level(thinkercap, NoMover, Moverless) /\ ceil = CeilingsAtFirst
  BY <1>1, <1>2, LevelStarts DEF MoversInit, Links
<1>3. ASSUME NEW s \in Doors, NEW n \in Nodes,
             Level(n, s, P_SpawnDoorRaiseIn5Mins(s)) /\ ceil = CeilingsAtFirst
      PROVE  MoversInv
  <2> DEFINE d == P_SpawnDoorRaiseIn5Mins(s)
  <2>1. d = [type |-> "raiseIn5Mins", sector |-> s, direction |-> 2, topheight |-> Top,
             topwait |-> VDOORWAIT, topcountdown |-> VDOORWAIT]
    BY DEF P_SpawnDoorRaiseIn5Mins, Door
  <2> HIDE DEF d
  <2>2. DoorLike(d) /\ d.sector = s
    BY <2>1, MoversAssumption DEF DoorLike, NoMover
  <2>3. Level(n, s, d)
    BY <1>3 DEF d
  <2> QED
    BY <1>1, <1>3, <2>2, <2>3, LevelStarts DEF MoversInit, Links
<1>4. ASSUME NEW s \in Doors, NEW n \in Nodes, NEW height \in {-1, Top + 1}, NEW wait \in {0, 1},
             Level(n, s, P_SpawnDoorCloseIn30(s, height, wait)),
             ceil = [CeilingsAtFirst EXCEPT ![s] = Top]
      PROVE  MoversInv
  <2> DEFINE d == P_SpawnDoorCloseIn30(s, height, wait)
  <2>1. d = [type |-> "door_normal", sector |-> s, direction |-> 0, topheight |-> height,
             topwait |-> wait, topcountdown |-> VDOORWAIT]
    <3> DEFINE a == Door(s, "door_normal", 0)
               b == [a EXCEPT !.topcountdown = VDOORWAIT]
               c == [b EXCEPT !.topheight = height]
    <3>1. b = [type |-> "door_normal", sector |-> s, direction |-> 0, topheight |-> Top,
               topwait |-> VDOORWAIT, topcountdown |-> VDOORWAIT]
      BY DEF Door
    <3> HIDE DEF b
    <3>2. c = [type |-> "door_normal", sector |-> s, direction |-> 0, topheight |-> height,
               topwait |-> VDOORWAIT, topcountdown |-> VDOORWAIT]
      BY <3>1
    <3>3. d = [c EXCEPT !.topwait = wait]
      BY Zenon DEF P_SpawnDoorCloseIn30, b
    <3> HIDE DEF c
    <3> QED
      BY <3>2, <3>3
  <2> HIDE DEF d
  <2>2. DoorLike(d) /\ d.sector = s
    BY <2>1, MoversAssumption DEF DoorLike, NoMover
  <2>3. ceil \in [Sectors -> Int]
    <3>1. s \in Sectors /\ Top \in Int
      BY MoversAssumption DEF Sectors
    <3> QED
      BY <1>1, <1>4, <3>1
  <2>4. Level(n, s, d)
    BY <1>4 DEF d
  <2> QED
    BY <2>2, <2>3, <2>4, LevelStarts DEF MoversInit, Links
<1> QED
  BY <1>2, <1>3, <1>4 DEF MoversInit

\* A step of the engine is one of the movers, or leaves their variables alone.
LEMMA MoversArePart == [EngineNext]_engineVars => [MoversNext]_moversVars
BY DEF EngineNext, engineVars, Updating, Deciding, Caching, Playing, Sounding

\* In every level a thing that stands in a doorway or on a platform fits there;
\* crushers are left out, since they do not give way.
THEOREM ThingsAlwaysFit == EngineSpec => []ThingsFit
<1>1. EngineInit => MoversInv
  BY MoversStart DEF EngineInit
<1>2. MoversInv => ThingsFit
  BY DEF MoversInv
<1> QED
  BY <1>1, <1>2, MoversKept, MoversArePart, PTL DEF EngineSpec

\* Sectors, movers and the tables that stop and restart them always agree, and
\* the tables have room for every platform and ceiling of the level.
THEOREM SectorsKnowTheirMovers == EngineSpec => []OneMoverPerSector
<1>1. EngineInit => MoversInv
  BY MoversStart DEF EngineInit
<1>2. MoversInv => OneMoverPerSector
  <2> SUFFICES ASSUME MoversInv PROVE OneMoverPerSector
    OBVIOUS
  <2>1. \A n \in Nodes : Moving(n) <=> Busied(mover[n])
    BY DEF MoversInv, NodeOK, Moving, Live, Allocated, Busied
  <2>2. NoMover \notin Nodes
    BY ThinkersAssumption
  <2>3. ASSUME NEW table, NEW size, NEW S, Lists(table, size, mover, S)
        PROVE  Entries(table) = {n \in Nodes : Moving(n) /\ mover[n].sector \in S}
    <3>1. DOMAIN table = 1 .. size
      BY <2>3 DEF Lists
    <3>2. ASSUME NEW n \in Entries(table)
          PROVE  n \in Nodes /\ Moving(n) /\ mover[n].sector \in S
      BY <2>1, <2>3, <3>1 DEF Lists, Entries
    <3>3. ASSUME NEW n \in Nodes, Moving(n), mover[n].sector \in S PROVE n \in Entries(table)
      BY <2>1, <2>2, <2>3, <3>1, <3>3 DEF Lists, Entries
    <3> QED
      BY <3>2, <3>3
  <2>4. /\ Entries(activeplats) = {n \in Nodes : Moving(n) /\ mover[n].sector \in Plats}
        /\ Entries(activeceilings) = {n \in Nodes : Moving(n) /\ mover[n].sector \in Crushers}
    BY <2>3 DEF MoversInv, Accounts
  <2>5. /\ \A s \in Sectors : specialdata[s] # NoMover =>
              Moving(specialdata[s]) /\ mover[specialdata[s]].sector = s
        /\ \A n \in Nodes :
              Moving(n) /\ (\A side \in DoorSides : <<mover[n].sector, side>> \notin spent)
                  => specialdata[mover[n].sector] = n
    BY <2>1 DEF MoversInv, Accounts, Told, Known
  <2> QED
    BY <2>4, <2>5 DEF OneMoverPerSector
<1> QED
  BY <1>1, <1>2, MoversKept, MoversArePart, PTL DEF EngineSpec

-----------------------------------------------------------------------------
(* The list of thinkers: a ring through thinkercap.  r numbers its members *)
(* in their order; a number that is given up is not given out again before *)
(* the end, so that who comes before and who after the current thinker is  *)
(* the same after others come and go.                                      *)

Order(r, nx, pv, A) ==
    /\ r \in [Links -> Nat] /\ r[thinkercap] = 0
    /\ \A n \in A : r[n] > 0
    /\ \A x, y \in A \cup {thinkercap} : r[x] = r[y] => x = y
    /\ \A x \in A \cup {thinkercap} :
          /\ nx[x] \in A \cup {thinkercap} /\ pv[x] \in A \cup {thinkercap}
          /\ pv[nx[x]] = x /\ nx[pv[x]] = x
          /\ nx[x] # thinkercap => r[x] < r[nx[x]]
    /\ \A x, y \in A \cup {thinkercap} :
          r[x] < r[y] => nx[x] # thinkercap /\ r[nx[x]] <= r[y]

\* Who had his turn.
Turned(r) ==
    /\ turns \in [Nodes -> Int] /\ tic \in {"over", "running", "turn"}
    /\ current \in Allocated \cup {thinkercap}
    /\ tic = "over" => current = thinkercap /\ \A n \in Live : turns[n] <= 1
    /\ tic = "running" =>
          \A n \in Live : turns[n] = IF current = thinkercap \/ r[n] < r[current] THEN 1 ELSE 0
    /\ tic = "turn" =>
          current # thinkercap /\ \A n \in Live : turns[n] = IF r[n] <= r[current] THEN 1 ELSE 0

RingInv == \E r : Order(r, next, prev, Allocated) /\ Turned(r)

LEMMA LiveAreNodes == Live \subseteq Allocated /\ Allocated \subseteq Nodes /\ thinkercap \notin Nodes
BY ThinkersAssumption DEF Live, Allocated

\* P_AddThinker.
LEMMA OrderGrows ==
    ASSUME NEW r, NEW nx \in [Links -> Links], NEW pv \in [Links -> Links], NEW A \in SUBSET Nodes,
           Order(r, nx, pv, A), NEW n \in Nodes \ A
    PROVE  \E s : /\ Order(s, [nx EXCEPT ![pv[thinkercap]] = n, ![n] = thinkercap],
                              [pv EXCEPT ![n] = pv[thinkercap], ![thinkercap] = n], A \cup {n})
                  /\ \A x \in A : s[x] = r[x] /\ r[x] < s[n]
<1> DEFINE last == pv[thinkercap]
           s == [r EXCEPT ![n] = r[last] + 1]
           mx == [nx EXCEPT ![last] = n, ![n] = thinkercap]
           qv == [pv EXCEPT ![n] = last, ![thinkercap] = n]
<1>1. /\ n # thinkercap /\ n \in Links /\ A \cup {thinkercap} \subseteq Links /\ thinkercap \in Links
      /\ thinkercap \notin A /\ n \notin A
  BY ThinkersAssumption DEF Links
<1>2. last \in A \cup {thinkercap} /\ nx[last] = thinkercap /\ last # n /\ last \in Links
  BY <1>1 DEF Order
<1>3. /\ \A l \in Links : mx[l] = IF l = n THEN thinkercap ELSE IF l = last THEN n ELSE nx[l]
      /\ \A l \in Links : qv[l] = IF l = thinkercap THEN n ELSE IF l = n THEN last ELSE pv[l]
  BY <1>1, <1>2
<1>4. /\ r[last] \in Nat /\ r \in [Links -> Nat]
      /\ \A x \in A \cup {thinkercap} : r[x] \in Nat /\ r[x] <= r[last]
  BY <1>1, <1>2 DEF Order
<1>5. /\ s \in [Links -> Nat] /\ s[n] = r[last] + 1
      /\ \A l \in Links : l # n => s[l] = r[l]
  BY <1>1, <1>4
<1> HIDE DEF s, mx, qv, last
<1>6. \A x \in A \cup {thinkercap} : s[x] = r[x] /\ r[x] < s[n] /\ x # n /\ x \in Links
  BY <1>1, <1>4, <1>5
<1>7. s[thinkercap] = 0 /\ \A x \in A \cup {n} : s[x] > 0
  BY <1>1, <1>4, <1>5, <1>6 DEF Order
<1>8. \A x, y \in (A \cup {n}) \cup {thinkercap} : s[x] = s[y] => x = y
  BY <1>4, <1>5, <1>6 DEF Order
<1>9. ASSUME NEW x \in (A \cup {n}) \cup {thinkercap}
      PROVE  /\ mx[x] \in (A \cup {n}) \cup {thinkercap} /\ qv[x] \in (A \cup {n}) \cup {thinkercap}
             /\ qv[mx[x]] = x /\ mx[qv[x]] = x
             /\ mx[x] # thinkercap => s[x] < s[mx[x]]
  <2>1. CASE x = n
    BY <1>1, <1>2, <1>3, <2>1
  <2>2. CASE x # n
    <3>1. /\ x \in A \cup {thinkercap} /\ x \in Links
          /\ nx[x] \in A \cup {thinkercap} /\ pv[x] \in A \cup {thinkercap}
          /\ pv[nx[x]] = x /\ nx[pv[x]] = x
          /\ nx[x] # thinkercap => r[x] < r[nx[x]]
      BY <1>1, <2>2 DEF Order
    <3>2. x # last => nx[x] # thinkercap
      BY <3>1 DEF last
    <3>3. x # thinkercap => pv[x] # last
      BY <1>2, <3>1
    <3> QED
      BY <1>1, <1>2, <1>3, <1>6, <2>2, <3>1, <3>2, <3>3
  <2> QED
    BY <2>1, <2>2
<1>10. ASSUME NEW x \in (A \cup {n}) \cup {thinkercap}, NEW y \in (A \cup {n}) \cup {thinkercap}, s[x] < s[y]
       PROVE  mx[x] # thinkercap /\ s[mx[x]] <= s[y]
  <2>1. x # n /\ x \in A \cup {thinkercap} /\ x \in Links
    BY <1>1, <1>4, <1>5, <1>6, <1>10
  <2>2. CASE x = last
    BY <1>1, <1>3, <1>4, <1>5, <1>6, <1>10, <2>1, <2>2
  <2>3. CASE x # last
    <3>1. mx[x] = nx[x] /\ nx[x] \in A \cup {thinkercap} /\ nx[x] # thinkercap
      BY <1>3, <2>1, <2>3 DEF Order, last
    <3>2. CASE y = n
      BY <1>4, <1>5, <1>6, <3>1, <3>2
    <3>3. CASE y # n
      BY <1>6, <1>10, <2>1, <3>1, <3>3 DEF Order
    <3> QED
      BY <3>2, <3>3
  <2> QED
    BY <2>2, <2>3
<1>11. Order(s, mx, qv, A \cup {n})
  BY <1>5, <1>7, <1>8, <1>9, <1>10 DEF Order
<1> QED
  BY <1>6, <1>11 DEF s, mx, qv, last

\* A thinker is unlinked.
LEMMA OrderShrinks ==
    ASSUME NEW r, NEW nx \in [Links -> Links], NEW pv \in [Links -> Links], NEW A \in SUBSET Nodes,
           Order(r, nx, pv, A), NEW n \in A
    PROVE  Order(r, [nx EXCEPT ![pv[n]] = nx[n]], [pv EXCEPT ![nx[n]] = pv[n]], A \ {n})
<1> DEFINE mx == [nx EXCEPT ![pv[n]] = nx[n]]
           qv == [pv EXCEPT ![nx[n]] = pv[n]]
           R == A \cup {thinkercap}
           T == (A \ {n}) \cup {thinkercap}
<1>1. n # thinkercap /\ R \subseteq Links /\ T \subseteq R /\ n \notin T
  BY ThinkersAssumption DEF Links
<1>2. /\ nx[n] \in R /\ pv[n] \in R /\ pv[nx[n]] = n /\ nx[pv[n]] = n
      /\ nx[n] \in Links /\ pv[n] \in Links
  BY <1>1 DEF Order
<1>3. /\ \A l \in Links : mx[l] = IF l = pv[n] THEN nx[n] ELSE nx[l]
      /\ \A l \in Links : qv[l] = IF l = nx[n] THEN pv[n] ELSE pv[l]
  BY <1>2
<1> HIDE DEF mx, qv
<1>4. /\ \A x \in R : /\ nx[x] \in R /\ pv[x] \in R /\ pv[nx[x]] = x /\ nx[pv[x]] = x
                      /\ nx[x] # thinkercap => r[x] < r[nx[x]]
                      /\ r[x] \in Nat /\ x \in Links
      /\ \A x, y \in R : r[x] < r[y] => nx[x] # thinkercap /\ r[nx[x]] <= r[y]
      /\ \A x, y \in R : r[x] = r[y] => x = y
      /\ r[thinkercap] = 0 /\ \A x \in A : r[x] > 0
  BY <1>1 DEF Order
<1>5. nx[n] # n /\ pv[n] # n
  <2>1. nx[n] # n
    BY <1>1, <1>4
  <2> QED
    BY <1>1, <1>2, <1>4, <2>1
<1>6. \A x \in T : /\ nx[x] = n => x = pv[n]
                   /\ pv[x] = n => x = nx[n]
  BY <1>1, <1>4
<1>7. ASSUME NEW x \in T
      PROVE  /\ mx[x] \in T /\ qv[x] \in T /\ qv[mx[x]] = x /\ mx[qv[x]] = x
             /\ mx[x] # thinkercap => r[x] < r[mx[x]]
  <2>1. mx[x] \in T /\ qv[x] \in T
    BY <1>1, <1>2, <1>3, <1>4, <1>5, <1>6
  <2>2. qv[mx[x]] = x
    BY <1>1, <1>2, <1>3, <1>4, <1>5, <1>6
  <2>3. mx[qv[x]] = x
    BY <1>1, <1>2, <1>3, <1>4, <1>5, <1>6
  <2>4. ASSUME mx[x] # thinkercap PROVE r[x] < r[mx[x]]
    <3>1. CASE x = pv[n]
      <4>1. mx[x] = nx[n] /\ r[x] < r[n] /\ r[n] < r[nx[n]]
        BY <1>1, <1>2, <1>3, <1>4, <2>4, <3>1
      <4>2. r[x] \in Nat /\ r[n] \in Nat /\ r[nx[n]] \in Nat
        BY <1>1, <1>2, <1>4
      <4> QED
        BY <4>1, <4>2
    <3>2. CASE x # pv[n]
      BY <1>1, <1>3, <1>4, <2>4, <3>2
    <3> QED
      BY <3>1, <3>2
  <2> QED
    BY <2>1, <2>2, <2>3, <2>4
<1>8. ASSUME NEW x \in T, NEW y \in T, r[x] < r[y]
      PROVE  mx[x] # thinkercap /\ r[mx[x]] <= r[y]
  <2>1. CASE x = pv[n]
    <3>1. r[n] <= r[y] /\ r[n] # r[y] /\ r[n] \in Nat /\ r[y] \in Nat
      BY <1>1, <1>2, <1>4, <1>8, <2>1
    <3>2. r[n] < r[y]
      BY <3>1
    <3> QED
      BY <1>1, <1>3, <1>4, <2>1, <3>2
  <2>2. CASE x # pv[n]
    BY <1>1, <1>3, <1>4, <1>8, <2>2
  <2> QED
    BY <2>1, <2>2
<1>9. Order(r, mx, qv, A \ {n})
  BY <1>1, <1>4, <1>7, <1>8 DEF Order
<1> QED
  BY <1>9 DEF mx, qv

\* A thinker is added in a turn, or outside the tics.
LEMMA RingSpawn ==
    ASSUME RingInv, ListTypes, NEW n \in Nodes, NEW f, Spawn(n, f), f \notin {"freed", "removed"},
           tic = "running" => current # thinkercap
    PROVE  RingInv'
<1>1. PICK r : Order(r, next, prev, Allocated) /\ Turned(r)
  BY DEF RingInv
<1>2. /\ function' = [function EXCEPT ![n] = f] /\ turns' = [turns EXCEPT ![n] = 0]
      /\ UNCHANGED <<current, tic>> /\ n \notin Allocated
      /\ next' = [next EXCEPT ![prev[thinkercap]] = n, ![n] = thinkercap]
      /\ prev' = [prev EXCEPT ![n] = prev[thinkercap], ![thinkercap] = n]
  BY DEF Spawn, P_AddThinker
<1>3. Allocated' = Allocated \cup {n} /\ Live' = Live \cup {n}
  BY <1>2 DEF Allocated, Live, ListTypes
<1>4. PICK s : /\ Order(s, next', prev', Allocated')
               /\ \A x \in Allocated : s[x] = r[x] /\ r[x] < s[n]
  <2>1. next \in [Links -> Links] /\ prev \in [Links -> Links] /\ n \in Nodes \ Allocated
        /\ Allocated \in SUBSET Nodes
    BY <1>2, LiveAreNodes DEF ListTypes
  <2>2. \E s : /\ Order(s, [next EXCEPT ![prev[thinkercap]] = n, ![n] = thinkercap],
                           [prev EXCEPT ![n] = prev[thinkercap], ![thinkercap] = n], Allocated \cup {n})
               /\ \A x \in Allocated : s[x] = r[x] /\ r[x] < s[n]
    BY <1>1, <2>1, OrderGrows
  <2> QED
    BY <1>2, <1>3, <2>2
<1>5. /\ turns' \in [Nodes -> Int] /\ turns'[n] = 0
      /\ \A x \in Live : turns'[x] = turns[x] /\ s[x] = r[x] /\ x \in Allocated /\ x \in Nodes /\ x # n
  BY <1>1, <1>2, <1>4, LiveAreNodes DEF Turned
<1>6. \A x \in Allocated : s[x] \in Nat /\ s[n] \in Nat /\ s[x] < s[n]
  BY <1>2, <1>3, <1>4, LiveAreNodes DEF Order, Links
<1>7. Turned(s)'
  <2>1. current \in Allocated \/ tic = "over"
    BY <1>1 DEF Turned
  <2>2. CASE tic = "over"
    BY <1>1, <1>2, <1>3, <1>5, <2>2 DEF Turned
  <2>3. CASE tic # "over"
    <3>1. s[current] = r[current] /\ ~(s[n] <= s[current]) /\ ~(s[n] < s[current])
          /\ current \in Allocated /\ current # thinkercap
      BY <1>4, <1>6, <2>1, <2>3, LiveAreNodes
    <3> QED
      BY <1>1, <1>2, <1>3, <1>5, <2>3, <3>1 DEF Turned
  <2> QED
    BY <2>2, <2>3
<1> QED
  BY <1>4, <1>7 DEF RingInv

\* Thinkers are removed, stopped and restarted without the list.
LEMMA RingSame ==
    ASSUME RingInv, UNCHANGED <<next, prev, current, tic, turns>>,
           Allocated' = Allocated, Live' \subseteq Live
    PROVE  RingInv'
<1>1. PICK r : Order(r, next, prev, Allocated) /\ Turned(r)
  BY DEF RingInv
<1>2. Turned(r)'
  BY <1>1 DEF Turned
<1> QED
  BY <1>1, <1>2 DEF RingInv

LEMMA FunctionSame ==
    ASSUME ListTypes, NEW n \in Nodes, function[n] \notin {"freed", "removed"}, NEW f, f # "freed",
           function' = [function EXCEPT ![n] = f]
    PROVE  Allocated' = Allocated /\ Live' \subseteq Live
<1>1. \A x \in Nodes : function'[x] = IF x = n THEN f ELSE function[x]
  BY DEF ListTypes
<1> QED
  BY <1>1 DEF Allocated, Live

\* The current thinker has had its turn, and the next one is come to.
LEMMA RingTurns ==
    ASSUME RingInv, ListTypes, tic \in {"running", "turn"}, current # thinkercap,
           UNCHANGED <<next, prev>>, Allocated' = Allocated, Live' \subseteq Live,
           current' = next[current], tic' = "running",
           IF tic = "turn" THEN UNCHANGED turns ELSE turns' = [turns EXCEPT ![current] = @ + 1]
    PROVE  RingInv'
<1>1. PICK r : Order(r, next, prev, Allocated) /\ Turned(r)
  BY DEF RingInv
<1>2. /\ current \in Allocated /\ current' \in Allocated \cup {thinkercap}
      /\ current' # thinkercap => r[current] < r[current']
      /\ \A x \in Allocated : r[current] < r[x] => current' # thinkercap /\ r[current'] <= r[x]
      /\ \A x \in Allocated : r[x] = r[current] => x = current
  BY <1>1 DEF Order, Turned
<1>3. \A x \in Allocated \cup {thinkercap} : r[x] \in Nat
  BY <1>1, LiveAreNodes DEF Order, Links
<1>4. \A x \in Live : x \in Allocated /\ x \in Nodes
  BY LiveAreNodes
<1>5. /\ turns' \in [Nodes -> Int]
      /\ \A x \in Live : turns'[x] = IF r[x] <= r[current] THEN 1 ELSE 0
  <2>1. CASE tic = "turn"
    BY <1>1, <2>1 DEF Turned
  <2>2. CASE tic = "running"
    <3>1. turns \in [Nodes -> Int] /\ \A x \in Live : turns[x] = IF r[x] < r[current] THEN 1 ELSE 0
      BY <1>1, <2>2 DEF Turned
    <3>2. \A x \in Nodes : turns'[x] = IF x = current THEN turns[x] + 1 ELSE turns[x]
      BY <2>2, <3>1
    <3>3. turns' \in [Nodes -> Int]
      BY <2>2, <3>1, <1>2, LiveAreNodes
    <3> QED
      BY <1>2, <1>3, <1>4, <3>1, <3>2, <3>3
  <2> QED
    BY <2>1, <2>2
<1>6. \A x \in Live : r[x] <= r[current] <=> current' = thinkercap \/ r[x] < r[current']
  BY <1>2, <1>3, <1>4
<1>7. Turned(r)'
  BY <1>2, <1>5, <1>6 DEF Turned
<1> QED
  BY <1>1, <1>7 DEF RingInv

\* The steps of P_RunThinkers besides.
LEMMA RingLoop ==
    ASSUME RingInv, ListTypes, TicBegins \/ Unlink \/ TurnBegins \/ TicEnds
    PROVE  RingInv'
<1>1. PICK r : Order(r, next, prev, Allocated) /\ Turned(r)
  BY DEF RingInv
<1>2. \A x \in Allocated \cup {thinkercap} : r[x] \in Nat
  BY <1>1, LiveAreNodes DEF Order, Links
<1>3. \A x \in Live : x \in Allocated /\ x \in Nodes
  BY LiveAreNodes
<1>4. CASE TicBegins
  <2>1. /\ UNCHANGED <<next, prev, function>> /\ tic' = "running" /\ current' = next[thinkercap]
        /\ turns' = [n \in Nodes |-> 0] /\ Allocated' = Allocated /\ Live' = Live
    BY <1>4 DEF TicBegins, Allocated, Live
  <2>2. /\ current' \in Allocated \cup {thinkercap}
        /\ \A x \in Live : current' # thinkercap /\ r[current'] <= r[x]
    BY <1>1, <1>2, <1>3, <2>1 DEF Order
  <2>3. Turned(r)'
    BY <1>2, <1>3, <2>1, <2>2 DEF Turned
  <2> QED
    BY <1>1, <2>1, <2>3 DEF RingInv
<1>5. CASE Unlink
  <2>1. /\ tic = "running" /\ current \in Allocated /\ function[current] = "removed"
        /\ prev' = [prev EXCEPT ![next[current]] = prev[current]]
        /\ next' = [next EXCEPT ![prev[current]] = next[current]]
        /\ function' = [function EXCEPT ![current] = "freed"]
        /\ current' = next'[current] /\ UNCHANGED <<tic, turns>>
    BY <1>1, <1>5 DEF Unlink, Turned
  <2>2. Allocated' = Allocated \ {current} /\ Live' = Live
    BY <2>1 DEF Allocated, Live, ListTypes
  <2>3. Order(r, next', prev', Allocated')
    BY <1>1, <2>1, <2>2, OrderShrinks, LiveAreNodes DEF ListTypes
  <2>4. /\ next[current] \in Allocated \cup {thinkercap}
        /\ next[current] # thinkercap => r[current] < r[next[current]]
        /\ \A x \in Allocated : r[current] < r[x] =>
              next[current] # thinkercap /\ r[next[current]] <= r[x]
        /\ prev[current] # current
    <3>1. prev[current] = current => next[current] = current
      BY <1>1, <2>1 DEF Order
    <3> QED
      BY <1>1, <1>2, <2>1, <3>1, LiveAreNodes DEF Order
  <2>5. current' = next[current]
    BY <1>1, <2>1, <2>4, LiveAreNodes DEF ListTypes, Order, Links
  <2>6. current' # current
    BY <1>2, <2>1, <2>4, <2>5, LiveAreNodes
  <2>7. \A x \in Live : r[x] < r[current] <=> current' = thinkercap \/ r[x] < r[current']
    <3>1. current \notin Live
      BY <2>1 DEF Live
    <3>2. \A x \in Live : r[x] # r[current]
      BY <1>1, <1>3, <2>1, <3>1 DEF Order
    <3> QED
      BY <1>2, <1>3, <2>1, <2>4, <2>5, <3>2
  <2>8. Turned(r)'
    <3>1. /\ turns \in [Nodes -> Int]
          /\ \A x \in Live : turns[x] = IF r[x] < r[current] THEN 1 ELSE 0
      BY <1>1, <2>1, LiveAreNodes DEF Turned
    <3> QED
      BY <2>1, <2>2, <2>4, <2>5, <2>6, <2>7, <3>1 DEF Turned
  <2> QED
    BY <2>3, <2>8 DEF RingInv
<1>6. CASE TurnBegins
  <2>1. /\ UNCHANGED <<next, prev, function, current>> /\ tic = "running" /\ tic' = "turn"
        /\ current # thinkercap /\ current \in Allocated
        /\ turns' = [turns EXCEPT ![current] = @ + 1] /\ Allocated' = Allocated /\ Live' = Live
    BY <1>1, <1>6 DEF TurnBegins, Allocated, Live, Turned
  <2>2. /\ turns \in [Nodes -> Int]
        /\ \A x \in Live : turns[x] = IF r[x] < r[current] THEN 1 ELSE 0
        /\ \A x \in Allocated : r[x] = r[current] => x = current
    BY <1>1, <2>1 DEF Turned, Order
  <2>3. /\ turns' \in [Nodes -> Int]
        /\ \A x \in Nodes : turns'[x] = IF x = current THEN turns[x] + 1 ELSE turns[x]
    BY <2>1, <2>2, LiveAreNodes
  <2>4. \A x \in Live : turns'[x] = IF r[x] <= r[current] THEN 1 ELSE 0
    BY <1>2, <1>3, <2>1, <2>2, <2>3
  <2>5. Turned(r)'
    BY <2>1, <2>3, <2>4 DEF Turned
  <2> QED
    BY <1>1, <2>1, <2>5 DEF RingInv
<1>7. CASE TicEnds
  <2>1. /\ UNCHANGED <<next, prev, function, current, turns>> /\ tic = "running" /\ tic' = "over"
        /\ current = thinkercap /\ Allocated' = Allocated /\ Live' = Live
    BY <1>7 DEF TicEnds, Allocated, Live
  <2>2. Turned(r)'
    BY <1>1, <2>1 DEF Turned
  <2> QED
    BY <1>1, <2>1, <2>2 DEF RingInv
<1> QED
  BY <1>4, <1>5, <1>6, <1>7

\* A mover's turn.
LEMMA RingRuns ==
    ASSUME MoversInv, RingInv, current # thinkercap,
           Turn(function) \/ Turn(Removed(function, current))
    PROVE  RingInv'
<1>1. /\ tic = "running" /\ current \in Live /\ current' = next[current]
      /\ turns' = [turns EXCEPT ![current] = @ + 1] /\ UNCHANGED <<next, prev, tic>>
      /\ function' = function \/ function' = [function EXCEPT ![current] = "removed"]
  BY DEF Turn, Removed
<1>2. ListTypes /\ current \in Nodes /\ function[current] \notin {"freed", "removed"}
  BY <1>1, LiveAreNodes DEF MoversInv, Live, Allocated
<1>3. Allocated' = Allocated /\ Live' \subseteq Live
  <2>1. CASE function' = function
    BY <2>1 DEF Allocated, Live
  <2>2. CASE function' # function
    BY <1>1, <1>2, <2>2, FunctionSame
  <2> QED
    BY <2>1, <2>2
<1> QED
  BY <1>1, <1>2, <1>3, RingTurns

LEMMA RingKept ==
    ASSUME MoversInv, RingInv, [MoversNext]_moversVars
    PROVE  RingInv'
<1>1. ListTypes
  BY DEF MoversInv
<1>2. CASE RemoveMobj
  <2>1. PICK n \in Nodes : /\ function[n] = "P_MobjThinker"
                           /\ function' = [function EXCEPT ![n] = "removed"]
    BY <1>2 DEF RemoveMobj, Removed
  <2>2. UNCHANGED <<next, prev, current, tic, turns>>
    BY <1>2 DEF RemoveMobj
  <2> QED
    BY <1>1, <2>1, <2>2, FunctionSame, RingSame
<1>3. CASE RunThinker
  <2>1. CASE DoorWaits \/ DoorMoves \/ PlatMoves \/ PlatWaits \/ T_MoveCeiling \/ InStasis
    <3>1. Turn(function) \/ Turn(Removed(function, current))
      BY <2>1 DEF DoorWaits, DoorMoves, PlatMoves, PlatWaits, T_MoveCeiling, InStasis, Stays, Over
    <3> QED
      BY <1>3, <3>1, RingRuns DEF RunThinker
  <2>2. CASE PIT_ChangeSector
    BY <1>1, <1>2, <1>3, <2>2, RingSpawn DEF PIT_ChangeSector
  <2> QED
    BY <1>3, <2>1, <2>2 DEF RunThinker
<1>4. CASE TurnEnds
  <2>1. /\ tic = "turn" /\ tic' = "running" /\ current' = next[current] /\ current # thinkercap
        /\ UNCHANGED <<next, prev, function, turns>>
    BY <1>4 DEF TurnEnds, RingInv, Turned
  <2>2. Allocated' = Allocated /\ Live' = Live
    BY <2>1 DEF Allocated, Live
  <2> QED
    BY <1>1, <2>1, <2>2, RingTurns
<1>5. CASE RunThinkers /\ ~RunThinker /\ ~TurnEnds
  BY <1>1, <1>5, RingLoop DEF RunThinkers
<1>6. ASSUME tic # "running", NEW n \in Nodes, NEW f, NEW m, Start(n, f, m),
             f \notin {"freed", "removed"}
      PROVE  RingInv'
  BY <1>1, <1>6, RingSpawn DEF Start
<1>7. CASE tic # "running" /\ UseLine
  <2>1. PICK s \in sectors, n \in Nodes :
        \/ s \in Doors /\ EV_DoDoor(s, n)
        \/ \E byPlayer \in BOOLEAN : s \in Doors /\ EV_VerticalDoor(s, n, byPlayer)
        \/ \E side \in DoorSides : s \in Doors /\ EV_VerticalDoorStay(s, n, side)
        \/ s \in Plats /\ EV_DoPlat(s, n)
        \/ s \in Plats /\ specialdata[s] = n /\ (Stop(n) \/ Restart(n, "T_PlatRaise"))
        \/ s \in Crushers /\ EV_DoCeiling(s, n)
        \/ s \in Crushers /\ specialdata[s] = n /\ (Stop(n) \/ Restart(n, "T_MoveCeiling"))
    BY <1>7 DEF UseLine
  <2>2. CASE EV_DoDoor(s, n) \/ EV_DoPlat(s, n) \/ EV_DoCeiling(s, n)
             \/ \E side : EV_VerticalDoorStay(s, n, side)
    <3>1. \E f \in {"T_VerticalDoor", "T_PlatRaise", "T_MoveCeiling"} : \E m : Start(n, f, m)
      BY <2>2 DEF EV_DoDoor, EV_DoPlat, EV_DoCeiling, EV_VerticalDoorStay
    <3> QED
      BY <1>6, <1>7, <3>1
  <2>3. CASE \E byPlayer : EV_VerticalDoor(s, n, byPlayer)
    <3>1. UNCHANGED listVars \/ \E m : Start(n, "T_VerticalDoor", m)
      BY <2>3 DEF EV_VerticalDoor
    <3>2. CASE UNCHANGED listVars
      BY <3>2, RingSame DEF listVars, Allocated, Live
    <3> QED
      BY <1>6, <1>7, <3>1, <3>2
  <2>4. CASE specialdata[s] = n /\ (Stop(n) \/ Restart(n, "T_PlatRaise") \/ Restart(n, "T_MoveCeiling"))
    <3>1. s \in Sectors /\ specialdata[s] # NoMover
      BY <2>1, <2>4, ThinkersAssumption DEF MoversInv, PlaneTypes
    <3>2. NodeOK(function[n], mover[n]) /\ Busied(mover[n])
      BY <2>4, <3>1 DEF MoversInv, Accounts, Told
    <3>3. function[n] \notin {"freed", "removed"}
      BY <3>2 DEF NodeOK, Busied
    <3>4. /\ \E f \in {"stasis", "T_PlatRaise", "T_MoveCeiling"} : function' = [function EXCEPT ![n] = f]
          /\ UNCHANGED <<next, prev, current, tic, turns>>
      BY <2>4 DEF Stop, Restart
    <3> QED
      BY <1>1, <3>3, <3>4, FunctionSame, RingSame
  <2> QED
    BY <2>1, <2>2, <2>3, <2>4
<1>8. CASE Play /\ ~UseLine
  <2>1. CASE SpawnMobj
    BY <1>1, <1>8, <2>1, RingSpawn DEF Play, SpawnMobj
  <2>2. CASE Come \/ Go
    BY <2>2, RingSame DEF Come, Go, listVars, Allocated, Live
  <2> QED
    BY <1>2, <1>8, <2>1, <2>2 DEF Play
<1>9. CASE UNCHANGED moversVars
  BY <1>9, RingSame DEF moversVars, listVars, Allocated, Live
<1> QED
  BY <1>3, <1>4, <1>5, <1>7, <1>8, <1>9 DEF MoversNext, Play

LEMMA RingStarts == MoversInit => RingInv
<1> SUFFICES ASSUME MoversInit PROVE RingInv
  OBVIOUS
<1>1. PICK n \in Links : ListInit(n, "T_VerticalDoor")
  BY DEF MoversInit, Level, Links
<1>2. /\ next = [l \in Links |-> IF l = thinkercap THEN n ELSE thinkercap] /\ prev = next
      /\ function = [m \in Nodes |-> IF m = n THEN "T_VerticalDoor" ELSE "freed"]
      /\ current = thinkercap /\ tic = "over" /\ turns = [m \in Nodes |-> 0]
  BY <1>1 DEF ListInit
<1>3. Allocated = {n} \ {thinkercap} /\ Live = Allocated
  BY <1>2, ThinkersAssumption DEF Allocated, Live, Links
<1> DEFINE r == [l \in Links |-> IF l = thinkercap THEN 0 ELSE 1]
<1>4. Order(r, next, prev, Allocated)
  <2>1. /\ r \in [Links -> Nat] /\ r[thinkercap] = 0
        /\ \A x \in Allocated : x = n /\ x # thinkercap /\ r[x] = 1
        /\ thinkercap \in Links /\ n \in Links
    BY <1>3 DEF Links
  <2> HIDE DEF r
  <2>2. ASSUME NEW x \in Allocated \cup {thinkercap}
        PROVE  /\ next[x] = IF x = thinkercap THEN n ELSE thinkercap
               /\ prev[x] = IF x = thinkercap THEN n ELSE thinkercap
               /\ n \in Allocated \cup {thinkercap}
    BY <1>2, <1>3, <2>1
  <2> QED
    BY <2>1, <2>2 DEF Order
<1>5. Turned(r)
  BY <1>2, <1>3, LiveAreNodes DEF Turned
<1> QED
  BY <1>4, <1>5 DEF RingInv

-----------------------------------------------------------------------------
(* The list as P_RunThinkers follows it.                                   *)

LEMMA ListIsFollowed ==
    ASSUME RingInv
    PROVE  thinkercap \in Following /\ Following \ {thinkercap} = Allocated
<1> DEFINE N == Cardinality(Nodes)
           G(k, f) == IF k = 0 THEN next[thinkercap]
                      ELSE IF f[k - 1] = thinkercap THEN thinkercap ELSE next[f[k - 1]]
           Rec(f) == f = [k \in 0 .. N |-> G(k, f)]
<1>1. PICK r : Order(r, next, prev, Allocated)
  BY DEF RingInv
<1>2. N \in Nat /\ IsFiniteSet(Allocated) /\ Cardinality(Allocated) <= N
      /\ Cardinality(Allocated) \in Nat
  BY ThinkersAssumption, LiveAreNodes, FS_Subset, FS_CardinalityType
<1>3. \E f : Rec(f)
  <2> DEFINE Upto(m) == \E f : f = [k \in 0 .. m |-> G(k, f)]
             Bad == {m \in Nat : ~Upto(m)}
  <2>1. CASE Bad = {}
    BY <1>2, <2>1
  <2>2. CASE Bad # {}
    <3>1. PICK m \in Bad : \A j \in Bad : m <= j
      <4>1. Bad \in SUBSET Nat
        OBVIOUS
      <4> HIDE DEF Bad
      <4> QED
        BY <2>2, <4>1, LeastExists
    <3>2. m # 0
      <4> DEFINE f == [k \in 0 .. 0 |-> next[thinkercap]]
      <4>1. f = [k \in 0 .. 0 |-> G(k, f)]
        OBVIOUS
      <4> QED
        BY <3>1, <4>1
    <3>3. m - 1 \in Nat /\ m \in Nat /\ Upto(m - 1)
      <4>1. m \in Nat
        BY <3>1
      <4>2. m - 1 \in Nat /\ ~(m <= m - 1)
        BY <3>2, <4>1
      <4>3. m - 1 \notin Bad
        BY <3>1, <4>2
      <4> QED
        BY <4>1, <4>2, <4>3
    <3>4. PICK f : f = [k \in 0 .. m - 1 |-> G(k, f)]
      BY <3>3
    <3> DEFINE e == [k \in 0 .. m |-> IF k = m THEN G(m, f) ELSE f[k]]
    <3>5. /\ e[m] = G(m, f) /\ \A k \in 0 .. m - 1 : e[k] = f[k]
          /\ e = [k \in 0 .. m |-> e[k]]
      BY <3>3
    <3>6. \A k \in 0 .. m - 1 : f[k] = G(k, f)
      BY <3>4
    <3> HIDE DEF e
    <3>7. ASSUME NEW k \in 0 .. m PROVE e[k] = G(k, e)
      <4>1. k # 0 => k - 1 \in 0 .. m - 1 /\ e[k - 1] = f[k - 1]
        BY <3>3, <3>5
      <4>2. G(k, e) = G(k, f)
        BY <4>1
      <4>3. k = m \/ k \in 0 .. m - 1
        BY <3>3
      <4>4. e[k] = G(k, f)
        BY <3>5, <3>6, <4>3
      <4> QED
        BY <4>2, <4>4
    <3>8. e = [k \in 0 .. m |-> G(k, e)]
      BY <3>5, <3>7
    <3> QED
      BY <3>1, <3>8
  <2> QED
    BY <2>1, <2>2
<1>4. PICK f : Rec(f) /\ Following = {f[k] : k \in 0 .. N}
  BY <1>3 DEF Following
<1>5. \A k \in 0 .. N : f[k] = G(k, f)
  BY <1>4
<1>6. /\ 0 \in 0 .. N /\ f[0] = next[thinkercap]
      /\ \A k \in 0 .. N : k # 0 => /\ k - 1 \in 0 .. N
                                      /\ f[k] = IF f[k - 1] = thinkercap THEN thinkercap ELSE next[f[k - 1]]
  BY <1>2, <1>5
<1> HIDE DEF N, G, Rec
\* Whom the list leads to.
<1>7. \A k \in 0 .. N : f[k] \in Allocated \cup {thinkercap}
  <2> DEFINE Bad == {k \in 0 .. N : f[k] \notin Allocated \cup {thinkercap}}
  <2>1. SUFFICES ASSUME Bad # {} PROVE FALSE
    OBVIOUS
  <2>2. PICK k \in Bad : \A j \in Bad : k <= j
    <3>1. Bad \in SUBSET Nat
      BY <1>2
    <3> HIDE DEF Bad
    <3> QED
      BY <2>1, <3>1, LeastExists
  <2>3. k # 0
    BY <1>1, <1>6, <2>2 DEF Order
  <2>4. f[k - 1] \in Allocated \cup {thinkercap}
    BY <1>6, <2>2, <2>3
  <2> QED
    BY <1>1, <1>6, <2>2, <2>3, <2>4 DEF Order
\* It leads to everyone that is not before.
<1>8. ASSUME NEW x \in Allocated, \A k \in 0 .. N : f[k] # x
      PROVE  \A k \in 0 .. N : f[k] # thinkercap /\ r[f[k]] < r[x]
  <2> DEFINE Bad == {k \in 0 .. N : f[k] = thinkercap \/ ~(r[f[k]] < r[x])}
  <2>0. \A y \in Allocated \cup {thinkercap} : r[y] \in Nat
    BY <1>1, LiveAreNodes DEF Order, Links
  <2>1. SUFFICES ASSUME Bad # {} PROVE FALSE
    OBVIOUS
  <2>2. PICK k \in Bad : \A j \in Bad : k <= j
    <3>1. Bad \in SUBSET Nat
      BY <1>2
    <3> HIDE DEF Bad
    <3> QED
      BY <2>1, <3>1, LeastExists
  <2>3. PICK y \in Allocated \cup {thinkercap} : r[y] < r[x] /\ f[k] = next[y]
    <3>1. CASE k = 0
      BY <1>1, <1>6, <3>1 DEF Order
    <3>2. CASE k # 0
      <4>1. k - 1 \in 0 .. N /\ k - 1 \notin Bad
        BY <1>6, <2>2, <3>2
      <4>2. f[k - 1] # thinkercap /\ r[f[k - 1]] < r[x]
        BY <4>1
      <4> QED
        BY <1>6, <1>7, <2>2, <3>2, <4>1, <4>2
    <3> QED
      BY <3>1, <3>2
  <2>4. f[k] # thinkercap /\ r[f[k]] <= r[x] /\ f[k] \in Allocated
    BY <1>1, <1>7, <2>2, <2>3 DEF Order
  <2>5. f[k] # x
    BY <1>8, <2>2
  <2>6. r[f[k]] # r[x]
    BY <1>1, <2>4, <2>5 DEF Order
  <2>7. r[f[k]] < r[x]
    BY <2>0, <2>4, <2>6
  <2> QED
    BY <2>2, <2>4, <2>7
\* It does not go on for ever.
<1>9. \E k \in 0 .. N : f[k] = thinkercap
  <2> SUFFICES ASSUME \A k \in 0 .. N : f[k] # thinkercap PROVE FALSE
    OBVIOUS
  <2>1. \A k \in 0 .. N : f[k] \in Allocated /\ r[f[k]] \in Nat
    BY <1>1, <1>7, LiveAreNodes DEF Order, Links
  <2>2. ASSUME NEW i \in 0 .. N PROVE \A j \in 0 .. N : i < j => r[f[i]] < r[f[j]]
    <3> DEFINE Bad == {j \in 0 .. N : i < j /\ ~(r[f[i]] < r[f[j]])}
    <3>1. SUFFICES ASSUME Bad # {} PROVE FALSE
      OBVIOUS
    <3>2. PICK j \in Bad : \A l \in Bad : j <= l
      <4>1. Bad \in SUBSET Nat
        BY <1>2
      <4> HIDE DEF Bad
      <4> QED
        BY <3>1, <4>1, LeastExists
    <3>3. j # 0 /\ j - 1 \in 0 .. N /\ f[j] = next[f[j - 1]] /\ j - 1 \notin Bad
      BY <1>6, <3>2
    <3>4. r[f[j - 1]] < r[f[j]]
      BY <1>1, <2>1, <3>2, <3>3 DEF Order
    <3>5. j - 1 = i \/ r[f[i]] < r[f[j - 1]]
      BY <3>2, <3>3
    <3> QED
      BY <2>1, <3>2, <3>3, <3>4, <3>5
  <2>3. \A i, j \in 0 .. N : f[i] = f[j] => i = j
    <3> TAKE i, j \in 0 .. N
    <3>1. i < j \/ j < i \/ i = j
      BY <1>2
    <3> QED
      BY <2>1, <2>2, <3>1
  <2> DEFINE g == [k \in 0 .. N |-> f[k]]
  <2>4. g \in [0 .. N -> Allocated]
    BY <2>1
  <2>5. IsFiniteSet(0 .. N) /\ Cardinality(0 .. N) = N + 1
    BY <1>2, FS_Interval
  <2>6. Cardinality(Allocated) < Cardinality(0 .. N)
    BY <1>2, <2>5
  <2>7. \E i, j \in 0 .. N : i # j /\ g[i] = g[j]
    <3> HIDE DEF g
    <3> QED
      BY <1>2, <2>4, <2>5, <2>6, FS_PigeonHole, Zenon
  <2> QED
    BY <2>3, <2>7
<1>10. \A x \in Allocated : \E k \in 0 .. N : f[k] = x
  BY <1>8, <1>9
<1>11. thinkercap \notin Allocated
  BY LiveAreNodes
<1> QED
  BY <1>4, <1>7, <1>9, <1>10, <1>11

(* The list holds the thinkers that are allocated, linked the same way in  *)
(* both directions; in a tic each has its turn at most once, and exactly   *)
(* once when the tic is over.                                              *)
THEOREM ThinkersTakeTurns == EngineSpec => []EachOnce
<1>1. EngineInit => MoversInv /\ RingInv
  BY MoversStart, RingStarts DEF EngineInit
<1>2. MoversInv /\ RingInv /\ [MoversNext]_moversVars => (MoversInv /\ RingInv)'
  BY MoversKept, RingKept
<1>3. MoversInv /\ RingInv => EachOnce
  <2> SUFFICES ASSUME MoversInv, RingInv PROVE EachOnce
    OBVIOUS
  <2>1. PICK r : Order(r, next, prev, Allocated) /\ Turned(r)
    BY DEF RingInv
  <2>2. \A n \in Allocated \cup {thinkercap} : prev[next[n]] = n
    BY <2>1 DEF Order
  <2>3. /\ current \in Allocated \cup {thinkercap}
        /\ \A n \in Live : turns[n] <= 1
        /\ tic = "running" /\ current = thinkercap => \A n \in Live : turns[n] = 1
    BY <2>1 DEF Turned
  <2> QED
    BY <2>2, <2>3, ListIsFollowed DEF EachOnce
<1> QED
  BY <1>1, <1>2, <1>3, MoversArePart, PTL DEF EngineSpec

=============================================================================
