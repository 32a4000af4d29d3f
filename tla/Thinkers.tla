------------------------------ MODULE Thinkers ------------------------------
(***************************************************************************)
(* The engine's list of thinkers (PureDOOM.h): a ring through thinkercap   *)
(* whose members are removed lazily.  P_RemoveThinker only marks a         *)
(* thinker; P_RunThinkers unlinks and frees it when its turn comes, and    *)
(* reads its link to the next one after it has been freed.  A step of      *)
(* P_RunThinkers is one turn of its loop.                                  *)
(***************************************************************************)
EXTENDS Integers, FiniteSets

CONSTANT Nodes                      \* the memory thinkers are allocated from

thinkercap == "thinkercap"
NoMover == "none"                   \* the null pointer

ASSUME ThinkersAssumption ==
    IsFiniteSet(Nodes) /\ thinkercap \notin Nodes /\ NoMover \notin Nodes

VARIABLES
    next, prev,     \* the links, in thinkercap and in every node, freed or not
    function,       \* "freed", "removed" (-1), "stasis" (0) or the thinker's function
    current,        \* currentthinker; thinkercap outside P_RunThinkers
    tic,            \* "over", "running", or "turn" while a thing has its turn
    turns           \* how often each thinker had its turn in this tic

listVars == <<next, prev, function, current, tic, turns>>

Links == Nodes \cup {thinkercap}
Allocated == {n \in Nodes : function[n] # "freed"}
Live == {n \in Allocated : function[n] # "removed"}

(* P_InitThinkers empties the list; n, if it is a node, is added first.    *)
ListInit(n, f) ==
    /\ next = [l \in Links |-> IF l = thinkercap THEN n ELSE thinkercap]
    /\ prev = next
    /\ function = [m \in Nodes |-> IF m = n THEN f ELSE "freed"]
    /\ current = thinkercap /\ tic = "over"
    /\ turns = [m \in Nodes |-> 0]

-----------------------------------------------------------------------------
(* A new thinker goes to the end, so that it has its turn in a tic that is *)
(* under way.                                                              *)
(*                                                                         *)
(* Mutant: the new thinker goes to the front.                              *)
AddFirst(n) ==
    LET first == next[thinkercap]
    IN  /\ next' = [next EXCEPT ![thinkercap] = n, ![n] = first]
        /\ prev' = [prev EXCEPT ![first] = n, ![n] = thinkercap]
P_AddThinker(n) ==
    LET last == prev[thinkercap]
    IN  /\ next' = [next EXCEPT ![last] = n, ![n] = thinkercap]
        /\ prev' = [prev EXCEPT ![n] = last, ![thinkercap] = n]

(* Z_Malloc's choice among the free nodes is left open.                    *)
Spawn(n, f) ==
    /\ n \notin Allocated
    /\ P_AddThinker(n)
    /\ function' = [function EXCEPT ![n] = f]
    /\ turns' = [turns EXCEPT ![n] = 0]
    /\ UNCHANGED <<current, tic>>

Removed(f, n) == [f EXCEPT ![n] = "removed"]           \* P_RemoveThinker

-----------------------------------------------------------------------------
TicBegins ==
    /\ tic = "over"
    /\ tic' = "running" /\ current' = next[thinkercap]
    /\ turns' = [n \in Nodes |-> 0]
    /\ UNCHANGED <<next, prev, function>>

Unlink ==
    /\ tic = "running" /\ current # thinkercap /\ function[current] = "removed"
    /\ prev' = [prev EXCEPT ![next[current]] = prev[current]]
    /\ next' = [next EXCEPT ![prev[current]] = next[current]]
    /\ function' = [function EXCEPT ![current] = "freed"]              \* Z_Free
    /\ current' = next'[current]
    /\ UNCHANGED <<tic, turns>>

(* A live thinker's turn; what its function does to the list is fAfter.    *)
Turn(fAfter) ==
    /\ tic = "running" /\ current # thinkercap /\ current \in Live
    /\ function' = fAfter
    /\ turns' = [turns EXCEPT ![current] = @ + 1]
    /\ current' = next[current]
    /\ UNCHANGED <<next, prev, tic>>

(* A thing's turn may be long: it moves, uses and crosses lines, spawns    *)
(* others and removes them.                                                *)
TurnBegins ==
    /\ tic = "running" /\ current # thinkercap /\ function[current] = "P_MobjThinker"
    /\ tic' = "turn"
    /\ turns' = [turns EXCEPT ![current] = @ + 1]
    /\ UNCHANGED <<next, prev, function, current>>

TurnEnds ==
    /\ tic = "turn"
    /\ tic' = "running" /\ current' = next[current]
    /\ UNCHANGED <<next, prev, function, turns>>

RemoveMobj ==
    /\ \E n \in Nodes : function[n] = "P_MobjThinker" /\ function' = Removed(function, n)
    /\ UNCHANGED <<next, prev, current, tic, turns>>

TicEnds ==
    /\ tic = "running" /\ current = thinkercap
    /\ tic' = "over"
    /\ UNCHANGED <<next, prev, function, current, turns>>

-----------------------------------------------------------------------------
(* The list as P_RunThinkers follows it.                                   *)
Following ==
    LET Step[k \in 0 .. Cardinality(Nodes)] ==
            IF k = 0 THEN next[thinkercap]
            ELSE IF Step[k - 1] = thinkercap THEN thinkercap ELSE next[Step[k - 1]]
    IN  {Step[k] : k \in 0 .. Cardinality(Nodes)}

(* The list holds the nodes that are allocated, linked the same way in     *)
(* both directions, and P_RunThinkers never stands on a freed one, even    *)
(* though it reads a link of a node it has just freed.  In a tic every     *)
(* thinker has its turn at most once, and exactly once when the tic is     *)
(* over: also those added meanwhile, in memory another was freed from.     *)
EachOnce ==
    /\ thinkercap \in Following
    /\ Following \ {thinkercap} = Allocated
    /\ \A n \in Allocated \cup {thinkercap} : prev[next[n]] = n
    /\ current \in Allocated \cup {thinkercap}
    /\ \A n \in Live : turns[n] <= 1
    /\ tic = "running" /\ current = thinkercap => \A n \in Live : turns[n] = 1

=============================================================================
