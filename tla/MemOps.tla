------------------------------- MODULE MemOps -------------------------------
(***************************************************************************)
(* memcpy, memset and memmove of freestanding.c, a byte per step, over a   *)
(* memory of MemSize bytes in which source and destination may overlap.    *)
(* Every byte starts out different from every other, so that a byte tells  *)
(* where it came from.                                                     *)
(***************************************************************************)
EXTENDS Integers

CONSTANT MemSize
ASSUME MemSizeAssumption == MemSize \in Nat

VARIABLES
    memCall,               \* the routine called, "none" before
    way,                   \* "forward", "backward" or, when it has returned, "done"
    mem,
    dest, src, count, i    \* its parameters and its loop counter

memVars == <<memCall, way, mem, dest, src, count, i>>

Address == 0 .. MemSize - 1
Fill == MemSize                        \* memset's byte

MemInit ==
    /\ memCall = "none" /\ way = "done"
    /\ mem = [a \in Address |-> a]
    /\ dest = 0 /\ src = 0 /\ count = 0 /\ i = 0

-----------------------------------------------------------------------------
Call(name, w, d, s, n) ==
    /\ memCall = "none"
    /\ memCall' = name /\ way' = w
    /\ dest' = d /\ src' = s /\ count' = n
    /\ i' = IF w = "backward" THEN n ELSE 0
    /\ UNCHANGED mem

Apart(d, s, n) == d + n <= s \/ s + n <= d

(* The standard lets memcpy's caller pass disjoint areas only.             *)
memcpy ==
    \E n \in 0 .. MemSize : \E d, s \in 0 .. MemSize - n :
        Apart(d, s, n) /\ Call("memcpy", "forward", d, s, n)

memset ==
    \E n \in 0 .. MemSize : \E d \in 0 .. MemSize - n :
        Call("memset", "forward", d, 0, n)

(* Mutant: memmove is memcpy.                                              *)
ForwardAlways(d, s) == "forward"
Direction(d, s) ==
    IF d < s THEN "forward" ELSE IF d > s THEN "backward" ELSE "done"

memmove ==
    \E n \in 0 .. MemSize : \E d, s \in 0 .. MemSize - n :
        Call("memmove", Direction(d, s), d, s, n)

Forward ==
    /\ way = "forward" /\ i < count
    /\ mem' = [mem EXCEPT ![dest + i] = IF memCall = "memset" THEN Fill ELSE mem[src + i]]
    /\ i' = i + 1
    /\ UNCHANGED <<memCall, way, dest, src, count>>

Backward ==
    /\ way = "backward" /\ i > 0
    /\ mem' = [mem EXCEPT ![dest + i - 1] = mem[src + i - 1]]
    /\ i' = i - 1
    /\ UNCHANGED <<memCall, way, dest, src, count>>

Returned ==
    /\ \/ way = "forward" /\ i = count
       \/ way = "backward" /\ i = 0
    /\ way' = "done"
    /\ UNCHANGED <<memCall, mem, dest, src, count, i>>

MemNext == memcpy \/ memset \/ memmove \/ Forward \/ Backward \/ Returned

-----------------------------------------------------------------------------
(* When a routine returns, the destination holds what the source held when *)
(* it was called, however the two overlap, and no other byte has changed:  *)
(* the loops of memmove never copy a byte they have already overwritten.   *)
MoveIsCopy ==
    way = "done" =>
        mem = [a \in Address |->
                  IF a < dest \/ a >= dest + count THEN a
                  ELSE IF memCall = "memset" THEN Fill
                  ELSE src + (a - dest)]

=============================================================================
