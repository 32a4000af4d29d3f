------------------------------ MODULE ZoneHeap ------------------------------
(***************************************************************************)
(* The engine's zone memory and lump cache (PureDOOM.h).  Blocks lie in a  *)
(* ring in address order, closed by the zone's own header at address 0.    *)
(* Z_Malloc walks the ring from the rover and throws out purgeable blocks  *)
(* on its way, clearing the pointer of whoever owned them.  A step is one  *)
(* turn of a loop of Z_Malloc or Z_FreeTags, or one call of the others.    *)
(* Memory is counted in units of a block header.                           *)
(***************************************************************************)
EXTENDS Integers, Sequences, FiniteSets

CONSTANTS
    ZoneUnits,      \* the zone's size, its own header included
    MINFRAGMENT,    \* a rest of this size or less is not split off
    Lumps, LumpUnits,            \* what W_LumpLength returns
    Texture, TextureUnits, Patches,   \* a composite texture and its patches
    LevelUnits, MaxLevelBlocks   \* bounds of what a level allocates

ASSUME ZoneAssumption ==
    /\ {ZoneUnits, MINFRAGMENT, TextureUnits, MaxLevelBlocks} \subseteq Nat /\ ZoneUnits > 2
    /\ LumpUnits \in [Lumps -> Nat] /\ Texture \notin Lumps
    /\ Patches \in Seq(Lumps) /\ LevelUnits \subseteq Nat

VARIABLES
    zone,       \* hdr: the block headers by address; rover; slot: the owners' pointers
    zPc,        \* "idle", "scan", "free tags", "composite" or "error" (I_Error)
    zCall,      \* Z_Malloc's parameters, and whom it returns to
    start, rover, base,      \* Z_Malloc's locals
    walk,       \* Z_FreeTags' block
    level,      \* client: the level's blocks, which have no owner
    drawn       \* R_GenerateComposite: its block and the patches still to draw

zoneVars == <<zone, zPc, zCall, start, rover, base, walk, level, drawn>>

Slots == Lumps \cup {Texture}
Addr == 0 .. ZoneUnits - 1
NoBlock == -1
Cap == 0                          \* mainzone->blocklist
First == 1
MemBlock == 1                     \* sizeof(memblock_t)

PU_STATIC == 1
PU_LEVEL == 50
PU_PURGELEVEL == 100
PU_CACHE == 101
Free == "free"                    \* user = 0
Unowned == "unowned"              \* user = (void*)2

ASSUME SlotsAssumption == Slots \cap {Free, Unowned} = {}

(* A block's header, and what its client has stored behind it.             *)
Block(size, user, tag, next, prev) ==
    [size |-> size, user |-> user, tag |-> tag, next |-> next, prev |-> prev, data |-> "none"]
Scribbled == Block(0, "data", 0, Cap, Cap)       \* no header

Z_Init ==
    [hdr |-> [a \in Addr |->
                CASE a = Cap -> Block(0, "zone", PU_STATIC, First, First)
                  [] a = First -> Block(ZoneUnits - 1, Free, 0, Cap, Cap)
                  [] OTHER -> Scribbled],
     rover |-> First,
     slot |-> [s \in Slots |-> NoBlock]]

NoCall == [units |-> 0, tag |-> 0, user |-> Unowned, for |-> "nobody"]
NotDrawn == [block |-> NoBlock, left |-> <<>>]

ZoneInit ==
    /\ zone = Z_Init
    /\ zPc = "idle" /\ zCall = NoCall
    /\ start = NoBlock /\ rover = NoBlock /\ base = NoBlock /\ walk = NoBlock
    /\ level = {}
    /\ drawn = NotDrawn

-----------------------------------------------------------------------------
(* Z_Free: the owner's pointer is cleared, the block joins the free block  *)
(* before it, then the one behind joins the result.  The rover moves when  *)
(* it stood on a block that is gone.                                       *)
IsFree(h, a) == h[a].user = Free
Absorb(h, a, b) ==        \* b, which follows a, becomes part of it
    [h EXCEPT ![a].size = @ + h[b].size, ![a].next = h[b].next, ![h[b].next].prev = a]

ClearMark(z, a) ==
    IF z.hdr[a].user \in Slots THEN [z.slot EXCEPT ![z.hdr[a].user] = NoBlock] ELSE z.slot

(* Mutant: the owner is not told.                                          *)
KeepMark(z, a) == z.slot
UserMark(z, a) == ClearMark(z, a)

JoinBefore(z, a) ==
    LET p == z.hdr[a].prev
    IN  IF ~IsFree(z.hdr, p) THEN z
        ELSE [z EXCEPT !.hdr = Absorb(z.hdr, p, a), !.rover = IF @ = a THEN p ELSE @]

(* Mutant: the rover stays on the block that is merged away.               *)
JoinBehindRover(z, a) ==
    LET n == z.hdr[a].next
    IN  IF ~IsFree(z.hdr, n) THEN z ELSE [z EXCEPT !.hdr = Absorb(z.hdr, a, n)]
JoinBehind(z, a) ==
    LET n == z.hdr[a].next
    IN  IF ~IsFree(z.hdr, n) THEN z
        ELSE [z EXCEPT !.hdr = Absorb(z.hdr, a, n), !.rover = IF @ = n THEN a ELSE @]

Z_Free(z, a) ==
    LET marked == [z EXCEPT !.slot = UserMark(z, a),
                            !.hdr = [@ EXCEPT ![a].user = Free, ![a].tag = 0,
                                                ![a].data = "none"]]
        p == z.hdr[a].prev
    IN  JoinBehind(JoinBefore(marked, a), IF IsFree(z.hdr, p) THEN p ELSE a)

(* The macro Z_ChangeTag; a block without an owner must not become         *)
(* purgeable, which is I_Error and which no caller here asks for.          *)
Z_ChangeTag(z, a, tag) == [z EXCEPT !.hdr[a].tag = tag]

-----------------------------------------------------------------------------
(* The blocks of the ring, found as Z_CheckHeap finds them.  Memory that   *)
(* is no header any more is forgotten when a call is over; only            *)
(* Z_FreeTags, below, comes back to some of it.                            *)
Ring(h) ==
    LET upTo[n \in Addr] ==        \* the last block reached in n steps, and all of them
            IF n = 0 THEN [at |-> Cap, all |-> {Cap}]
            ELSE LET before == upTo[n - 1]
                 IN  [at |-> h[before.at].next, all |-> before.all \cup {h[before.at].next}]
    IN  upTo[ZoneUnits - 1].all
Forget(z) ==
    LET ring == Ring(z.hdr)
    IN  [z EXCEPT !.hdr = [a \in Addr |-> IF a \in ring THEN z.hdr[a] ELSE Scribbled]]

-----------------------------------------------------------------------------
(* Z_Malloc.  It starts at the rover, or at the free block before it.      *)
StartMalloc(units, tag, user, for) ==
    LET r == zone.rover
        b == IF IsFree(zone.hdr, zone.hdr[r].prev) THEN zone.hdr[r].prev ELSE r
    IN  /\ zPc' = "scan"
        /\ zCall' = [units |-> units + MemBlock, tag |-> tag, user |-> user, for |-> for]
        /\ base' = b /\ rover' = b /\ start' = zone.hdr[b].prev
        /\ UNCHANGED zone

Found == IsFree(zone.hdr, base) /\ zone.hdr[base].size >= zCall.units

(* The loop's test comes after its body.  If the first base is large       *)
(* enough that turn only moves the rover, which is not used again.         *)
Scanning == zPc = "scan" /\ ~Found
AtStart == rover = start

OutOfMemory ==
    /\ Scanning /\ AtStart
    /\ zPc' = "error"
    /\ UNCHANGED <<zone, zCall, start, rover, base, walk, level, drawn>>

Purgeable(a) == zone.hdr[a].tag >= PU_PURGELEVEL

SkipUsed ==
    /\ Scanning /\ ~AtStart
    /\ ~IsFree(zone.hdr, rover) /\ ~Purgeable(rover)
    /\ rover' = zone.hdr[rover].next /\ base' = zone.hdr[rover].next
    /\ UNCHANGED <<zone, zPc, zCall, start, walk, level, drawn>>

Purge ==
    /\ Scanning /\ ~AtStart
    /\ ~IsFree(zone.hdr, rover) /\ Purgeable(rover)
    /\ LET before == zone.hdr[base].prev
           z == Forget(Z_Free(zone, rover))
           b == z.hdr[before].next
       IN  zone' = z /\ base' = b /\ rover' = z.hdr[b].next
    /\ UNCHANGED <<zPc, zCall, start, walk, level, drawn>>

SkipFree ==
    /\ Scanning /\ ~AtStart
    /\ IsFree(zone.hdr, rover)
    /\ rover' = zone.hdr[rover].next
    /\ UNCHANGED <<zone, zPc, zCall, start, base, walk, level, drawn>>

(* The block found is split when what is left over is worth it, given to   *)
(* its owner, and the next search will start behind it.                    *)
SplitBlock(h, a, units) ==
    LET b == a + units
        n == h[a].next
        new == Block(h[a].size - units, Free, 0, n, a)
    IN  IF h[a].size - units <= MINFRAGMENT THEN h
        ELSE [h EXCEPT ![n].prev = b, ![b] = new, ![a].next = b, ![a].size = units]

Given(z, a) ==
    LET h == SplitBlock(z.hdr, a, zCall.units)
    IN  [hdr |-> [h EXCEPT ![a].user = zCall.user, ![a].tag = zCall.tag],
         rover |-> h[a].next,
         slot |-> IF zCall.user \in Slots THEN [z.slot EXCEPT ![zCall.user] = a] ELSE z.slot]

(* The client fills the block; W_ReadLump with the lump.                   *)
Filled(z, a) == [z EXCEPT !.hdr[a].data = IF zCall.user \in Lumps THEN zCall.user ELSE "raw"]

Return ==
    /\ zPc = "scan" /\ Found
    /\ zone' = Filled(Given(zone, base), base)
    /\ level' = IF zCall.for = "level" THEN level \cup {base} ELSE level
    /\ drawn' = IF zCall.user = Texture THEN [block |-> base, left |-> Patches]
                ELSE IF zCall.for = "composite" THEN [drawn EXCEPT !.left = Tail(@)]
                ELSE drawn
    /\ zPc' = IF zCall.for = "composite" THEN "composite" ELSE "idle"
    /\ zCall' = NoCall /\ start' = NoBlock /\ rover' = NoBlock /\ base' = NoBlock
    /\ UNCHANGED walk

-----------------------------------------------------------------------------
(* W_CacheLumpNum: a lump that is not in memory is read into a new block   *)
(* owned by its entry of lumpcache; one that is only changes its tag.      *)
W_CacheLumpNum(l, tag, for) ==
    IF zone.slot[l] = NoBlock
    THEN /\ StartMalloc(LumpUnits[l], tag, l, for)
         /\ UNCHANGED drawn
    ELSE /\ zone' = Z_ChangeTag(zone, zone.slot[l], tag)
         /\ drawn' = IF for = "composite" THEN [drawn EXCEPT !.left = Tail(@)] ELSE drawn
         /\ UNCHANGED <<zPc, zCall, start, rover, base>>

CacheLump ==
    /\ zPc = "idle"
    /\ \E l \in Lumps, tag \in {PU_STATIC, PU_LEVEL, PU_CACHE} : W_CacheLumpNum(l, tag, "lump")
    /\ UNCHANGED <<walk, level>>

(* R_GenerateComposite keeps the pointer to its block in a local variable  *)
(* while it caches one patch after the other; that is why the block stays  *)
(* PU_STATIC until it is drawn.  R_GetColumn calls it for a texture that   *)
(* is not in memory.                                                       *)
R_GetColumn ==
    /\ zPc = "idle" /\ zone.slot[Texture] = NoBlock
    /\ StartMalloc(TextureUnits, PU_STATIC, Texture, "composite")
    /\ UNCHANGED <<walk, level, drawn>>

DrawPatch ==
    /\ zPc = "composite" /\ drawn.left # <<>>
    /\ W_CacheLumpNum(Head(drawn.left), PU_CACHE, "composite")
    /\ UNCHANGED <<walk, level>>

CompositeDone ==
    /\ zPc = "composite" /\ drawn.left = <<>>
    /\ zone' = [Z_ChangeTag(zone, drawn.block, PU_CACHE) EXCEPT !.hdr[drawn.block].data = Texture]
    /\ drawn' = NotDrawn
    /\ zPc' = "idle"
    /\ UNCHANGED <<zCall, start, rover, base, walk, level>>

(* What a level allocates: PU_LEVEL without an owner.                      *)
LevelAlloc ==
    /\ zPc = "idle"
    /\ Cardinality(level) < MaxLevelBlocks
    /\ \E u \in LevelUnits : StartMalloc(u, PU_LEVEL, Unowned, "level")
    /\ UNCHANGED <<walk, level, drawn>>

LevelFree ==
    /\ zPc = "idle"
    /\ \E a \in level : zone' = Forget(Z_Free(zone, a)) /\ level' = level \ {a}
    /\ UNCHANGED <<zPc, zCall, start, rover, base, walk, drawn>>

-----------------------------------------------------------------------------
(* P_SetupLevel frees the last level's blocks: Z_FreeTags(PU_LEVEL,        *)
(* PU_PURGELEVEL - 1).  It takes the link before it frees; the block it    *)
(* then goes to may by now be part of a larger one.                        *)
OfLevel(tag) == PU_LEVEL <= tag /\ tag < PU_PURGELEVEL

P_SetupLevel ==
    /\ zPc = "idle"
    /\ zPc' = "free tags" /\ walk' = zone.hdr[Cap].next
    /\ UNCHANGED <<zone, zCall, start, rover, base, level, drawn>>

FreeNext ==
    /\ zPc = "free tags" /\ walk # Cap
    /\ zone' = IF ~IsFree(zone.hdr, walk) /\ OfLevel(zone.hdr[walk].tag)
               THEN Z_Free(zone, walk) ELSE zone
    /\ walk' = zone.hdr[walk].next
    /\ UNCHANGED <<zPc, zCall, start, rover, base, level, drawn>>

AllFreed ==
    /\ zPc = "free tags" /\ walk = Cap
    /\ zPc' = "idle" /\ walk' = NoBlock /\ level' = {}
    /\ zone' = Forget(zone)
    /\ UNCHANGED <<zCall, start, rover, base, drawn>>

ZoneStep ==
    \/ OutOfMemory \/ SkipUsed \/ Purge \/ SkipFree \/ Return
    \/ DrawPatch \/ CompositeDone \/ FreeNext \/ AllFreed
ZoneNext == ZoneStep \/ CacheLump \/ R_GetColumn \/ LevelAlloc \/ LevelFree \/ P_SetupLevel

-----------------------------------------------------------------------------
Blocks == Ring(zone.hdr) \ {Cap}

(* What Z_CheckHeap tests, at every moment: each block touches the next    *)
(* one, links go both ways, and no two free blocks are neighbours; the     *)
(* rover, and the block a search ends at, are blocks of the ring, so that  *)
(* a search never runs through memory that is no longer a header.          *)
ZoneSound ==
    LET ring == Blocks
    IN  /\ \A a \in ring :
            LET n == zone.hdr[a].next
            IN  /\ a + zone.hdr[a].size = IF n = Cap THEN ZoneUnits ELSE n
                /\ zone.hdr[n].prev = a
                /\ ~(IsFree(zone.hdr, a) /\ IsFree(zone.hdr, n))
        /\ zone.hdr[Cap].next = First
        /\ zone.rover \in ring \cup {Cap}
        /\ zPc = "scan" =>
            {start, rover, base} \subseteq ring \cup {Cap} /\ ~IsFree(zone.hdr, start)

(* A pointer in lumpcache or texturecomposite leads to a block that is in  *)
(* use, that it owns and that holds its data, however much was purged      *)
(* since; and every block that somebody owns is pointed to.  The block of  *)
(* a composite stays while its patches are cached, and the level keeps     *)
(* its blocks until P_SetupLevel, which leaves none.                       *)
PointersGood ==
    LET ring == Blocks
    IN  /\ \A s \in Slots : zone.slot[s] # NoBlock =>
            /\ zone.slot[s] \in ring /\ zone.hdr[zone.slot[s]].user = s
            /\ zone.hdr[zone.slot[s]].data = IF drawn.block = zone.slot[s] THEN "raw" ELSE s
        /\ \A a \in ring : zone.hdr[a].user \in Slots => zone.slot[zone.hdr[a].user] = a
        /\ drawn.block # NoBlock => zone.slot[Texture] = drawn.block
        /\ zPc \in {"idle", "scan"} =>
            /\ level \subseteq ring
            /\ \A a \in ring : zone.hdr[a].user = Unowned <=> a \in level

=============================================================================
