------------------------------ MODULE BumpHeap ------------------------------
(***************************************************************************)
(* The bump allocator of src/libc/freestanding.c and its client, the game. *)
(*                                                                         *)
(* Memory is kept in cells of 8 bytes, the alignment and the size of a      *)
(* block header, at addresses that are multiples of 8.  Headers lie in the *)
(* same memory as the client's data: a store by the client or a memset can *)
(* overwrite one, and malloc's header can overwrite data.  Address and size *)
(* arithmetic is modulo 2^32 (AddressSpace).  The allocator is called by the main   *)
(* program only, never by an interrupt handler, so each call is one action. *)
(***************************************************************************)
EXTENDS Integers, FiniteSetsExt

CONSTANTS
    Start,      \* BUMP_ALLOCATOR_START
    Limit,      \* limit_bytes of bump_allocator_init
    AddressSpace,       \* 2^32
    MaxInt,     \* 2^31 - 1: doom_malloc_wrapper takes an int
    Requests,   \* the sizes the client asks for
    Values      \* what the client stores in a cell

HeaderSize == 8   \* sizeof(alloc_header_t)

ASSUME HeapAssumption ==
    /\ Start \in Nat /\ Limit \in Nat /\ AddressSpace \in Nat /\ MaxInt \in Nat
    /\ Start % 8 = 0 /\ Start >= 8
    /\ Start + Limit + MaxInt + 16 < AddressSpace
    /\ Requests \subseteq 1..MaxInt

VARIABLES
    current_bump,
    heap_limit,
    allocated_bytes,
    ram,    \* what the cells of the heap hold: a header or the client's data
    live    \* the blocks the client holds: [its pointer -> the size it asked for]

bumpVars == <<current_bump, heap_limit, allocated_bytes, ram, live>>

Cells == {a \in Start..Start + Limit - 1 : a % 8 = 0}

Headed(size) == [size |-> size, is_free |-> 0]
Stored(v) == [data |-> v]
Garbage == [data |-> "garbage"]   \* RAM before anything is stored in it

Add(x, y) == (x + y) % AddressSpace
Align(n) == Add(n, 7) - (Add(n, 7) % 8)

SizeOf(p) == ram[p - HeaderSize].size

\* bump_allocator_init, called once, before the first malloc.
BumpInit ==
    /\ current_bump = Start
    /\ heap_limit = Limit
    /\ allocated_bytes = 0
    /\ ram = [a \in Cells |-> Garbage]
    /\ live = [p \in {} |-> 0]

-----------------------------------------------------------------------------
(* malloc, in parts that calloc and realloc share.                         *)

TotalSize(n) == Add(HeaderSize, Align(n))

Room(n) == Add(current_bump, TotalSize(n)) <= Add(Start, heap_limit)

NewPtr == current_bump + HeaderSize

WithHeader(n) == [ram EXCEPT ![current_bump] = Headed(Align(n))]

Granted(p, n) == [q \in DOMAIN live \cup {p} |-> IF q = p THEN n ELSE live[q]]

\* The cells that hold the first n bytes from p on.
CellsFrom(p, n) == {a \in Cells : p <= a /\ a < p + n}

malloc(n) ==
    /\ Room(n)
    /\ ram' = WithHeader(n)
    /\ current_bump' = Add(current_bump, TotalSize(n))
    /\ allocated_bytes' = allocated_bytes + Align(n)
    /\ live' = Granted(NewPtr, n)
    /\ UNCHANGED heap_limit

OutOfMemory(n) ==
    /\ ~Room(n)
    /\ UNCHANGED bumpVars

\* The client never asks for a total beyond an int.
calloc(num, n) ==
    LET total == num * n
    IN  /\ total \in 1..MaxInt
        /\ Room(total)
        /\ ram' = [a \in Cells |-> IF a \in CellsFrom(NewPtr, total) THEN Stored("zero")
                                   ELSE WithHeader(total)[a]]
        /\ current_bump' = Add(current_bump, TotalSize(total))
        /\ allocated_bytes' = allocated_bytes + Align(total)
        /\ live' = Granted(NewPtr, total)
        /\ UNCHANGED heap_limit

-----------------------------------------------------------------------------
(* free.                                                                   *)

Less(bytes, size) == IF bytes >= size THEN bytes - size ELSE 0

\* Only the block that ends at the bump pointer is given back.
BumpAfterAnyFree(p, size, bump) == p - HeaderSize   \* mutant
BumpAfterFree(p, size, bump) == IF p + size = bump THEN p - HeaderSize ELSE bump

free(p) ==
    /\ p \in DOMAIN live
    /\ ram' = [ram EXCEPT ![p - HeaderSize].is_free = 1]
    /\ allocated_bytes' = Less(allocated_bytes, SizeOf(p))
    /\ current_bump' = BumpAfterFree(p, SizeOf(p), current_bump)
    /\ live' = [q \in DOMAIN live \ {p} |-> live[q]]
    /\ UNCHANGED heap_limit

-----------------------------------------------------------------------------
(* realloc of a block the client holds; realloc(NULL, n) is malloc(n) and   *)
(* realloc(p, 0) is free(p).                                               *)

IsLast(p) == p + SizeOf(p) = current_bump

\* Mutant: any block may grow in place.
GrowsAnywhere(p, n) ==
    Add(current_bump, Align(n) - SizeOf(p)) <= Add(Start, heap_limit)

GrowsInPlace(p, n) ==
    /\ IsLast(p)
    /\ Add(current_bump, Align(n) - SizeOf(p)) <= Add(Start, heap_limit)

ReallocReuse(p, n) ==
    /\ p \in DOMAIN live
    /\ SizeOf(p) >= n
    /\ live' = Granted(p, n)
    /\ UNCHANGED <<current_bump, heap_limit, allocated_bytes, ram>>

ReallocGrow(p, n) ==
    /\ p \in DOMAIN live
    /\ SizeOf(p) < n
    /\ GrowsInPlace(p, n)
    /\ current_bump' = Add(current_bump, Align(n) - SizeOf(p))
    /\ allocated_bytes' = allocated_bytes + (Align(n) - SizeOf(p))
    /\ ram' = [ram EXCEPT ![p - HeaderSize].size = Align(n)]
    /\ live' = Granted(p, n)
    /\ UNCHANGED heap_limit

\* malloc writes the header, memcpy the whole old block.
Moved(p, n) ==
    [a \in Cells |-> IF a \in CellsFrom(NewPtr, SizeOf(p)) THEN ram[p + (a - NewPtr)]
                     ELSE WithHeader(n)[a]]

\* malloc, memcpy, free of the old block.
ReallocMove(p, n) ==
    /\ p \in DOMAIN live
    /\ SizeOf(p) < n
    /\ ~GrowsInPlace(p, n)
    /\ Room(n)
    /\ ram' = [Moved(p, n) EXCEPT ![p - HeaderSize].is_free = 1]
    /\ allocated_bytes' = Less(allocated_bytes + Align(n), SizeOf(p))
    /\ current_bump' = BumpAfterFree(p, SizeOf(p), Add(current_bump, TotalSize(n)))
    /\ live' = [q \in (DOMAIN live \ {p}) \cup {NewPtr} |->
                   IF q = NewPtr THEN n ELSE live[q]]
    /\ UNCHANGED heap_limit

ReallocFails(p, n) ==
    /\ p \in DOMAIN live
    /\ SizeOf(p) < n
    /\ ~GrowsInPlace(p, n)
    /\ OutOfMemory(n)

realloc(p, n) ==
    \/ ReallocReuse(p, n)
    \/ ReallocGrow(p, n)
    \/ ReallocMove(p, n)
    \/ ReallocFails(p, n)

-----------------------------------------------------------------------------
(* The client fills a block it holds, to the size it asked for.            *)

Store(p, v) ==
    /\ p \in DOMAIN live
    /\ ram' = [a \in Cells |-> IF a \in CellsFrom(p, live[p]) THEN Stored(v) ELSE ram[a]]
    /\ UNCHANGED <<current_bump, heap_limit, allocated_bytes, live>>

BumpNext ==
    \/ \E n \in Requests : malloc(n) \/ OutOfMemory(n)
    \/ \E num \in 1..2, n \in Requests : calloc(num, n)
    \/ \E p \in Cells : free(p)
    \/ \E p \in Cells, n \in Requests : realloc(p, n)
    \/ \E p \in Cells, v \in Values : Store(p, v)

Spec == BumpInit /\ [][BumpNext]_bumpVars

-----------------------------------------------------------------------------
(* Properties.                                                             *)

get_free_bytes ==
    LET total_allocated == current_bump - Start
    IN  IF total_allocated >= heap_limit THEN 0 ELSE heap_limit - total_allocated

Headers == [size : Nat, is_free : {0, 1}]

\* The header of a block the client holds is what the allocator wrote there,
\* whatever the client stored in its blocks since; the block is as large as the
\* client asked for and lies in the heap; with their headers blocks do not
\* overlap, and get_free_bytes never counts their memory as free; and
\* allocated_bytes counts the bytes of exactly these blocks, so that the clamp
\* to 0 in free never hides a wrong count.
HeapSound ==
    /\ \A p \in DOMAIN live :
        /\ p - HeaderSize \in Cells
        /\ ram[p - HeaderSize] \in Headers
        /\ ram[p - HeaderSize].is_free = 0
        /\ SizeOf(p) % 8 = 0
        /\ SizeOf(p) >= live[p]
        /\ p + SizeOf(p) <= current_bump
        /\ \A q \in DOMAIN live :
              p < q => p + SizeOf(p) <= q - HeaderSize
    /\ current_bump <= Start + Limit - get_free_bytes
    /\ allocated_bytes = MapThenSumSet(SizeOf, DOMAIN live)

\* What a block holds changes only when the client stores into that block: no
\* call for another block, and no realloc of this one, disturbs it; when realloc
\* moves the block, the new one begins with what the old one held.
Kept(p) ==
    \A a \in CellsFrom(p, live[p]) \cap CellsFrom(p, live'[p]) : ram'[a] = ram[a]

ContentsKept ==
    [][ /\ \A p \in DOMAIN live \cap DOMAIN live' :
              (\A v \in Values : ~Store(p, v)) => Kept(p)
        /\ \A p \in DOMAIN live, n \in Requests :
              ReallocMove(p, n) =>
                  \A a \in CellsFrom(p, live[p]) : ram'[NewPtr + (a - p)] = ram[a] ]_bumpVars
=============================================================================
