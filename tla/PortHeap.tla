------------------------------ MODULE PortHeap ------------------------------
(***************************************************************************)
(* The heap of doom_port.c: one list of blocks in address order, with a    *)
(* header before each, whose size is negative while the block is given out *)
(* and which are merged with free neighbours.  Memory is counted in units  *)
(* of ALIGNMENT bytes; a header, rounded up, takes one unit.               *)
(***************************************************************************)
EXTENDS Integers

CONSTANT HeapUnits                                 \* HEAP_SIZE
ASSUME HeapUnitsAssumption == HeapUnits \in Nat /\ HeapUnits > 1

VARIABLES
    heap_initialized,
    header,     \* by address: what the memory holds there, if ever a header
    held        \* the client: the blocks it was given, with the size it asked for

portVars == <<heap_initialized, header, held>>

NULL == -1
HEADER_SIZE == 1
Unit == 0 .. HeapUnits - 1
Header(size, next, prev) == [size |-> size, next |-> next, prev |-> prev]
NoHeader == Header(0, NULL, NULL)

PortInit ==
    /\ heap_initialized = FALSE
    /\ header = [a \in Unit |-> NoHeader]
    /\ held = [a \in {} |-> 0]

my_heap_init == [header EXCEPT ![0] = Header(HeapUnits - HEADER_SIZE, NULL, NULL)]
Heap == IF heap_initialized THEN header ELSE my_heap_init

-----------------------------------------------------------------------------
(* The walk from free_list, which is the first block and never moves.      *)
Follow(h, a) == IF a = NULL THEN NULL ELSE h[a].next
Walk(h) ==
    LET nth[n \in Unit] == IF n = 0 THEN 0 ELSE Follow(h, nth[n - 1])
    IN  nth
Chain(h) == {Walk(h)[n] : n \in Unit} \ {NULL}

SetPrev(h, a, p) == IF a = NULL THEN h ELSE [h EXCEPT ![a].prev = p]

(* First fit: the walk is in address order.                                *)
Fits(h, n) == {a \in Chain(h) : h[a].size >= n}
FirstFit(h, n) == CHOOSE a \in Fits(h, n) : \A b \in Fits(h, n) : a <= b

(* A block is split when the rest can hold a header and one unit.          *)
(*                                                                         *)
(* Mutant: the block behind does not learn of the new one.                 *)
SplitForward(h, a, n) ==
    LET b == a + HEADER_SIZE + n
    IN  [h EXCEPT ![b] = Header(h[a].size - n - HEADER_SIZE, h[a].next, a),
                  ![a].next = b, ![a].size = -n]
Split(h, a, n) ==
    LET b == a + HEADER_SIZE + n
        new == Header(h[a].size - n - HEADER_SIZE, h[a].next, a)
    IN  [SetPrev([h EXCEPT ![b] = new], h[a].next, b) EXCEPT ![a].next = b, ![a].size = -n]

TakeWhole(h, a) == [h EXCEPT ![a].size = -h[a].size]

my_malloc(n) ==
    /\ heap_initialized' = TRUE
    /\ IF Fits(Heap, n) = {}
       THEN header' = Heap /\ UNCHANGED held                         \* returns NULL
       ELSE LET a == FirstFit(Heap, n)
            IN  /\ header' = IF Heap[a].size - n - HEADER_SIZE >= 1
                             THEN Split(Heap, a, n) ELSE TakeWhole(Heap, a)
                /\ held' = [b \in DOMAIN held \cup {a} |-> IF b = a THEN n ELSE held[b]]

-----------------------------------------------------------------------------
(* my_free turns the size positive and joins the block with the next one,  *)
(* then with the one before.  The client frees what it holds; free(NULL)   *)
(* and a second free of the same block do nothing.                         *)
JoinNext(h, a) ==
    LET n == h[a].next
    IN  IF n = NULL \/ h[n].size < 0 THEN h
        ELSE SetPrev([h EXCEPT ![a].size = @ + HEADER_SIZE + h[n].size, ![a].next = h[n].next],
                     h[n].next, a)

JoinPrev(h, a) ==
    LET p == h[a].prev
    IN  IF p = NULL \/ h[p].size < 0 THEN h
        ELSE SetPrev([h EXCEPT ![p].size = @ + HEADER_SIZE + h[a].size, ![p].next = h[a].next],
                     h[a].next, p)

my_free(a) ==
    /\ header' = JoinPrev(JoinNext([header EXCEPT ![a].size = -header[a].size], a), a)
    /\ held' = [b \in DOMAIN held \ {a} |-> held[b]]
    /\ UNCHANGED heap_initialized

PortNext ==
    \/ \E n \in 1 .. HeapUnits : my_malloc(n)
    \/ \E a \in DOMAIN held : my_free(a)

-----------------------------------------------------------------------------
Size(a) == IF header[a].size < 0 THEN -header[a].size ELSE header[a].size

(* Through any mallocs and frees the list is one chain of blocks that fill *)
(* the heap without gap or overlap, linked the same way in both directions;*)
(* two free blocks never lie side by side, so no request fails that the    *)
(* free memory could meet in one piece; and the blocks given out are those *)
(* the client holds, each at least as large as it asked for.               *)
ChainSound ==
    heap_initialized =>
        /\ \A a \in Chain(header) :
            LET n == header[a].next
            IN  /\ IF n = NULL THEN a + HEADER_SIZE + Size(a) = HeapUnits
                   ELSE n = a + HEADER_SIZE + Size(a) /\ header[n].prev = a
                /\ n # NULL => header[a].size < 0 \/ header[n].size < 0
                /\ header[a].size < 0 <=> a \in DOMAIN held
                /\ a \in DOMAIN held => Size(a) >= held[a]
        /\ DOMAIN held \subseteq Chain(header)

=============================================================================
