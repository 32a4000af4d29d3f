-------------------------- MODULE KernelVfsProofs --------------------------
(***************************************************************************)
(* Proofs about the kernel's file system, for every number of slots, files *)
(* and saves, and for contents of every length.                            *)
(***************************************************************************)
EXTENDS KernelVfs, TLAPS, SequenceTheorems, WellFoundedInduction

-----------------------------------------------------------------------------
(* The operators.                                                          *)

LEMMA LeastIsMin ==
    ASSUME NEW S \in SUBSET Nat, S # {}
    PROVE  Min(S) \in S /\ \A m \in S : Min(S) <= m
<1>1. \E n \in S : \A m \in S : ~(<<m, n>> \in OpToRel(<, Nat))
  BY NatLessThanWellFounded, WFMin
<1>2. PICK n \in S : \A m \in S : ~(<<m, n>> \in OpToRel(<, Nat))
  BY <1>1
<1>3. \A m \in S : ~(m < n)
  BY <1>2 DEF OpToRel
<1>4. \E x \in S : \A y \in S : x =< y
  BY <1>3
<1> QED
  BY <1>4 DEF Min

LEMMA OfTwo ==
    ASSUME NEW a \in Int, NEW b \in Int
    PROVE  /\ Max({a, b}) = IF a >= b THEN a ELSE b
           /\ Min({a, b}) = IF a <= b THEN a ELSE b
<1>1. \E x \in {a, b} : \A y \in {a, b} : x >= y
  OBVIOUS
<1>2. \E x \in {a, b} : \A y \in {a, b} : x =< y
  OBVIOUS
<1>3. Max({a, b}) \in {a, b} /\ \A y \in {a, b} : Max({a, b}) >= y
  BY <1>1 DEF Max
<1>4. Min({a, b}) \in {a, b} /\ \A y \in {a, b} : Min({a, b}) =< y
  BY <1>2 DEF Min
<1> QED
  BY <1>3, <1>4

-----------------------------------------------------------------------------
(* The slots and the buffers.                                              *)

Content == Data \cup {WAD, "garbage"}
Memory == {WadAddr} \cup Buffers

FileType ==
    [in_use : BOOLEAN, is_write : BOOLEAN, buffer : Memory \cup {NULL},
     size : Nat, capacity : Nat, offset : Nat, filename : Files \cup {WAD, ""}]

WadFile(f) == f.buffer = WadAddr /\ ~f.is_write /\ f.size = WadSize /\ f.filename = WAD
OwnFile(f) == f.buffer # WadAddr /\ f.filename \in Files

SlotOK(f, s) ==
    /\ f \in FileType
    /\ IF f.in_use
       THEN /\ WadFile(f) \/ OwnFile(f)
            /\ f.offset <= f.size /\ f.size <= f.capacity
            /\ f.buffer # NULL => Len(s[f.buffer]) = f.size
       ELSE f = Unused

BuffersHold ==
    /\ vfiles \in [Handles -> FileType]
    /\ store \in [Memory -> Seq(Content)]
    /\ store[WadAddr] = [i \in 1 .. WadSize |-> WAD]
    /\ \A i \in Handles : SlotOK(vfiles[i], store)
    /\ allocated = {vfiles[i].buffer : i \in {j \in Handles : vfiles[j].in_use}} \ {NULL, WadAddr}
    /\ \A i, j \in Handles :
          vfiles[i].buffer \in Buffers /\ vfiles[i].buffer = vfiles[j].buffer => i = j

LEMMA Addresses ==
    /\ NULL \notin Memory /\ WadAddr \in Memory /\ WadAddr \notin Buffers /\ Buffers \subseteq Memory
    /\ Memory = Buffers \cup {WadAddr} /\ Buffers \subseteq Nat /\ WadAddr # NULL
    /\ Handles \subseteq Nat /\ NULL \notin Handles
BY VfsAssumption DEF Memory, Buffers, WadAddr, NULL, Handles

LEMMA UnusedIsFile == Unused \in FileType /\ ~Unused.in_use /\ Unused.buffer = NULL /\ ~Unused.is_write
BY DEF Unused, FileType

\* One slot changes: it keeps its buffer, has a fresh one, or has none.
Changes(h, f) ==
    /\ vfiles' = [vfiles EXCEPT ![h] = f] /\ SlotOK(f, store')
    /\ store' \in [Memory -> Seq(Content)]
    /\ \A b \in Memory : b # f.buffer \/ b = WadAddr => store'[b] = store[b]
    /\ allocated' = (allocated \ {vfiles[h].buffer}) \cup ({f.buffer} \cap Buffers)
    /\ f.buffer = vfiles[h].buffer \/ f.buffer \notin allocated

LEMMA SlotChanges ==
    ASSUME BuffersHold, NEW h \in Handles, NEW f, Changes(h, f)
    PROVE  /\ BuffersHold'
           /\ \A i \in Handles : vfiles'[i] = IF i = h THEN f ELSE vfiles[i]
<1> USE DEF Changes
<1>1. f \in FileType
  BY DEF SlotOK
<1>2. /\ vfiles' \in [Handles -> FileType]
      /\ \A i \in Handles : vfiles'[i] = IF i = h THEN f ELSE vfiles[i]
  BY <1>1 DEF BuffersHold
<1>3. \A i \in Handles : vfiles[i].buffer \in Buffers => vfiles[i].in_use /\ vfiles[i].buffer \in allocated
  BY Addresses, UnusedIsFile DEF BuffersHold, SlotOK
<1>4. ASSUME NEW i \in Handles, i # h, vfiles[i].buffer # NULL, vfiles[i].buffer # WadAddr
      PROVE  vfiles[i].buffer # f.buffer
  <2>1. vfiles[i].buffer \in Buffers
    BY <1>4, Addresses DEF BuffersHold, FileType
  <2>2. vfiles[i].buffer \in allocated
    BY <1>3, <2>1
  <2>3. vfiles[i].buffer # vfiles[h].buffer
    BY <1>4, <2>1 DEF BuffersHold
  <2> QED
    BY <2>2, <2>3
<1>5. ASSUME NEW i \in Handles PROVE SlotOK(vfiles[i], store)'
  <2>1. CASE i = h
    BY <1>2, <2>1
  <2>2. CASE i # h
    <3>1. vfiles'[i] = vfiles[i] /\ SlotOK(vfiles[i], store) /\ vfiles[i].buffer \in Memory \cup {NULL}
      BY <1>2, <2>2 DEF BuffersHold, FileType
    <3>2. vfiles[i].buffer # NULL => store'[vfiles[i].buffer] = store[vfiles[i].buffer]
      BY <1>4, <2>2, <3>1, Addresses
    <3> QED
      BY <3>1, <3>2 DEF SlotOK
  <2> QED
    BY <2>1, <2>2
<1>6. \A i, j \in Handles :
          vfiles'[i].buffer \in Buffers /\ vfiles'[i].buffer = vfiles'[j].buffer => i = j
  BY <1>2, <1>4, Addresses DEF BuffersHold
<1>7. allocated' = {vfiles'[i].buffer : i \in {j \in Handles : vfiles'[j].in_use}} \ {NULL, WadAddr}
  <2>1. ASSUME NEW b \in allocated' PROVE \E i \in Handles : vfiles'[i].in_use /\ vfiles'[i].buffer = b /\ b \in Buffers
    <3>1. CASE b = f.buffer /\ b \in Buffers
      <4>1. f.in_use
        BY <3>1, Addresses, UnusedIsFile DEF SlotOK
      <4> QED
        BY <1>2, <3>1, <4>1
    <3>2. CASE b \in allocated /\ b # vfiles[h].buffer
      <4>1. PICK i \in Handles : vfiles[i].in_use /\ vfiles[i].buffer = b /\ b # NULL /\ b # WadAddr
        BY <3>2 DEF BuffersHold
      <4>2. i # h /\ b \in Buffers
        BY <3>2, <4>1, Addresses DEF BuffersHold, FileType
      <4> QED
        BY <1>2, <4>1, <4>2
    <3> QED
      BY <2>1, <3>1, <3>2
  <2>2. ASSUME NEW i \in Handles, vfiles'[i].in_use, vfiles'[i].buffer \notin {NULL, WadAddr}
        PROVE  vfiles'[i].buffer \in allocated'
    <3>1. CASE i = h
      BY <1>1, <1>2, <2>2, <3>1, Addresses DEF FileType
    <3>2. CASE i # h
      <4>1. vfiles[i].buffer \in Buffers /\ vfiles'[i] = vfiles[i]
        BY <1>2, <2>2, <3>2, Addresses DEF BuffersHold, FileType
      <4> QED
        BY <1>3, <3>2, <4>1 DEF BuffersHold
    <3> QED
      BY <3>1, <3>2
  <2> HIDE DEF Changes
  <2> QED
    BY <2>1, <2>2, Addresses
<1>8. store'[WadAddr] = [i \in 1 .. WadSize |-> WAD]
  BY Addresses DEF BuffersHold
<1> QED
  BY <1>2, <1>5, <1>6, <1>7, <1>8 DEF BuffersHold

-----------------------------------------------------------------------------
(* The calls of the file system.                                           *)

LEMMA FreeIsFirst ==
    ASSUME ~TableFull, BuffersHold
    PROVE  /\ FirstFree \in Handles /\ ~vfiles[FirstFree].in_use /\ vfiles[FirstFree] = Unused
           /\ \A i \in FreeSlots : FirstFree <= i
<1>1. FreeSlots \in SUBSET Nat /\ FreeSlots # {}
  BY Addresses DEF TableFull, FreeSlots
<1>2. FirstFree \in FreeSlots /\ \A i \in FreeSlots : FirstFree <= i
  BY <1>1, LeastIsMin DEF FirstFree
<1> QED
  BY <1>2 DEF FreeSlots, BuffersHold, SlotOK

Fresh(f, name, write, b, size, capacity) ==
    /\ f \in FileType /\ f.in_use /\ f.is_write = write /\ f.buffer = b
    /\ f.size = size /\ f.capacity = capacity /\ f.offset = 0 /\ f.filename = name

LEMMA FreshFile ==
    ASSUME NEW name \in Files \cup {WAD}, NEW write \in BOOLEAN, NEW b \in Memory \cup {NULL},
           NEW size \in Nat, NEW capacity \in Nat
    PROVE  /\ Fresh([alloc_vfile(name, write) EXCEPT !.buffer = b, !.size = size, !.capacity = capacity],
                    name, write, b, size, capacity)
           /\ Fresh([alloc_vfile(name, write) EXCEPT !.buffer = b, !.capacity = capacity],
                    name, write, b, 0, capacity)
<1> DEFINE a == alloc_vfile(name, write)
<1>1. a = [[[Unused EXCEPT !.in_use = TRUE] EXCEPT !.is_write = write] EXCEPT !.filename = name]
  BY Zenon DEF alloc_vfile
<1> DEFINE u == [Unused EXCEPT !.in_use = TRUE]
           w == [u EXCEPT !.is_write = write]
<1>2. /\ u \in FileType /\ u.in_use /\ u.buffer = NULL /\ u.size = 0 /\ u.capacity = 0 /\ u.offset = 0
  <2>1. Unused \in FileType /\ Unused.buffer = NULL /\ Unused.size = 0 /\ Unused.capacity = 0
        /\ Unused.offset = 0
    BY UnusedIsFile DEF Unused
  <2> QED
    BY <2>1 DEF FileType
<1> HIDE DEF u
<1>3. /\ w \in FileType /\ w.in_use /\ w.is_write = write /\ w.buffer = NULL /\ w.size = 0
      /\ w.capacity = 0 /\ w.offset = 0
  BY <1>2 DEF FileType
<1>5. a = [w EXCEPT !.filename = name]
  BY <1>1 DEF u
<1> HIDE DEF w, a
<1>6. /\ a \in FileType /\ a.in_use /\ a.is_write = write /\ a.buffer = NULL /\ a.size = 0
      /\ a.capacity = 0 /\ a.offset = 0 /\ a.filename = name
  BY <1>3, <1>5 DEF FileType
<1> HIDE DEF a
<1>4. /\ [a EXCEPT !.buffer = b, !.size = size, !.capacity = capacity] =
            [[[a EXCEPT !.buffer = b] EXCEPT !.size = size] EXCEPT !.capacity = capacity]
      /\ [a EXCEPT !.buffer = b, !.capacity = capacity] =
            [[a EXCEPT !.buffer = b] EXCEPT !.capacity = capacity]
  BY Zenon
<1> DEFINE x == [a EXCEPT !.buffer = b]
           y == [x EXCEPT !.size = size]
<1>7. /\ x \in FileType /\ x.in_use /\ x.is_write = write /\ x.buffer = b /\ x.size = 0
      /\ x.capacity = 0 /\ x.offset = 0 /\ x.filename = name
  BY <1>6 DEF FileType
<1>8. <<[a EXCEPT !.buffer = b, !.size = size, !.capacity = capacity],
        [a EXCEPT !.buffer = b, !.capacity = capacity]>>
        = <<[y EXCEPT !.capacity = capacity], [x EXCEPT !.capacity = capacity]>>
  BY <1>4, Zenon
<1> HIDE DEF x
<1>9. /\ y \in FileType /\ y.in_use /\ y.is_write = write /\ y.buffer = b /\ y.size = size
      /\ y.capacity = 0 /\ y.offset = 0 /\ y.filename = name
  BY <1>7 DEF FileType
<1> HIDE DEF y
<1> QED
  BY <1>7, <1>8, <1>9 DEF a, FileType, Fresh

LEMMA OpenWadHolds ==
    ASSUME BuffersHold, ~TableFull, OpenWad(FirstFree)
    PROVE  /\ BuffersHold' /\ vfiles'[FirstFree].in_use /\ vfiles'[FirstFree].buffer = WadAddr
           /\ \A i \in Handles : i # FirstFree => vfiles'[i] = vfiles[i]
<1> DEFINE h == FirstFree
           f == [alloc_vfile(WAD, FALSE) EXCEPT !.buffer = WadAddr, !.size = WadSize, !.capacity = WadSize]
<1>1. /\ f \in FileType /\ f.in_use /\ ~f.is_write /\ f.buffer = WadAddr
      /\ f.size = WadSize /\ f.capacity = WadSize /\ f.offset = 0 /\ f.filename = WAD
  <2>1. /\ WAD \in Files \cup {WAD} /\ FALSE \in BOOLEAN /\ WadAddr \in Memory \cup {NULL}
        /\ WadSize \in Nat
    BY VfsAssumption, Addresses
  <2>2. Fresh(f, WAD, FALSE, WadAddr, WadSize, WadSize)
    BY <2>1, FreshFile, Zenon
  <2> QED
    BY <2>2 DEF Fresh
<1>2. vfiles' = [vfiles EXCEPT ![h] = f] /\ UNCHANGED <<store, allocated>>
  BY DEF OpenWad
<1> HIDE DEF f
<1>3. SlotOK(f, store)
  <2>1. Len([i \in 1 .. WadSize |-> WAD]) = WadSize
    BY VfsAssumption
  <2> QED
    BY <1>1, <1>2, <2>1, VfsAssumption DEF SlotOK, WadFile, BuffersHold
<1>4. f.in_use /\ f.buffer = WadAddr
  BY <1>1
<1>5. h \in Handles /\ vfiles[h].buffer = NULL
  BY FreeIsFirst, UnusedIsFile
<1> HIDE DEF h
<1>6. store' \in [Memory -> Seq(Content)] /\ WadAddr \notin allocated /\ NULL \notin allocated
      /\ {f.buffer} \cap Buffers = {}
  BY <1>2, <1>4, Addresses DEF BuffersHold
<1>7. BuffersHold' /\ \A i \in Handles : vfiles'[i] = IF i = h THEN f ELSE vfiles[i]
  BY <1>2, <1>3, <1>4, <1>5, <1>6, SlotChanges DEF Changes
<1> QED
  BY <1>4, <1>5, <1>7 DEF h

LEMMA OpenForWritingHolds ==
    ASSUME BuffersHold, ~TableFull, NEW name \in Files, OpenForWriting(FirstFree, name)
    PROVE  /\ BuffersHold'
           /\ LET f == vfiles'[FirstFree]
              IN  /\ f.in_use /\ f.is_write /\ f.buffer # WadAddr /\ f.filename = name
                  /\ f.offset = 0 /\ f.size = 0
                  /\ f.buffer # NULL => store'[f.buffer] = <<>>
           /\ \A i \in Handles : /\ i # FirstFree => vfiles'[i] = vfiles[i]
                                 /\ i # FirstFree /\ vfiles[i].buffer # NULL =>
                                        store'[vfiles[i].buffer] = store[vfiles[i].buffer]
<1> DEFINE h == FirstFree
<1>1. PICK b \in Buffers \cup {NULL} :
         /\ malloc(b)
         /\ vfiles' = [vfiles EXCEPT ![h] =
                          [alloc_vfile(name, TRUE) EXCEPT !.buffer = b, !.capacity = Block]]
         /\ store' = IF b = NULL THEN store ELSE [store EXCEPT ![b] = <<>>]
  BY DEF OpenForWriting
<1> DEFINE f == [alloc_vfile(name, TRUE) EXCEPT !.buffer = b, !.capacity = Block]
<1>4. vfiles' = [vfiles EXCEPT ![h] = f]
  BY <1>1 DEF f
<1> HIDE DEF f
<1>3. /\ f \in FileType /\ f.in_use /\ f.is_write /\ f.buffer = b /\ f.filename = name
      /\ f.offset = 0 /\ f.size = 0 /\ f.capacity = Block
  <2>1. /\ name \in Files \cup {WAD} /\ TRUE \in BOOLEAN /\ b \in Memory \cup {NULL}
        /\ 0 \in Nat /\ Block \in Nat
    BY VfsAssumption, Addresses
  <2>2. Fresh(f, name, TRUE, b, 0, Block)
    BY <2>1, FreshFile, Zenon DEF f
  <2> QED
    BY <2>2 DEF Fresh
<1>5. h \in Handles /\ vfiles[h].buffer = NULL
  BY FreeIsFirst, UnusedIsFile DEF h
<1> HIDE DEF h
<1>6. /\ b # WadAddr /\ b \notin allocated
      /\ allocated' = (allocated \ {vfiles[h].buffer}) \cup ({b} \cap Buffers)
      /\ NULL \notin allocated
  BY <1>1, <1>5, Addresses DEF malloc, BuffersHold
<1>7. /\ store' \in [Memory -> Seq(Content)]
      /\ \A x \in Memory : x # b => store'[x] = store[x]
      /\ b # NULL => store'[b] = <<>> /\ Len(store'[b]) = 0
  <2>1. <<>> \in Seq(Content) /\ Len(<<>>) = 0
    OBVIOUS
  <2> QED
    BY <1>1, <2>1, Addresses DEF BuffersHold
<1>8. SlotOK(f, store')
  BY <1>3, <1>6, <1>7, VfsAssumption DEF SlotOK, OwnFile
<1>9. BuffersHold' /\ \A i \in Handles : vfiles'[i] = IF i = h THEN f ELSE vfiles[i]
  <2>1. /\ \A x \in Memory : x # f.buffer \/ x = WadAddr => store'[x] = store[x]
        /\ allocated' = (allocated \ {vfiles[h].buffer}) \cup ({f.buffer} \cap Buffers)
        /\ f.buffer = vfiles[h].buffer \/ f.buffer \notin allocated
    BY <1>3, <1>6, <1>7
  <2>2. store' \in [Memory -> Seq(Content)] /\ h \in Handles
    BY <1>5, <1>7
  <2> QED
    <3>1. Changes(h, f)
      BY <1>4, <1>8, <2>1, <2>2 DEF Changes
    <3> QED
      BY <2>2, <3>1, SlotChanges
<1>10. ASSUME NEW i \in Handles, i # h, vfiles[i].buffer # NULL
       PROVE  vfiles[i].buffer \in Memory /\ vfiles[i].buffer # b
  <2>1. vfiles[i].in_use /\ vfiles[i].buffer \in Memory
    BY <1>10, UnusedIsFile DEF BuffersHold, SlotOK, FileType
  <2> QED
    BY <1>6, <1>10, <2>1 DEF BuffersHold
<1> QED
  BY <1>3, <1>5, <1>6, <1>7, <1>9, <1>10 DEF h

LEMMA CloseHolds ==
    ASSUME BuffersHold, NEW h \in Handles, vfs_close(h)
    PROVE  /\ BuffersHold' /\ UNCHANGED <<store, allocated>>
           /\ vfiles[h].buffer # WadAddr => vfiles' = vfiles
           /\ \A i \in Handles : i # h => vfiles'[i] = vfiles[i]
           /\ vfiles[h].buffer = WadAddr => ~vfiles'[h].in_use
<1>1. CASE vfiles[h].buffer # WadAddr
  BY <1>1 DEF vfs_close, BuffersHold, SlotOK
<1>2. CASE vfiles[h].buffer = WadAddr
  <2>1. vfiles' = [vfiles EXCEPT ![h] = Unused] /\ UNCHANGED <<store, allocated>>
    BY <1>2 DEF vfs_close
  <2>2. SlotOK(Unused, store) /\ Unused.buffer = NULL
    BY UnusedIsFile DEF SlotOK
  <2>3. /\ store' \in [Memory -> Seq(Content)] /\ WadAddr \notin allocated /\ NULL \notin allocated
        /\ {Unused.buffer} \cap Buffers = {}
    BY <2>1, <2>2, Addresses DEF BuffersHold
  <2>4. BuffersHold' /\ \A i \in Handles : vfiles'[i] = IF i = h THEN Unused ELSE vfiles[i]
    BY <1>2, <2>1, <2>2, <2>3, SlotChanges DEF Changes
  <2> QED
    BY <1>2, <2>1, <2>4, UnusedIsFile
<1> QED
  BY <1>1, <1>2

\* A file is read, or opened to be read.
LEMMA ReadHolds ==
    ASSUME BuffersHold, NEW h \in Handles, NEW g \in FileType, vfiles' = [vfiles EXCEPT ![h] = g],
           UNCHANGED <<store, allocated>>,
           vfiles[h].in_use, g.in_use, g.buffer = vfiles[h].buffer, g.size = vfiles[h].size,
           g.capacity = vfiles[h].capacity, g.filename = vfiles[h].filename, g.offset <= g.size,
           g.is_write => vfiles[h].is_write
    PROVE  BuffersHold' /\ \A i \in Handles : vfiles'[i] = IF i = h THEN g ELSE vfiles[i]
<1>1. SlotOK(g, store')
  BY DEF BuffersHold, SlotOK, WadFile, OwnFile
<1>2. /\ store' \in [Memory -> Seq(Content)]
      /\ allocated' = (allocated \ {vfiles[h].buffer}) \cup ({g.buffer} \cap Buffers)
  <2>1. vfiles[h].buffer \in Buffers => vfiles[h].buffer \in allocated
    BY Addresses DEF BuffersHold
  <2>2. vfiles[h].buffer \notin Buffers => vfiles[h].buffer \notin allocated
    BY Addresses DEF BuffersHold, FileType
  <2> QED
    BY <2>1, <2>2 DEF BuffersHold
<1> QED
  BY <1>1, <1>2, SlotChanges DEF Changes

\* What the engine writes, always at the end, is appended.
LEMMA Appended ==
    ASSUME NEW s \in Seq(Content), NEW data \in Seq(Content)
    PROVE  /\ Overwrite(s, Len(s), data) = s \o data
           /\ s \o data \in Seq(Content) /\ Len(s \o data) = Len(s) + Len(data)
<1>1. SubSeq(s, 1, Len(s)) = s /\ Len(s) \in Nat /\ Len(data) \in Nat
  BY SubSeqFull
<1>2. SubSeq(s, Len(s) + Len(data) + 1, Len(s)) = <<>>
  BY <1>1, SubSeqEmpty
<1>3. s \o data \in Seq(Content) /\ Len(s \o data) = Len(s) + Len(data)
  OBVIOUS
<1> QED
  BY <1>1, <1>2, <1>3, ConcatEmptySeq DEF Overwrite

Longer(g, f, count) ==
    /\ g \in FileType /\ g.in_use /\ g.is_write /\ g.filename = f.filename
    /\ g.size = f.size + count /\ g.offset = f.size + count

LEMMA AdvancedFile ==
    ASSUME NEW f \in FileType, f.in_use, f.is_write, f.offset = f.size, NEW count \in Nat
    PROVE  /\ Longer(Advanced(f, count), f, count)
           /\ Advanced(f, count).buffer = f.buffer /\ Advanced(f, count).capacity = f.capacity
<1> DEFINE n == f.size + count
           e == [f EXCEPT !.offset = n]
<1>0. f.size \in Nat
  BY Zenon DEF FileType
<1>1. f.size \in Nat /\ n \in Nat /\ f.offset + count = n
  BY <1>0
<1>2. Max({f.size, n}) = n
  BY <1>1, OfTwo
<1>3. Advanced(f, count) = [e EXCEPT !.size = n]
  <2>1. Advanced(f, count) = [[f EXCEPT !.offset = f.offset + count]
                                EXCEPT !.size = Max({f.size, f.offset + count})]
    BY Zenon DEF Advanced
  <2> QED
    BY <1>1, <1>2, <2>1
<1> HIDE DEF n
<1>4. e \in FileType /\ e.in_use /\ e.is_write /\ e.filename = f.filename
  BY <1>1 DEF FileType
<1>5. e.offset = n /\ e.buffer = f.buffer /\ e.capacity = f.capacity
  BY <1>1 DEF FileType
<1> HIDE DEF e
<1>6. /\ Advanced(f, count) \in FileType /\ Advanced(f, count).in_use /\ Advanced(f, count).is_write
      /\ Advanced(f, count).filename = f.filename
  BY <1>1, <1>3, <1>4 DEF FileType
<1>7. /\ Advanced(f, count).size = n /\ Advanced(f, count).offset = n
      /\ Advanced(f, count).buffer = f.buffer /\ Advanced(f, count).capacity = f.capacity
  BY <1>1, <1>3, <1>4, <1>5 DEF FileType
<1> QED
  BY <1>6, <1>7 DEF Longer, n

\* The other files after a change of slot h.
Others(h) ==
    \A i \in Handles \ {h} :
        vfiles'[i] = vfiles[i] /\ (vfiles[i].buffer # NULL => store'[vfiles[i].buffer] = store[vfiles[i].buffer])

LEMMA WriteHolds ==
    ASSUME BuffersHold, NEW h \in Handles, vfiles[h].in_use, vfiles[h].buffer # WadAddr,
           vfiles[h].is_write, vfiles[h].offset = vfiles[h].size, NEW data \in Seq(Content),
           WriteInPlace(h, data) \/ WriteGrowing(h, data)
    PROVE  /\ BuffersHold' /\ Others(h)
           /\ Longer(vfiles'[h], vfiles[h], Len(data)) /\ vfiles'[h].buffer # WadAddr
           /\ vfiles[h].buffer # NULL =>
                /\ vfiles'[h].buffer # NULL
                /\ store'[vfiles'[h].buffer] = store[vfiles[h].buffer] \o data
<1> DEFINE f == vfiles[h]
           n == Len(data)
<1>1. /\ n \in Nat /\ f \in FileType /\ f.in_use /\ f.is_write /\ f.buffer # WadAddr /\ f.filename \in Files
      /\ f.offset = f.size /\ f.size <= f.capacity /\ f.size \in Nat /\ f.capacity \in Nat
      /\ f.buffer # NULL => f.buffer \in Buffers /\ Len(store[f.buffer]) = f.size
      /\ f.buffer # NULL => store[f.buffer] \in Seq(Content)
  <2>1. SlotOK(f, store) /\ f \in FileType /\ f.in_use /\ f.is_write
    BY DEF BuffersHold
  <2>2. f.buffer # NULL => f.buffer \in Buffers /\ f.buffer \in Memory
    BY <2>1, Addresses DEF FileType
  <2>3. f.buffer # NULL => store[f.buffer] \in Seq(Content)
    BY <2>2 DEF BuffersHold
  <2>4. f.size \in Nat /\ f.capacity \in Nat
    BY <2>1 DEF FileType
  <2>5. /\ f.filename \in Files /\ f.size <= f.capacity
        /\ f.buffer # NULL => Len(store[f.buffer]) = f.size
    BY <2>1 DEF SlotOK, WadFile, OwnFile
  <2> QED
    BY <2>1, <2>2, <2>3, <2>4, <2>5
<1>2. /\ f.buffer \in Buffers => f.buffer \in allocated
      /\ f.buffer \notin Buffers => f.buffer \notin allocated
  BY <1>1, Addresses DEF BuffersHold
<1>3. CASE WriteInPlace(h, data)
  <2> DEFINE g == Advanced(f, n)
  <2>1. /\ Longer(g, f, n) /\ g.buffer = f.buffer /\ g.capacity = f.capacity
    BY <1>1, AdvancedFile
  <2>2. /\ vfiles' = [vfiles EXCEPT ![h] = g] /\ UNCHANGED allocated /\ f.size + n <= f.capacity
        /\ store' = IF f.buffer = NULL THEN store
                    ELSE [store EXCEPT ![f.buffer] = Overwrite(@, f.offset, data)]
    BY <1>1, <1>3 DEF WriteInPlace, NeedsRoom
  <2> HIDE DEF g, n
  <2>3. /\ f.buffer = NULL => store' = store
        /\ f.buffer # NULL => /\ store' = [store EXCEPT ![f.buffer] = store[f.buffer] \o data]
                              /\ store[f.buffer] \o data \in Seq(Content)
                              /\ Len(store[f.buffer] \o data) = f.size + n
    BY <1>1, <2>2, Appended DEF n
  <2>4. /\ store' \in [Memory -> Seq(Content)]
        /\ \A x \in Memory : x # f.buffer => store'[x] = store[x]
        /\ f.buffer # NULL => store'[f.buffer] = store[f.buffer] \o data
    <3>1. store \in [Memory -> Seq(Content)]
      BY DEF BuffersHold
    <3> DEFINE s == store[f.buffer] \o data
               b == f.buffer
    <3> HIDE DEF s, b
    <3>2. /\ b = NULL => store' = store
          /\ b # NULL => b \in Memory /\ store' = [store EXCEPT ![b] = s] /\ s \in Seq(Content)
          /\ NULL \notin Memory
      BY <1>1, <2>3, Addresses DEF s, b
    <3>3. /\ store' \in [Memory -> Seq(Content)]
          /\ \A x \in Memory : x # b => store'[x] = store[x]
          /\ b # NULL => store'[b] = s
      BY <3>1, <3>2
    <3> QED
      BY <3>3 DEF s, b
  <2>5. SlotOK(g, store')
    <3>1. /\ g \in FileType /\ g.in_use /\ OwnFile(g) /\ g.offset = g.size /\ g.size \in Nat
          /\ g.size <= g.capacity /\ g.size = f.size + n
      BY <1>1, <2>1, <2>2 DEF OwnFile, Longer, FileType
    <3>2. f.buffer # NULL => Len(store'[f.buffer]) = f.size + n
      BY <2>3, <2>4
    <3> QED
      BY <2>1, <3>1, <3>2 DEF SlotOK
  <2>6. Changes(h, g)
    BY <1>1, <1>2, <2>1, <2>2, <2>4, <2>5 DEF Changes
  <2>7. BuffersHold' /\ \A i \in Handles : vfiles'[i] = IF i = h THEN g ELSE vfiles[i]
    BY <2>6, SlotChanges
  <2>8. Others(h)
    <3>1. ASSUME NEW i \in Handles \ {h}, vfiles[i].buffer # NULL
          PROVE  vfiles[i].buffer \in Memory /\ vfiles[i].buffer # f.buffer
      BY <1>1, <3>1, Addresses DEF BuffersHold, FileType
    <3> QED
      BY <2>4, <2>7, <3>1 DEF Others
  <2> QED
    BY <1>1, <2>1, <2>4, <2>7, <2>8 DEF n
<1>4. CASE WriteGrowing(h, data)
  <2> DEFINE b == Min(Buffers \ allocated)
             c == NewCapacity(f, n)
             a == Advanced(f, n)
             g == [a EXCEPT !.buffer = b, !.capacity = c]
             old == IF f.buffer = NULL THEN [i \in 1 .. f.size |-> "garbage"]
                    ELSE SubSeq(store[f.buffer], 1, f.size)
  <2>1. /\ vfiles' = [vfiles EXCEPT ![h] = g] /\ f.size + n > f.capacity
        /\ store' = [store EXCEPT ![b] = Overwrite(old, f.offset, data)]
        /\ allocated' = Replaced(b, f.buffer) /\ Buffers \ allocated # {}
    BY <1>1, <1>4 DEF WriteGrowing, NeedsRoom
  <2>2. b \in Buffers \ allocated
    <3>1. Buffers \ allocated \in SUBSET Nat
      BY Addresses
    <3> QED
      BY <2>1, <3>1, LeastIsMin
  <2>3. c \in Nat /\ f.size + n <= c
    BY <1>1, <2>1, VfsAssumption DEF NewCapacity
  <2>4. /\ Longer(g, f, n) /\ g.buffer = b /\ g.capacity = c
    <3>1. Longer(a, f, n)
      BY <1>1, AdvancedFile
    <3>2. g = [[a EXCEPT !.buffer = b] EXCEPT !.capacity = c]
      BY Zenon
    <3> HIDE DEF a, b, c, g, n
    <3> DEFINE d == [a EXCEPT !.buffer = b]
    <3>3. Longer(d, f, n) /\ d.buffer = b
      BY <2>2, <3>1, Addresses DEF FileType, Longer
    <3> HIDE DEF d
    <3> QED
      BY <2>3, <3>2, <3>3 DEF d, FileType, Longer
  <2>5. old \in Seq(Content) /\ Len(old) = f.size /\ (f.buffer # NULL => old = store[f.buffer])
    <3>1. CASE f.buffer = NULL
      <4>1. [i \in 1 .. f.size |-> "garbage"] \in Seq(Content) /\ Len([i \in 1 .. f.size |-> "garbage"]) = f.size
        BY <1>1 DEF Content
      <4> QED
        BY <3>1, <4>1
    <3>2. CASE f.buffer # NULL
      BY <1>1, <3>2, SubSeqFull
    <3> QED
      BY <3>1, <3>2
  <2> HIDE DEF g, n, b, c, a, old
  <2> DEFINE s == old \o data
  <2>6. store' = [store EXCEPT ![b] = s] /\ s \in Seq(Content) /\ Len(s) = f.size + n
    <3>1. f.offset = Len(old) /\ Len(old) = f.size
      BY <1>1, <2>5
    <3>2. Overwrite(old, Len(old), data) = s /\ s \in Seq(Content) /\ Len(s) = Len(old) + n
      BY <2>5, Appended DEF n
    <3> QED
      BY <2>1, <3>1, <3>2
  <2> HIDE DEF s
  <2>7. /\ store' \in [Memory -> Seq(Content)]
        /\ \A x \in Memory : x # b => store'[x] = store[x]
        /\ store'[b] = s /\ b # WadAddr /\ b # NULL
    <3>1. store \in [Memory -> Seq(Content)] /\ b \in Memory
      BY <2>2, Addresses DEF BuffersHold
    <3> QED
      BY <2>2, <2>6, <3>1, Addresses
  <2>8. SlotOK(g, store')
    <3>1. /\ g \in FileType /\ g.in_use /\ OwnFile(g) /\ g.offset = g.size /\ g.size \in Nat
          /\ g.size <= g.capacity /\ g.size = f.size + n
      BY <1>1, <2>3, <2>4, <2>7 DEF OwnFile, Longer, FileType
    <3> QED
      BY <2>4, <2>6, <2>7, <3>1 DEF SlotOK
  <2>9. Changes(h, g)
    <3>1. allocated' = (allocated \ {vfiles[h].buffer}) \cup ({g.buffer} \cap Buffers)
      BY <1>2, <2>1, <2>2, <2>4 DEF Replaced
    <3> QED
      BY <2>1, <2>2, <2>4, <2>7, <2>8, <3>1 DEF Changes
  <2>10. BuffersHold' /\ \A i \in Handles : vfiles'[i] = IF i = h THEN g ELSE vfiles[i]
    BY <2>9, SlotChanges
  <2>11. Others(h)
    <3>1. ASSUME NEW i \in Handles \ {h}, vfiles[i].buffer # NULL
          PROVE  vfiles[i].buffer \in Memory /\ vfiles[i].buffer # b
      <4>1. vfiles[i].in_use /\ vfiles[i].buffer \in Memory
        BY <3>1, UnusedIsFile DEF BuffersHold, SlotOK, FileType
      <4> QED
        BY <2>2, <2>7, <3>1, <4>1 DEF BuffersHold
    <3> QED
      BY <2>7, <2>10, <3>1 DEF Others
  <2> QED
    BY <2>4, <2>5, <2>7, <2>10, <2>11 DEF n, s
<1> QED
  BY <1>3, <1>4

-----------------------------------------------------------------------------
(* The invariant.                                                          *)

Named(i, name) == vfiles[i].in_use /\ vfiles[i].filename = name
Has(i, name) == Named(i, name) /\ vfiles[i].buffer # NULL

\* The file a load gets.
FirstOf(i, name) == i \in Handles /\ Has(i, name) /\ \A j \in Handles : Has(j, name) => i <= j

TaskType == [op : {"idle", "probe", "save", "load"}, name : Files \cup {WAD, ""},
             h : Handles \cup {NULL}, data : Seq(Content)]

BeginsAs(t, op, name, h) ==
    t \in TaskType /\ t.op = op /\ t.name = name /\ t.h = h /\ t.data = <<>>

LEMMA IdleIsTask ==
    /\ Idle \in TaskType /\ Idle.op = "idle" /\ Idle.data = <<>>
    /\ \A op \in {"probe", "save", "load"}, name \in Files \cup {WAD}, h \in Handles :
          BeginsAs([Idle EXCEPT !.op = op, !.name = name, !.h = h], op, name, h)
<1>1. Idle \in TaskType /\ Idle.op = "idle" /\ Idle.data = <<>>
  <2>1. <<>> \in Seq(Content)
    OBVIOUS
  <2> QED
    BY <2>1 DEF Idle, TaskType
<1>2. ASSUME NEW op \in {"probe", "save", "load"}, NEW name \in Files \cup {WAD}, NEW h \in Handles
      PROVE  BeginsAs([Idle EXCEPT !.op = op, !.name = name, !.h = h], op, name, h)
  <2>1. [Idle EXCEPT !.op = op, !.name = name, !.h = h] =
            [[[Idle EXCEPT !.op = op] EXCEPT !.name = name] EXCEPT !.h = h]
    BY Zenon
  <2> QED
    BY <1>1, <2>1 DEF TaskType, BeginsAs
<1> QED
  BY <1>1, <1>2

TaskOK ==
    /\ task \in TaskType
    /\ task.op = "probe" =>
          wad = NULL /\ task.h \in Handles /\ vfiles[task.h].in_use /\ vfiles[task.h].buffer = WadAddr
    /\ task.op \in {"save", "load"} =>
          /\ wad # NULL /\ task.h \in Handles /\ task.name \in Files
          /\ Named(task.h, task.name) /\ vfiles[task.h].buffer # WadAddr
    /\ task.op = "save" =>
          /\ vfiles[task.h].is_write /\ vfiles[task.h].offset = vfiles[task.h].size
          /\ task.name \notin starved =>
                vfiles[task.h].buffer # NULL /\ store[vfiles[task.h].buffer] = task.data
    /\ task.op = "load" =>
          /\ FirstOf(task.h, task.name)
          /\ task.data = SubSeq(store[vfiles[task.h].buffer], 1, vfiles[task.h].offset)

\* Slots are taken from the first on, and none is given back once the WAD is open.
SlotsFill ==
    /\ wad \in Handles \cup {NULL}
    /\ wad # NULL => vfiles[wad].in_use /\ vfiles[wad].buffer = WadAddr
    /\ wad = NULL => \A i \in Handles : vfiles[i].in_use => task.op = "probe" /\ task.h = i
    /\ wad # NULL => \A i, j \in Handles : i < j /\ vfiles[j].in_use => vfiles[i].in_use

Saving(i) == task.op = "save" /\ task.h = i

\* The first file of a name is the first that was saved.
Kept ==
    /\ stored \in [Files -> Seq(Seq(Content))]
    /\ \A name \in Files \ starved :
          IF stored[name] = <<>> THEN \A i \in Handles : Named(i, name) => Saving(i)
          ELSE \E i \in Handles : /\ FirstOf(i, name) /\ ~Saving(i)
                                  /\ store[vfiles[i].buffer] = stored[name][1]

VfsInv == BuffersHold /\ TaskOK /\ SlotsFill /\ Kept

\* Nothing that matters to Kept happens to name.
Undisturbed(name) ==
    \A i \in Handles :
        /\ Named(i, name)' <=> Named(i, name)
        /\ Has(i, name)' <=> Has(i, name)
        /\ Has(i, name) => store'[vfiles'[i].buffer] = store[vfiles[i].buffer]
        /\ Named(i, name) => (Saving(i)' <=> Saving(i))

LEMMA KeptStays ==
    ASSUME Kept, stored' = stored, starved \subseteq starved',
           \A name \in Files \ starved' : Undisturbed(name)
    PROVE  Kept'
<1>1. ASSUME NEW name \in Files \ starved'
      PROVE  IF stored[name] = <<>> THEN \A i \in Handles : Named(i, name)' => Saving(i)'
             ELSE \E i \in Handles : /\ FirstOf(i, name)' /\ ~Saving(i)'
                                     /\ store'[vfiles'[i].buffer] = stored[name][1]
  <2>1. Undisturbed(name) /\ name \in Files \ starved
    BY <1>1
  <2>2. CASE stored[name] = <<>>
    BY <2>1, <2>2 DEF Kept, Undisturbed
  <2>3. CASE stored[name] # <<>>
    <3>1. PICK i \in Handles : FirstOf(i, name) /\ ~Saving(i) /\ store[vfiles[i].buffer] = stored[name][1]
      BY <2>1, <2>3 DEF Kept
    <3>2. Has(i, name) /\ Named(i, name)
      BY <3>1 DEF FirstOf, Has
    <3>3. FirstOf(i, name)'
      BY <2>1, <3>1 DEF FirstOf, Undisturbed
    <3>4. ~Saving(i)' /\ store'[vfiles'[i].buffer] = stored[name][1]
      BY <2>1, <3>1, <3>2 DEF Undisturbed
    <3> QED
      BY <2>3, <3>3, <3>4
  <2> QED
    BY <2>2, <2>3
<1> QED
  BY <1>1 DEF Kept

LEMMA InvGivesBuffers == VfsInv => BuffersSound
<1> SUFFICES ASSUME VfsInv PROVE BuffersSound
  OBVIOUS
<1>1. BuffersHold
  BY DEF VfsInv
<1>2. ASSUME NEW i \in Handles, vfiles[i].in_use
      PROVE  LET f == vfiles[i]
             IN  /\ 0 <= f.offset /\ f.offset <= f.size /\ f.size <= f.capacity
                 /\ f.buffer # NULL => Len(store[f.buffer]) = f.size
  <2>1. SlotOK(vfiles[i], store) /\ vfiles[i].offset \in Nat
    BY <1>1 DEF BuffersHold, FileType
  <2> QED
    BY <1>2, <2>1 DEF SlotOK
<1> QED
  BY <1>1, <1>2 DEF BuffersSound, BuffersHold

LEMMA InvGivesWad == VfsInv => WadStaysReadable
<1> SUFFICES ASSUME VfsInv, wad # NULL PROVE WadStaysReadable
  BY DEF WadStaysReadable
<1>1. wad \in Handles /\ vfiles[wad].in_use /\ vfiles[wad].buffer = WadAddr /\ BuffersHold
  BY DEF VfsInv, SlotsFill
<1>2. WadFile(vfiles[wad])
  BY <1>1 DEF BuffersHold, SlotOK, OwnFile
<1> QED
  BY <1>1, <1>2 DEF WadStaysReadable, WadFile, BuffersHold

LEMMA InvGivesSaves == VfsInv => SavesCanBeLoaded
<1> SUFFICES ASSUME VfsInv PROVE SavesCanBeLoaded
  OBVIOUS
<1>1. BuffersHold /\ TaskOK /\ Kept
  BY DEF VfsInv
<1>2. ASSUME NEW name \in Files, stored[name] # <<>>, name \notin starved, ~TableFull
      PROVE  CanRead(name)
  <2>1. PICK i \in Handles : FirstOf(i, name)
    BY <1>1, <1>2 DEF Kept
  <2> QED
    BY <1>2, <2>1 DEF CanRead, Matches, FirstOf, Has, Named
<1>3. ASSUME task.op = "load", task.name \notin starved
      PROVE  /\ Len(stored[task.name]) > 0
             /\ task.data = SubSeq(stored[task.name][1], 1, vfiles[task.h].offset)
             /\ AtEnd(task.h) => task.data = stored[task.name][1]
  <2> DEFINE name == task.name
             h == task.h
             f == vfiles[h]
  <2>1. /\ name \in Files /\ h \in Handles /\ Named(h, name) /\ FirstOf(h, name)
        /\ task.data = SubSeq(store[f.buffer], 1, f.offset)
    BY <1>1, <1>3 DEF TaskOK
  <2>2. ~Saving(h)
    BY <1>3 DEF Saving
  <2>3. stored[name] # <<>>
    BY <1>1, <1>3, <2>1, <2>2 DEF Kept
  <2>4. PICK i \in Handles : FirstOf(i, name) /\ store[vfiles[i].buffer] = stored[name][1]
    BY <1>1, <1>3, <2>1, <2>3 DEF Kept
  <2>5. i = h
    <3>1. i <= h /\ h <= i /\ i \in Nat /\ h \in Nat
      BY <2>1, <2>4, Addresses DEF FirstOf
    <3> QED
      BY <3>1
  <2>6. f.in_use /\ f.buffer # NULL /\ f \in FileType /\ SlotOK(f, store)
    BY <1>1, <2>1 DEF FirstOf, Has, Named, BuffersHold
  <2>7. /\ store[f.buffer] \in Seq(Content) /\ Len(store[f.buffer]) = f.size
        /\ f.offset <= f.size /\ f.size \in Nat /\ f.offset \in Nat
    BY <1>1, <2>6 DEF SlotOK, BuffersHold, FileType
  <2>8. AtEnd(h) => f.offset = Len(store[f.buffer])
    BY <2>7 DEF AtEnd
  <2>9. AtEnd(h) => SubSeq(store[f.buffer], 1, f.offset) = store[f.buffer]
    BY <2>7, <2>8, SubSeqFull
  <2>10. Len(stored[name]) > 0
    <3>1. stored[name] \in Seq(Seq(Content))
      BY <1>1, <2>1 DEF Kept
    <3> QED
      BY <2>3, <3>1, EmptySeq
  <2> QED
    BY <2>1, <2>4, <2>5, <2>9, <2>10
<1> QED
  BY <1>2, <1>3 DEF SavesCanBeLoaded

LEMMA VfsStarts == Init => VfsInv
<1> SUFFICES ASSUME Init PROVE VfsInv
  OBVIOUS
<1> USE DEF Init
<1>1. \A i \in Handles : vfiles[i] = Unused
  OBVIOUS
<1>2. BuffersHold
  <2>1. store \in [Memory -> Seq(Content)] /\ store[WadAddr] = [i \in 1 .. WadSize |-> WAD]
    <3>1. [i \in 1 .. WadSize |-> WAD] \in Seq(Content) /\ <<>> \in Seq(Content)
      BY VfsAssumption DEF Content
    <3> QED
      BY <3>1 DEF Memory
  <2>2. vfiles \in [Handles -> FileType] /\ \A i \in Handles : SlotOK(vfiles[i], store)
    BY UnusedIsFile DEF SlotOK
  <2>3. allocated = {vfiles[i].buffer : i \in {j \in Handles : vfiles[j].in_use}} \ {NULL, WadAddr}
    BY <1>1, UnusedIsFile
  <2>4. \A i \in Handles : vfiles[i].buffer \notin Buffers
    BY <1>1, UnusedIsFile, Addresses
  <2> QED
    BY <2>1, <2>2, <2>3, <2>4 DEF BuffersHold
<1>3. TaskOK
  <2>1. task \in TaskType /\ task.op = "idle"
    BY IdleIsTask
  <2> HIDE DEF Init
  <2> QED
    BY <2>1 DEF TaskOK
<1>4. SlotsFill /\ Kept
  <2>1. stored \in [Files -> Seq(Seq(Content))] /\ \A name \in Files : stored[name] = <<>>
    OBVIOUS
  <2> QED
    BY <1>1, <2>1, UnusedIsFile DEF SlotsFill, Kept, Named
<1> QED
  BY <1>2, <1>3, <1>4 DEF VfsInv

-----------------------------------------------------------------------------
(* The engine and the WAD.                                                 *)

\* The WAD is opened before anything is saved: no file has a name yet.
LEMMA WadOpens ==
    ASSUME VfsInv, ~TableFull, wad = NULL, task = Idle, OpenWad(FirstFree), UNCHANGED <<stored, starved>>
    PROVE  /\ BuffersHold' /\ Kept'
           /\ FirstFree \in Handles /\ vfiles'[FirstFree].in_use /\ vfiles'[FirstFree].buffer = WadAddr
           /\ \A i \in Handles : (vfiles'[i].in_use => i = FirstFree) /\ FirstFree <= i
<1>1. BuffersHold /\ \A i \in Handles : ~vfiles[i].in_use
  BY IdleIsTask DEF VfsInv, SlotsFill
<1>2. /\ BuffersHold' /\ vfiles'[FirstFree].in_use /\ vfiles'[FirstFree].buffer = WadAddr
      /\ \A i \in Handles : i # FirstFree => vfiles'[i] = vfiles[i]
  BY <1>1, OpenWadHolds
<1>3. FirstFree \in Handles /\ \A i \in Handles : FirstFree <= i
  BY <1>1, FreeIsFirst DEF FreeSlots
<1>4. ASSUME NEW name \in Files, NEW i \in Handles PROVE ~Named(i, name)'
  <2>1. CASE i = FirstFree
    <3>1. vfiles'[i].filename = WAD
      BY <1>2, <1>3, <2>1 DEF BuffersHold, SlotOK, WadFile, OwnFile
    <3> QED
      BY <3>1, VfsAssumption DEF Named
  <2>2. CASE i # FirstFree
    BY <1>1, <1>2, <2>2 DEF Named
  <2> QED
    BY <2>1, <2>2
<1>5. \A name \in Files \ starved : stored[name] = <<>>
  BY <1>1 DEF VfsInv, Kept, FirstOf, Has, Named
<1>6. Kept'
  BY <1>4, <1>5 DEF VfsInv, Kept
<1> QED
  BY <1>1, <1>2, <1>3, <1>6

LEMMA WadSteps ==
    ASSUME VfsInv, ProbeWad \/ W_AddFile
    PROVE  VfsInv'
<1>1. /\ task = Idle /\ wad = NULL /\ ~TableFull /\ OpenWad(FirstFree) /\ UNCHANGED <<stored, starved>>
      /\ \/ task' = [Idle EXCEPT !.op = "probe", !.name = WAD, !.h = FirstFree] /\ wad' = wad
         \/ wad' = FirstFree /\ task' = task
  BY DEF ProbeWad, W_AddFile
<1>2. /\ BuffersHold' /\ Kept'
      /\ FirstFree \in Handles /\ vfiles'[FirstFree].in_use /\ vfiles'[FirstFree].buffer = WadAddr
      /\ \A i \in Handles : (vfiles'[i].in_use => i = FirstFree) /\ FirstFree <= i
  BY <1>1, WadOpens
<1>3. TaskOK'
  <2>1. task' \in TaskType /\ \/ task'.op = "idle"
                              \/ task'.op = "probe" /\ task'.h = FirstFree /\ wad' = NULL
    <3>1. CASE task' = [Idle EXCEPT !.op = "probe", !.name = WAD, !.h = FirstFree] /\ wad' = wad
      <4>1. BeginsAs(task', "probe", WAD, FirstFree)
        BY <1>2, <3>1, IdleIsTask
      <4> QED
        BY <1>1, <3>1, <4>1 DEF BeginsAs
    <3>2. CASE task' = task
      BY <1>1, <3>2, IdleIsTask
    <3> QED
      BY <1>1, <3>1, <3>2
  <2> QED
    BY <1>2, <2>1 DEF TaskOK, TaskType
<1>4. SlotsFill'
  <2>1. CASE wad' = wad
    <3>1. BeginsAs(task', "probe", WAD, FirstFree)
      <4>1. task' = [Idle EXCEPT !.op = "probe", !.name = WAD, !.h = FirstFree]
        BY <1>1, <1>2, <2>1, Addresses
      <4> QED
        BY <1>2, <4>1, IdleIsTask
    <3> QED
      BY <1>1, <1>2, <2>1, <3>1 DEF SlotsFill, BeginsAs
  <2>2. CASE wad' = FirstFree
    BY <1>2, <2>2, Addresses DEF SlotsFill
  <2> QED
    BY <1>1, <2>1, <2>2
<1> QED
  BY <1>2, <1>3, <1>4 DEF VfsInv

LEMMA ProbeEnds ==
    ASSUME VfsInv, ProbeDone
    PROVE  VfsInv'
<1>1. /\ task.op = "probe" /\ vfs_close(task.h) /\ task' = Idle /\ UNCHANGED <<wad, stored, starved>>
  BY DEF ProbeDone
<1>2. BuffersHold /\ wad = NULL /\ task.h \in Handles /\ vfiles[task.h].buffer = WadAddr
  BY <1>1 DEF VfsInv, TaskOK
<1>3. /\ BuffersHold' /\ ~vfiles'[task.h].in_use
      /\ \A i \in Handles : i # task.h => vfiles'[i] = vfiles[i]
  BY <1>1, <1>2, CloseHolds
<1>4. \A i \in Handles : ~vfiles'[i].in_use
  BY <1>2, <1>3 DEF VfsInv, SlotsFill
<1>5. \A name \in Files \ starved : stored[name] = <<>>
  <2> SUFFICES ASSUME NEW name \in Files \ starved, stored[name] # <<>> PROVE FALSE
    OBVIOUS
  <2>1. PICK i \in Handles : Named(i, name)
    BY DEF VfsInv, Kept, FirstOf, Has
  <2>2. i = task.h
    BY <1>2, <2>1 DEF VfsInv, SlotsFill, Named
  <2>3. vfiles[i].filename = WAD
    BY <1>2, <2>1, <2>2 DEF BuffersHold, SlotOK, WadFile, OwnFile, Named
  <2> QED
    BY <2>1, <2>3, VfsAssumption DEF Named
<1>6. Kept'
  BY <1>1, <1>4, <1>5 DEF VfsInv, Kept, Named
<1>7. TaskOK' /\ SlotsFill'
  BY <1>1, <1>2, <1>4, IdleIsTask DEF TaskOK, SlotsFill, TaskType
<1> QED
  BY <1>3, <1>6, <1>7 DEF VfsInv

\* Nothing but the place in one file changes.
Placed(h, g, offset) ==
    /\ g \in FileType /\ g.in_use /\ g.buffer = vfiles[h].buffer /\ g.size = vfiles[h].size
    /\ g.capacity = vfiles[h].capacity /\ g.filename = vfiles[h].filename
    /\ g.offset = offset /\ g.offset <= g.size
    /\ g.is_write => vfiles[h].is_write

LEMMA PlacedAgain ==
    ASSUME NEW h \in Handles, NEW g, NEW offset, Placed(h, g, offset), NEW p \in Nat, p <= vfiles[h].size
    PROVE  /\ Placed(h, [g EXCEPT !.offset = p], p)
           /\ Placed(h, [g EXCEPT !.is_write = FALSE], offset)
<1>1. /\ [g EXCEPT !.offset = p] \in FileType /\ [g EXCEPT !.offset = p].in_use
      /\ [g EXCEPT !.offset = p].is_write => g.is_write
  BY DEF Placed, FileType
<1>2. [g EXCEPT !.is_write = FALSE] \in FileType /\ [g EXCEPT !.is_write = FALSE].in_use
      /\ ~[g EXCEPT !.is_write = FALSE].is_write
  BY DEF Placed, FileType
<1> QED
  BY <1>1, <1>2 DEF Placed, FileType

LEMMA AlreadyPlaced ==
    ASSUME BuffersHold, NEW h \in Handles, vfiles[h].in_use
    PROVE  /\ Placed(h, vfiles[h], vfiles[h].offset)
           /\ vfiles[h].size \in Nat /\ vfiles[h].offset \in Nat /\ vfiles[h].offset <= vfiles[h].size
<1>1. vfiles[h] \in FileType /\ SlotOK(vfiles[h], store)
  BY DEF BuffersHold
<1>2. vfiles[h].size \in Nat /\ vfiles[h].offset \in Nat
  BY <1>1, Zenon DEF FileType
<1> QED
  BY <1>1, <1>2 DEF SlotOK, Placed

\* The task goes on, or another begins that saves nothing.
TaskAlike ==
    /\ \A i \in Handles : vfiles[i].in_use => (Saving(i)' <=> Saving(i))
    /\ task'.op = "probe" <=> task.op = "probe"
    /\ task'.h = task.h \/ wad # NULL

LEMMA PlaceHolds ==
    ASSUME VfsInv, NEW h \in Handles, NEW g, NEW offset, vfiles[h].in_use, Placed(h, g, offset),
           vfiles' = [vfiles EXCEPT ![h] = g],
           UNCHANGED <<store, allocated, wad, stored, starved>>,
           TaskAlike
    PROVE  /\ BuffersHold' /\ Kept' /\ SlotsFill'
           /\ \A i \in Handles : vfiles'[i] = IF i = h THEN g ELSE vfiles[i]
           /\ \A i \in Handles, name \in Files :
                 (Named(i, name)' <=> Named(i, name)) /\ (FirstOf(i, name)' <=> FirstOf(i, name))
<1>1. BuffersHold
  BY DEF VfsInv
<1>2. BuffersHold' /\ \A i \in Handles : vfiles'[i] = IF i = h THEN g ELSE vfiles[i]
  BY <1>1, ReadHolds DEF Placed
<1>3. \A i \in Handles : /\ vfiles'[i].in_use <=> vfiles[i].in_use
                         /\ vfiles'[i].filename = vfiles[i].filename
                         /\ vfiles'[i].buffer = vfiles[i].buffer
  BY <1>2 DEF Placed
<1>4. \A i \in Handles, name \in Files :
         (Named(i, name)' <=> Named(i, name)) /\ (Has(i, name)' <=> Has(i, name))
  BY <1>3 DEF Named, Has
<1>5. \A i \in Handles, name \in Files : FirstOf(i, name)' <=> FirstOf(i, name)
  BY <1>4 DEF FirstOf
<1>6. Kept'
  <2>1. \A name \in Files : Undisturbed(name)
    BY <1>3, <1>4 DEF Undisturbed, Named, TaskAlike
  <2> QED
    BY <2>1, KeptStays DEF VfsInv
<1>7. SlotsFill'
  BY <1>3 DEF VfsInv, SlotsFill, TaskAlike
<1> QED
  BY <1>2, <1>4, <1>5, <1>6, <1>7

LEMMA LumpIsRead ==
    ASSUME VfsInv, NEW position \in 0 .. WadSize, NEW count \in Counts, W_ReadLump(position, count)
    PROVE  VfsInv'
<1> DEFINE f == vfiles[wad]
           p == SeekTo(f, position)
           got == IF p.buffer = NULL THEN 0 ELSE Min({count, p.size - p.offset})
           g == [p EXCEPT !.offset = @ + got]
<1>1. /\ wad # NULL /\ task = Idle /\ vfiles' = [vfiles EXCEPT ![wad] = g]
      /\ UNCHANGED <<store, allocated, wad, task, stored, starved>>
  BY DEF W_ReadLump
<1>2. /\ wad \in Handles /\ f.in_use /\ f.buffer = WadAddr /\ f \in FileType /\ f.size \in Nat
  BY <1>1 DEF VfsInv, SlotsFill, BuffersHold, FileType
<1>3. count \in Nat /\ f.size = WadSize
  BY <1>1, InvGivesWad, VfsAssumption DEF WadStaysReadable
<1>4. p = [f EXCEPT !.offset = position]
  BY <1>3 DEF SeekTo
<1>5. Placed(wad, f, f.offset) /\ BuffersHold
  BY <1>2, AlreadyPlaced DEF VfsInv
<1>6. position \in Nat /\ position <= f.size
  BY <1>3
<1> HIDE DEF f
<1>7. Placed(wad, p, position) /\ Placed(wad, p, p.offset)
  <2>1. Placed(wad, p, position)
    <3>1. Placed(wad, [f EXCEPT !.offset = position], position)
      <4>1. position <= vfiles[wad].size /\ wad \in Handles
        BY <1>2, <1>6 DEF f
      <4> QED
        BY <1>5, <1>6, <4>1, PlacedAgain, Zenon
    <3> QED
      BY <1>4, <3>1
  <2> QED
    BY <2>1 DEF Placed
<1>8. p.offset = position /\ p.size = f.size
  BY <1>7 DEF Placed, f
<1> HIDE DEF p
<1>9. got \in Nat /\ position + got <= f.size
  <2> DEFINE left == p.size - p.offset
  <2>1. left \in Nat /\ position + left = f.size
    BY <1>2, <1>6, <1>8
  <2>2. Min({count, left}) = IF count <= left THEN count ELSE left
    <3>1. count \in Int /\ left \in Int
      BY <1>3, <2>1
    <3> HIDE DEF left
    <3> QED
      BY <3>1, OfTwo
  <2>3. Min({count, left}) \in Nat /\ Min({count, left}) <= left
    <3> HIDE DEF left
    <3> QED
      BY <1>3, <2>1, <2>2
  <2>4. got = 0 \/ got = Min({count, left})
    OBVIOUS
  <2> HIDE DEF left, got
  <2> QED
    BY <1>2, <1>6, <2>1, <2>3, <2>4
<1>10. Placed(wad, g, position + got)
  <2>1. g = [p EXCEPT !.offset = position + got] /\ position + got \in Nat
    BY <1>6, <1>8, <1>9
  <2> HIDE DEF g, got
  <2> QED
    BY <1>2, <1>7, <1>9, <2>1, PlacedAgain DEF f
<1>11. TaskAlike
  BY <1>1 DEF TaskAlike, Saving
<1>12. BuffersHold' /\ Kept' /\ SlotsFill'
  <2> HIDE DEF g, got
  <2>1. UNCHANGED <<store, allocated, wad, stored, starved>>
    BY <1>1
  <2> QED
    BY <1>1, <1>2, <1>10, <1>11, <2>1, PlaceHolds DEF f
<1>13. TaskOK'
  BY <1>1, IdleIsTask DEF TaskOK
<1> QED
  BY <1>12, <1>13 DEF VfsInv

-----------------------------------------------------------------------------
(* The engine saves a game or its defaults.                                *)

LEMMA SaveBegins ==
    ASSUME VfsInv, NEW name \in Files, SaveOpens(name)
    PROVE  VfsInv'
<1> DEFINE h == FirstFree
           f == vfiles'[FirstFree]
<1>1. /\ task = Idle /\ wad # NULL /\ ~TableFull /\ OpenForWriting(FirstFree, name)
      /\ task' = [Idle EXCEPT !.op = "save", !.name = name, !.h = FirstFree]
      /\ starved' = (IF f.buffer = NULL THEN starved \cup {name} ELSE starved)
      /\ UNCHANGED <<wad, stored>>
  BY DEF SaveOpens
<1>2. BuffersHold /\ wad \in Handles /\ vfiles[wad].in_use /\ vfiles[wad].buffer = WadAddr
  BY <1>1 DEF VfsInv, SlotsFill
<1>3. /\ h \in Handles /\ ~vfiles[h].in_use /\ \A i \in FreeSlots : h <= i
  BY <1>1, <1>2, FreeIsFirst
<1>4. /\ BuffersHold'
      /\ f.in_use /\ f.is_write /\ f.buffer # WadAddr /\ f.filename = name
      /\ f.offset = 0 /\ f.size = 0
      /\ f.buffer # NULL => store'[f.buffer] = <<>>
      /\ \A i \in Handles : /\ i # h => vfiles'[i] = vfiles[i]
                            /\ i # h /\ vfiles[i].buffer # NULL =>
                                   store'[vfiles[i].buffer] = store[vfiles[i].buffer]
  BY <1>1, <1>2, OpenForWritingHolds
<1>5. BeginsAs(task', "save", name, h)
  BY <1>1, <1>3, IdleIsTask
<1> HIDE DEF h, f
\* The new slot comes after every slot in use.
<1>6. \A i \in Handles : vfiles[i].in_use => i < h
  <2> SUFFICES ASSUME NEW i \in Handles, vfiles[i].in_use PROVE i < h
    OBVIOUS
  <2>1. ~(h < i) /\ i # h /\ i \in Nat /\ h \in Nat
    BY <1>1, <1>3, Addresses DEF VfsInv, SlotsFill
  <2> QED
    BY <2>1
<1>7. TaskOK'
  BY <1>1, <1>2, <1>3, <1>4, <1>5 DEF TaskOK, BeginsAs, Named, f, h
<1>8. SlotsFill'
  <2>1. \A i, j \in Handles : i < j /\ vfiles'[j].in_use => vfiles'[i].in_use
    <3> SUFFICES ASSUME NEW i \in Handles, NEW j \in Handles, i < j, vfiles'[j].in_use
                 PROVE  vfiles'[i].in_use
      OBVIOUS
    <3>1. CASE i = h
      BY <1>4, <3>1 DEF f, h
    <3>2. CASE i # h /\ j = h
      <4>1. i \notin FreeSlots
        BY <1>3, <3>2, Addresses
      <4> QED
        BY <1>4, <3>2, <4>1 DEF FreeSlots
    <3>3. CASE i # h /\ j # h
      BY <1>1, <1>4, <3>3 DEF VfsInv, SlotsFill
    <3> QED
      BY <3>1, <3>2, <3>3
  <2>2. wad' \in Handles /\ vfiles'[wad'].in_use /\ vfiles'[wad'].buffer = WadAddr
    BY <1>1, <1>2, <1>3, <1>4
  <2> QED
    BY <1>2, <2>1, <2>2, Addresses DEF SlotsFill
<1>9. Kept'
  <2>1. starved \subseteq starved' /\ stored' = stored /\ stored \in [Files -> Seq(Seq(Content))]
    BY <1>1 DEF VfsInv, Kept
  <2>2. ASSUME NEW n \in Files \ starved'
        PROVE  IF stored[n] = <<>> THEN \A i \in Handles : Named(i, n)' => Saving(i)'
               ELSE \E i \in Handles : /\ FirstOf(i, n)' /\ ~Saving(i)'
                                       /\ store'[vfiles'[i].buffer] = stored[n][1]
    <3>1. n \in Files \ starved /\ \A i \in Handles : ~Saving(i)
      BY <1>1, <2>1, IdleIsTask DEF Saving
    <3>2. \A i \in Handles : Saving(i)' <=> i = h
      BY <1>3, <1>5 DEF Saving, BeginsAs
    <3>3. \A i \in Handles : i # h => (Named(i, n)' <=> Named(i, n)) /\ (Has(i, n)' <=> Has(i, n))
      BY <1>4 DEF Named, Has
    <3>4. CASE stored[n] = <<>>
      BY <3>1, <3>2, <3>3, <3>4 DEF VfsInv, Kept
    <3>5. CASE stored[n] # <<>>
      <4>1. PICK i \in Handles : FirstOf(i, n) /\ store[vfiles[i].buffer] = stored[n][1]
        BY <3>1, <3>5 DEF VfsInv, Kept
      <4>2. i < h /\ i # h /\ vfiles[i].buffer # NULL
        BY <1>3, <1>6, <4>1, Addresses DEF FirstOf, Has, Named
      <4>3. FirstOf(i, n)'
        <5>1. Has(i, n)'
          BY <3>3, <4>1, <4>2 DEF FirstOf
        <5>2. ASSUME NEW j \in Handles, Has(j, n)' PROVE i <= j
          <6>1. CASE j = h
            BY <4>2, <6>1, Addresses
          <6>2. CASE j # h
            BY <3>3, <4>1, <5>2, <6>2 DEF FirstOf
          <6> QED
            BY <6>1, <6>2
        <5> QED
          BY <5>1, <5>2 DEF FirstOf
      <4> QED
        BY <1>4, <3>2, <3>5, <4>1, <4>2, <4>3
    <3> QED
      BY <3>4, <3>5
  <2> QED
    BY <2>1, <2>2 DEF Kept
<1> QED
  BY <1>4, <1>7, <1>8, <1>9 DEF VfsInv

LEMMA SaveGoesOn ==
    ASSUME VfsInv, NEW d \in Data, NEW count \in Counts, SaveWrites(d, count)
    PROVE  VfsInv'
<1> DEFINE data == [i \in 1 .. count |-> d]
           h == task.h
<1>1. /\ task.op = "save" /\ UNCHANGED <<wad, stored, starved>>
      /\ \/ /\ WriteInPlace(h, data) \/ WriteGrowing(h, data)
            /\ task' = [task EXCEPT !.data = @ \o data]
         \/ UNCHANGED <<fileVars, task>>
  BY DEF SaveWrites, WriteRefused
<1>2. data \in Seq(Content)
  BY VfsAssumption DEF Content
<1>3. /\ BuffersHold /\ h \in Handles /\ vfiles[h].in_use /\ vfiles[h].buffer # WadAddr
      /\ vfiles[h].is_write /\ vfiles[h].offset = vfiles[h].size /\ vfiles[h].size \in Nat
      /\ task \in TaskType /\ task.data \in Seq(Content) /\ vfiles[h].filename = task.name
      /\ wad # NULL /\ wad \in Handles /\ vfiles[wad].buffer = WadAddr /\ h # wad
      /\ task.name \in Files
  BY <1>1 DEF VfsInv, TaskOK, Named, SlotsFill, BuffersHold, FileType, TaskType
<1> HIDE DEF data
<1>4. CASE UNCHANGED <<fileVars, task>>
  <2>1. UNCHANGED <<vfiles, store, allocated, wad, task, stored, starved>>
    BY <1>1, <1>4 DEF fileVars
  <2> QED
    BY <2>1 DEF VfsInv, BuffersHold, TaskOK, SlotsFill, Kept, Named, Has, FirstOf, Saving
<1>5. CASE /\ WriteInPlace(h, data) \/ WriteGrowing(h, data)
           /\ task' = [task EXCEPT !.data = @ \o data]
  <2>1. /\ BuffersHold' /\ Others(h)
        /\ Longer(vfiles'[h], vfiles[h], Len(data)) /\ vfiles'[h].buffer # WadAddr
        /\ vfiles[h].buffer # NULL =>
             /\ vfiles'[h].buffer # NULL
             /\ store'[vfiles'[h].buffer] = store[vfiles[h].buffer] \o data
    BY <1>2, <1>3, <1>5, WriteHolds
  <2>2. /\ task' \in TaskType /\ task'.op = "save" /\ task'.h = h /\ task'.name = task.name
        /\ task'.data = task.data \o data
    <3>1. task.data \o data \in Seq(Content)
      BY <1>2, <1>3
    <3> QED
      BY <1>1, <1>3, <1>5, <3>1 DEF TaskType
  <2>3. /\ vfiles'[h].in_use /\ vfiles'[h].is_write /\ vfiles'[h].filename = task.name
        /\ vfiles'[h].offset = vfiles'[h].size
        /\ \A i \in Handles : i # h => vfiles'[i] = vfiles[i]
    BY <1>3, <2>1 DEF Longer, Others
  <2> HIDE DEF h
  <2>4. TaskOK'
    <3>1. task.name \notin starved => vfiles[h].buffer # NULL /\ store[vfiles[h].buffer] = task.data
      BY <1>1 DEF VfsInv, TaskOK, h
    <3>2. task'.name \notin starved' => vfiles'[h].buffer # NULL /\ store'[vfiles'[h].buffer] = task'.data
      BY <1>1, <2>1, <2>2, <3>1
    <3> QED
      BY <1>1, <1>3, <2>1, <2>2, <2>3, <3>2 DEF TaskOK, Named
  <2>5. SlotsFill'
    <3>1. \A i \in Handles : vfiles'[i].in_use <=> vfiles[i].in_use
      BY <1>3, <2>3
    <3> QED
      BY <1>1, <1>3, <2>3, <3>1 DEF VfsInv, SlotsFill
  <2>6. Kept'
    <3>1. \A i \in Handles : Saving(i)' <=> Saving(i)
      BY <1>1, <2>2 DEF Saving, h
    <3>2. ASSUME NEW n \in Files \ starved'
          PROVE  IF stored[n] = <<>> THEN \A i \in Handles : Named(i, n)' => Saving(i)'
                 ELSE \E i \in Handles : /\ FirstOf(i, n)' /\ ~Saving(i)'
                                         /\ store'[vfiles'[i].buffer] = stored[n][1]
      <4>1. /\ \A i \in Handles : Named(i, n)' <=> Named(i, n)
            /\ \A i \in Handles : i # h => (Has(i, n)' <=> Has(i, n))
        BY <1>3, <2>3 DEF Named, Has
      <4>2. CASE stored[n] = <<>>
        BY <1>1, <3>1, <3>2, <4>1, <4>2 DEF VfsInv, Kept
      <4>3. CASE stored[n] # <<>>
        <5>1. PICK i \in Handles : /\ FirstOf(i, n) /\ ~Saving(i)
                                   /\ store[vfiles[i].buffer] = stored[n][1]
          BY <1>1, <3>2, <4>3 DEF VfsInv, Kept
        <5>2. i # h /\ Has(i, n) /\ Has(i, n)' /\ vfiles[i].buffer # NULL
          BY <1>1, <4>1, <5>1 DEF Saving, FirstOf, Has, h
        <5>3. ASSUME NEW j \in Handles, j = h, Has(j, n)' PROVE Has(j, n)
          <6>1. n \notin starved /\ n = task.name
            BY <1>1, <2>3, <3>2, <5>3 DEF Has, Named
          <6>2. vfiles[h].buffer # NULL
            BY <1>1, <6>1 DEF VfsInv, TaskOK, h
          <6> QED
            BY <1>3, <5>3, <6>1, <6>2 DEF Has, Named
        <5>4. FirstOf(i, n)'
          <6>1. ASSUME NEW j \in Handles, Has(j, n)' PROVE i <= j
            BY <4>1, <5>1, <5>3, <6>1 DEF FirstOf
          <6> QED
            BY <5>1, <5>2, <6>1 DEF FirstOf
        <5>5. vfiles'[i] = vfiles[i] /\ store'[vfiles[i].buffer] = store[vfiles[i].buffer]
          BY <2>1, <5>2 DEF Others
        <5> QED
          BY <3>1, <4>3, <5>1, <5>4, <5>5
      <4> QED
        BY <4>2, <4>3
    <3> QED
      BY <1>1, <3>2 DEF VfsInv, Kept
  <2> QED
    BY <2>1, <2>4, <2>5, <2>6 DEF VfsInv
<1> QED
  BY <1>1, <1>4, <1>5

LEMMA SaveEnds ==
    ASSUME VfsInv, SaveCloses
    PROVE  VfsInv'
<1> DEFINE h == task.h
           name == task.name
<1>1. /\ task.op = "save" /\ vfs_close(h) /\ task' = Idle /\ UNCHANGED <<wad, starved>>
      /\ stored' = [stored EXCEPT ![name] = Append(stored[name], task.data)]
  BY DEF SaveCloses
<1>2. /\ BuffersHold /\ h \in Handles /\ name \in Files /\ vfiles[h].buffer # WadAddr
      /\ Named(h, name) /\ wad # NULL /\ task.data \in Seq(Content)
      /\ stored \in [Files -> Seq(Seq(Content))] /\ stored[name] \in Seq(Seq(Content))
      /\ name \notin starved => vfiles[h].buffer # NULL /\ store[vfiles[h].buffer] = task.data
  BY <1>1 DEF VfsInv, TaskOK, Kept, TaskType
<1>3. BuffersHold' /\ UNCHANGED <<vfiles, store, allocated>>
  BY <1>1, <1>2, CloseHolds
<1> HIDE DEF h, name
<1>4. TaskOK' /\ SlotsFill'
  BY <1>1, <1>2, <1>3, IdleIsTask DEF VfsInv, TaskOK, SlotsFill
<1>5. Kept'
  <2>1. Append(stored[name], task.data) \in Seq(Seq(Content))
    BY <1>2, AppendProperties
  <2>2. /\ stored' \in [Files -> Seq(Seq(Content))]
        /\ \A n \in Files : stored'[n] = IF n = name THEN Append(stored[name], task.data) ELSE stored[n]
    BY <1>1, <1>2, <2>1
  <2>3. /\ stored'[name] # <<>>
        /\ stored[name] # <<>> => stored'[name][1] = stored[name][1]
        /\ stored[name] = <<>> => stored'[name][1] = task.data
    <3>1. Append(stored[name], task.data) # <<>>
      BY <1>2, AppendProperties
    <3>2. stored[name] = <<>> => Append(stored[name], task.data)[1] = task.data
      <4> HAVE stored[name] = <<>>
      <4>1. Len(stored[name]) = 0
        OBVIOUS
      <4> QED
        BY <1>2, <4>1, AppendProperties
    <3>3. stored[name] # <<>> => Append(stored[name], task.data)[1] = stored[name][1]
      <4> HAVE stored[name] # <<>>
      <4>1. 1 \in 1 .. Len(stored[name])
        BY <1>2, EmptySeq, LenProperties
      <4> QED
        BY <1>2, <4>1, AppendProperties
    <3> QED
      BY <1>2, <2>2, <3>1, <3>2, <3>3
  <2>4. \A i \in Handles : ~Saving(i)'
    BY <1>1, IdleIsTask DEF Saving
  <2>5. \A i \in Handles, n \in Files :
           (Named(i, n)' <=> Named(i, n)) /\ (FirstOf(i, n)' <=> FirstOf(i, n))
    BY <1>3 DEF Named, Has, FirstOf
  <2>6. ASSUME NEW n \in Files \ starved'
        PROVE  IF stored'[n] = <<>> THEN \A i \in Handles : Named(i, n)' => Saving(i)'
               ELSE \E i \in Handles : /\ FirstOf(i, n)' /\ ~Saving(i)'
                                       /\ store'[vfiles'[i].buffer] = stored'[n][1]
    <3>1. n \in Files \ starved
      BY <1>1
    <3>2. CASE n # name
      <4>1. stored'[n] = stored[n]
        BY <2>2, <3>2
      <4>2. \A i \in Handles : Named(i, n) => ~Saving(i)
        BY <1>1, <1>2, <3>2 DEF Saving, Named, h
      <4> QED
        BY <1>3, <2>4, <2>5, <3>1, <4>1, <4>2 DEF VfsInv, Kept
    <3>3. CASE n = name /\ stored[name] # <<>>
      BY <1>3, <2>3, <2>4, <2>5, <3>1, <3>3 DEF VfsInv, Kept
    <3>4. CASE n = name /\ stored[name] = <<>>
      <4>1. \A i \in Handles : Named(i, name) => i = h
        BY <3>1, <3>4 DEF VfsInv, Kept, Saving, h
      <4>2. FirstOf(h, name) /\ store[vfiles[h].buffer] = task.data
        BY <1>2, <3>1, <3>4, <4>1, Addresses DEF FirstOf, Has
      <4> QED
        BY <1>2, <1>3, <2>3, <2>4, <2>5, <3>4, <4>2
    <3> QED
      BY <3>2, <3>3, <3>4
  <2> QED
    BY <2>2, <2>6 DEF Kept
<1> QED
  BY <1>3, <1>4, <1>5 DEF VfsInv

-----------------------------------------------------------------------------
(* The engine reads a file back.                                           *)

\* A load has read what comes before its place in the first file of a name.
Loaded(t, h, name) ==
    /\ t \in TaskType /\ t.op = "load" /\ t.h = h /\ t.name = name
    /\ t.data = SubSeq(store[vfiles'[h].buffer], 1, vfiles'[h].offset)

LEMMA LoadHolds ==
    ASSUME VfsInv, NEW name \in Files, NEW h \in Handles, FirstOf(h, name), wad # NULL,
           NEW g, NEW offset, Placed(h, g, offset), vfiles' = [vfiles EXCEPT ![h] = g],
           UNCHANGED <<store, allocated, wad, stored, starved>>,
           task.op \in {"idle", "load"}, Loaded(task', h, name)
    PROVE  VfsInv'
<1>1. vfiles[h].in_use /\ Named(h, name) /\ BuffersHold
  BY DEF FirstOf, Has, Named, VfsInv
<1>2. TaskAlike
  BY DEF TaskAlike, Saving, Loaded
<1>3. /\ BuffersHold' /\ Kept' /\ SlotsFill'
      /\ \A i \in Handles : vfiles'[i] = IF i = h THEN g ELSE vfiles[i]
      /\ \A i \in Handles, n \in Files :
            (Named(i, n)' <=> Named(i, n)) /\ (FirstOf(i, n)' <=> FirstOf(i, n))
  BY <1>1, <1>2, PlaceHolds
<1>4. vfiles'[h].buffer = vfiles[h].buffer /\ vfiles[h].buffer # WadAddr
  <2>1. vfiles[h].filename # WAD
    BY <1>1, VfsAssumption DEF Named
  <2> QED
    BY <1>1, <1>3, <2>1 DEF Placed, BuffersHold, SlotOK, WadFile, OwnFile
<1>5. TaskOK'
  <2>1. /\ task' \in TaskType /\ task'.op = "load" /\ task'.h = h /\ task'.name = name
        /\ task'.data = SubSeq(store'[vfiles'[h].buffer], 1, vfiles'[h].offset)
    BY DEF Loaded
  <2>2. Named(h, name)' /\ FirstOf(h, name)' /\ vfiles'[h].buffer # WadAddr /\ wad' # NULL
    BY <1>1, <1>3, <1>4
  <2>3. Named(task.h, task.name)' /\ FirstOf(task.h, task.name)'
    BY <2>1, <2>2 DEF Named, Has, FirstOf
  <2> QED
    BY <2>1, <2>2, <2>3 DEF TaskOK
<1> QED
  BY <1>3, <1>5 DEF VfsInv

LEMMA LoadBegins ==
    ASSUME VfsInv, NEW name \in Files, LoadOpens(name)
    PROVE  VfsInv'
<1>1. /\ task = Idle /\ task.op = "idle" /\ wad # NULL /\ BuffersHold
      /\ UNCHANGED <<store, allocated, wad, stored, starved>>
  BY IdleIsTask DEF LoadOpens, OpenForReading, VfsInv
<1>2. PICK h \in Handles : OpenForReading(h, name) /\ task' = [Idle EXCEPT !.op = "load", !.name = name, !.h = h]
  BY DEF LoadOpens
<1>3. FirstOf(h, name)
  <2>1. Matches(name) \in SUBSET Nat /\ Matches(name) # {} /\ h = Min(Matches(name))
    BY <1>2, Addresses DEF OpenForReading, CanRead, Matches
  <2>2. h \in Matches(name) /\ \A i \in Matches(name) : h <= i
    BY <2>1, LeastIsMin
  <2> QED
    BY <2>2 DEF Matches, FirstOf, Has, Named
<1>4. vfiles[h].in_use /\ vfiles[h].buffer \in Memory /\ Placed(h, vfiles[h], vfiles[h].offset) /\ vfiles[h].size \in Nat
  BY <1>1, <1>3, AlreadyPlaced DEF FirstOf, Has, Named, BuffersHold, FileType
<1> DEFINE e == [vfiles[h] EXCEPT !.offset = 0]
           g == [e EXCEPT !.is_write = FALSE]
<1>5. vfiles' = [vfiles EXCEPT ![h] = g]
  <2>1. vfiles' = [vfiles EXCEPT ![h].offset = 0, ![h].is_write = FALSE]
    BY <1>2 DEF OpenForReading
  <2>2. h \in DOMAIN vfiles
    BY <1>1 DEF BuffersHold
  <2> QED
    BY <2>1, <2>2
<1>6. Placed(h, g, 0)
  <2>1. 0 \in Nat /\ 0 <= vfiles[h].size
    BY <1>4
  <2>2. Placed(h, e, 0)
    BY <1>4, <2>1, PlacedAgain, Zenon
  <2> HIDE DEF e
  <2> QED
    BY <2>1, <2>2, PlacedAgain, Zenon
<1> HIDE DEF g
<1>7. Loaded(task', h, name)
  <2>1. BeginsAs(task', "load", name, h)
    BY <1>2, IdleIsTask
  <2>2. vfiles'[h] = g /\ g.offset = 0 /\ g.buffer = vfiles[h].buffer
    BY <1>1, <1>5, <1>6 DEF BuffersHold, Placed
  <2>3. store[vfiles[h].buffer] \in Seq(Content)
    BY <1>1, <1>4 DEF BuffersHold
  <2>4. SubSeq(store[vfiles[h].buffer], 1, 0) = <<>>
    BY <2>3, SubSeqEmpty
  <2> QED
    BY <2>1, <2>2, <2>4 DEF Loaded, BeginsAs
<1> QED
  BY <1>1, <1>3, <1>5, <1>6, <1>7, LoadHolds

\* What a load that is going on reads from.
LEMMA LoadingFrom ==
    ASSUME VfsInv, task.op = "load"
    PROVE  LET f == vfiles[task.h]
           IN  /\ task \in TaskType /\ task.h \in Handles /\ task.name \in Files /\ wad # NULL
               /\ FirstOf(task.h, task.name) /\ f.in_use /\ f.buffer # NULL
               /\ f \in FileType /\ Placed(task.h, f, f.offset)
               /\ f.size \in Nat /\ f.offset \in Nat /\ f.offset <= f.size
               /\ store[f.buffer] \in Seq(Content) /\ Len(store[f.buffer]) = f.size
               /\ task.data = SubSeq(store[f.buffer], 1, f.offset)
<1>1. /\ task \in TaskType /\ task.h \in Handles /\ task.name \in Files /\ wad # NULL
      /\ FirstOf(task.h, task.name) /\ vfiles[task.h].in_use /\ vfiles[task.h].buffer # NULL
      /\ task.data = SubSeq(store[vfiles[task.h].buffer], 1, vfiles[task.h].offset)
  BY DEF VfsInv, TaskOK, FirstOf, Has, Named
<1>2. /\ vfiles[task.h] \in FileType /\ SlotOK(vfiles[task.h], store)
      /\ Placed(task.h, vfiles[task.h], vfiles[task.h].offset)
      /\ vfiles[task.h].size \in Nat /\ vfiles[task.h].offset \in Nat
      /\ vfiles[task.h].offset <= vfiles[task.h].size
  BY <1>1, AlreadyPlaced DEF VfsInv, BuffersHold
<1>3. vfiles[task.h].buffer \in Memory
  BY <1>1, <1>2 DEF FileType
<1> QED
  BY <1>1, <1>2, <1>3 DEF VfsInv, BuffersHold, SlotOK

LEMMA LoadGoesOn ==
    ASSUME VfsInv, NEW count \in Counts, LoadReads(count)
    PROVE  VfsInv'
<1> DEFINE h == task.h
           f == vfiles[h]
           s == store[f.buffer]
           more == ReadCount(h, count)
           g == [f EXCEPT !.offset = f.offset + more]
<1>1. /\ task.op = "load" /\ UNCHANGED <<store, allocated, wad, stored, starved>>
      /\ task' = [task EXCEPT !.data = task.data \o ReadData(h, count)]
      /\ vfiles' = [vfiles EXCEPT ![h] = g]
  BY DEF LoadReads
<1>2. /\ task \in TaskType /\ h \in Handles /\ task.name \in Files /\ wad # NULL
      /\ FirstOf(h, task.name) /\ f.buffer # NULL
      /\ f \in FileType /\ Placed(h, f, f.offset)
      /\ f.size \in Nat /\ f.offset \in Nat /\ f.offset <= f.size
      /\ s \in Seq(Content) /\ Len(s) = f.size
      /\ task.data = SubSeq(s, 1, f.offset)
  BY <1>1, LoadingFrom
<1>3. more \in Nat /\ f.offset + more <= f.size
  <2> DEFINE left == f.size - f.offset
             least == Min({count, left})
  <2>1. count \in Int /\ left \in Int /\ left \in Nat /\ 0 \in Int
    BY <1>2, VfsAssumption
  <2>2. more = Max({0, least})
    BY <1>2 DEF ReadCount
  <2> HIDE DEF left
  <2>3. least \in Int /\ least <= left
    <3>1. least = IF count <= left THEN count ELSE left
      BY <2>1, OfTwo, Zenon
    <3> HIDE DEF least
    <3> QED
      BY <2>1, <3>1
  <2> HIDE DEF least, more
  <2>4. Max({0, least}) = IF 0 >= least THEN 0 ELSE least
    BY <2>1, <2>3, OfTwo
  <2> QED
    BY <1>2, <2>1, <2>2, <2>3, <2>4 DEF left
<1>4. ReadData(h, count) = SubSeq(s, f.offset + 1, f.offset + more)
  BY DEF ReadData
<1> HIDE DEF more
<1>5. Placed(h, g, f.offset + more)
  <2>1. f.offset + more \in Nat
    BY <1>2, <1>3
  <2> QED
    BY <1>2, <1>3, <2>1, PlacedAgain
<1>6. SubSeq(s, 1, f.offset) \o SubSeq(s, f.offset + 1, f.offset + more) = SubSeq(s, 1, f.offset + more)
  <2> DEFINE n == f.offset + more
  <2>1. /\ 1 \in 1 .. Len(s) + 1 /\ f.offset \in (1 - 1) .. Len(s) /\ n \in f.offset .. Len(s)
    BY <1>2, <1>3
  <2> HIDE DEF n
  <2>2. SubSeq(s, 1, f.offset) \o SubSeq(s, f.offset + 1, n) = SubSeq(s, 1, n)
    BY <1>2, <2>1, ConcatAdjacentSubSeq, Zenon
  <2> QED
    BY <2>2 DEF n
<1>7. SubSeq(s, 1, f.offset + more) \in Seq(Content)
  BY <1>2, <1>3
<1>8. vfiles'[h] = g /\ g.offset = f.offset + more /\ g.buffer = f.buffer
  BY <1>1, <1>2, <1>5 DEF VfsInv, BuffersHold, Placed
<1> HIDE DEF g, h, f
<1>9. Loaded(task', h, task.name)
  <2>1. task'.data = SubSeq(s, 1, f.offset + more) /\ task' \in TaskType /\ task'.op = "load"
        /\ task'.h = h /\ task'.name = task.name
    BY <1>1, <1>2, <1>4, <1>6, <1>7 DEF TaskType, h
  <2> QED
    BY <1>8, <2>1 DEF Loaded
<1> QED
  <2>1. /\ h \in Handles /\ task.name \in Files /\ FirstOf(h, task.name) /\ wad # NULL
        /\ Placed(h, g, f.offset + more) /\ vfiles' = [vfiles EXCEPT ![h] = g]
        /\ UNCHANGED <<store, allocated, wad, stored, starved>> /\ task.op \in {"idle", "load"}
    BY <1>1, <1>2, <1>5
  <2> QED
    BY <1>9, <2>1, LoadHolds

LEMMA LoadInOneGo ==
    ASSUME VfsInv, LoadReadsWhole
    PROVE  VfsInv'
<1> DEFINE h == task.h
           f == vfiles[h]
           s == store[f.buffer]
           ended == SeekTo(f, f.size)
           rewound == SeekTo(ended, 0)
           length == Min({ended.offset, rewound.size})
           g == [rewound EXCEPT !.offset = length]
<1>1. /\ task.op = "load" /\ UNCHANGED <<store, allocated, wad, stored, starved>>
      /\ task' = [task EXCEPT !.data = SubSeq(store[rewound.buffer], 1, length)]
      /\ vfiles' = [vfiles EXCEPT ![h] = g]
  BY DEF LoadReadsWhole
<1>2. /\ task \in TaskType /\ h \in Handles /\ task.name \in Files /\ wad # NULL
      /\ FirstOf(h, task.name) /\ f.buffer # NULL
      /\ f \in FileType /\ Placed(h, f, f.offset)
      /\ f.size \in Nat
      /\ s \in Seq(Content) /\ Len(s) = f.size
  BY <1>1, LoadingFrom
<1>3. Placed(h, ended, f.size)
  <2>1. ended = [f EXCEPT !.offset = f.size] /\ f.size <= f.size
    BY <1>2 DEF SeekTo
  <2>2. Placed(h, [f EXCEPT !.offset = f.size], f.size)
    BY <1>2, <2>1, PlacedAgain, Zenon
  <2> QED
    BY <2>1, <2>2
<1>4. ended.offset = f.size /\ ended.size = f.size
  BY <1>3 DEF Placed
<1> HIDE DEF ended
<1>5. Placed(h, rewound, 0)
  <2>1. rewound = [ended EXCEPT !.offset = 0] /\ 0 \in Nat /\ 0 <= f.size
    BY <1>2, <1>4 DEF SeekTo
  <2>2. Placed(h, [ended EXCEPT !.offset = 0], 0)
    BY <1>2, <1>3, <2>1, PlacedAgain, Zenon
  <2> QED
    BY <2>1, <2>2
<1>6. rewound.size = f.size /\ rewound.buffer = f.buffer
  BY <1>5 DEF Placed
<1> HIDE DEF rewound
<1>7. length = f.size
  <2>1. f.size \in Int /\ length = Min({f.size, f.size})
    BY <1>2, <1>4, <1>6
  <2>2. Min({f.size, f.size}) = f.size
    <3> DEFINE n == f.size
    <3> HIDE DEF n
    <3>1. n \in Int => Min({n, n}) = n
      BY OfTwo
    <3> QED
      BY <2>1, <3>1 DEF n
  <2> QED
    BY <2>1, <2>2
<1> HIDE DEF length
<1>8. Placed(h, g, f.size)
  <2>1. f.size <= f.size
    BY <1>2
  <2>2. Placed(h, [rewound EXCEPT !.offset = f.size], f.size)
    BY <1>2, <1>5, <2>1, PlacedAgain, Zenon
  <2> QED
    BY <1>7, <2>2
<1>9. vfiles'[h] = g /\ g.offset = f.size /\ g.buffer = f.buffer
  BY <1>1, <1>2, <1>8 DEF VfsInv, BuffersHold, Placed
<1>10. SubSeq(s, 1, f.size) \in Seq(Content)
  BY <1>2, SubSeqFull
<1> HIDE DEF g, h, f
<1>11. Loaded(task', h, task.name)
  <2>1. task'.data = SubSeq(s, 1, f.size) /\ task' \in TaskType /\ task'.op = "load"
        /\ task'.h = h /\ task'.name = task.name
    BY <1>1, <1>2, <1>6, <1>7, <1>10 DEF TaskType, h
  <2> QED
    BY <1>9, <2>1 DEF Loaded
<1> QED
  <2>1. /\ h \in Handles /\ task.name \in Files /\ FirstOf(h, task.name) /\ wad # NULL
        /\ Placed(h, g, f.size) /\ vfiles' = [vfiles EXCEPT ![h] = g]
        /\ UNCHANGED <<store, allocated, wad, stored, starved>> /\ task.op \in {"idle", "load"}
    BY <1>1, <1>2, <1>8
  <2> QED
    BY <1>11, <2>1, LoadHolds

LEMMA LoadEnds ==
    ASSUME VfsInv, LoadCloses
    PROVE  VfsInv'
<1>1. /\ task.op = "load" /\ vfs_close(task.h) /\ task' = Idle /\ UNCHANGED <<wad, stored, starved>>
  BY DEF LoadCloses
<1>2. BuffersHold /\ task.h \in Handles /\ vfiles[task.h].buffer # WadAddr /\ wad # NULL
  BY <1>1 DEF VfsInv, TaskOK
<1>3. BuffersHold' /\ UNCHANGED <<vfiles, store, allocated>>
  BY <1>1, <1>2, CloseHolds
<1>4. TaskOK' /\ SlotsFill'
  BY <1>1, <1>2, <1>3, IdleIsTask DEF VfsInv, TaskOK, SlotsFill
<1>5. Kept'
  <2>1. \A i \in Handles : ~Saving(i) /\ ~Saving(i)'
    BY <1>1, IdleIsTask DEF Saving
  <2>2. \A name \in Files : Undisturbed(name)
    BY <1>3, <2>1 DEF Undisturbed, Named, Has
  <2> QED
    BY <1>1, <2>2, KeptStays DEF VfsInv
<1> QED
  BY <1>3, <1>4, <1>5 DEF VfsInv

-----------------------------------------------------------------------------
(* Every step.                                                             *)

LEMMA NothingHappens ==
    ASSUME VfsInv, UNCHANGED <<fileVars, wad, task, stored, starved>>
    PROVE  VfsInv'
BY DEF fileVars, VfsInv, BuffersHold, TaskOK, SlotsFill, Kept, Named, Has, FirstOf, Saving

LEMMA VfsSteps == VfsInv /\ [Next]_vars => VfsInv'
<1> SUFFICES ASSUME VfsInv, [Next]_vars PROVE VfsInv'
  OBVIOUS
<1>1. CASE ProbeWad \/ W_AddFile
  BY <1>1, WadSteps
<1>2. CASE ProbeDone
  BY <1>2, ProbeEnds
<1>3. ASSUME NEW position \in 0 .. WadSize, NEW count \in Counts, W_ReadLump(position, count)
      PROVE  VfsInv'
  BY <1>3, LumpIsRead
<1>4. ASSUME NEW name \in Files, SaveOpens(name) PROVE VfsInv'
  BY <1>4, SaveBegins
<1>5. ASSUME NEW name \in Files, SaveGivesUp(name) PROVE VfsInv'
  BY <1>5, NothingHappens DEF SaveGivesUp, vars
<1>6. ASSUME NEW name \in Files, LoadOpens(name) PROVE VfsInv'
  BY <1>6, LoadBegins
<1>7. ASSUME NEW name \in Files, LoadFails(name) PROVE VfsInv'
  BY <1>7, NothingHappens DEF LoadFails
<1>8. ASSUME NEW d \in Data, NEW count \in Counts, SaveWrites(d, count) PROVE VfsInv'
  BY <1>8, SaveGoesOn
<1>9. CASE SaveCloses
  BY <1>9, SaveEnds
<1>10. ASSUME NEW count \in Counts, LoadReads(count) PROVE VfsInv'
  BY <1>10, LoadGoesOn
<1>11. CASE LoadReadsWhole
  BY <1>11, LoadInOneGo
<1>12. CASE LoadCloses
  BY <1>12, LoadEnds
<1>13. CASE UNCHANGED vars
  BY <1>13, NothingHappens DEF vars
<1> QED
  BY <1>1, <1>2, <1>3, <1>4, <1>5, <1>6, <1>7, <1>8, <1>9, <1>10, <1>11, <1>12, <1>13 DEF Next

LEMMA VfsInvHolds == Spec => []VfsInv
<1> QED
  BY VfsStarts, VfsSteps, PTL DEF Spec

\* vfs_read, vfs_write and their callers never leave a buffer, and the heap
\* buffers are exactly those of the files: growth neither leaks nor shares one.
THEOREM BuffersAreSound == Spec => []BuffersSound
BY VfsInvHolds, InvGivesBuffers, PTL

\* The handle W_AddFile leaves in lumpinfo stays the WAD's for good.
THEOREM WadIsReadable == Spec => []WadStaysReadable
BY VfsInvHolds, InvGivesWad, PTL

\* What was saved is found again, and a load reads the bytes of the first save
\* of the name, in order and all of them.
THEOREM SavesAreLoadable == Spec => []SavesCanBeLoaded
BY VfsInvHolds, InvGivesSaves, PTL
=============================================================================
