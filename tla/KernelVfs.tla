----------------------------- MODULE KernelVfs -----------------------------
(***************************************************************************)
(* The memory-backed file system of src/kernel_main.c (vfiles) and the way  *)
(* the engine uses it: the WAD is probed, opened and kept open for its      *)
(* lumps; saved games and defaults are written in one go and read back.     *)
(*                                                                         *)
(* File contents are sequences of Data; a heap buffer is a number, and      *)
(* `store' says what it holds.  Everything runs on the one main thread, so  *)
(* only one file besides the WAD is ever between its open and its close.    *)
(***************************************************************************)
EXTENDS Integers, Sequences, FiniteSetsExt

CONSTANTS
    MaxFiles,    \* MAX_VIRTUAL_FILES
    Block,       \* 4096, the first capacity and the slack of a large growth
    WadSize,     \* WAD_SIZE
    Files,       \* the names the engine writes
    Data,        \* what a write may consist of
    Counts,      \* how much one call writes or reads
    MaxSaves,    \* bound on the saves of a behaviour
    MaxLength    \* bound on the length of a file

WAD == "doom1.wad"

ASSUME VfsAssumption ==
    /\ WAD \notin Files
    /\ MaxFiles \in Nat \ {0} /\ Block \in Nat \ {0} /\ WadSize \in Nat \ {0}
    /\ Counts \subseteq Nat \ {0}
    /\ MaxSaves \in Nat /\ MaxLength \in Nat

NULL == 0
WadAddr == 1                         \* the buffer that is the WAD itself
Buffers == 2..MaxSaves + 2           \* what malloc may return
Handles == 1..MaxFiles               \* a handle is the slot it points to

VARIABLES
    vfiles,
    store,      \* what the buffers hold
    allocated,  \* the heap buffers malloc returned and free has not got back
    wad,        \* the handle in lumpinfo, NULL before W_AddFile
    task,       \* the file the engine is working on
    stored,     \* history: [name -> the contents left by each save, in order]
    starved,    \* history: the names opened for writing when malloc failed
    halted      \* I_Error has been called

fileVars == <<vfiles, store, allocated>>
vars == <<fileVars, wad, task, stored, starved, halted>>

Unused == [in_use |-> FALSE, is_write |-> FALSE, buffer |-> NULL,
           size |-> 0, capacity |-> 0, offset |-> 0, filename |-> ""]

Idle == [op |-> "idle", name |-> "", h |-> NULL, data |-> <<>>]

Init ==
    /\ vfiles = [i \in Handles |-> Unused]
    /\ store = [b \in {WadAddr} \cup Buffers |->
                   IF b = WadAddr THEN [i \in 1..WadSize |-> WAD] ELSE <<>>]
    /\ allocated = {}
    /\ wad = NULL
    /\ task = Idle
    /\ stored = [f \in Files |-> <<>>]
    /\ starved = {}
    /\ halted = FALSE

-----------------------------------------------------------------------------
(* The calls of the file system.                                           *)

SlotsNotWritten == {i \in Handles : ~vfiles[i].is_write}   \* mutant

FreeSlots == {i \in Handles : ~vfiles[i].in_use}
TableFull == FreeSlots = {}
FirstFree == Min(FreeSlots)

alloc_vfile(name, write) ==
    [Unused EXCEPT !.in_use = TRUE, !.is_write = write, !.filename = name]

\* malloc: some buffer, or none left.
malloc(b) ==
    \/ /\ b \in Buffers \ allocated
       /\ b = Min(Buffers \ allocated)
       /\ allocated' = allocated \cup {b}
    \/ /\ b = NULL
       /\ UNCHANGED allocated

OpenWad(h) ==
    /\ h = FirstFree
    /\ vfiles' = [vfiles EXCEPT ![h] =
                     [alloc_vfile(WAD, FALSE) EXCEPT
                         !.buffer = WadAddr, !.size = WadSize, !.capacity = WadSize]]
    /\ UNCHANGED <<store, allocated>>

\* The buffer may be NULL: the result of malloc is not looked at.
OpenForWriting(h, name) ==
    /\ h = FirstFree
    /\ \E b \in Buffers \cup {NULL} :
          /\ malloc(b)
          /\ vfiles' = [vfiles EXCEPT ![h] =
                           [alloc_vfile(name, TRUE) EXCEPT
                               !.buffer = b, !.capacity = Block]]
          /\ store' = IF b = NULL THEN store ELSE [store EXCEPT ![b] = <<>>]

\* The slot taken while the table is searched is released again: a read needs
\* a free slot, and gets the first slot in use with that name and a buffer.
Matches(name) ==
    {i \in Handles :
        vfiles[i].in_use /\ vfiles[i].filename = name /\ vfiles[i].buffer # NULL}

CanRead(name) == ~TableFull /\ Matches(name) # {}

\* Mutant: the file is not rewound.
OpenForReadingAtEnd(h, name) ==
    /\ CanRead(name)
    /\ h = Min(Matches(name))
    /\ vfiles' = [vfiles EXCEPT ![h].is_write = FALSE]
    /\ UNCHANGED <<store, allocated>>

OpenForReading(h, name) ==
    /\ CanRead(name)
    /\ h = Min(Matches(name))
    /\ vfiles' = [vfiles EXCEPT ![h].offset = 0, ![h].is_write = FALSE]
    /\ UNCHANGED <<store, allocated>>

\* Only a WAD slot is released; the others keep the file.  What an unused slot
\* held is never looked at, so it is forgotten here.
vfs_close(h) ==
    /\ vfiles' = IF vfiles[h].buffer = WadAddr THEN [vfiles EXCEPT ![h] = Unused]
                                               ELSE vfiles
    /\ UNCHANGED <<store, allocated>>

\* How much vfs_read returns, and what.
ReadCount(h, count) ==
    IF vfiles[h].buffer = NULL THEN 0
    ELSE Max({0, Min({count, vfiles[h].size - vfiles[h].offset})})

ReadData(h, count) ==
    SubSeq(store[vfiles[h].buffer], vfiles[h].offset + 1,
           vfiles[h].offset + ReadCount(h, count))

AtEnd(h) == vfiles[h].offset >= vfiles[h].size   \* vfs_eof

\* vfs_seek, where it does not return -1.
SeekTo(f, offset) == IF offset \in 0..f.size THEN [f EXCEPT !.offset = offset] ELSE f

Overwrite(s, at, data) ==
    SubSeq(s, 1, at) \o data \o SubSeq(s, at + Len(data) + 1, Len(s))

Advanced(f, count) ==
    [f EXCEPT !.offset = @ + count, !.size = Max({@, f.offset + count})]

NeedsRoom(f, count) == f.offset + count > f.capacity

NewCapacity(f, count) ==
    IF f.capacity * 2 < f.offset + count THEN f.offset + count + Block
                                         ELSE f.capacity * 2

\* With room: into the buffer, or, if malloc failed in the open, to low memory.
WriteInPlace(h, data) ==
    LET f == vfiles[h]
    IN  /\ f.is_write /\ ~NeedsRoom(f, Len(data))
        /\ vfiles' = [vfiles EXCEPT ![h] = Advanced(f, Len(data))]
        /\ store' = IF f.buffer = NULL THEN store
                    ELSE [store EXCEPT ![f.buffer] = Overwrite(@, f.offset, data)]
        /\ UNCHANGED allocated

\* Mutant: the old buffer is not freed.
Leaked(new, old) == allocated \cup {new}

Replaced(new, old) == (allocated \cup {new}) \ {old}

\* Without: malloc, copy, free of the old buffer.
WriteGrowing(h, data) ==
    LET f == vfiles[h]
        old == IF f.buffer = NULL THEN [i \in 1..f.size |-> "garbage"]
               ELSE SubSeq(store[f.buffer], 1, f.size)
    IN  /\ f.is_write /\ NeedsRoom(f, Len(data))
        /\ Buffers \ allocated # {}
        /\ LET b == Min(Buffers \ allocated)
           IN  /\ vfiles' = [vfiles EXCEPT ![h] =
                     [Advanced(f, Len(data)) EXCEPT
                         !.buffer = b, !.capacity = NewCapacity(f, Len(data))]]
               /\ store' = [store EXCEPT ![b] = Overwrite(old, f.offset, data)]
               /\ allocated' = Replaced(b, f.buffer)

\* vfs_write returns 0: not open for writing, or no memory to grow.
WriteRefused(h, data) ==
    /\ ~vfiles[h].is_write \/ NeedsRoom(vfiles[h], Len(data))
    /\ UNCHANGED fileVars

-----------------------------------------------------------------------------
(* The engine and the WAD.                                                 *)

\* IdentifyVersion only wants to know whether the file is there.
ProbeWad ==
    /\ task = Idle /\ wad = NULL /\ ~TableFull
    /\ OpenWad(FirstFree)
    /\ task' = [Idle EXCEPT !.op = "probe", !.name = WAD, !.h = FirstFree]
    /\ UNCHANGED <<wad, stored, starved, halted>>

ProbeDone ==
    /\ task.op = "probe"
    /\ vfs_close(task.h)
    /\ task' = Idle
    /\ UNCHANGED <<wad, stored, starved, halted>>

W_AddFile ==
    /\ task = Idle /\ wad = NULL /\ ~TableFull
    /\ OpenWad(FirstFree)
    /\ wad' = FirstFree
    /\ UNCHANGED <<task, stored, starved, halted>>

\* Seek to a lump of the WAD and read it; a short read is an error.
W_ReadLump(position, count) ==
    /\ task = Idle /\ wad # NULL /\ ~halted
    /\ position + count <= WadSize
    /\ LET f == SeekTo(vfiles[wad], position)
           got == IF f.buffer = NULL THEN 0 ELSE Min({count, f.size - f.offset})
       IN  /\ vfiles' = [vfiles EXCEPT ![wad] = [f EXCEPT !.offset = @ + got]]
           /\ halted' = (got < count)
    /\ UNCHANGED <<store, allocated, wad, task, stored, starved>>

-----------------------------------------------------------------------------
(* The engine saves a game or its defaults.                                *)

Saves == Cardinality({s \in Files \X (1..MaxSaves) : s[2] <= Len(stored[s[1]])})

SaveOpens(name) ==
    /\ task = Idle /\ wad # NULL /\ ~halted
    /\ Saves < MaxSaves
    /\ ~TableFull
    /\ OpenForWriting(FirstFree, name)
    /\ task' = [Idle EXCEPT !.op = "save", !.name = name, !.h = FirstFree]
    /\ starved' = IF vfiles'[FirstFree].buffer = NULL THEN starved \cup {name}
                                                      ELSE starved
    /\ UNCHANGED <<wad, stored, halted>>

\* No slot: M_WriteFile returns false, M_SaveDefaults does not complain.
SaveGivesUp(name) ==
    /\ task = Idle /\ wad # NULL /\ ~halted
    /\ TableFull
    /\ UNCHANGED vars

SaveWrites(d, count) ==
    /\ task.op = "save"
    /\ vfiles[task.h].size + count <= MaxLength
    /\ LET data == [i \in 1..count |-> d]
       IN  \/ /\ WriteInPlace(task.h, data) \/ WriteGrowing(task.h, data)
              /\ task' = [task EXCEPT !.data = @ \o data]
           \/ /\ WriteRefused(task.h, data)
              /\ UNCHANGED task
    /\ UNCHANGED <<wad, stored, starved, halted>>

SaveCloses ==
    /\ task.op = "save"
    /\ vfs_close(task.h)
    /\ stored' = [stored EXCEPT ![task.name] = Append(@, task.data)]
    /\ task' = Idle
    /\ UNCHANGED <<wad, starved, halted>>

-----------------------------------------------------------------------------
(* The engine reads a file back: a saved game in one go after asking for    *)
(* its length, a description from its first bytes, defaults until the end. *)

LoadOpens(name) ==
    /\ task = Idle /\ wad # NULL /\ ~halted
    /\ \E h \in Handles :
          /\ OpenForReading(h, name)
          /\ task' = [Idle EXCEPT !.op = "load", !.name = name, !.h = h]
    /\ UNCHANGED <<wad, stored, starved, halted>>

\* M_ReadFile calls I_Error; the defaults and the menu do without the file.
LoadFails(name) ==
    /\ task = Idle /\ wad # NULL /\ ~halted
    /\ ~CanRead(name)
    /\ halted' \in BOOLEAN
    /\ UNCHANGED <<fileVars, wad, task, stored, starved>>

\* doom_seek to the end, doom_tell, doom_seek back, doom_read of that length.
LoadReadsWhole ==
    /\ task.op = "load"
    /\ LET ended   == SeekTo(vfiles[task.h], vfiles[task.h].size)
           length  == ended.offset
           rewound == SeekTo(ended, 0)
       IN  /\ task' = [task EXCEPT
                  !.data = SubSeq(store[rewound.buffer], 1, Min({length, rewound.size}))]
           /\ vfiles' = [vfiles EXCEPT ![task.h] =
                  [rewound EXCEPT !.offset = Min({length, rewound.size})]]
    /\ UNCHANGED <<store, allocated, wad, stored, starved, halted>>

LoadReads(count) ==
    /\ task.op = "load"
    /\ task' = [task EXCEPT !.data = @ \o ReadData(task.h, count)]
    /\ vfiles' = [vfiles EXCEPT ![task.h].offset = @ + ReadCount(task.h, count)]
    /\ UNCHANGED <<store, allocated, wad, stored, starved, halted>>

LoadCloses ==
    /\ task.op = "load"
    /\ vfs_close(task.h)
    /\ task' = Idle
    /\ UNCHANGED <<wad, stored, starved, halted>>

Next ==
    \/ ProbeWad \/ ProbeDone \/ W_AddFile
    \/ \E position \in 0..WadSize, count \in Counts : W_ReadLump(position, count)
    \/ \E name \in Files :
          SaveOpens(name) \/ SaveGivesUp(name) \/ LoadOpens(name) \/ LoadFails(name)
    \/ \E d \in Data, count \in Counts : SaveWrites(d, count)
    \/ SaveCloses
    \/ \E count \in Counts : LoadReads(count)
    \/ LoadReadsWhole
    \/ LoadCloses

Spec == Init /\ [][Next]_vars

-----------------------------------------------------------------------------
(* Properties.                                                             *)

\* No read and no write leaves the buffer, however a file grew and wherever
\* the engine seeked: offset <= size <= capacity, and the buffer holds the
\* bytes that size counts.  Every heap buffer belongs to exactly one file: growth
\* frees the old one, keeps the new one, and never leaves a file on one freed.
BuffersSound ==
    /\ \A i \in Handles :
        LET f == vfiles[i]
        IN  f.in_use =>
                /\ 0 <= f.offset /\ f.offset <= f.size /\ f.size <= f.capacity
                /\ f.buffer # NULL => Len(store[f.buffer]) = f.size
    /\ allocated = {vfiles[i].buffer : i \in {j \in Handles : vfiles[j].in_use}}
                       \ {NULL, WadAddr}
    /\ \A i, j \in Handles :
          vfiles[i].buffer \in Buffers /\ vfiles[i].buffer = vfiles[j].buffer => i = j

\* The handle that lumpinfo keeps stays the WAD's: no close, no write and no
\* other file takes its slot or changes what it reads.
WadStaysReadable ==
    wad # NULL =>
        /\ vfiles[wad].in_use
        /\ ~vfiles[wad].is_write
        /\ vfiles[wad].buffer = WadAddr
        /\ vfiles[wad].size = WadSize
        /\ store[WadAddr] = [i \in 1..WadSize |-> WAD]

\* A saved game can be loaded: a file that was saved is found again unless the
\* table is full, and a load reads the bytes of the first save under the name,
\* in order.  (Later saves of a name go to slots that a load never reaches;
\* when malloc failed in an open, the first bytes went to address 0 instead.)
SavesCanBeLoaded ==
    /\ \A name \in Files :
          stored[name] # <<>> /\ name \notin starved /\ ~TableFull => CanRead(name)
    /\ task.op = "load" /\ task.name \notin starved =>
          /\ Len(stored[task.name]) > 0
          /\ task.data = SubSeq(stored[task.name][1], 1, vfiles[task.h].offset)
          /\ AtEnd(task.h) => task.data = stored[task.name][1]
=============================================================================
