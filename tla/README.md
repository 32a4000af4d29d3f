# AetherOS: a TLA+ verification project

This directory models the parts of AetherOS that carry its own logic, and the
mechanisms of the DOOM engine on which it depends, and checks them with TLC and
TLAPS. AetherOS is a freestanding 32-bit x86 kernel that boots from disk straight
into DOOM: one address space, one thread, one CPU, and interrupt handlers. Source
paths below are relative to the repository; "PD" is src/doom/PureDOOM.h.

## 1. Inventory

The kernel runs `kernel_main` (src/kernel_main.c:387) from top to bottom: serial
port, VGA, IDT and PIC, keyboard, speaker, WAD into memory, interrupts on, heap,
engine hooks, `doom_init`, then a loop that never ends: drain the scancode ring,
`doom_update`, copy the frame. The components:

| component | state | operations | what is hard | what must hold |
|---|---|---|---|---|
| scancode ring, src/drivers/keyboard.c | `key_states`, `keyboard_buffer`, `keyboard_head`, `keyboard_tail` | `keyboard_handler` (IRQ 1), `keyboard_pop_scancode`, `keyboard_init` | the interrupt runs between any two memory accesses of the pop; the buffer is not volatile | a lossy FIFO of 255 scancodes |
| 8042 set-up, keyboard.c:62-100 | controller and keyboard queues | `keyboard_init` | polls without a limit, a key typed meanwhile, a late acknowledgement | the configuration byte written back is the one read; the keyboard interrupts afterwards |
| scancode translation, kernel_main.c:298 | none | `translate_scancode` | two scancodes of one key, 0xE0 prefixes | every key of the table, nothing else |
| main loop and input path, kernel_main.c:447, PD | the engine's `events`, `eventhead`, `eventtail`, `is_wiping_screen`, `gamekeydown` | drain, `doom_key_up`, `doom_key_down`, `doom_update`, `D_ProcessEvents`, responders | two rings, wipes that suspend input, level loads and menus | events follow the scancodes; no stuck key |
| heap, src/libc/freestanding.c:261 | `current_bump`, `heap_limit`, `allocated_bytes`, headers in memory | `malloc`, `calloc`, `realloc`, `free` | in-place growth, rewinding on free | blocks do not overlap, contents are kept, the count is right |
| file system, kernel_main.c:22 | `vfiles[8]` and heap buffers | `vfs_open` .. `vfs_eof` | growth by copying, slots that are never released, unchecked `malloc` | no access outside a buffer, no leak, a save can be read |
| game clock, kernel_main.c:237, `I_GetTime`, `doom_update` | `start_tsc`, `basetime`, `last_update_time` | the same | truncation, a base time of 0 | monotone, no tic lost or run twice |
| disk, src/drivers/ata.c | registers, the drive | `ata_read_sectors` | 256 as 0, commands that end where the next begins, errors never looked at | the sectors asked for, in order |
| interrupts, idt.c, isr.asm | IDT, PICs, `irq_handlers` | `idt_init`, stubs, `isr_handler`, `irq_handler`, EOI | spurious interrupts, edges lost while the PICs are set up, panic inside a handler | handlers do not nest; each interrupt is ended, and by its own EOIs; the keyboard never goes dead |
| video, vga.c | VGA registers, two buffers, the palette | mode 13h, palette, blit, pixels, rectangles | register order, write protection, clipping | the mode asked for; what is drawn is what was asked for, inside the screen |
| speaker, audio.c | PIT channel 2, port 0x61 | tone, stop, beep | 16-bit divisor in two bytes, other bits of the port | the divisor asked for, or the nearest that fits |
| libc, freestanding.c | none | memory, strings, 64-bit division, context recovery | overlap, shifts at the top bit | the usual meanings |
| boot loader, boot.asm, linker.ld, build.py | disk, low memory | reads 999 sectors, A20, GDT, copy to 1 MB, `.bss` | failing reads, three files that must agree on sizes | the image that was built is what runs |
| engine: tics, PD:7558, 9402, 10720 | `gametic`, `maketic`, `netcmds` | `doom_update`, `D_DoomLoop`, `NetUpdate` | two functions advance the ring of commands | no tic is run with an old command |
| engine: requests, PD:12630 | `gameaction`, `gamestate`, title loop, save in flight | menu, `D_DoAdvanceDemo`, `G_Ticker` and what it calls, `WI_Ticker` | one variable for all requests; a save is run tics after it was checked | no new game, load or exit is lost, no save written in another level, no game taken away |
| engine: zone memory, PD:48211 | ring of blocks, rover, owners' pointers | `Z_Malloc`, `Z_Free`, `Z_FreeTags`, lump and texture caches | blocks are freed and merged during a walk | every pointer leads to its data |
| engine: thinkers, PD:35713 | list of thinkers | add, remove, `P_RunThinkers` | lazy removal during the walk | every thinker runs once a tic |
| engine: movers, PD:24299, 26693, 31300 | sector heights, `specialdata`, `activeplats`, `activeceilings` | doors, platforms, ceilings | movers that end, are reversed or stopped | one mover per sector; no thing inside a door or over a platform where it does not fit |
| engine: sound channels, PD:41085 | channels, `usefulness` | start, stop, update | things removed while they sound | no channel of a thing that is gone |
| WAD file system, src/vfs/vfs.c | handles | open .. eof | linked, not called | - |
| earlier port, src/doom/doom_port.c | its own heap, files, keymap | `my_malloc`, `my_free` | not built; merging of neighbours | the list of blocks tiles the heap |
| rest of the engine | everything else | - | third party | not modelled |

How they interact: IRQ 1 writes the ring that the main loop reads (shared
memory, no lock). The main loop posts events to the engine (calls), and the
engine calls back into the heap, the file system, the clock and the exit hook
(function pointers set in kernel_main.c:433-438). The file system uses the heap.
The disk driver fills the memory that the file system presents as `doom1.wad`.
Only the interrupt handlers run concurrently with anything, and only IRQ 1 has a
handler that shares state; everything else is used by the main thread alone, so
what is hard about it is the sequence of calls, what a loop finds changed by what
it called, and what a failing device does.

## 2. Modules

| module | models | checked as |
|---|---|---|
| `LossyFifo` | what the scancode ring promises: accept unless full, discard if full, take in order | property of `KeyboardRing` |
| `KeyboardRing` | handler and pop of keyboard.c. `keyboard_handler` is one action because the IDT entries are interrupt gates and there is one CPU. The pop is split at its memory accesses, in both orders of reading the slot and storing the tail | `MCKeyboardRing` |
| `Keymap` | `translate_scancode`, the whole switch as runs of consecutive scancodes | through `GameInput` |
| `GameInput` | extends `KeyboardRing` with the loop (`loop` is its program counter), the engine's event ring, wipes, level loads and responders | `MCGameInput` |
| `GameInputProofs` | theorems about `KeyboardRing` and, from its invariant, about `GameInput` | tlapm |
| `KernelVfs` | `vfiles` and the engine's use of files: probing and reading the WAD, saving, loading | `MCKernelVfs` |
| `KernelVfsProofs` | theorems about `KernelVfs` | tlapm |
| `Interrupts` | the boot sequence, `idt_init`, the IRQ stubs step by step, `isr_handler`, two 8259 PICs and the devices' lines | `MCInterrupts` |
| `InterruptsProofs` | theorems about `Interrupts` | tlapm |
| `BootLoader` | what build.py packs, the loader's reads, the copy to 1 MB, the clearing of `.bss` | through `Boot` |
| `VgaMode` | `vga_init`, register by register, and an adapter | through `Boot` |
| `KeyboardInit` | `keyboard_init`, access by access, an 8042 and a keyboard that is typed on | through `Boot` |
| `AtaPio` | `ata_read_sectors` and an LBA28 drive | through `Boot` |
| `Boot` | the four in the order of kernel_main, until the WAD is in memory | `MCBoot` |
| `BootProofs` | theorems about `Boot`: an invariant for each of its four parts, and why it ends | tlapm |
| `Udivmod` | `__udivmoddi4` | through `Routines` |
| `MemOps` | `memcpy`, `memset`, `memmove`, a byte a step | through `Routines` |
| `VgaScreen` | pixels, rectangles, blit and palette of vga.c | through `Routines` |
| `Audio` | audio.c, a port access a step, with the timer's counter | through `Routines` |
| `PortHeap` | the free list heap of doom_port.c | through `Routines` |
| `BumpHeap` | the allocator and a client that fills its blocks; memory in cells of 8 bytes, headers among the data, sums modulo 2^32 | through `Routines` |
| `Clock` | time stamp counter, `custom_gettime`, `I_GetTime`, `doom_update` | through `Routines`; `MCClock` |
| `Routines` | chooses one of the seven above, which takes all the steps | `MCRoutines` |
| `RoutinesProofs` | theorems about the seven as parts of `Routines` | tlapm |
| `TicLoop` | `doom_update`, `D_DoomLoop`, `NetUpdate` and the ring of commands | through `Engine`; by itself |
| `GameFlow` | what the tic loop does with requests: menu, exits, deaths, title loop, demos, intermission, saving | through `Engine` |
| `ZoneHeap` | zone memory, the lump cache, composite textures, the level's blocks | through `Engine` |
| `Thinkers` | the list of thinkers and `P_RunThinkers`, a turn of its loop a step | extended by `Movers` |
| `Movers` | doors, platforms and crushing ceilings as thinkers, things in their way | through `Engine` |
| `SoundChannels` | the channels and what they point to | through `Engine` |
| `Engine` | chooses one of the mechanisms, which takes all the steps | `MCEngine` |
| `EngineProofs` | theorems about tics, requests and sound channels as parts of `Engine` | tlapm |
| `MoversProofs` | theorems about movers and the list of thinkers as parts of `Engine` | tlapm |
| `ZoneProofs` | theorems about the zone memory as part of `Engine` | tlapm |

`Routines` and `Engine` put side by side what shares no state in the models: one
part is chosen at first and the others stand still, so that one run of TLC explores
each of them in full and no product of them. `Boot`, `GameInput` and `Movers` are
compositions in earnest: their parts share variables or call each other.

Names are the source's wherever TLA+ allows. Variables marked "history" in the
modules are not in the program: they remember what properties compare with.
Operators marked "mutant" are plausible bugs in the definition that follows
them; they are in no specification, and each is known to break the property
it was written for.

Correspondence worth knowing:

* `KeyboardRing`: `pop = "nonempty"` is after line 44; `PopRead`, `PopAdvance` are
  lines 47 and 48; `PopAdvanceFirst`, `PopReadLate` the same two lines in the
  order a compiler may choose, since `keyboard_buffer` is not volatile.
  `Empty` reads head and tail in one step: only head can change under the pop,
  and it can only change from empty to not empty between the two reads, which
  is the same as the interrupt coming a moment earlier or later.
  It takes `keyboard_handler` for one step; `Interrupts!OneAtATime` is why it may.
* `GameInput`: a call of `doom_update` may run any number of tics, each of which
  reads the events (`TicReadsInput`, `D_ProcessEvents`), or take steps of a wipe, which
  do not. What a tic does to the game is left open (`TicEnds`).
  `demo` is the title loop, in which `G_Responder` ignores most events.
* `BumpHeap`: what an unused cell holds is "garbage". `Store` fills a block up to
  the size the client asked for, as the engine may. `HeapAssumption` keeps sums
  below 2^32, as 64 MB from 16 MB on, and sizes of an int, do.
* `KernelVfs`: contents are sequences, a buffer is a number. When `malloc` fails
  in an open the program stores to address 0; the model forgets those bytes and
  remembers the name in `starved`. What a released slot held is forgotten.
* `Interrupts`: the PICs are external, modelled from how idt.c and isr.asm program
  them: edge-triggered, fully nested, non-specific EOI. `frames` is the stack of
  interrupts under way; `at` says where in irq_common_stub each one is. The
  handler's call is one step (`irq_handler`), the two EOIs and the iret one each. A fault
  may come at any time once there is an IDT. `bits` is history.
* `Boot`: disk and memory are counted in sectors, and a sector is what build.py
  put there. `KernelSizes` has one kernel too large, which build.py refuses. The BIOS
  leaves any configuration byte, a byte in the output buffer or none, any write
  protection and addressing of the adapter. A keyboard byte is the set of its bits that
  the configuration gives a meaning. The drive and the 8042 answer when they like.
* `VgaScreen`: memory before and behind the screen is modelled too, so that a cell
  written outside would show; each call starts from cells that all differ.
* `TicLoop`: a slot of `netcmds` holds the number of the tic its command was built
  for. `NetUpdate` runs up to five times a frame. The clock may fall back once,
  as `Clock` says it does.
* `GameFlow`: the tic's steps in D_DoomLoop's order: events, command, title loop,
  reborn players, `gameaction`'s loop, the reading of the command, the main part. A
  menu is its effect: what `M_Responder` does with keys is not modelled. A level is
  its number, and where it leads is the next one; the skill and the secret level are
  left out. Skipped slots are `NetUpdate`'s, see `TicLoop`.
* `ZoneHeap`: sizes are in units of a block header, and the zone is small enough
  that purging is the rule. `zone.slot` are the owners' pointers. A turn of the
  search, of the freeing of a level and of the drawing of a composite is a step.
* `Movers`: a plane moves one unit a tic, and a waiting time is one or two tics.
  A door and a platform may be used at any time between two tics; a thing comes to
  where it fits (`P_TryMove`) and goes again. The door with topheight unset takes any
  height.
* `SoundChannels`: which sounds are over, and which can be heard, is left open.

## 3. Runs

| run | instance | shows |
|---|---|---|
| `keyboard_ring` | 4 slots, 3 scancodes, 6 stored, 2 dropped | FIFO order, the ring's content, freshness of what the pop has read, refinement of `LossyFifo`; every stored scancode is returned. Six scancodes wrap both indices, and the ring is full and empty on either side of the wrap |
| `game_input` | 3 slots, both shift keys, 4 events, backlog 3 | order through both rings, no stuck key. Two scancodes of one key, and enough of them to fill the ring and wrap the event ring |
| `game_input_live` | a known and an unknown key | every known scancode is handled |
| `kernel_vfs` | 3 slots, first capacity 1, 3 saves of 2 names, lengths up to 4 | buffers are sound, the WAD stays, saves can be loaded; capacity is outgrown once by doubling and once by the large step; the table fills up |
| `interrupts` | timer, keyboard, clock (IRQ 8) and disk (IRQ 14), 5 edges | no nesting, EOIs matched, keyboard alive, every request served. IRQ 8 is the slave's first, where a wrong comparison in the stub would show; 14 is polled, so that it makes requests that go away |
| `interrupts_panic` | the same, 2 edges | violated: see Findings |
| `boot` | 59 sectors before the WAD, in 7 chunks of 8 and a rest; register bytes of 2 bits; 6 sectors of WAD from 59; unreadable: none, or the second; any read of the loader fails; 2 keys typed | what was built is what runs, mode 13h is set, the keyboard is ready, keys arrive, every boot ends. Sector numbers carry into every address register, commands of four sectors and one of two |
| `boot_config_byte` | the same | violated: see Findings |
| `routines` | division of 32 words (5 bits); 6 bytes of memory; a screen of 4 by 2 with a margin of 2; ten frequencies; a free list heap of 7 units; a bump heap of 6 cells, sizes 1, 8, 12 and 100; 3 tics, 7 microseconds and 14 cycles a second, 4 seconds | every pair of operands, every overlap, every rectangle, both clamps of the divisor; first, last and middle block of each heap; the clock with steps from a cycle to more than a second |
| `clock_smooth` | the clock of `routines` | violated: see Findings |
| `engine` | a ring of 6 commands and 5 tics; two maps, a lag of 2 tics and an intermission of 2; a zone of 10 units, two lumps and a texture of both, two level blocks; three thinkers, levels with a door, a platform or a crusher; three channels, three sounds, two things | see below |
| `tic_lag` | 12 commands, 16 tics | violated: see Findings |

`engine` asks one question of each mechanism. `OwnCommand`: although `NetUpdate`
advances `maketic`, no tic is run with a command of an earlier round of the ring, unless
the clock has fallen back: `NetUpdate` may then miss tics, and skip slots later. `GameKept`: the title loop goes on only when nobody plays,
or he who plays has chosen End Game. `RequestsKept`: a new game or a load is carried out
in the tic it is asked for in, and an exit in the next, unless a later choice in the menu
(End Game included), the title loop's next step or a dead player's new life comes
before it; this needs the exit to replace a save in `gameaction`, and the demo's end not
to come with a game loaded. Saves are not among these requests. `SaveOfItsLevel`: a save goes through the ring of commands and is five tics late;
the intermission, of which `WI_initNoState` alone takes ten tics, keeps it from the
next level. (In the model the lag is two tics and this part takes two; were one
key enough to end the whole intermission, the save would come too late even so.) `ZoneSound`, `PointersGood`,
`EachOnce`, `OneMoverPerSector`, `ThingsFit` and `ChannelsOwned` are described where
they are defined.

Bounds are named constants or guards: `MaxAccepted`, `MaxDropped` (scancodes of
a behaviour), `MaxBacklog` (how far the engine may be behind), `MaxSaves`,
`MaxLength`, `MaxCycles`, `MaxRequests` (edges of a behaviour; five are one for each
device and one that comes during another's service), `MaxTyped`, `MaxTime`,
`MaxLevelBlocks`, `NoSaveOnItsWay` (one save at a time is in the ring of commands; menus
and keys make two within five tics impossible in practice). Three thinkers are enough for
a list with a first, a middle and a last one, of which one is freed and its memory used
again; two platforms or two doors would not meet.

Most runs do not check for deadlock: the engine may have halted, a counter has
reached its bound, a function has returned or waits for a drive that gave up, the
kernel has panicked or no device wants anything. `keyboard_ring`, `game_input`,
`game_input_live` and `routines` do.

Fairness. `KeyboardRing!Fairness`: the loop at kernel_main.c:447 has no exit and
interrupt handlers return, so each step of the pop is weakly fair; the keyboard
owes nothing. `GameInput!InputFairness`: weak fairness of the main loop; strong
fairness of a wipe's end (the melt moves every column down at every step,
PD:9395), of a tic that reads input (the counter goes on, so `doom_update`
finds tics due again and again, and D_DoomLoop reads the events in each) and of the
return of `doom_update` (the number of tics is fixed when it is called); and of the end
of a tic, which no interrupt can keep from coming. `Boot!BootFairSpec`: the processor
runs, the drive and the 8042 answer, and an interrupt that is signalled is taken once
interrupts are on; nobody need type. `Interrupts!Fairness`: the boot sequence goes on,
the CPU takes a signalled interrupt while IF is set, and stubs run to their iret; devices
owe nothing. Without `MaxRequests` a device of higher priority that never rests could
starve the others, as on the machine: `EveryRequestServed` is about bursts.

### Findings

* `clock_smooth`: `I_GetTime` takes a base time of 0 for "not set" (PD:16290), and the
  kernel's clock starts at second 0. During the first second the base stays 0; when
  second 1 begins it becomes 1, and the game time falls from 34 tics to 0.
  `doom_update` sees a negative number of tics and runs none until the time has caught
  up, so the game stands still for up to a second, once. kernel_main.c:236 and
  README.md:20 promise a perfectly smooth loop. `SteadyAndAccurate` and `NoDrift` show
  that from then on the clock is steady and no tic is lost.
* `interrupts_panic`: vga_init (kernel_main.c:400) runs before idt_init and moves the
  adapter to 0xA0000; `isr_handler` writes its report to 0xB8000. idt.c:275 says it
  clears the screen to bright red, but no panic can be seen.
* `boot_config_byte`: keyboard.c:74 takes the next byte of the output buffer for the
  configuration byte. A key typed since the drain is taken for it and written back; if
  its bit 6 is clear, scancodes are not translated from then on. `QuietStartIsClean`
  shows that this is the only way.
* `tic_lag`: PD:10765 says of the mode the engine is in that "singletic update is
  syncronous", but `NetUpdate` advances `maketic` (PD:10760) while frames are drawn, and
  after the first frames every tic is run with the command built five tics before.

Seen on the way, and contradicted by nothing that is written: a save that was asked
for in the last tics of a level, or before End Game, is still written after the level
has ended (`M_SaveGame`'s test is not repeated); once all slots of `vfiles` are taken no
saved game can be opened; a door that closes after thirty seconds goes back up to a
height that was never set.

## 4. Proofs

`GameInputProofs` proves first, of `KeyboardRing` alone, for every ring size and every set of scancodes,
`Spec => []RingInv` with

    RingInv == TypeOK /\ FifoOrder /\ RingHoldsWaiting /\ PopNotStale

`FifoOrder` alone is not inductive: that the next scancode popped is the next one
accepted needs to know what the slots hold (`RingHoldsWaiting`), and what the
pop holds in its hand between two steps (`PopNotStale`); these need the ranges in
`TypeOK`. The conjunction is inductive. The arithmetic of the ring is in a few lemmas
about `Succ` and `SlotAt`, the main one being that the ring is full exactly when
Size - 1 scancodes wait. There is one lemma per action. From the
invariant follow `RingTypeCorrect`, `RingIsFifo`, `RingHolds`, `PopNeverStale`, and,
step by step, `RingImplementsFifo`: `Spec => FifoSpec`. Assumptions: `Size` is
positive, scancodes are bytes, the bounds are natural numbers.

`InterruptsProofs` proves, for all sets of devices and any number of requests,
`Spec => []ServiceInv` with

    ServiceInv == TypeOK /\ OneAtATime /\ ServiceMatches /\ OnlyWhenRunning
                  /\ (frames # <<>> => FrameShape(frames[1]))

A non-specific EOI ends whatever is first in service, so `ServiceMatches` needs to know
that only this interrupt's IRQs are in service: that no other is under way
(`OneAtATime`), what shape the IRQs of one interrupt have (`FrameShape`: one of the
master's, or the cascade with at most one of the slave's, as the vector tells), and that
none is under way while the PICs are set up again (`OnlyWhenRunning`). From it follow
`InterruptsTypeCorrect`, `HandlersDoNotNest` and `EoisMatch`. `KeyboardStaysAlive` adds
`AliveInv`, which covers the time from `keyboard_init` to sti: a byte that arrives
then must be latched. Assumptions: devices use the sixteen IRQs but the cascade;
`MaxRequests` is a natural number.

Then, for rings of any two sizes and every table of keys that
`translate_scancode` may have, it proves `InputSpec => []InputInv` with

    InputInv == RingInv /\ QueueOK /\ KeysOK

`RingInv` is not proved again: a step of the loop is a
step of `KeyboardRing` or leaves the ring alone. `QueueOK` says that the event ring is a
sequence (`RingOfEvents`, `Laid`), that events handled, pending and still in the ring
are those of the scancodes stored (`EventsFollowScancodes`), and that no more than
`MaxBacklog` are behind, so that `D_PostEvent` never meets a full ring. `KeysOK` is what
`NoStuckKey` needs: a key that is down was pressed last among the events handled, and
one that was pressed last among the scancodes stored is held or its release was lost.
What `EventsOf`, a recursive function, makes of one scancode more is proved by the least
counterexample. `EventsFollow` and `NoKeyIsStuck` follow.

`KernelVfsProofs` proves `Spec => []VfsInv` for any number of slots, saves and lengths, with

    VfsInv == BuffersHold /\ TaskOK /\ SlotsFill /\ Kept

`BuffersHold` is `BuffersSound` with the types of slots and contents; `TaskOK` ties what
the engine is doing to the slot it holds; `SlotsFill` says that slots are taken from the
first on and that none is given back once the WAD is open, which is why the first slot of
a name holds the first save of that name; `Kept` is what is stored of each. From it
follow `BuffersAreSound`, `WadIsReadable` and `SavesAreLoadable`.

`BootProofs` proves `BootSpec => []BootInv`, an invariant for each part, which the steps
of the other parts leave alone: `LoaderOK` (the sectors read so far are where they belong,
and the disk address packet counts them), `VgaOK` (a file of registers is set once its
loop is over; the protection of the CRTC is off for as long as its first eight registers are
written), `KbdOK` and `QuietOK` (what is in the input buffer, and whether the 8042 waits
for a byte, follows from the line of `keyboard_init`; without a key since the drain the
reply is the only byte there is), and `AtaOK` (driver and drive count the same sectors; a
lemma about `\div` shows that the drive reads the address and count that were written). From
it follow `KernelAndWadAsBuilt`, `ScreenIsSet`, `KeyboardStartsReady` and
`QuietStartsAreClean`. `KernelAndWadAsBuilt` needs what nothing in the build checks: that
kernel and .bss fit below the WAD, that the loader reads as many sectors as build.py
leaves before the WAD (15 chunks of 64 and 39 are 999), and that kernel_main asks for the
sector that build.py wrote to. They are conjuncts of `LoaderAssumption` and
`BootAssumption`.

`RoutinesProofs`, of `RoutinesSpec`, part by part. Division: the divisor is shifted by a
power of two, and dividend = quotient * divisor + rest throughout (`DivInv`);
`DivisionIsRight` holds for every even word size. Memory: while bytes are moved forward
or backward, those written have their values and those to be read have not been
written (`MemInv`). Speaker: between two calls the timer's divisor and the port's gate
are those of the tone asked for (`AudioInv`, `SpeakerSounds`). Clock: `basetime` is at
most the second that is now, so that the tics count on (`ClockInv`); lemmas about
truncated division give `ClockIsSteady`, an action property, and `ClockDoesNotDrift`.
Screen: a cell is in the rectangle that is clipped exactly when its row and its column
are, and the loops have passed the cells of the rows done (`ScreenInv`, `DrawingIsAsAsked`).
Bump heap: the blocks in use lie apart below the bump pointer, each behind the header
that the allocator wrote, and `allocated_bytes` is the sum of their sizes (`HeapInv`; what a fold over a
finite set becomes with one member more or less is proved from its definition).
`HeapIsSound` follows, and the action property `HeapKeepsContents`. Free list heap:
`PortInv` says that the blocks of the chain fill the heap and are linked both ways
(`Shape`), that no two free ones touch (`Parted`) and that those given out are the
client's (`Given`). The walk that `ChainSound` speaks of is shown to find exactly the
members of any set that has this shape (`ChainIsShape`), so that the steps of `my_malloc`
and `my_free` need only say which set it is: the same, with the rest of a split, or without
a block that was joined. `PortHeapIsSound` follows; it is about a
file that is not in the image, and says nothing of the running kernel.

`EngineProofs`, of `EngineSpec`. `TicInv` bounds how far `maketic` may be ahead of
`gametic` (half the ring) and says of every slot which tics its command may be of.
`TitleInv` and `OwedInv` follow a request and the title loop through the steps of a tic.
`RequestsAreKept` states more than `RequestsKept`: a new game, a load or an exit stays in
`gameaction` until it is carried out, and only the three steps named above may take its
place; nothing is promised of a save, which `G_ExitLevel` may replace.
`SaveInv` counts tics: a save on its way during the intermission reaches its end of the
ring before the intermission can be over, since `Lag <= NoStateTics`. `SoundInv` says
that a channel's sound is of a thing that is there and that `usefulness` counts channels.

`MoversProofs`, of `EngineSpec`. `MoversInv` is `ThingsFit` (of doors and platforms; a
crusher does leave things where they do not fit) and `OneMoverPerSector` with
the types of planes and movers and what each mover's state says of its sector. The list
of thinkers is `RingInv == \E r : Order(r, ...) /\ Turned(r)`: there is a numbering `r` of the
nodes which `next` and `prev` follow, and the thinkers that have had their turn are those
before the walk. With it `EachOnce`, which speaks of a recursive walk, follows by the
least counterexample.

`ZoneProofs`, of `EngineSpec`. `ZoneInv == \E B \in SUBSET Addr : ZoneOK(B)`, where `B` is
the set of blocks. `Layout(h, B)` says that the blocks fill the zone from its first unit to
its last and are linked both ways, `Parted` that no two free ones touch, `Owned` that a
cached pointer and the block it leads to name each other. A search adds what its
locals need to survive a purge (`SearchOK`): `base` is the rover or the free block before
it, the block before `base` is not free, and `start` is in use and is not the block thrown
out, so that joining blocks never takes away one that a local stands on. `Z_FreeTags`
holds a link over a call of `Z_Free` (`WalkOK`): the header it goes to is a block, or was
joined into a free one, still leads out of it to a block, and has no block of the level behind it
that the walk would miss. `Z_Free` is followed field by field through its two joins
(`FreedIs`), `Z_Malloc`'s split through its four assignments (`CutIs`), and `Ring`, a recursive
walk, is shown to find exactly `B` (`RingIsLayout`). `ZoneIsSound` and `PointersAreGood`
follow. That the block of a composite is not thrown out while its patches are cached comes
from its tag: it is `PU_STATIC` until it is drawn.

Liveness, as far as it can be proved here. That something happens in the end under fairness takes two
facts about the code, and a step of temporal logic that the prover does not do. The first
is a stock of work, a natural number that every step makes less, so that no behaviour goes
on for ever: `RingUsesUpWork`, `InterruptsUseUpWork` and `BootUsesUpWork`, action properties
of every step of every process, the typist's and the faults included. The second is that, until
the end is reached, one of the actions that fairness is about can be taken:
`NoScancodeLeftBehind`, `NoIrqIsShutOut` and `BootIsNeverStuck`, invariants that write these
actions' guards out. Together with weak fairness they say that
every scancode is returned (`EveryScancodeReturned`), that every request is served, withdrawn or lost
to a panic (`EveryRequestServed`), and that a boot ends and leaves no byte in the keyboard
(`BootEnds`, `KeysArrive`): a behaviour has finitely many steps, and where it stops none of the
fair actions is enabled. TLC checks the conclusions on the instances. What the measures
count is bounded by `MaxAccepted`, `MaxDropped`, `MaxRequests` and `MaxTyped`, for every
value of these: a device that never stops asking is outside. They rest on the same
invariants and on a little more: in `Underway`, that the reply to 0x20 is on its way for as
long as `keyboard_init` polls for it, and that the drive gives up over bad sectors only; in
`OpenInv`, that interrupts are off only in a handler. What is left of the disk transfer is
less after each command because the drive is idle again when the last sector of the one before has been taken
(`left = chunk - s`). A request that has gone counts as much as one that is latched, since the PIC
still has the CPU serve it. An IRQ is not shut out because nothing is in service between two
handlers (`ServiceMatches`), so that the first of those signalled can be taken, the cascade's
with the slave's first or with a spurious IRQ 15.

Assumptions on constants, all named and evaluated by TLC on the instances: besides types,
`BACKUPTICS` leaves room for the commands ahead (`TicLoopAssumption`), `Lag <= NoStateTics`
(`GameFlowAssumption`: 5 and 10 in the source), `TicRate <= UsecPerSec` (`ClockAssumption`),
`WordSize` even (`WordAssumption`), `Silent \notin Sfx`, `WAD \notin Files`, sets of nodes and of
sectors finite, and the kinds of sectors disjoint (a sector with two kinds of movers
would have two meanings of `specialdata`). `SlotsAssumption`: the address of an owner's pointer is
neither 0 nor 2, the two values of `user` that mean a free block and one without an owner.

What the proofs taught about the models. The attempt to prove `OwnCommand` as it was first
stated (no command of the round before, but for one when the clock falls back) failed
because it was false: after the fall more than one such command can be run, and of any
earlier round; TLC found it too on a longer run. `G_DoLoadLevel` had a CASE with
overlapping guards, which TLC resolves by order and the logic does not. Everything else
that had been checked could be proved as it stood.

Only model-checked:

* liveness under fairness, and anything about ENABLED, which the prover does not do:
  `EveryScancodeReturned`, `EveryEventHandled`, `EveryRequestServed`, `BootEnds`,
  `KeysArrive`. Of all but `EveryEventHandled`, whose main loop has no end, the part that
  is about the code is proved (above). Every safety invariant and every action property
  that a passing run checks is a theorem.

Recursive functions and folds are no obstacle where their equation is enough: the walk of
the free list, the ring of the zone, the ring of thinkers, `EventsOf` and the sum over blocks are handled by the
least number, or smallest set, for which a claim fails (`LeastOf`, from the library's
`WFMin`).

## 5. Not modelled

* The rest of the engine. PureDOOM.h is a single header of 48,602 lines, third-party,
  of which the models cover the mechanisms listed in section 1. Rendering, enemies and
  weapons, the intermission's counting, status bar, automap, music and the formats of
  levels, demos and saved games are calculations on large data with little control that
  a model of this kind could check; tables of states, sprites and trigonometry make up
  much of the rest. This is why most of the repository's lines, nearly all of which are
  the engine's, are in no model.
* `src/vfs/vfs.c` and the context recovery of freestanding.c are linked and never called.
* src/doom/doom_port.c is not part of the build (build.py excludes it); its heap is
  modelled because it is an allocator of another kind, and what is shown of it says
  nothing of the running kernel; its file system and keymap are earlier forms of the
  kernel's.
* `system_ticks`, which kernel_main.c:10 says IRQ 0 increments: no handler is registered
  for IRQ 0, and nothing reads it.
* Serial output, `getenv`, number formatting and string functions (no property is
  about text); frame copies by the main loop; the text of the panic report.
* Host-side tests and audits, which drive an emulator and inspect files.

## 6. Plan

Further mechanisms worth a model: the links of things in sectors and blockmap, which
iterators follow while things are removed; switches' buttons and the queue of items that
come back; the menus' state; the delivery of `Interrupts` composed with `KeyboardRing`;
and the WAD file system of src/vfs, should it be called one day.
