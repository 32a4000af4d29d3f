----------------------------- MODULE BootLoader -----------------------------
(***************************************************************************)
(* The image build.py packs, the loader of src/boot/boot.asm that brings    *)
(* the kernel from it to 1 MB, and the first thing kernel_main does, which  *)
(* is to clear its .bss.  Disk and memory are counted in sectors of 512     *)
(* bytes; low memory starts at 0x10000, high memory at 0x100000.            *)
(***************************************************************************)
EXTENDS Integers

CONSTANTS
    ChunkSectors,   \* 64
    Chunks,         \* 15
    Rest,           \* 39
    WadLba,            \* 1000, where the WAD starts on disk
    HighSize,       \* 2048: from 0x100000 to the WAD at 0x200000
    KernelSizes,    \* sizes of kernel.bin the compiler may produce
    BssSizes,       \* sizes of .bss
    WadSizes        \* sizes of doom1.wad

CopySectors == WadLba          \* 128000 doublewords, 1000 sectors

ASSUME LoaderAssumption ==
    /\ {ChunkSectors, Chunks, Rest, WadLba, HighSize} \subseteq Nat \ {0}
    /\ UNION {KernelSizes, BssSizes, WadSizes} \subseteq Nat \ {0}
    /\ CopySectors <= HighSize
    \* 999 sectors: all that build.py puts before the WAD, but for the boot sector.
    /\ ChunkSectors * Chunks + Rest >= WadLba - 1
    \* Nothing in the build checks this one.
    /\ \A k \in KernelSizes, b \in BssSizes : k + b <= HighSize

VARIABLES
    ldr,            \* what the loader does next; "kernel" or "hung"
    cx,             \* chunks left to read
    dapLba, dapSegment,     \* the disk address packet
    a20,            \* address line 20 is enabled
    low, high,      \* memory at 0x10000 and at 0x100000
    kernelSize, bssSize, wadSize    \* what build.py packed

loaderVars == <<ldr, cx, dapLba, dapSegment, a20, low, high, kernelSize, bssSize, wadSize>>
builtVars == <<kernelSize, bssSize, wadSize>>

Unset == <<"unset", 0>>
Zero == <<"zero", 0>>
BootSector == <<"boot", 0>>
Kernel(i) == <<"kernel", i>>
Wad(i) == <<"wad", i>>

\* Mutant: build.py forgets the boot sector.
AcceptsKernelAlone(k) == k <= WadLba

Accepts(k) == 1 + k <= WadLba

\* The image: boot sector, kernel, zeros up to sector 1000, WAD, zeros.
WadStart == IF 1 + kernelSize < WadLba THEN WadLba ELSE 1 + kernelSize
Image(sector) ==
    CASE sector = 0                                     -> BootSector
      [] sector \in 1..kernelSize                       -> Kernel(sector - 1)
      [] sector \in WadStart..(WadStart + wadSize - 1)  -> Wad(sector - WadStart)
      [] OTHER                                          -> Zero

LoaderInit ==
    /\ ldr = "check"
    /\ cx = Chunks
    /\ dapLba = 1
    /\ dapSegment = 0
    /\ a20 \in BOOLEAN
    /\ low = [i \in 0..CopySectors - 1 |-> Unset]
    /\ high = [i \in 0..HighSize - 1 |-> Unset]
    /\ kernelSize \in {k \in KernelSizes : Accepts(k)}
    /\ bssSize \in BssSizes
    /\ wadSize \in WadSizes

-----------------------------------------------------------------------------
(* boot.asm.                                                               *)

\* The BIOS calls may fail: no LBA, or a read error.  The loader then hangs.
BiosFails ==
    /\ ldr \in {"check", "chunks", "rest"}
    /\ ldr' = "hung"
    /\ UNCHANGED <<cx, dapLba, dapSegment, a20, low, high, builtVars>>

CheckLba ==
    /\ ldr = "check"
    /\ ldr' = "chunks"
    /\ UNCHANGED <<cx, dapLba, dapSegment, a20, low, high, builtVars>>

\* INT 13h, AH = 42h: count sectors from dapLba to dapSegment.
ReadInto(count) ==
    low' = [i \in DOMAIN low |-> IF i \in dapSegment..(dapSegment + count - 1)
                                 THEN Image(dapLba + i - dapSegment) ELSE low[i]]

ReadChunk ==
    /\ ldr = "chunks"
    /\ ReadInto(ChunkSectors)
    /\ dapLba' = dapLba + ChunkSectors
    /\ dapSegment' = dapSegment + ChunkSectors     \* 0x0800 paragraphs
    /\ cx' = cx - 1
    /\ ldr' = IF cx' = 0 THEN "rest" ELSE "chunks"
    /\ UNCHANGED <<a20, high, builtVars>>

ReadRest ==
    /\ ldr = "rest"
    /\ ReadInto(Rest)
    /\ ldr' = "a20"
    /\ UNCHANGED <<cx, dapLba, dapSegment, a20, high, builtVars>>

\* The BIOS enables the line, or refuses and the fast gate of port 0x92 does;
\* nothing looks whether it is on.
enable_a20 ==
    /\ ldr = "a20"
    /\ a20' = TRUE
    /\ ldr' = "copy"
    /\ UNCHANGED <<cx, dapLba, dapSegment, low, high, builtVars>>

\* rep movsd, 1000 sectors, one more than was read.  Without line 20 the copy
\* would go to address 0.
CopyHigh ==
    /\ ldr = "copy"
    /\ high' = [i \in DOMAIN high |-> IF a20 /\ i < CopySectors THEN low[i] ELSE high[i]]
    /\ ldr' = "bss"
    /\ UNCHANGED <<cx, dapLba, dapSegment, a20, low, builtVars>>

\* The first loop of kernel_main.  The linker puts .bss after what kernel.bin holds.
ZeroBss ==
    /\ ldr = "bss"
    /\ high' = [i \in DOMAIN high |-> IF i \in kernelSize..(kernelSize + bssSize - 1)
                                      THEN Zero ELSE high[i]]
    /\ ldr' = "kernel"
    /\ UNCHANGED <<cx, dapLba, dapSegment, a20, low, builtVars>>

LoaderNext ==
    \/ BiosFails \/ CheckLba \/ ReadChunk \/ ReadRest
    \/ enable_a20 \/ CopyHigh \/ ZeroBss

-----------------------------------------------------------------------------
(* Properties.                                                             *)

\* Whatever size of kernel build.py let through, and however address line 20 came
\* on: when kernel_main runs on, all of kernel.bin is at 1 MB, every sector where
\* it was linked, and .bss behind it is zero.  After a failed read it never runs.
KernelAsBuilt ==
    ldr = "kernel" =>
        /\ \A i \in 0..kernelSize - 1 : high[i] = Kernel(i)
        /\ \A i \in kernelSize..(kernelSize + bssSize - 1) : high[i] = Zero
=============================================================================
