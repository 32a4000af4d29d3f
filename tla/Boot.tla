-------------------------------- MODULE Boot --------------------------------
(***************************************************************************)
(* From the boot sector to the WAD in memory: the loader, then what         *)
(* kernel_main does with interrupts off: vga_init, keyboard_init and        *)
(* ata_read_sectors (kernel_main.c:400, 408, 423).  idt_init, and interrupts *)
(* in general, are in Interrupts.  Somebody may type from keyboard_init on. *)
(* What the BIOS left in a device is chosen when the kernel first meets it. *)
(***************************************************************************)
EXTENDS BootLoader, VgaMode, KeyboardInit, AtaPio

ASSUME BootAssumption == WadLba = lba

VARIABLE stage      \* "loader", "video", "keyboard" or "disk"

ataVars == vars
bootVars == <<stage, loaderVars, vgaVars, kbdVars, ataVars>>

BootInit ==
    /\ stage = "loader"
    /\ LoaderInit
    /\ VgaInit
    /\ KbdInit
    /\ Init

\* One part of the sequence has returned and the next is called.
Proceed ==
    /\ \/ stage = "loader" /\ ldr = "kernel" /\ stage' = "video"
       \/ stage = "video" /\ vga = "set" /\ stage' = "keyboard"
       \/ stage = "keyboard" /\ kbd = "done" /\ stage' = "disk"
    /\ UNCHANGED <<loaderVars, vgaVars, kbdVars, ataVars>>

Load ==
    /\ stage = "loader"
    /\ LoaderNext
    /\ UNCHANGED <<stage, vgaVars, kbdVars, ataVars>>

SetMode ==
    /\ stage = "video"
    /\ VgaNext
    /\ UNCHANGED <<stage, loaderVars, kbdVars, ataVars>>

SetUpKeyboard ==
    /\ stage = "keyboard"
    /\ keyboard_init
    /\ UNCHANGED <<stage, loaderVars, vgaVars, ataVars>>

ReadWad ==
    /\ stage = "disk"
    /\ Driver
    /\ UNCHANGED <<stage, loaderVars, vgaVars, kbdVars>>

DriveAnswers ==
    /\ stage = "disk"
    /\ Drive
    /\ UNCHANGED <<stage, loaderVars, vgaVars, kbdVars>>

KeyboardAnswers ==
    /\ stage \in {"keyboard", "disk"}
    /\ Controller
    /\ UNCHANGED <<stage, loaderVars, vgaVars, ataVars>>

SomebodyTypes ==
    /\ stage \in {"keyboard", "disk"}
    /\ Type
    /\ UNCHANGED <<stage, loaderVars, vgaVars, ataVars>>

\* After sti (kernel_main.c:426).
KeyInterrupt ==
    /\ stage = "disk" /\ pc = "done"
    /\ HandlerReads
    /\ UNCHANGED <<stage, loaderVars, vgaVars, ataVars>>

Processor ==
    \/ Proceed \/ Load \/ SetMode \/ SetUpKeyboard \/ ReadWad

BootNext ==
    \/ Processor \/ DriveAnswers \/ KeyboardAnswers \/ SomebodyTypes \/ KeyInterrupt

BootSpec == BootInit /\ [][BootNext]_bootVars

\* The processor runs, the devices answer and the interrupt is taken.
BootFairSpec ==
    /\ BootSpec
    /\ WF_bootVars(Processor) /\ WF_bootVars(DriveAnswers)
    /\ WF_bootVars(KeyboardAnswers) /\ WF_bootVars(KeyInterrupt)

-----------------------------------------------------------------------------
(* Properties.                                                             *)

\* The loader's sector numbers, build.py's and kernel_main's agree: for every
\* kernel build.py lets through, all of it runs from 1 MB with its .bss clear, and
\* what is read to 0x200000 is the WAD that was packed, from its first sector, and
\* zeros.  With a sector that cannot be read the kernel never gets there.
AsBuilt ==
    /\ KernelAsBuilt
    /\ stage = "disk" /\ pc = "done" =>
          \A i \in 0..sector_count - 1 :
              /\ Image(memory[i]) = IF i < wadSize THEN Wad(i) ELSE Zero
              /\ memory[i] \notin bad

\* Every boot ends: the loader hangs over a failed read, the kernel over an
\* unreadable sector of the WAD, or the WAD is in memory.  No wait for a device
\* that answers is endless, whatever the BIOS left and whatever is typed.
BootEnds == <>(ldr = "hung" \/ bad # {} \/ (stage = "disk" /\ pc = "done"))

\* What the keyboard sends during the boot is read in the end, a late
\* acknowledgement too: the keyboard is not dead when interrupts come on.
KeysArrive == sending # <<>> ~> (sending = <<>> \/ bad # {})
=============================================================================
