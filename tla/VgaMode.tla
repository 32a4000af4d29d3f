------------------------------ MODULE VgaMode ------------------------------
(***************************************************************************)
(* vga_init of src/drivers/vga.c: the registers of mode 13h, written to an  *)
(* adapter that the BIOS may have left write-protected, in monochrome       *)
(* addressing, or in the middle of an attribute write; then the clearing of *)
(* the two buffers.  One step is one index and data pair.                   *)
(***************************************************************************)
EXTENDS Integers, Sequences

VARIABLES
    vga,            \* which loop of vga_enter_mode13h comes next
    vi,             \* its counter i
    vgaRegs,           \* the adapter's registers, file by file
    flip,           \* port 0x3C0 expects "index" or "data"
    acIndex, pas,   \* attribute index, and its bit 5: video is enabled
    video,          \* what the screen's memory holds: "text" or "black"
    backBuffer      \* "unset" or "black"

vgaVars == <<vga, vi, vgaRegs, flip, acIndex, pas, video, backBuffer>>

\* mode13h_misc, mode13h_seq, mode13h_crtc, mode13h_gc, mode13h_ac.
mode13h ==
    [misc |-> <<99>>,
     seq  |-> <<3, 1, 15, 0, 14>>,
     crtc |-> <<95, 79, 80, 130, 84, 128, 191, 31, 0, 65, 0, 0, 0, 0, 0, 0,
                156, 142, 143, 40, 64, 150, 185, 163, 255>>,
     gc   |-> <<0, 0, 0, 0, 0, 64, 5, 15, 255>>,
     ac   |-> <<0, 1, 2, 3, 4, 5, 6, 7, 8, 9, 10, 11, 12, 13, 14, 15,
                65, 0, 15, 0, 0>>]

RegsWith(m, r3, r17) ==
    [file \in DOMAIN mode13h |->
        [i \in 0..Len(mode13h[file]) - 1 |->
            CASE file = "misc"             -> m
              [] file = "crtc" /\ i = 3    -> r3
              [] file = "crtc" /\ i = 17   -> r17
              [] OTHER                     -> 0]]

VgaInit ==
    /\ vga = "off"
    /\ vi = 0
    /\ vgaRegs = RegsWith(103, 2, 14)
    /\ flip = "index"
    /\ acIndex = 0
    /\ pas = TRUE
    /\ video = "text"
    /\ backBuffer = "unset"

-----------------------------------------------------------------------------
(* The adapter.                                                            *)

\* What the BIOS left, when the kernel first meets it: a text mode, in which
\* registers 3 and 17 of the CRTC may have their top bits set; the others do not
\* matter.
VgaFound ==
    /\ vga = "off"
    /\ vga' = "misc"
    /\ \E m \in {102, 103}, r3 \in {2, 130}, r17 \in {14, 142} :
          vgaRegs' = RegsWith(m, r3, r17)
    /\ flip' \in {"index", "data"}
    /\ UNCHANGED <<vi, acIndex, pas, video, backBuffer>>

SetReg(file, i, value) == vgaRegs' = [vgaRegs EXCEPT ![file][i] = value]

\* Ports 0x3D4 and 0x3D5 answer in colour addressing only; bit 7 of register 17
\* protects registers 0 to 7.
Colour == vgaRegs["misc"][0] % 2 = 1
Protected(i) == i < 8 /\ vgaRegs["crtc"][17] >= 128
WriteCrtc(i, value) ==
    IF Colour /\ ~Protected(i) THEN SetReg("crtc", i, value) ELSE UNCHANGED vgaRegs

\* What port 0x3C0 expects once port 0x3DA has been read.
AfterStatusRead(expects) == "index"

\* Two writes to port 0x3C0, which takes them for index and data in turn.
WriteAc(i, value, expects) ==
    LET index == IF expects = "index" THEN i ELSE value IN
    /\ acIndex' = index % 32
    /\ pas' = (index >= 32)
    /\ IF expects = "index" THEN SetReg("ac", i, value) ELSE SetReg("ac", acIndex, i)

\* The CPU reaches the screen's memory at 0xA0000, all planes in turn.
MappedAtA0000 == (vgaRegs["gc"][6] \div 4) % 4 = 1 /\ vgaRegs["seq"][4] >= 8

-----------------------------------------------------------------------------
(* vga_init.                                                               *)

otherVars == <<flip, acIndex, pas, video, backBuffer>>

\* The loop of stage n counts to last; the next stage follows.
Count(stage, last, to) ==
    /\ vga = stage
    /\ vi' = IF vi < last THEN vi + 1 ELSE 0
    /\ vga' = IF vi < last THEN stage ELSE to

Last(file) == Len(mode13h[file]) - 1

\* The miscellaneous register, the sequencer, the graphics controller.
SetPlain ==
    /\ \/ Count("misc", Last("misc"), "seq")
       \/ Count("seq", Last("seq"), "unlock3")
       \/ Count("gc", Last("gc"), "ac")
    /\ SetReg(vga, vi, mode13h[vga][vi + 1])
    /\ UNCHANGED otherVars

\* | 0x80 on register 3.
Unlock3 ==
    /\ Count("unlock3", 0, "unlock17")
    /\ WriteCrtc(3, (vgaRegs["crtc"][3] % 128) + 128)
    /\ UNCHANGED otherVars

\* Mutant: the protection is left on.
ProtectOn(value) == value

\* & ~0x80 on register 17.
ProtectOff(value) == value % 128

Unlock17 ==
    /\ Count("unlock17", 0, "crtc")
    /\ WriteCrtc(17, ProtectOff(vgaRegs["crtc"][17]))
    /\ UNCHANGED otherVars

SetCrtc ==
    /\ Count("crtc", Last("crtc"), "gc")
    /\ WriteCrtc(vi, mode13h["crtc"][vi + 1])
    /\ UNCHANGED otherVars

SetAc ==
    /\ Count("ac", Last("ac"), "unblank")
    /\ WriteAc(vi, mode13h["ac"][vi + 1], AfterStatusRead(flip))
    /\ flip' = AfterStatusRead(flip)
    /\ UNCHANGED <<video, backBuffer>>

\* Index 0x20, and no data: the port goes on expecting data.
Unblank ==
    /\ Count("unblank", 0, "front")
    /\ acIndex' = 0
    /\ pas' = TRUE
    /\ flip' = "data"
    /\ UNCHANGED <<vgaRegs, video, backBuffer>>

vga_clear_front_buffer ==
    /\ Count("front", 0, "back")
    /\ video' = IF MappedAtA0000 THEN "black" ELSE video
    /\ UNCHANGED <<vgaRegs, flip, acIndex, pas, backBuffer>>

vga_clear_back_buffer ==
    /\ Count("back", 0, "set")
    /\ backBuffer' = "black"
    /\ UNCHANGED <<vgaRegs, flip, acIndex, pas, video>>

VgaNext ==
    \/ VgaFound
    \/ SetPlain \/ Unlock3 \/ Unlock17 \/ SetCrtc \/ SetAc \/ Unblank
    \/ vga_clear_front_buffer \/ vga_clear_back_buffer

-----------------------------------------------------------------------------
(* Properties.                                                             *)

\* Whatever the BIOS left, every register has its value of mode 13h when
\* vga_init returns, although register 17 protects others again half way; the
\* screen is on, and what it shows has been cleared through the new mapping.
Mode13hSet ==
    vga = "set" =>
        /\ \A file \in DOMAIN mode13h : \A i \in 0..Last(file) :
              vgaRegs[file][i] = mode13h[file][i + 1]
        /\ pas
        /\ video = "black" /\ backBuffer = "black"
=============================================================================
