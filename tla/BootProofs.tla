----------------------------- MODULE BootProofs -----------------------------
(* Boot: what the loader, vga_init, keyboard_init and ata_read_sectors each  *)
(* leave behind, for all sizes, whatever the BIOS left and whatever is typed *)
(* meanwhile.  Every part has an invariant of its own, which the steps of    *)
(* the other parts leave alone.  Then, that every step of a boot uses up     *)
(* work and that it is never stuck before its end.                          *)
EXTENDS Boot, TLAPS

-----------------------------------------------------------------------------
(* The loader's invariant: sector i + 1 of the image is read to place i of   *)
(* low memory, and copied to place i of high memory.                        *)

Places == 0..WadLba - 1
HighPlaces == 0..HighSize - 1

\* The first n places hold the sectors that follow the boot sector.
ReadTo(mem, n) == \A i \in Places : i < n => mem[i] = Image(i + 1)

LoaderOK ==
    /\ kernelSize \in KernelSizes /\ 1 + kernelSize <= WadLba
    /\ bssSize \in BssSizes /\ wadSize \in WadSizes
    /\ DOMAIN low = Places /\ DOMAIN high = HighPlaces
    /\ ldr \in {"check", "chunks", "rest", "a20", "copy", "bss", "kernel", "hung"}
    /\ cx \in Nat /\ cx <= Chunks
    /\ dapSegment = ChunkSectors * (Chunks - cx) /\ dapLba = 1 + dapSegment
    /\ ldr \in {"check", "chunks"} => cx > 0
    /\ ldr \in {"check", "chunks", "rest"} => ReadTo(low, dapSegment)
    /\ ldr = "rest" => cx = 0
    /\ ldr \in {"a20", "copy"} => ReadTo(low, WadLba - 1)
    /\ ldr = "copy" => a20
    /\ ldr = "bss" => ReadTo(high, WadLba - 1)
    /\ KernelAsBuilt

-----------------------------------------------------------------------------
(* vga_init's invariant: a file of registers is set once its loop is over,   *)
(* and the loops that follow leave it alone.                                *)

Files == DOMAIN mode13h
SetUpTo(rs, file, n) == \A i \in 0..Last(file) : i < n => rs[file][i] = mode13h[file][i + 1]
AllSet(rs, file) == \A i \in 0..Last(file) : rs[file][i] = mode13h[file][i + 1]

\* The stages that follow a loop.
AfterUnblank == {"front", "back", "set"}
AfterAc == {"unblank"} \cup AfterUnblank
AfterGc == {"ac"} \cup AfterAc
AfterCrtc == {"gc"} \cup AfterGc
AfterUnlock == {"crtc"} \cup AfterCrtc
AfterSeq == {"unlock3", "unlock17"} \cup AfterUnlock
AfterMisc == {"seq"} \cup AfterSeq

Registers(rs) ==
    /\ DOMAIN rs = Files
    /\ rs = [file \in Files |-> rs[file]]
    /\ \A file \in Files : rs[file] \in [0..Last(file) -> Nat]

VgaOK ==
    /\ vga \in {"off", "misc"} \cup AfterMisc
    /\ vi \in Nat
    /\ vga \in Files => vi <= Last(vga) /\ SetUpTo(vgaRegs, vga, vi)
    /\ vga \notin Files => vi = 0
    /\ Registers(vgaRegs)
    /\ vga \in AfterMisc => AllSet(vgaRegs, "misc")
    /\ vga \in AfterSeq => AllSet(vgaRegs, "seq")
    \* While the first eight registers are written, the protection is off.
    /\ vga = "crtc" /\ vi <= 17 => vgaRegs["crtc"][17] < 128
    /\ vga \in AfterCrtc => AllSet(vgaRegs, "crtc")
    /\ vga \in AfterGc => AllSet(vgaRegs, "gc")
    /\ vga \in AfterAc => AllSet(vgaRegs, "ac")
    /\ vga \in AfterUnblank => pas
    /\ vga \in {"back", "set"} => video = "black"
    /\ vga = "set" => backBuffer = "black"

-----------------------------------------------------------------------------
(* keyboard_init's invariants.                                             *)

\* What is in the input buffer, and whether the controller waits for a byte, follows
\* from the line of keyboard_init that comes next; from 0xF4 on the controller has
\* the configuration that was written.
Conversation ==
    CASE kbd \in {"off", "drain", "enable"} -> ibf = <<>> /\ awaiting = FALSE
      [] kbd = "ask" -> ibf \in {<<>>, <<"enable", {}>>} /\ awaiting = FALSE
      [] kbd \in {"reply", "write"} -> ibf \in {<<>>, <<"read", {}>>} /\ awaiting = FALSE
      [] kbd = "param" -> \/ ibf = <<"write", {}>> /\ awaiting = FALSE
                          \/ ibf = <<>> /\ awaiting = TRUE
      [] kbd = "scan" -> \/ ibf = <<"data", cfg>> /\ awaiting = TRUE
                         \/ ibf = <<>> /\ awaiting = FALSE /\ ccb = cfg
      [] OTHER -> ibf \in {<<>>, <<"data", ScanOn>>} /\ awaiting = FALSE /\ ccb = cfg

Latched == Line(obf, ccb) => irr
Requested == irr => obf # <<>>

KbdOK ==
    /\ kbd \in {"off", "drain", "enable", "ask", "reply", "write", "param", "scan", "ack", "done"}
    /\ Conversation
    /\ kbd \in {"write", "param", "scan", "ack", "done"} => "irq" \in cfg /\ "off" \notin cfg
    /\ kbd \notin {"off", "drain"} => Latched
    /\ Requested

\* Scancodes are translated in configuration c if they were in the BIOS's.
SameXlat(c) == "xlat" \in c <=> "xlat" \in biosConfig

Reply(b) == b = <<[from |-> "reply", bits |-> b[1].bits]>> /\ SameXlat(b[1].bits)

\* With no key between drain and reply, the reply is the only byte that is read
\* for the configuration, and it is read.
Quiet ==
    CASE kbd = "off" -> reply = <<>> /\ handled = {}
      [] kbd = "drain" -> /\ reply = <<>> /\ handled = {} /\ SameXlat(ccb)
      [] kbd \in {"enable", "ask"} ->
            obf = <<>> /\ reply = <<>> /\ handled = {} /\ SameXlat(ccb)
      [] kbd = "reply" ->
            /\ handled = {} /\ SameXlat(ccb)
            /\ \/ ibf = <<"read", {}>> /\ obf = <<>> /\ reply = <<>>
               \/ ibf = <<>> /\ obf = <<>> /\ Reply(reply)
               \/ ibf = <<>> /\ Reply(obf) /\ reply = <<>>
      [] OTHER ->
            /\ SameXlat(cfg)
            /\ kbd = "write" => ibf = <<>>
            /\ reply = <<>>
            /\ obf = <<>> \/ obf[1].from # "reply"
            /\ "reply" \notin handled

KeyboardBytes == [from : {"key", "ack"}, bits : SUBSET Bits]

QuietOK ==
    /\ sending \in Seq(KeyboardBytes)
    /\ raced \in BOOLEAN
    /\ raced = FALSE => Quiet

-----------------------------------------------------------------------------
(* The disk driver's invariant: driver and drive count the same sectors.     *)

Transfer ==
    /\ chunk \in 1..Byte /\ s \in 0..chunk - 1
    /\ sectors_read + chunk <= sector_count
    /\ buffer = sectors_read + s
    /\ status \in {"busy", "drq", "error"}
    /\ status # "error" => left = chunk - s /\ next = lba + buffer
    /\ status = "drq" => next \notin bad

AtaOK ==
    /\ pc \in {"ready", "busy", "drq", "done"}
    /\ sectors_read \in Nat /\ buffer \in Nat
    /\ DOMAIN memory = 0..sector_count - 1
    /\ \A i \in 0..sector_count - 1 : i < buffer => memory[i] = lba + i /\ lba + i \notin bad
    /\ pc = "ready" => sectors_read < sector_count /\ buffer = sectors_read
    /\ pc \in {"busy", "drq"} => Transfer
    /\ pc = "done" => buffer = sector_count

BootInv == LoaderOK /\ VgaOK /\ KbdOK /\ QuietOK /\ AtaOK

-----------------------------------------------------------------------------
(* The loader.                                                             *)

LEMMA SameImage ==
    ASSUME UNCHANGED builtVars
    PROVE  \A sector : Image(sector)' = Image(sector)
  BY DEF Image, WadStart, builtVars

LEMMA LoaderStays ==
    ASSUME LoaderOK, UNCHANGED loaderVars
    PROVE  LoaderOK'
<1>1. /\ ldr' = ldr /\ cx' = cx /\ dapLba' = dapLba /\ dapSegment' = dapSegment /\ a20' = a20
      /\ low' = low /\ high' = high
      /\ kernelSize' = kernelSize /\ bssSize' = bssSize /\ wadSize' = wadSize
  BY DEF loaderVars
<1>2. \A sector : Image(sector)' = Image(sector)
  BY <1>1, SameImage DEF builtVars
<1>3. KernelAsBuilt'
  BY <1>1 DEF LoaderOK, KernelAsBuilt
<1>4. QED
  BY <1>1, <1>2, <1>3 DEF LoaderOK, ReadTo

\* The sector after the boot sector is the kernel's first.
LEMMA KernelInImage ==
    ASSUME kernelSize \in Nat, NEW i \in Nat, i < kernelSize
    PROVE  Image(i + 1) = Kernel(i)
<1>1. i + 1 # 0 /\ i + 1 \in 1..kernelSize /\ (i + 1) - 1 = i
  OBVIOUS
<1>2. \A n : i + 1 \notin WadStart..n
  BY LoaderAssumption DEF WadStart
<1>3. QED
  BY <1>1, <1>2 DEF Image

LEMMA LoaderInits == LoaderInit => LoaderOK
<1> SUFFICES ASSUME LoaderInit PROVE LoaderOK
  OBVIOUS
<1>1. ChunkSectors \in Nat /\ Chunks \in Nat /\ Chunks > 0 /\ WadLba \in Nat
  BY LoaderAssumption
<1>2. ChunkSectors * (Chunks - Chunks) = 0
  BY <1>1
<1>3. DOMAIN low = Places /\ DOMAIN high = HighPlaces
  BY DEF LoaderInit, Places, HighPlaces, CopySectors
<1>4. 1 + kernelSize <= WadLba /\ kernelSize \in KernelSizes
  BY DEF LoaderInit, Accepts
<1>5. ReadTo(low, 0)
  BY <1>1 DEF ReadTo, Places
<1>6. QED
  BY <1>1, <1>2, <1>3, <1>4, <1>5 DEF LoaderInit, LoaderOK, KernelAsBuilt

\* One call of the BIOS reads on where the last one stopped.
LEMMA ReadOn ==
    ASSUME LoaderOK, NEW count \in Nat, ReadTo(low, dapSegment), ReadInto(count),
           UNCHANGED builtVars
    PROVE  /\ DOMAIN low' = Places
           /\ \A i \in Places : i < dapSegment + count => low'[i] = Image(i + 1)'
<1>1. dapSegment \in Nat /\ dapLba = 1 + dapSegment
  BY LoaderAssumption DEF LoaderOK
<1>2. DOMAIN low' = Places
  BY DEF ReadInto, LoaderOK
<1>3. \A sector : Image(sector)' = Image(sector)
  BY SameImage
<1>4. ASSUME NEW i \in Places, i < dapSegment + count
      PROVE  low'[i] = Image(i + 1)
  <2>1. CASE i < dapSegment
    <3>1. i \notin dapSegment..(dapSegment + count - 1)
      BY <1>1, <2>1 DEF Places
    <3>2. low'[i] = low[i]
      BY <3>1 DEF ReadInto, LoaderOK
    <3>3. QED
      BY <2>1, <3>2 DEF ReadTo
  <2>2. CASE i >= dapSegment
    <3>1. i \in dapSegment..(dapSegment + count - 1) /\ dapLba + i - dapSegment = i + 1
      BY <1>1, <1>4, <2>2, LoaderAssumption DEF Places
    <3>2. low'[i] = Image(dapLba + i - dapSegment)
      BY <3>1 DEF ReadInto, LoaderOK
    <3>3. QED
      BY <3>1, <3>2
  <2>3. QED
    BY <1>1, <2>1, <2>2, LoaderAssumption DEF Places
<1>5. QED
  BY <1>2, <1>3, <1>4

LEMMA LoaderSteps ==
    ASSUME LoaderOK, LoaderNext
    PROVE  LoaderOK'
<1>1. /\ ChunkSectors \in Nat /\ Chunks \in Nat /\ Rest \in Nat
      /\ ChunkSectors * Chunks + Rest >= WadLba - 1
      /\ WadLba \in Nat /\ HighSize \in Nat /\ WadLba <= HighSize
      /\ KernelSizes \subseteq Nat /\ BssSizes \subseteq Nat
      /\ \A k \in KernelSizes, b \in BssSizes : k + b <= HighSize
  BY LoaderAssumption DEF CopySectors
<1>2. UNCHANGED builtVars
  BY DEF LoaderNext, BiosFails, CheckLba, ReadChunk, ReadRest, enable_a20, CopyHigh, ZeroBss
<1>3. \A sector : Image(sector)' = Image(sector)
  BY <1>2, SameImage
<1>4. UNCHANGED <<kernelSize, bssSize, wadSize>>
  BY <1>2 DEF builtVars
<1>5. CASE BiosFails
  BY <1>3, <1>4, <1>5 DEF BiosFails, LoaderOK, ReadTo, KernelAsBuilt
<1>6. CASE CheckLba
  BY <1>3, <1>4, <1>6 DEF CheckLba, LoaderOK, ReadTo, KernelAsBuilt
<1>7. CASE ReadChunk
  <2>1. /\ cx' = cx - 1 /\ cx' \in Nat /\ cx' <= Chunks /\ (cx' # 0 => cx' > 0)
    BY <1>1, <1>7 DEF ReadChunk, LoaderOK
  <2>2. ChunkSectors * (Chunks - (cx - 1)) = ChunkSectors * (Chunks - cx) + ChunkSectors
    BY <1>1 DEF LoaderOK
  <2>3. dapSegment' = ChunkSectors * (Chunks - cx') /\ dapLba' = 1 + dapSegment'
    BY <1>1, <1>7, <2>1, <2>2 DEF ReadChunk, LoaderOK
  <2>4. ReadTo(low, dapSegment) /\ ReadInto(ChunkSectors) /\ dapSegment' = dapSegment + ChunkSectors
    BY <1>7 DEF ReadChunk, LoaderOK
  <2>5. /\ DOMAIN low' = Places
        /\ \A i \in Places : i < dapSegment' => low'[i] = Image(i + 1)'
    BY <1>1, <1>2, <2>4, ReadOn
  <2>6. QED
    BY <1>1, <1>4, <1>7, <2>1, <2>3, <2>5 DEF ReadChunk, LoaderOK, ReadTo, KernelAsBuilt
<1>8. CASE ReadRest
  <2>1. dapSegment = ChunkSectors * Chunks
    BY <1>1, <1>8 DEF ReadRest, LoaderOK
  <2>2. ReadTo(low, dapSegment) /\ ReadInto(Rest)
    BY <1>8 DEF ReadRest, LoaderOK
  <2>3. /\ DOMAIN low' = Places
        /\ \A i \in Places : i < dapSegment + Rest => low'[i] = Image(i + 1)'
    BY <1>1, <1>2, <2>2, ReadOn
  <2>4. \A i \in Places : i < WadLba - 1 => i < dapSegment + Rest
    BY <1>1, <2>1 DEF Places
  <2>5. QED
    BY <1>1, <1>4, <1>8, <2>3, <2>4 DEF ReadRest, LoaderOK, ReadTo, KernelAsBuilt
<1>9. CASE enable_a20
  BY <1>3, <1>4, <1>9 DEF enable_a20, LoaderOK, ReadTo, KernelAsBuilt
<1>10. CASE CopyHigh
  <2>1. DOMAIN high' = HighPlaces
    BY <1>10 DEF CopyHigh, LoaderOK
  <2>2. \A i \in Places : i \in HighPlaces /\ i < CopySectors
    BY <1>1 DEF Places, HighPlaces, CopySectors
  <2>3. \A i \in Places : i < WadLba - 1 => high'[i] = Image(i + 1)'
    BY <1>3, <1>10, <2>2 DEF CopyHigh, LoaderOK, ReadTo
  <2>4. QED
    BY <1>4, <1>10, <2>1, <2>3 DEF CopyHigh, LoaderOK, ReadTo, KernelAsBuilt
<1>11. CASE ZeroBss
  <2>1. DOMAIN high' = HighPlaces
    BY <1>11 DEF ZeroBss, LoaderOK
  <2>2. /\ kernelSize \in Nat /\ bssSize \in Nat /\ 1 + kernelSize <= WadLba
        /\ kernelSize + bssSize <= HighSize
    BY <1>1 DEF LoaderOK
  <2>3. ASSUME NEW i \in 0..kernelSize - 1
        PROVE  high'[i] = Kernel(i)
    <3>1. i \in Places /\ i \in HighPlaces /\ i < WadLba - 1 /\ i < kernelSize /\ i \in Nat
      BY <1>1, <2>2 DEF Places, HighPlaces
    <3>2. high'[i] = high[i]
      BY <1>11, <2>2, <3>1 DEF ZeroBss, LoaderOK
    <3>3. high[i] = Image(i + 1)
      BY <1>11, <3>1 DEF ZeroBss, LoaderOK, ReadTo
    <3>4. QED
      BY <2>2, <3>1, <3>2, <3>3, KernelInImage
  <2>4. ASSUME NEW i \in kernelSize..(kernelSize + bssSize - 1)
        PROVE  high'[i] = Zero
    <3>1. i \in HighPlaces
      BY <1>1, <2>2 DEF HighPlaces
    <3>2. QED
      BY <1>11, <3>1 DEF ZeroBss, LoaderOK
  <2>5. KernelAsBuilt'
    BY <1>4, <2>3, <2>4 DEF KernelAsBuilt
  <2>6. QED
    BY <1>4, <1>11, <2>1, <2>5 DEF ZeroBss, LoaderOK, ReadTo
<1>12. QED
  BY <1>5, <1>6, <1>7, <1>8, <1>9, <1>10, <1>11 DEF LoaderNext

-----------------------------------------------------------------------------
(* The disk driver.                                                        *)

\* A number is its quotient and remainder, which its bounds determine.
LEMMA DivMod ==
    ASSUME NEW n \in Nat, NEW d \in Nat \ {0}
    PROVE  n \div d \in Nat /\ n % d \in 0..d - 1 /\ n = (n \div d) * d + (n % d)
<1> DEFINE q == n \div d
           r == n % d
<1>1. q \in Int /\ r \in 0..d - 1 /\ n = q * d + r
  OBVIOUS
<1> HIDE DEF q, r
<1>2. q >= 0
  <2>1. SUFFICES ASSUME q <= -1 PROVE FALSE
    BY <1>1
  <2>2. q * d <= (-1) * d
    BY <1>1, <2>1
  <2>3. q * d \in Int /\ r < d
    BY <1>1
  <2>4. QED
    BY <1>1, <2>2, <2>3
<1>3. QED
  BY <1>1, <1>2 DEF q, r

LEMMA DivUnique ==
    ASSUME NEW n \in Nat, NEW d \in Nat \ {0}, NEW q \in Nat, NEW r \in 0..d - 1,
           n = q * d + r
    PROVE  n \div d = q /\ n % d = r
<1>1. r \in Nat /\ r < d
  OBVIOUS
<1>2. QED
  BY <1>1

\* Dividing twice is dividing by the product.
LEMMA DivDiv ==
    ASSUME NEW n \in Nat, NEW d \in Nat \ {0}, NEW e \in Nat \ {0}
    PROVE  (n \div d) \div e = n \div (d * e)
<1> DEFINE q == n \div d
           r == n % d
           p == q \div e
           t == q % e
<1>1. q \in Nat /\ r \in 0..d - 1 /\ n = q * d + r
  BY DivMod
<1>2. p \in Nat /\ t \in 0..e - 1 /\ q = p * e + t
  BY <1>1, DivMod
<1> HIDE DEF p, q, r, t
<1>3. q * d = p * (d * e) + t * d
  <2>1. (p * e + t) * d = (p * e) * d + t * d
    BY <1>1, <1>2
  <2>2. (p * e) * d = p * (d * e)
    BY <1>1, <1>2
  <2>3. QED
    BY <1>2, <2>1, <2>2
<1>4. t * d <= (e - 1) * d
  BY <1>2
<1>5. (e - 1) * d = d * e - d
  OBVIOUS
<1>6. t * d \in Nat /\ d * e \in Nat \ {0}
  BY <1>2
<1>7. t * d + r \in 0..(d * e) - 1
  BY <1>1, <1>4, <1>5, <1>6
<1>8. n = p * (d * e) + (t * d + r)
  BY <1>1, <1>2, <1>3, <1>6
<1>9. n \div (d * e) = p
  BY <1>2, <1>6, <1>7, <1>8, DivUnique
<1>10. QED
  BY <1>9 DEF p, q

\* The drive reads the address and the count that the driver wrote.
LEMMA AddressReadBack ==
    ASSUME NEW addr \in Nat, addr < DiskSize, NEW count \in 1..Byte
    PROVE  /\ AddressIn(TaskFile(addr, count)) = addr
           /\ CountIn(TaskFile(addr, count)) = count
<1> DEFINE B2 == Byte * Byte
           B3 == Byte * Byte * Byte
           q1 == addr \div Byte
           q2 == addr \div B2
           q3 == addr \div B3
           r0 == addr % Byte
           r1 == q1 % Byte
           r2 == q2 % Byte
           r3 == addr % B3
<1>1. Byte \in Nat \ {0} /\ Nibble \in Nat \ {0}
  BY AtaAssumption
<1>2. B2 \in Nat \ {0} /\ B3 \in Nat \ {0} /\ B3 = B2 * Byte /\ DiskSize = Nibble * B3
  BY <1>1 DEF DiskSize
<1>3. q1 \in Nat /\ r0 \in 0..Byte - 1 /\ addr = q1 * Byte + r0
  BY <1>1, DivMod
<1>4. q1 \div Byte = q2
  BY <1>1, DivDiv
<1> HIDE DEF B2
<1>5. q2 \div Byte = q3
  BY <1>1, <1>2, DivDiv
<1> HIDE DEF B3
<1>6. q2 \in Nat /\ r1 \in 0..Byte - 1 /\ q1 = q2 * Byte + r1
  BY <1>1, <1>3, <1>4, DivMod
<1>7. q3 \in Nat /\ r2 \in 0..Byte - 1 /\ q2 = q3 * Byte + r2
  BY <1>1, <1>5, <1>6, DivMod
<1>8. r3 \in 0..B3 - 1 /\ addr = q3 * B3 + r3
  BY <1>2, DivMod
<1> DEFINE r == TaskFile(addr, count)
<1>9. /\ r.hddev = q3 % Nibble /\ r.lba2 = r2 /\ r.lba1 = r1 /\ r.lba0 = r0
      /\ r.seccount = CountByte(count)
  BY DEF TaskFile, B2, B3
<1> HIDE DEF r, q1, q2, q3, r0, r1, r2, r3
<1>10. q3 % Nibble = q3
  <2>1. q3 < Nibble
    <3>1. SUFFICES ASSUME Nibble <= q3 PROVE FALSE
      BY <1>1, <1>7
    <3>2. Nibble * B3 <= q3 * B3
      BY <1>1, <1>2, <1>7, <3>1
    <3>3. Nibble * B3 \in Nat /\ q3 * B3 \in Nat /\ r3 \in Nat
      BY <1>1, <1>2, <1>7, <1>8
    <3>4. QED
      BY <1>2, <1>8, <3>2, <3>3
  <2>2. QED
    BY <1>1, <1>7, <2>1
<1>11. AddressIn(r) = addr
  <2>1. r.hddev * Byte + r.lba2 = q2
    BY <1>7, <1>9, <1>10
  <2>2. q2 * Byte + r.lba1 = q1
    BY <1>6, <1>9
  <2>3. q1 * Byte + r.lba0 = addr
    BY <1>3, <1>9
  <2>4. QED
    BY <2>1, <2>2, <2>3 DEF AddressIn
<1>12. CountIn(r) = count
  BY <1>1, <1>9 DEF CountIn, CountByte
<1>13. QED
  BY <1>11, <1>12 DEF r

LEMMA AtaStays ==
    ASSUME AtaOK, UNCHANGED ataVars
    PROVE  AtaOK'
  BY DEF AtaOK, Transfer, ataVars, vars, driverVars, driveVars

LEMMA AtaInits == Init => AtaOK
  BY AtaAssumption DEF Init, AtaOK

LEMMA AtaSteps ==
    ASSUME AtaOK, Next
    PROVE  AtaOK'
<1>1. /\ Byte \in Nat \ {0} /\ lba \in Nat /\ sector_count \in Nat
      /\ lba + sector_count <= DiskSize
  BY AtaAssumption
<1>2. CASE SendCommand
  <2>1. sectors_read < sector_count /\ buffer = sectors_read /\ sectors_read \in Nat
    BY <1>2 DEF SendCommand, AtaOK
  <2>2. ChunkSize \in 1..Byte /\ sectors_read + ChunkSize <= sector_count
    BY <1>1, <2>1 DEF ChunkSize
  <2>3. CurrentLba \in Nat /\ CurrentLba < DiskSize /\ CurrentLba = lba + buffer
    <3>1. DiskSize \in Nat
      BY AtaAssumption DEF DiskSize
    <3>2. QED
      BY <1>1, <2>1, <3>1 DEF CurrentLba
  <2>4. next' = lba + buffer /\ left' = ChunkSize
    BY <1>2, <2>2, <2>3, AddressReadBack DEF SendCommand
  <2>5. Transfer'
    BY <1>1, <1>2, <2>1, <2>2, <2>4 DEF SendCommand, Transfer
  <2>6. QED
    BY <1>2, <2>5 DEF SendCommand, AtaOK
<1>3. CASE NotBusy
  BY <1>3 DEF NotBusy, AtaOK, Transfer, driveVars
<1>4. CASE ReadSector
  <2>1. /\ pc = "drq" /\ Transfer /\ status = "drq"
        /\ sectors_read \in Nat /\ buffer \in Nat
    BY <1>4 DEF ReadSector, DataReady, AtaOK
  <2>2. /\ buffer < sector_count /\ next = lba + buffer /\ left = chunk - s /\ next \notin bad
    BY <1>1, <2>1 DEF Transfer
  <2>3. memory' = [memory EXCEPT ![buffer] = next] /\ UNCHANGED <<chunk, bad>>
        /\ buffer' = buffer + 1 /\ s' = s + 1 /\ next' = next + 1 /\ left' = left - 1
    BY <1>4 DEF ReadSector
  <2>4. /\ DOMAIN memory' = 0..sector_count - 1
        /\ \A i \in 0..sector_count - 1 :
              i < buffer' => memory'[i] = lba + i /\ lba + i \notin bad
    BY <2>1, <2>2, <2>3 DEF AtaOK
  <2>5. CASE s' < chunk
    <3>1. /\ pc' = "busy" /\ sectors_read' = sectors_read
          /\ status' = IF left' = 0 THEN "idle" ELSE "busy"
      BY <1>4, <2>5 DEF ReadSector
    <3>2. Transfer'
      BY <1>1, <2>1, <2>2, <2>3, <2>5, <3>1 DEF Transfer
    <3>3. QED
      BY <2>1, <2>3, <2>4, <3>1, <3>2 DEF AtaOK
  <2>6. CASE ~(s' < chunk)
    <3>1. /\ sectors_read' = sectors_read + chunk
          /\ pc' = IF sectors_read' < sector_count THEN "ready" ELSE "done"
      BY <1>4, <2>6 DEF ReadSector
    <3>2. buffer' = sectors_read' /\ sectors_read' <= sector_count /\ sectors_read' \in Nat
      BY <1>1, <2>1, <2>3, <2>6, <3>1 DEF Transfer
    <3>3. QED
      BY <1>1, <2>1, <2>3, <2>4, <3>1, <3>2 DEF AtaOK
  <2>7. QED
    BY <2>5, <2>6
<1>5. CASE DeliverSector
  BY <1>5 DEF DeliverSector, driverVars, AtaOK, Transfer
<1>6. CASE FailSector
  BY <1>6 DEF FailSector, driverVars, AtaOK, Transfer
<1>7. QED
  BY <1>2, <1>3, <1>4, <1>5, <1>6 DEF Next, Driver, Drive

-----------------------------------------------------------------------------
(* The keyboard.                                                           *)

LEMMA KbdStays ==
    ASSUME KbdOK, QuietOK, UNCHANGED kbdVars
    PROVE  KbdOK' /\ QuietOK'
<1>1. KbdOK'
  BY DEF KbdOK, Conversation, Latched, Requested, Line, kbdVars
<1>2. QuietOK'
  BY DEF QuietOK, Quiet, Reply, SameXlat, kbdVars
<1>3. QED
  BY <1>1, <1>2

LEMMA KbdInits == KbdInit => KbdOK /\ QuietOK
<1> SUFFICES ASSUME KbdInit PROVE KbdOK /\ QuietOK
  OBVIOUS
<1>1. KbdOK
  BY DEF KbdInit, KbdOK, Conversation, Requested
<1>2. Quiet
  BY DEF KbdInit, Quiet
<1>3. QuietOK
  <2>1. sending = <<>> /\ raced = FALSE
    BY DEF KbdInit
  <2>2. sending \in Seq(KeyboardBytes)
    BY <2>1
  <2>3. QED
    BY <1>2, <2>1, <2>2 DEF QuietOK
<1>4. QED
  BY <1>1, <1>3

\* An empty buffer asks for nothing; a byte that arrives does.
LEMMA LatchHolds ==
    ASSUME Latch(obf', ccb')
    PROVE  Requested' /\ (Latched => Latched')
<1>1. Requested'
  BY DEF Requested, Latch, Line
<1>2. Latched => Latched'
  BY DEF Latched, Latch, Line
<1>3. QED
  BY <1>1, <1>2

LEMMA TakeHolds ==
    ASSUME Take
    PROVE  Requested' /\ Latched'
<1>1. ~irr'
  BY DEF Take, Latch, Line
<1>2. QED
  BY <1>1 DEF Take, Requested, Latched, Line

LEMMA InitKeepsKbd ==
    ASSUME KbdOK, keyboard_init
    PROVE  KbdOK'
<1>1. CASE KbdFound
  BY <1>1 DEF KbdFound, KbdOK, Conversation, Requested, Line
<1>2. CASE DrainByte
  <2>1. Requested'
    BY <1>2, TakeHolds DEF DrainByte
  <2>2. QED
    BY <1>2, <2>1 DEF DrainByte, deviceVars, KbdOK, Conversation
<1>3. CASE Drained
  BY <1>3 DEF Drained, DrainEnds, deviceVars, KbdOK, Conversation, Latched, Requested, Line
<1>4. CASE EnablePort
  BY <1>4 DEF EnablePort, Write, deviceVars, KbdOK, Conversation, Latched, Requested, Line
<1>5. CASE AskConfig
  BY <1>5 DEF AskConfig, Write, deviceVars, KbdOK, Conversation, Latched, Requested, Line
<1>6. CASE ReadReply
  <2>1. Requested' /\ Latched'
    BY <1>6, TakeHolds DEF ReadReply
  <2>2. "irq" \in cfg' /\ "off" \notin cfg'
    BY <1>6 DEF ReadReply, ConfigFrom
  <2>3. QED
    BY <1>6, <2>1, <2>2 DEF ReadReply, deviceVars, KbdOK, Conversation
<1>7. CASE WriteCommand
  BY <1>7 DEF WriteCommand, Write, deviceVars, KbdOK, Conversation, Latched, Requested, Line
<1>8. CASE WriteConfig
  BY <1>8 DEF WriteConfig, Write, deviceVars, KbdOK, Conversation, Latched, Requested, Line
<1>9. CASE EnableScanning
  BY <1>9 DEF EnableScanning, Write, deviceVars, KbdOK, Conversation, Latched, Requested, Line
<1>10. CASE ReadAck
  <2>1. Requested' /\ Latched'
    BY <1>10, TakeHolds DEF ReadAck
  <2>2. QED
    BY <1>10, <2>1 DEF ReadAck, deviceVars, KbdOK, Conversation
<1>11. CASE NoAck
  BY <1>11 DEF NoAck, deviceVars, KbdOK, Conversation, Latched, Requested, Line
<1>12. QED
  BY <1>1, <1>2, <1>3, <1>4, <1>5, <1>6, <1>7, <1>8, <1>9, <1>10, <1>11 DEF keyboard_init

LEMMA DeviceKeepsKbd ==
    ASSUME KbdOK, Controller \/ Type \/ HandlerReads
    PROVE  KbdOK'
<1>1. CASE TakeCommand
  <2>1. Requested' /\ (Latched => Latched')
    BY <1>1 DEF TakeCommand, hostVars, KbdOK, Latched, Requested, Line
  <2>2. kbd' = kbd /\ cfg' = cfg /\ ibf' = <<>> /\ ibf # <<>> /\ ibf[1] # "data"
    BY <1>1 DEF TakeCommand, hostVars
  <2>3. ibf[1] = "write" => awaiting' = TRUE
    BY <1>1 DEF TakeCommand
  <2>6. ibf[1] # "write" /\ awaiting = FALSE => awaiting' = FALSE
    BY <1>1 DEF TakeCommand
  <2>7. kbd \in {"ask", "reply", "write", "param"} /\ awaiting = FALSE
    BY <2>2 DEF KbdOK, Conversation
  <2>8. IF kbd = "param" THEN ibf[1] = "write" ELSE ibf[1] # "write"
    BY <2>2, <2>7 DEF KbdOK, Conversation
  <2>4. Conversation'
    BY <2>2, <2>3, <2>6, <2>7, <2>8 DEF Conversation
  <2>5. QED
    BY <2>1, <2>2, <2>4 DEF KbdOK
<1>2. CASE TakeData
  <2>1. Requested' /\ (Latched => Latched')
    BY <1>2, LatchHolds DEF TakeData
  <2>2. /\ kbd' = kbd /\ cfg' = cfg /\ ibf' = <<>> /\ ibf # <<>> /\ ibf[1] = "data"
        /\ ccb' = IF awaiting THEN ibf[2] ELSE ccb
        /\ awaiting' = IF awaiting THEN FALSE ELSE awaiting
    BY <1>2 DEF TakeData, hostVars
  <2>3. Conversation'
    BY <2>2 DEF KbdOK, Conversation
  <2>4. QED
    BY <2>1, <2>2, <2>3 DEF KbdOK
<1>3. CASE DeliverReply
  <2>1. Requested' /\ (Latched => Latched')
    BY <1>3, LatchHolds DEF DeliverReply
  <2>2. QED
    BY <1>3, <2>1 DEF DeliverReply, hostVars, KbdOK, Conversation
<1>4. CASE DeliverFromKeyboard
  <2>1. Requested' /\ (Latched => Latched')
    BY <1>4, LatchHolds DEF DeliverFromKeyboard
  <2>2. QED
    BY <1>4, <2>1 DEF DeliverFromKeyboard, hostVars, KbdOK, Conversation
<1>5. CASE Type
  BY <1>5 DEF Type, KbdOK, Conversation, Latched, Requested, Line
<1>6. CASE HandlerReads
  <2>1. Requested' /\ Latched'
    BY <1>6, TakeHolds DEF HandlerReads
  <2>2. QED
    BY <1>6, <2>1 DEF HandlerReads, deviceVars, KbdOK, Conversation
<1>7. QED
  BY <1>1, <1>2, <1>3, <1>4, <1>5, <1>6 DEF Controller

LEMMA InitKeepsQuiet ==
    ASSUME KbdOK, QuietOK, keyboard_init
    PROVE  QuietOK'
<1>1. CASE KbdFound
  BY <1>1 DEF KbdFound, QuietOK, Quiet, SameXlat
<1>2. CASE DrainByte
  BY <1>2 DEF DrainByte, deviceVars, QuietOK, Quiet, SameXlat
<1>3. CASE Drained
  BY <1>3 DEF Drained, DrainEnds, deviceVars, QuietOK, Quiet, SameXlat
<1>4. CASE EnablePort
  BY <1>4 DEF EnablePort, Write, deviceVars, QuietOK, Quiet, SameXlat
<1>5. CASE AskConfig
  BY <1>5 DEF AskConfig, Write, deviceVars, QuietOK, Quiet, SameXlat
<1>6. CASE ReadReply
  <2>1. Quiet => Reply(obf) /\ reply = <<>> /\ ibf = <<>> /\ handled = {}
    BY <1>6 DEF ReadReply, Quiet
  <2>2. Reply(obf) => SameXlat(cfg')
    BY <1>6 DEF ReadReply, Reply, ConfigFrom, SameXlat
  <2>3. /\ kbd' = "write" /\ obf' = <<>>
        /\ UNCHANGED <<ibf, handled, reply, sending, biosConfig, raced>>
    BY <1>6 DEF ReadReply, Take, deviceVars
  <2>4. Quiet => Quiet'
    BY <2>1, <2>2, <2>3 DEF Quiet, SameXlat
  <2>5. QED
    BY <2>3, <2>4 DEF QuietOK
<1>7. CASE WriteCommand
  BY <1>7 DEF WriteCommand, Write, deviceVars, QuietOK, Quiet, SameXlat
<1>8. CASE WriteConfig
  BY <1>8 DEF WriteConfig, Write, deviceVars, QuietOK, Quiet, SameXlat
<1>9. CASE EnableScanning
  BY <1>9 DEF EnableScanning, Write, deviceVars, QuietOK, Quiet, SameXlat
<1>10. CASE ReadAck
  BY <1>10 DEF ReadAck, Take, deviceVars, QuietOK, Quiet, SameXlat
<1>11. CASE NoAck
  BY <1>11 DEF NoAck, deviceVars, QuietOK, Quiet, SameXlat
<1>12. QED
  BY <1>1, <1>2, <1>3, <1>4, <1>5, <1>6, <1>7, <1>8, <1>9, <1>10, <1>11 DEF keyboard_init

LEMMA DeviceKeepsQuiet ==
    ASSUME KbdOK, QuietOK, Controller \/ Type \/ HandlerReads
    PROVE  QuietOK'
<1>1. CASE TakeCommand
  <2>1. /\ UNCHANGED <<kbd, cfg, obf, sending, raced, handled, biosConfig>>
        /\ ibf' = <<>> /\ ibf # <<>> /\ ibf[1] # "data"
        /\ "xlat" \in ccb' <=> "xlat" \in ccb
        /\ reply' = IF ibf[1] = "read" THEN <<[from |-> "reply", bits |-> ccb]>> ELSE reply
    BY <1>1 DEF TakeCommand, hostVars
  <2>2. kbd = "reply" /\ Quiet => Reply(reply)'
    BY <2>1 DEF Quiet, Reply, SameXlat
  <2>3. kbd # "reply" /\ Quiet => reply' = reply
    BY <2>1 DEF Quiet, KbdOK, Conversation
  <2>4. Quiet => Quiet'
    BY <2>1, <2>2, <2>3 DEF Quiet, SameXlat
  <2>5. QED
    BY <2>1, <2>4 DEF QuietOK
<1>2. CASE TakeData
  <2>1. /\ UNCHANGED <<kbd, cfg, obf, reply, raced, handled, biosConfig>>
        /\ ibf' = <<>> /\ ibf # <<>> /\ ibf[1] = "data"
        /\ sending' \in {sending, Append(sending, [from |-> "ack", bits |-> AckBits])}
    BY <1>2 DEF TakeData, hostVars
  <2>2. [from |-> "ack", bits |-> AckBits] \in KeyboardBytes
    BY DEF KeyboardBytes, AckBits, Bits
  <2>3. sending \in Seq(KeyboardBytes) => sending' \in Seq(KeyboardBytes)
    BY <2>1, <2>2
  <2>4. kbd \in {"scan", "ack", "done"}
    BY <2>1 DEF KbdOK, Conversation
  <2>5. Quiet => Quiet'
    BY <2>1, <2>4 DEF Quiet, SameXlat
  <2>6. QED
    BY <2>1, <2>3, <2>5 DEF QuietOK
<1>3. CASE DeliverReply
  <2>1. /\ UNCHANGED <<kbd, cfg, ibf, ccb, sending, raced, handled, biosConfig>>
        /\ reply # <<>> /\ obf = <<>> /\ obf' = reply /\ reply' = <<>>
    BY <1>3 DEF DeliverReply, hostVars
  <2>2. Quiet => kbd = "reply"
    BY <2>1 DEF Quiet, KbdOK
  <2>3. Reply(reply) => Reply(obf)'
    BY <2>1 DEF Reply, SameXlat
  <2>4. Quiet => Quiet'
    BY <2>1, <2>2, <2>3 DEF Quiet, SameXlat
  <2>5. QED
    BY <2>1, <2>4 DEF QuietOK
<1>4. CASE DeliverFromKeyboard
  <2>1. /\ UNCHANGED <<kbd, cfg, ibf, ccb, reply, handled, biosConfig>>
        /\ sending # <<>> /\ obf' = <<Head(sending)>> /\ sending' = Tail(sending)
        /\ raced' = (raced \/ kbd \in {"enable", "ask", "reply"})
    BY <1>4 DEF DeliverFromKeyboard, hostVars
  <2>2. raced' \in BOOLEAN
    BY <2>1
  <2>3. raced' = FALSE => kbd \notin {"enable", "ask", "reply"} /\ raced # TRUE
    BY <2>1
  <2>4. sending' \in Seq(KeyboardBytes) /\ Head(sending) \in KeyboardBytes
    BY <2>1 DEF QuietOK
  <2>5. obf' # <<>> /\ obf'[1].from # "reply"
    BY <2>1, <2>4 DEF KeyboardBytes
  <2>7. Quiet /\ kbd \notin {"enable", "ask", "reply"} => Quiet'
    BY <2>1, <2>5 DEF Quiet, SameXlat
  <2>8. QED
    BY <2>2, <2>3, <2>4, <2>7 DEF QuietOK
<1>5. CASE Type
  <2>1. /\ UNCHANGED <<kbd, cfg, obf, ibf, ccb, reply, raced, handled, biosConfig>>
        /\ \E bits \in KeyBits : sending' = Append(sending, [from |-> "key", bits |-> bits])
    BY <1>5 DEF Type
  <2>2. \A bits \in KeyBits : [from |-> "key", bits |-> bits] \in KeyboardBytes
    BY KbdAssumption DEF KeyboardBytes
  <2>3. sending \in Seq(KeyboardBytes) => sending' \in Seq(KeyboardBytes)
    BY <2>1, <2>2
  <2>4. Quiet => Quiet'
    BY <2>1 DEF Quiet, Reply, SameXlat
  <2>5. QED
    BY <2>1, <2>3, <2>4 DEF QuietOK
<1>6. CASE HandlerReads
  <2>1. kbd = "done" /\ irr /\ obf' = <<>> /\ handled' = handled \cup {obf[1].from}
        /\ UNCHANGED <<kbd, cfg, ibf, ccb, reply, sending, raced, biosConfig>>
    BY <1>6 DEF HandlerReads, Take, deviceVars
  <2>2. obf # <<>>
    BY <2>1 DEF KbdOK, Requested
  <2>3. Quiet => Quiet'
    BY <2>1, <2>2 DEF Quiet, SameXlat
  <2>4. QED
    BY <2>1, <2>3 DEF QuietOK
<1>7. QED
  BY <1>1, <1>2, <1>3, <1>4, <1>5, <1>6 DEF Controller

-----------------------------------------------------------------------------
(* The adapter.                                                            *)

LEMMA Mode13hTable ==
    /\ Files = {"misc", "seq", "crtc", "gc", "ac"}
    /\ Last("misc") = 0 /\ Last("seq") = 4 /\ Last("crtc") = 24 /\ Last("gc") = 8
    /\ Last("ac") = 20
    /\ mode13h["misc"][1] = 99 /\ mode13h["seq"][5] = 14
    /\ mode13h["crtc"][18] = 142 /\ mode13h["gc"][7] = 5
<1>1. Files = {"misc", "seq", "crtc", "gc", "ac"}
  BY DEF Files, mode13h
<1>2. /\ Len(mode13h["misc"]) = 1 /\ Len(mode13h["seq"]) = 5 /\ Len(mode13h["crtc"]) = 25
      /\ Len(mode13h["gc"]) = 9 /\ Len(mode13h["ac"]) = 21
  BY DEF mode13h
<1>3. /\ mode13h["misc"][1] = 99 /\ mode13h["seq"][5] = 14
      /\ mode13h["crtc"][18] = 142 /\ mode13h["gc"][7] = 5
  BY DEF mode13h
<1>4. QED
  BY <1>1, <1>2, <1>3 DEF Last

LEMMA TableOfNumbers ==
    ASSUME NEW file \in Files, NEW i \in 0..Last(file)
    PROVE  mode13h[file][i + 1] \in Nat
<1>1. /\ mode13h["misc"] \in Seq(Nat) /\ mode13h["seq"] \in Seq(Nat)
      /\ mode13h["crtc"] \in Seq(Nat) /\ mode13h["gc"] \in Seq(Nat) /\ mode13h["ac"] \in Seq(Nat)
  BY DEF mode13h
<1>2. mode13h[file] \in Seq(Nat)
  BY <1>1, Mode13hTable
<1>3. i + 1 \in 1..Len(mode13h[file])
  BY <1>2 DEF Last
<1>4. QED
  BY <1>2, <1>3

LEMMA VgaStays ==
    ASSUME VgaOK, UNCHANGED vgaVars
    PROVE  VgaOK'
  BY DEF VgaOK, vgaVars

\* Writing one register leaves the others.
LEMMA RegisterIsSet ==
    ASSUME Registers(vgaRegs), NEW file \in Files, NEW i \in 0..Last(file), NEW value \in Nat,
           SetReg(file, i, value)
    PROVE  /\ Registers(vgaRegs')
           /\ vgaRegs'[file][i] = value
           /\ \A f \in Files : \A j \in 0..Last(f) :
                 f # file \/ j # i => vgaRegs'[f][j] = vgaRegs[f][j]
<1>1. vgaRegs' = [vgaRegs EXCEPT ![file] = [vgaRegs[file] EXCEPT ![i] = value]]
  BY DEF SetReg
<1>2. [vgaRegs[file] EXCEPT ![i] = value] \in [0..Last(file) -> Nat]
  BY DEF Registers
<1>3. vgaRegs'[file] = [vgaRegs[file] EXCEPT ![i] = value]
  BY <1>1 DEF Registers
<1>4. \A f \in Files : f # file => vgaRegs'[f] = vgaRegs[f]
  BY <1>1 DEF Registers
<1>5. DOMAIN vgaRegs' = Files /\ vgaRegs' = [f \in Files |-> vgaRegs'[f]]
  BY <1>1 DEF Registers
<1>6. Registers(vgaRegs')
  BY <1>2, <1>3, <1>4, <1>5 DEF Registers
<1>7. QED
  BY <1>3, <1>4, <1>6 DEF Registers

\* One turn of the loop over a file: the registers before vi keep their values, and so
\* do the files that are not written.
LEMMA LoopTurns ==
    ASSUME Registers(vgaRegs), NEW file \in Files, vi \in 0..Last(file),
           SetUpTo(vgaRegs, file, vi), SetReg(file, vi, mode13h[file][vi + 1])
    PROVE  /\ Registers(vgaRegs')
           /\ SetUpTo(vgaRegs', file, vi + 1)
           /\ vi = Last(file) => AllSet(vgaRegs', file)
           /\ \A f \in Files : f # file /\ AllSet(vgaRegs, f) => AllSet(vgaRegs', f)
           /\ vgaRegs'[file][vi] = mode13h[file][vi + 1]
           /\ \A j \in 0..Last(file) : j # vi => vgaRegs'[file][j] = vgaRegs[file][j]
<1>1. mode13h[file][vi + 1] \in Nat
  BY TableOfNumbers
<1>2. /\ Registers(vgaRegs')
      /\ vgaRegs'[file][vi] = mode13h[file][vi + 1]
      /\ \A f \in Files : \A j \in 0..Last(f) :
            f # file \/ j # vi => vgaRegs'[f][j] = vgaRegs[f][j]
  BY <1>1, RegisterIsSet
<1>3. \A j \in 0..Last(file) : j < vi + 1 => j < vi \/ j = vi
  OBVIOUS
<1>4. SetUpTo(vgaRegs', file, vi + 1)
  BY <1>2, <1>3 DEF SetUpTo
<1>5. vi = Last(file) => \A j \in 0..Last(file) : j < vi + 1
  OBVIOUS
<1>6. vi = Last(file) => AllSet(vgaRegs', file)
  BY <1>4, <1>5 DEF SetUpTo, AllSet
<1>7. \A f \in Files : f # file /\ AllSet(vgaRegs, f) => AllSet(vgaRegs', f)
  BY <1>2 DEF AllSet
<1>8. QED
  BY <1>2, <1>4, <1>6, <1>7

\* What the BIOS left are registers.
LEMMA FoundRegisters ==
    ASSUME NEW m \in Nat, NEW r3 \in Nat, NEW r17 \in Nat
    PROVE  Registers(RegsWith(m, r3, r17))
<1> DEFINE rs == RegsWith(m, r3, r17)
<1>1. rs = [file \in Files |-> [i \in 0..Last(file) |->
            CASE file = "misc"             -> m
              [] file = "crtc" /\ i = 3    -> r3
              [] file = "crtc" /\ i = 17   -> r17
              [] OTHER                     -> 0]]
  BY DEF RegsWith, Files, Last
<1>2. \A file \in Files : rs[file] \in [0..Last(file) -> Nat]
  BY <1>1
<1>3. QED
  BY <1>1, <1>2 DEF Registers

\* With the miscellaneous register set, the CRTC answers where it is written to.
LEMMA ColourAddresses ==
    ASSUME AllSet(vgaRegs, "misc")
    PROVE  Colour
<1>1. vgaRegs["misc"][0] = 99
  BY Mode13hTable DEF AllSet
<1>2. QED
  BY <1>1 DEF Colour

LEMMA CrtcIsWritten ==
    ASSUME Registers(vgaRegs), NEW i \in {3, 17}, NEW value \in Nat, WriteCrtc(i, value)
    PROVE  /\ Registers(vgaRegs')
           /\ \A f \in Files : f # "crtc" /\ AllSet(vgaRegs, f) => AllSet(vgaRegs', f)
           /\ i = 17 /\ AllSet(vgaRegs, "misc") => vgaRegs'["crtc"][17] = value
<1>1. CASE Colour /\ ~Protected(i)
  <2>1. "crtc" \in Files /\ i \in 0..Last("crtc") /\ SetReg("crtc", i, value)
    BY <1>1, Mode13hTable DEF WriteCrtc
  <2>2. QED
    BY <2>1, RegisterIsSet DEF AllSet
<1>2. CASE ~(Colour /\ ~Protected(i))
  <2>1. vgaRegs' = vgaRegs
    BY <1>2 DEF WriteCrtc
  <2>2. i = 17 => ~Protected(i)
    BY DEF Protected
  <2>3. QED
    BY <1>2, <2>1, <2>2, ColourAddresses
<1>3. QED
  BY <1>1, <1>2

LEMMA VgaInits == VgaInit => VgaOK
<1> SUFFICES ASSUME VgaInit PROVE VgaOK
  OBVIOUS
<1>1. Registers(vgaRegs)
  BY FoundRegisters DEF VgaInit
<1>2. QED
  BY <1>1, Mode13hTable DEF VgaInit, VgaOK, AfterMisc, AfterSeq, AfterUnlock, AfterCrtc, AfterGc,
                            AfterAc, AfterUnblank

LEMMA VgaSteps ==
    ASSUME VgaOK, VgaNext
    PROVE  VgaOK'
<1> USE Mode13hTable
<1> USE DEF AfterMisc, AfterSeq, AfterUnlock, AfterCrtc, AfterGc, AfterAc, AfterUnblank
<1>1. Registers(vgaRegs) /\ vi \in Nat
  BY DEF VgaOK
<1>12. vgaRegs["crtc"][3] \in Nat /\ vgaRegs["crtc"][17] \in Nat
  <2>1. 3 \in 0..Last("crtc") /\ 17 \in 0..Last("crtc") /\ "crtc" \in Files
    OBVIOUS
  <2>2. vgaRegs["crtc"] \in [0..Last("crtc") -> Nat]
    BY <1>1, <2>1 DEF Registers
  <2>3. QED
    BY <2>1, <2>2
<1>2. CASE VgaFound
  <2>1. Registers(vgaRegs')
    BY <1>2, FoundRegisters DEF VgaFound
  <2>2. vga = "off" /\ vi = 0 /\ vga' = "misc" /\ vi' = 0
    BY <1>2 DEF VgaFound, VgaOK
  <2>3. SetUpTo(vgaRegs', "misc", 0)
    BY DEF SetUpTo
  <2>4. QED
    BY <2>1, <2>2, <2>3 DEF VgaOK
<1>3. CASE SetPlain
  <2>1. vga \in {"misc", "seq", "gc"} /\ vi \in 0..Last(vga) /\ SetUpTo(vgaRegs, vga, vi)
    BY <1>3 DEF SetPlain, Count, VgaOK
  <2>2. /\ Registers(vgaRegs')
        /\ SetUpTo(vgaRegs', vga, vi + 1)
        /\ vi = Last(vga) => AllSet(vgaRegs', vga)
        /\ \A f \in Files : f # vga /\ AllSet(vgaRegs, f) => AllSet(vgaRegs', f)
    BY <1>1, <1>3, <2>1, LoopTurns DEF SetPlain
  <2>3. CASE vi < Last(vga)
    <3>1. vi' = vi + 1 /\ vga' = vga
      BY <1>3, <2>3 DEF SetPlain, Count
    <3>2. QED
      BY <2>1, <2>2, <2>3, <3>1 DEF VgaOK
  <2>4. CASE vi = Last(vga)
    <3>1. vi' = 0 /\ vga' = CASE vga = "misc" -> "seq" [] vga = "seq" -> "unlock3"
                              [] vga = "gc" -> "ac"
      BY <1>3, <2>1, <2>4 DEF SetPlain, Count
    <3>2. \A f : SetUpTo(vgaRegs', f, 0)
      BY DEF SetUpTo
    <3>3. QED
      BY <2>1, <2>2, <2>4, <3>1, <3>2 DEF VgaOK
  <2>5. QED
    BY <2>1, <2>3, <2>4
<1>4. CASE Unlock3
  <2>1. /\ vga = "unlock3" /\ vga' = "unlock17" /\ vi' = 0 /\ vi = 0
    BY <1>4 DEF Unlock3, Count, VgaOK
  <2>2. /\ Registers(vgaRegs')
        /\ \A f \in Files : f # "crtc" /\ AllSet(vgaRegs, f) => AllSet(vgaRegs', f)
    <3>1. (vgaRegs["crtc"][3] % 128) + 128 \in Nat
      BY <1>12
    <3>2. WriteCrtc(3, (vgaRegs["crtc"][3] % 128) + 128)
      BY <1>4 DEF Unlock3
    <3>3. QED
      BY <1>1, <3>1, <3>2, CrtcIsWritten
  <2>3. QED
    BY <1>4, <2>1, <2>2 DEF VgaOK
<1>5. CASE Unlock17
  <2>1. /\ vga = "unlock17" /\ vga' = "crtc" /\ vi' = 0 /\ vi = 0 /\ AllSet(vgaRegs, "misc")
    BY <1>5 DEF Unlock17, Count, VgaOK
  <2>3. ProtectOff(vgaRegs["crtc"][17]) \in 0..127
    BY <1>12 DEF ProtectOff
  <2>4. /\ Registers(vgaRegs') /\ vgaRegs'["crtc"][17] < 128
        /\ \A f \in Files : f # "crtc" /\ AllSet(vgaRegs, f) => AllSet(vgaRegs', f)
    BY <1>1, <1>5, <2>1, <2>3, CrtcIsWritten DEF Unlock17, Protected
  <2>5. SetUpTo(vgaRegs', "crtc", 0)
    BY DEF SetUpTo
  <2>6. QED
    BY <2>1, <2>4, <2>5 DEF VgaOK
<1>6. CASE SetCrtc
  <2>1. /\ vga = "crtc" /\ vi \in 0..Last("crtc") /\ SetUpTo(vgaRegs, "crtc", vi)
        /\ AllSet(vgaRegs, "misc") /\ (vi <= 17 => vgaRegs["crtc"][17] < 128)
    BY <1>6 DEF SetCrtc, Count, VgaOK
  <2>2. ~Protected(vi) /\ Colour
    BY <1>12, <2>1, ColourAddresses DEF Protected
  <2>3. SetReg("crtc", vi, mode13h["crtc"][vi + 1])
    BY <1>6, <2>2 DEF SetCrtc, WriteCrtc
  <2>4. /\ Registers(vgaRegs')
        /\ SetUpTo(vgaRegs', "crtc", vi + 1)
        /\ vi = Last("crtc") => AllSet(vgaRegs', "crtc")
        /\ \A f \in Files : f # "crtc" /\ AllSet(vgaRegs, f) => AllSet(vgaRegs', f)
        /\ \A j \in 0..Last("crtc") : j # vi => vgaRegs'["crtc"][j] = vgaRegs["crtc"][j]
    BY <1>1, <2>1, <2>3, LoopTurns
  <2>5. CASE vi < Last("crtc")
    <3>1. vi' = vi + 1 /\ vga' = "crtc"
      BY <1>6, <2>5 DEF SetCrtc, Count
    <3>2. vi' <= 17 => vgaRegs'["crtc"][17] < 128
      BY <2>1, <2>4, <3>1
    <3>3. QED
      BY <2>1, <2>4, <2>5, <3>1, <3>2 DEF VgaOK
  <2>6. CASE vi = Last("crtc")
    <3>1. vi' = 0 /\ vga' = "gc"
      BY <1>6, <2>6 DEF SetCrtc, Count
    <3>2. SetUpTo(vgaRegs', "gc", 0)
      BY DEF SetUpTo
    <3>3. QED
      BY <2>1, <2>4, <2>6, <3>1, <3>2 DEF VgaOK
  <2>7. QED
    BY <2>1, <2>5, <2>6
<1>7. CASE SetAc
  <2>1. /\ vga = "ac" /\ vi \in 0..Last("ac") /\ SetUpTo(vgaRegs, "ac", vi)
    BY <1>7 DEF SetAc, Count, VgaOK
  <2>2. SetReg("ac", vi, mode13h["ac"][vi + 1])
    BY <1>7 DEF SetAc, WriteAc, AfterStatusRead
  <2>3. /\ Registers(vgaRegs')
        /\ SetUpTo(vgaRegs', "ac", vi + 1)
        /\ vi = Last("ac") => AllSet(vgaRegs', "ac")
        /\ \A f \in Files : f # "ac" /\ AllSet(vgaRegs, f) => AllSet(vgaRegs', f)
    BY <1>1, <2>1, <2>2, LoopTurns
  <2>4. CASE vi < Last("ac")
    <3>1. vi' = vi + 1 /\ vga' = "ac"
      BY <1>7, <2>4 DEF SetAc, Count
    <3>2. QED
      BY <2>1, <2>3, <2>4, <3>1 DEF VgaOK
  <2>5. CASE vi = Last("ac")
    <3>1. vi' = 0 /\ vga' = "unblank"
      BY <1>7, <2>5 DEF SetAc, Count
    <3>2. QED
      BY <2>1, <2>3, <2>5, <3>1 DEF VgaOK
  <2>6. QED
    BY <2>1, <2>4, <2>5
<1>8. CASE Unblank
  <2>1. vga = "unblank" /\ vga' = "front" /\ vi' = 0 /\ pas' = TRUE /\ vgaRegs' = vgaRegs
    BY <1>8 DEF Unblank, Count, VgaOK
  <2>2. QED
    BY <2>1 DEF VgaOK
<1>9. CASE vga_clear_front_buffer
  <2>1. /\ vga = "front" /\ vga' = "back" /\ vi' = 0 /\ pas' = pas /\ vgaRegs' = vgaRegs
        /\ video' = IF MappedAtA0000 THEN "black" ELSE video
    BY <1>9 DEF vga_clear_front_buffer, Count, VgaOK
  <2>2. vgaRegs["gc"][6] = 5 /\ vgaRegs["seq"][4] = 14
    BY <2>1 DEF VgaOK, AllSet
  <2>3. MappedAtA0000
    BY <2>2 DEF MappedAtA0000
  <2>4. QED
    BY <2>1, <2>3 DEF VgaOK
<1>10. CASE vga_clear_back_buffer
  <2>1. /\ vga = "back" /\ vga' = "set" /\ vi' = 0 /\ backBuffer' = "black"
        /\ UNCHANGED <<vgaRegs, pas, video>>
    BY <1>10 DEF vga_clear_back_buffer, Count, VgaOK
  <2>2. QED
    BY <2>1 DEF VgaOK
<1>11. QED
  BY <1>2, <1>3, <1>4, <1>5, <1>6, <1>7, <1>8, <1>9, <1>10 DEF VgaNext

-----------------------------------------------------------------------------
(* The boot.                                                               *)

LEMMA BootStarts == BootInit => BootInv
  BY LoaderInits, VgaInits, KbdInits, AtaInits DEF BootInit, BootInv

LEMMA BootKept ==
    ASSUME BootInv, [BootNext]_bootVars
    PROVE  BootInv'
<1>1. LoaderOK /\ VgaOK /\ KbdOK /\ QuietOK /\ AtaOK
  BY DEF BootInv
<1>2. CASE Proceed
  <2>1. UNCHANGED loaderVars /\ UNCHANGED vgaVars /\ UNCHANGED kbdVars /\ UNCHANGED ataVars
    BY <1>2 DEF Proceed
  <2>2. QED
    BY <1>1, <2>1, LoaderStays, VgaStays, KbdStays, AtaStays DEF BootInv
<1>3. CASE Load
  <2>1. LoaderNext /\ UNCHANGED vgaVars /\ UNCHANGED kbdVars /\ UNCHANGED ataVars
    BY <1>3 DEF Load
  <2>2. QED
    BY <1>1, <2>1, LoaderSteps, VgaStays, KbdStays, AtaStays DEF BootInv
<1>4. CASE SetMode
  <2>1. VgaNext /\ UNCHANGED loaderVars /\ UNCHANGED kbdVars /\ UNCHANGED ataVars
    BY <1>4 DEF SetMode
  <2>2. QED
    BY <1>1, <2>1, LoaderStays, VgaSteps, KbdStays, AtaStays DEF BootInv
<1>5. CASE SetUpKeyboard
  <2>1. keyboard_init /\ UNCHANGED loaderVars /\ UNCHANGED vgaVars /\ UNCHANGED ataVars
    BY <1>5 DEF SetUpKeyboard
  <2>2. QED
    BY <1>1, <2>1, LoaderStays, VgaStays, InitKeepsKbd, InitKeepsQuiet, AtaStays DEF BootInv
<1>6. CASE ReadWad \/ DriveAnswers
  <2>1. Next /\ UNCHANGED loaderVars /\ UNCHANGED vgaVars /\ UNCHANGED kbdVars
    BY <1>6 DEF ReadWad, DriveAnswers, Next
  <2>2. QED
    BY <1>1, <2>1, LoaderStays, VgaStays, KbdStays, AtaSteps DEF BootInv
<1>7. CASE KeyboardAnswers \/ SomebodyTypes \/ KeyInterrupt
  <2>1. /\ Controller \/ Type \/ HandlerReads
        /\ UNCHANGED loaderVars /\ UNCHANGED vgaVars /\ UNCHANGED ataVars
    BY <1>7 DEF KeyboardAnswers, SomebodyTypes, KeyInterrupt
  <2>2. QED
    BY <1>1, <2>1, LoaderStays, VgaStays, DeviceKeepsKbd, DeviceKeepsQuiet, AtaStays DEF BootInv
<1>8. CASE UNCHANGED bootVars
  <2>1. UNCHANGED loaderVars /\ UNCHANGED vgaVars /\ UNCHANGED kbdVars /\ UNCHANGED ataVars
    BY <1>8 DEF bootVars
  <2>2. QED
    BY <1>1, <2>1, LoaderStays, VgaStays, KbdStays, AtaStays DEF BootInv
<1>9. QED
  BY <1>2, <1>3, <1>4, <1>5, <1>6, <1>7, <1>8 DEF BootNext, Processor

LEMMA BootInvariant == BootSpec => []BootInv
<1>1. BootInit => BootInv
  BY BootStarts
<1>2. BootInv /\ [BootNext]_bootVars => BootInv'
  BY BootKept
<1>3. QED
  BY <1>1, <1>2, PTL DEF BootSpec

\* The sectors behind the kernel are the WAD's, from sector WadLba on.
LEMMA WadInImage ==
    ASSUME LoaderOK, NEW i \in Nat
    PROVE  Image(lba + i) = IF i < wadSize THEN Wad(i) ELSE Zero
<1>1. WadLba \in Nat /\ kernelSize \in Nat /\ wadSize \in Nat /\ 1 + kernelSize <= WadLba
      /\ lba = WadLba
  BY LoaderAssumption, BootAssumption DEF LoaderOK
<1>2. WadStart = WadLba
  BY <1>1 DEF WadStart
<1>3. lba + i # 0 /\ lba + i \notin 1..kernelSize
  BY <1>1
<1>4. lba + i \in WadLba..(WadLba + wadSize - 1) <=> i < wadSize
  BY <1>1
<1>5. (lba + i) - WadLba = i
  BY <1>1
<1>6. QED
  BY <1>2, <1>3, <1>4, <1>5 DEF Image

LEMMA ImageIsBuilt ==
    ASSUME BootInv
    PROVE  AsBuilt
<1>1. KernelAsBuilt
  BY DEF BootInv, LoaderOK
<1>2. ASSUME pc = "done", NEW i \in 0..sector_count - 1
      PROVE  /\ Image(memory[i]) = IF i < wadSize THEN Wad(i) ELSE Zero
             /\ memory[i] \notin bad
  <2>1. i \in Nat /\ i < buffer
    BY <1>2, AtaAssumption DEF BootInv, AtaOK
  <2>2. memory[i] = lba + i /\ lba + i \notin bad
    BY <2>1 DEF BootInv, AtaOK
  <2>3. QED
    BY <2>1, <2>2, WadInImage DEF BootInv
<1>3. QED
  BY <1>1, <1>2 DEF AsBuilt

\* For every size of kernel, .bss and WAD that build.py lets through, the kernel runs
\* with all of its image and a clear .bss, and what ata_read_sectors stores is the WAD
\* and zeros, every sector from its place on disk and none that could not be read,
\* however the transfer is cut into commands.
THEOREM KernelAndWadAsBuilt == BootSpec => []AsBuilt
<1>1. BootInv => AsBuilt
  BY ImageIsBuilt
<1>2. QED
  BY <1>1, BootInvariant, PTL

\* vga_init ends in mode 13h with a clear screen, whatever state the BIOS left the
\* adapter in.
THEOREM ScreenIsSet == BootSpec => []Mode13hSet
<1>1. BootInv => Mode13hSet
  <2>1. SUFFICES ASSUME BootInv, vga = "set" PROVE Mode13hSet
    BY DEF Mode13hSet
  <2>2. /\ AllSet(vgaRegs, "misc") /\ AllSet(vgaRegs, "seq") /\ AllSet(vgaRegs, "crtc")
        /\ AllSet(vgaRegs, "gc") /\ AllSet(vgaRegs, "ac")
        /\ pas /\ video = "black" /\ backBuffer = "black"
    BY <2>1 DEF BootInv, VgaOK, AfterMisc, AfterSeq, AfterUnlock, AfterCrtc, AfterGc, AfterAc,
                AfterUnblank
  <2>3. DOMAIN mode13h = {"misc", "seq", "crtc", "gc", "ac"}
    BY Mode13hTable DEF Files
  <2>4. QED
    BY <2>2, <2>3 DEF Mode13hSet, AllSet
<1>2. QED
  BY <1>1, BootInvariant, PTL

\* keyboard_init leaves a keyboard that is clocked and that interrupts, and no byte
\* without its request, whatever the BIOS left and whenever keys are typed.
THEOREM KeyboardStartsReady == BootSpec => []KeyboardReady
<1>1. BootInv => KeyboardReady
  BY DEF BootInv, KbdOK, Conversation, Latched, KeyboardReady
<1>2. QED
  BY <1>1, BootInvariant, PTL

\* Without a key between the drain and the reply, the configuration that is written back
\* is the BIOS's, and the reply is never taken for a scancode.
THEOREM QuietStartsAreClean == BootSpec => []QuietStartIsClean
<1>1. BootInv => QuietStartIsClean
  <2>1. SUFFICES ASSUME BootInv, raced = FALSE PROVE ConfigKept /\ "reply" \notin handled
    BY DEF QuietStartIsClean, BootInv, QuietOK
  <2>2. Quiet
    BY <2>1 DEF BootInv, QuietOK
  <2>3. QED
    BY <2>1, <2>2 DEF BootInv, KbdOK, Quiet, ConfigKept, SameXlat
<1>2. QED
  BY <1>1, BootInvariant, PTL

-----------------------------------------------------------------------------
(* Why every boot comes to an end.  Each step of the processor, the drive,   *)
(* the controller and the typist uses up some of a stock of work, and while   *)
(* the boot is not over, one of them can take a step.                        *)

\* What the loader still has to do.
LoaderWork ==
    CASE ldr = "check" -> cx + 7
      [] ldr = "chunks" -> cx + 6
      [] ldr = "rest" -> 5
      [] ldr = "a20" -> 4
      [] ldr = "copy" -> 3
      [] ldr = "bss" -> 2
      [] ldr = "kernel" -> 1
      [] OTHER -> 0

\* The registers vga_init still has to write, and the buffers to clear.
VgaWork ==
    CASE vga = "off" -> 67
      [] vga = "misc" -> 66 - vi
      [] vga = "seq" -> 65 - vi
      [] vga = "unlock3" -> 60
      [] vga = "unlock17" -> 59
      [] vga = "crtc" -> 58 - vi
      [] vga = "gc" -> 33 - vi
      [] vga = "ac" -> 24 - vi
      [] vga = "unblank" -> 3
      [] vga = "front" -> 2
      [] vga = "back" -> 1
      [] OTHER -> 0

\* The lines of keyboard_init that are to come: each may put a byte on its way, which
\* takes up to three more steps to where it is read; a key, another.
LinesLeft ==
    CASE kbd = "off" -> 9
      [] kbd = "drain" -> 8
      [] kbd = "enable" -> 7
      [] kbd = "ask" -> 6
      [] kbd = "reply" -> 5
      [] kbd = "write" -> 4
      [] kbd = "param" -> 3
      [] kbd = "scan" -> 2
      [] kbd = "ack" -> 1
      [] OTHER -> 0

StepsOf(bytes, steps) == IF bytes = <<>> THEN 0 ELSE steps
HostWork == 4 * LinesLeft + StepsOf(ibf, 3) + StepsOf(obf, 1)
DeviceWork == StepsOf(reply, 2) + 2 * Len(sending) + 3 * (MaxTyped - typed)
KbdWork == HostWork + DeviceWork

\* What is left of the transfer: a sector takes at most a command, two waits and the
\* drive's answer.
PollsLeft == CASE pc = "ready" -> 3 [] pc = "busy" -> 1 [] OTHER -> 0
AtaWork == 4 * (sector_count - buffer) + PollsLeft + (IF status = "busy" THEN 1 ELSE 0)

StagesLeft ==
    CASE stage = "loader" -> 3 [] stage = "video" -> 2 [] stage = "keyboard" -> 1 [] OTHER -> 0

BootWork == StagesLeft + LoaderWork + VgaWork + KbdWork + AtaWork

\* Every step uses up work, of which there is a finite amount: no loop of the boot, no
\* poll that is answered, no drain and no conversation goes round for ever, however
\* much is typed within the bound.
BootWindsDown == [][BootWork' \in Nat /\ BootWork' < BootWork]_bootVars

\* The guards of the actions that fairness is about: of keyboard_init, once it runs,
\* of the controller and of the disk driver.
HostCanGo ==
    CASE kbd = "reply" -> obf # <<>>
      [] kbd \in {"param", "scan"} -> ibf = <<>>
      [] OTHER -> TRUE
ControllerCanGo ==
    \/ ibf # <<>>
    \/ reply # <<>> /\ obf = <<>>
    \/ sending # <<>> /\ obf = <<>> /\ reply = <<>> /\ "off" \notin ccb
DriverCanGo ==
    CASE pc \in {"ready", "busy"} -> status # "busy"
      [] pc = "drq" -> status = "drq"
      [] OTHER -> FALSE
SomeoneCanGo ==
    CASE stage = "loader" -> ldr # "hung"
      [] stage = "video" -> TRUE
      [] stage = "keyboard" -> HostCanGo \/ ControllerCanGo
      [] OTHER -> DriverCanGo \/ status = "busy" \/ ControllerCanGo \/ (pc = "done" /\ irr)

\* The two ways to fail, a read error of the BIOS and one of the drive, and the end:
\* the WAD is in memory and no byte of the keyboard is left behind.
BootOver ==
    \/ ldr = "hung"
    \/ status = "error" /\ bad # {}
    \/ stage = "disk" /\ pc = "done" /\ sending = <<>> /\ obf = <<>>

\* No wait for the drive or the controller is for something that does not come, and no
\* byte of the keyboard waits for a request that was lost.
NeverStuck == SomeoneCanGo \/ BootOver

\* What that needs beyond BootInv: where the parts are, that the answer to 0x20 is always
\* on its way, and that the drive fails over bad sectors only.
Underway ==
    /\ stage \in {"loader", "video", "keyboard", "disk"}
    /\ stage = "disk" => kbd = "done"
    /\ typed \in 0..MaxTyped
    /\ kbd = "reply" => ibf # <<>> \/ reply # <<>> \/ obf # <<>>
    /\ status \in {"idle", "busy", "drq", "error"}
    /\ status = "error" => bad # {}

LEMMA UnderwayStarts == BootInit => Underway
  BY KbdAssumption DEF BootInit, KbdInit, Init, Underway

LEMMA UnderwayKept ==
    ASSUME BootInv, Underway, [BootNext]_bootVars
    PROVE  Underway'
<1>1. CASE Proceed
  BY <1>1 DEF Proceed, Underway, kbdVars, ataVars, vars, driveVars
<1>2. CASE Load \/ SetMode
  BY <1>2 DEF Load, SetMode, Underway, kbdVars, ataVars, vars, driveVars
<1>3. CASE SetUpKeyboard
  <2>1. /\ stage = "keyboard" /\ stage' = stage /\ status' = status /\ bad' = bad
        /\ typed' = typed
    BY <1>3 DEF SetUpKeyboard, ataVars, vars, driveVars, keyboard_init, KbdFound, deviceVars,
                DrainByte, Drained, EnablePort, AskConfig, ReadReply, WriteCommand, WriteConfig,
                EnableScanning, ReadAck, NoAck, Write
  <2>2. kbd' = "reply" => ibf' # <<>>
    BY <1>3 DEF SetUpKeyboard, keyboard_init, KbdFound,
                DrainByte, Drained, EnablePort, AskConfig, ReadReply, WriteCommand, WriteConfig,
                EnableScanning, ReadAck, NoAck, Write
  <2>3. QED
    BY <2>1, <2>2 DEF Underway
<1>4. CASE ReadWad
  BY <1>4 DEF ReadWad, Driver, SendCommand, NotBusy, ReadSector, Underway, kbdVars, driveVars
<1>5. CASE DriveAnswers
  BY <1>5 DEF DriveAnswers, Drive, DeliverSector, FailSector, Underway, kbdVars
<1>6. CASE KeyboardAnswers
  <2>1. /\ stage' = stage /\ status' = status /\ bad' = bad /\ kbd' = kbd /\ typed' = typed
        /\ Controller
    BY <1>6 DEF KeyboardAnswers, ataVars, vars, driveVars, Controller, TakeCommand, TakeData,
                DeliverReply, DeliverFromKeyboard, hostVars
  <2>2. ASSUME kbd = "reply" PROVE reply' # <<>> \/ obf' # <<>>
    <3>1. ibf \in {<<>>, <<"read", {}>>}
      BY <2>2 DEF BootInv, KbdOK, Conversation
    <3>2. CASE TakeCommand
      BY <3>1, <3>2 DEF TakeCommand
    <3>3. CASE TakeData
      BY <3>1, <3>3 DEF TakeData
    <3>4. CASE DeliverReply
      BY <3>4 DEF DeliverReply
    <3>5. CASE DeliverFromKeyboard
      BY <3>5 DEF DeliverFromKeyboard
    <3>6. QED
      BY <2>1, <3>2, <3>3, <3>4, <3>5 DEF Controller
  <2>3. QED
    BY <2>1, <2>2 DEF Underway
<1>7. CASE SomebodyTypes
  BY <1>7, KbdAssumption DEF SomebodyTypes, Type, Underway, ataVars, vars, driveVars
<1>8. CASE KeyInterrupt
  BY <1>8 DEF KeyInterrupt, HandlerReads, deviceVars, Underway, ataVars, vars, driveVars
<1>9. CASE UNCHANGED bootVars
  BY <1>9 DEF bootVars, Underway, kbdVars, ataVars, vars, driveVars
<1>10. QED
  BY <1>1, <1>2, <1>3, <1>4, <1>5, <1>6, <1>7, <1>8, <1>9 DEF BootNext, Processor

LEMMA UnderwayInvariant == BootSpec => [](BootInv /\ Underway)
<1>1. BootInit => BootInv /\ Underway
  BY BootStarts, UnderwayStarts
<1>2. BootInv /\ Underway /\ [BootNext]_bootVars => BootInv' /\ Underway'
  BY BootKept, UnderwayKept
<1>3. QED
  BY <1>1, <1>2, PTL DEF BootSpec

\* The work of each part is a number, and a step of the part uses some of it up.
LEMMA LoaderWorkIsNat == ASSUME LoaderOK PROVE LoaderWork \in Nat
  BY DEF LoaderOK, LoaderWork

LEMMA LoaderWorks ==
    ASSUME LoaderOK, LoaderNext
    PROVE  LoaderWork' \in Int /\ LoaderWork' < LoaderWork
  BY DEF LoaderOK, LoaderWork, LoaderNext, BiosFails, CheckLba, ReadChunk, ReadRest, enable_a20,
         CopyHigh, ZeroBss

LEMMA VgaWorkIsNat == ASSUME VgaOK PROVE VgaWork \in Nat
  BY Mode13hTable DEF VgaOK, VgaWork, AfterMisc, AfterSeq, AfterUnlock, AfterCrtc, AfterGc,
                      AfterAc, AfterUnblank

LEMMA VgaWorks ==
    ASSUME VgaOK, VgaNext
    PROVE  VgaWork' \in Int /\ VgaWork' < VgaWork
<1> USE Mode13hTable
<1>1. vi \in Nat /\ (vga \in Files => vi <= Last(vga)) /\ (vga \notin Files => vi = 0)
  BY DEF VgaOK
<1>2. CASE VgaFound
  BY <1>1, <1>2 DEF VgaFound, VgaWork
<1>3. CASE SetPlain
  BY <1>1, <1>3 DEF SetPlain, Count, VgaWork
<1>4. CASE Unlock3 \/ Unlock17
  BY <1>1, <1>4 DEF Unlock3, Unlock17, Count, VgaWork
<1>5. CASE SetCrtc \/ SetAc
  BY <1>1, <1>5 DEF SetCrtc, SetAc, Count, VgaWork
<1>6. CASE Unblank \/ vga_clear_front_buffer \/ vga_clear_back_buffer
  BY <1>1, <1>6 DEF Unblank, vga_clear_front_buffer, vga_clear_back_buffer, Count, VgaWork
<1>7. QED
  BY <1>2, <1>3, <1>4, <1>5, <1>6 DEF VgaNext

LEMMA HostWorkIsNat == HostWork \in Nat /\ HostWork' \in Nat
  BY DEF HostWork, LinesLeft, StepsOf

LEMMA KbdWorkIsNat ==
    ASSUME QuietOK, typed \in 0..MaxTyped
    PROVE  DeviceWork \in Nat /\ KbdWork \in Nat
<1>1. Len(sending) \in Nat /\ MaxTyped - typed \in Nat
  BY KbdAssumption DEF QuietOK
<1>2. DeviceWork \in Nat
  BY <1>1 DEF DeviceWork, StepsOf
<1>3. QED
  BY <1>2, HostWorkIsNat DEF KbdWork

LEMMA InitWorks ==
    ASSUME KbdOK, QuietOK, typed \in 0..MaxTyped, keyboard_init
    PROVE  KbdWork' \in Int /\ KbdWork' < KbdWork
<1>1. UNCHANGED <<reply, sending, typed>>
  BY DEF keyboard_init, KbdFound, deviceVars, DrainByte, Drained, EnablePort, AskConfig,
         ReadReply, WriteCommand, WriteConfig, EnableScanning, ReadAck, NoAck, Write
<1>2. DeviceWork' = DeviceWork
  BY <1>1 DEF DeviceWork, StepsOf
<1>3. HostWork' < HostWork
  <2>1. CASE KbdFound
    BY <2>1 DEF KbdFound, HostWork, LinesLeft, StepsOf
  <2>2. CASE DrainByte \/ ReadReply \/ ReadAck
    BY <2>2 DEF DrainByte, ReadReply, ReadAck, Take, HostWork, LinesLeft, StepsOf
  <2>3. CASE Drained \/ NoAck
    BY <2>3 DEF Drained, NoAck, HostWork, LinesLeft, StepsOf
  <2>4. CASE EnablePort \/ AskConfig \/ WriteCommand \/ WriteConfig \/ EnableScanning
    BY <2>4 DEF EnablePort, AskConfig, WriteCommand, WriteConfig, EnableScanning, Write,
                HostWork, LinesLeft, StepsOf
  <2>5. QED
    BY <2>1, <2>2, <2>3, <2>4 DEF keyboard_init
<1>4. QED
  BY <1>2, <1>3, HostWorkIsNat, KbdWorkIsNat DEF KbdWork

LEMMA DeviceWorks ==
    ASSUME KbdOK, QuietOK, typed \in 0..MaxTyped, Controller \/ Type \/ HandlerReads
    PROVE  KbdWork' \in Int /\ KbdWork' < KbdWork
<1>1. Len(sending) \in Nat /\ typed \in Nat /\ MaxTyped \in Nat /\ sending \in Seq(KeyboardBytes)
  BY KbdAssumption DEF QuietOK
<1>2. \A b : Len(Append(sending, b)) = Len(sending) + 1
  BY <1>1
<1>3. kbd' = kbd
  BY DEF Controller, TakeCommand, TakeData, DeliverReply, DeliverFromKeyboard, hostVars, Type,
         HandlerReads
<1>4. LinesLeft \in Nat /\ LinesLeft' = LinesLeft
  BY <1>3 DEF LinesLeft
<1>5. CASE TakeCommand
  BY <1>1, <1>4, <1>5 DEF TakeCommand, hostVars, KbdWork, HostWork, DeviceWork, StepsOf
<1>6. CASE TakeData
  <2>1. Len(sending') \in Nat /\ Len(sending') <= Len(sending) + 1
    BY <1>1, <1>2, <1>6 DEF TakeData
  <2>2. ibf # <<>> /\ ibf' = <<>> /\ UNCHANGED <<obf, reply, typed>>
    BY <1>6 DEF TakeData, hostVars
  <2>3. QED
    BY <1>1, <1>4, <2>1, <2>2 DEF KbdWork, HostWork, DeviceWork, StepsOf
<1>7. CASE DeliverReply
  BY <1>1, <1>4, <1>7 DEF DeliverReply, hostVars, KbdWork, HostWork, DeviceWork, StepsOf
<1>8. CASE DeliverFromKeyboard
  <2>1. Len(sending') = Len(sending) - 1
    BY <1>1, <1>8 DEF DeliverFromKeyboard
  <2>2. obf = <<>> /\ UNCHANGED <<ibf, reply, typed>>
    BY <1>8 DEF DeliverFromKeyboard, hostVars
  <2>3. QED
    BY <1>1, <1>4, <2>1, <2>2 DEF KbdWork, HostWork, DeviceWork, StepsOf
<1>9. CASE Type
  <2>1. Len(sending') = Len(sending) + 1
    BY <1>2, <1>9 DEF Type
  <2>2. typed' = typed + 1 /\ UNCHANGED <<ibf, obf, reply>>
    BY <1>9 DEF Type
  <2>3. QED
    BY <1>1, <1>4, <2>1, <2>2 DEF KbdWork, HostWork, DeviceWork, StepsOf
<1>10. CASE HandlerReads
  <2>1. obf # <<>> /\ obf' = <<>> /\ UNCHANGED <<ibf, reply, sending, typed>>
    BY <1>10 DEF HandlerReads, Take, deviceVars, KbdOK, Requested
  <2>2. QED
    BY <1>1, <1>4, <2>1 DEF KbdWork, HostWork, DeviceWork, StepsOf
<1>11. QED
  BY <1>5, <1>6, <1>7, <1>8, <1>9, <1>10 DEF Controller

LEMMA AtaWorkIsNat == ASSUME AtaOK PROVE AtaWork \in Nat
<1>1. buffer \in Nat /\ sector_count \in Nat
  BY AtaAssumption DEF AtaOK
<1>2. buffer <= sector_count
  BY <1>1, AtaAssumption DEF AtaOK, Transfer
<1>3. QED
  BY <1>1, <1>2 DEF AtaWork, PollsLeft

\* The drive is not busy when the last sector of a command has been taken, so that the
\* command that follows is paid for by the sector.
LEMMA AtaWorks ==
    ASSUME AtaOK, Next
    PROVE  AtaWork' \in Int /\ AtaWork' < AtaWork
<1>1. buffer \in Nat /\ sector_count \in Nat
  BY AtaAssumption DEF AtaOK
<1>2. CASE SendCommand
  BY <1>1, <1>2 DEF SendCommand, AtaWork, PollsLeft
<1>3. CASE NotBusy
  BY <1>1, <1>3 DEF NotBusy, driveVars, AtaWork, PollsLeft
<1>4. CASE ReadSector
  <2>1. s \in Int /\ chunk \in Int /\ left = chunk - s
    BY <1>4, AtaAssumption DEF ReadSector, DataReady, AtaOK, Transfer
  <2>2. s + 1 >= chunk => status' = "idle"
    BY <1>4, <2>1, AtaAssumption DEF ReadSector, DataReady, AtaOK, Transfer
  <2>3. /\ pc = "drq" /\ status = "drq" /\ buffer' = buffer + 1
        /\ pc' \in {"busy", "ready", "done"} /\ (pc' = "ready" => status' = "idle")
    BY <1>4, <2>1, <2>2 DEF ReadSector, DataReady
  <2>4. QED
    BY <1>1, <2>3 DEF AtaWork, PollsLeft
<1>5. CASE DeliverSector \/ FailSector
  BY <1>1, <1>5 DEF DeliverSector, FailSector, driverVars, AtaWork, PollsLeft
<1>6. QED
  BY <1>2, <1>3, <1>4, <1>5 DEF Next, Driver, Drive

LEMMA BootWorkIsNat ==
    ASSUME BootInv, Underway
    PROVE  BootWork \in Nat
<1>1. StagesLeft \in Nat
  BY DEF StagesLeft
<1>2. QED
  BY <1>1, LoaderWorkIsNat, VgaWorkIsNat, KbdWorkIsNat, AtaWorkIsNat
  DEF BootInv, Underway, BootWork

WorkLeft == BootWork \in Nat

LEMMA BootWorks ==
    ASSUME BootInv, Underway, BootNext
    PROVE  BootWork' < BootWork
<1>1. /\ LoaderOK /\ VgaOK /\ KbdOK /\ QuietOK /\ AtaOK /\ typed \in 0..MaxTyped
      /\ StagesLeft \in Nat /\ LoaderWork \in Nat /\ VgaWork \in Nat /\ KbdWork \in Nat
      /\ AtaWork \in Nat
  BY LoaderWorkIsNat, VgaWorkIsNat, KbdWorkIsNat, AtaWorkIsNat
  DEF BootInv, Underway, StagesLeft
\* What a part's variables leave alone.
<1>2. /\ UNCHANGED loaderVars => LoaderWork' = LoaderWork
      /\ UNCHANGED vgaVars => VgaWork' = VgaWork
      /\ UNCHANGED kbdVars => KbdWork' = KbdWork
      /\ UNCHANGED ataVars => AtaWork' = AtaWork
      /\ stage' = stage => StagesLeft' = StagesLeft
  BY DEF loaderVars, LoaderWork, vgaVars, VgaWork, kbdVars, KbdWork, HostWork, DeviceWork,
         LinesLeft, StepsOf, ataVars, vars, driverVars, driveVars, AtaWork, PollsLeft, StagesLeft
<1>3. CASE Proceed
  <2>1. StagesLeft' \in Int /\ StagesLeft' < StagesLeft
    BY <1>3 DEF Proceed, StagesLeft
  <2>2. UNCHANGED loaderVars /\ UNCHANGED vgaVars /\ UNCHANGED kbdVars /\ UNCHANGED ataVars
    BY <1>3 DEF Proceed
  <2>3. /\ LoaderWork' = LoaderWork /\ VgaWork' = VgaWork /\ KbdWork' = KbdWork
        /\ AtaWork' = AtaWork
    BY <1>2, <2>2
  <2>4. BootWork' = StagesLeft' + LoaderWork + VgaWork + KbdWork + AtaWork
    BY <2>3 DEF BootWork
  <2>5. QED
    BY <1>1, <2>1, <2>4 DEF BootWork
<1>4. CASE Load
  BY <1>1, <1>2, <1>4, LoaderWorks DEF Load, BootWork
<1>5. CASE SetMode
  BY <1>1, <1>2, <1>5, VgaWorks DEF SetMode, BootWork
<1>6. CASE SetUpKeyboard
  BY <1>1, <1>2, <1>6, InitWorks DEF SetUpKeyboard, BootWork
<1>7. CASE ReadWad \/ DriveAnswers
  BY <1>1, <1>2, <1>7, AtaWorks DEF ReadWad, DriveAnswers, Next, BootWork
<1>8. CASE KeyboardAnswers \/ SomebodyTypes \/ KeyInterrupt
  BY <1>1, <1>2, <1>8, DeviceWorks DEF KeyboardAnswers, SomebodyTypes, KeyInterrupt, BootWork
<1>9. QED
  BY <1>3, <1>4, <1>5, <1>6, <1>7, <1>8 DEF BootNext, Processor

\* Every step of a boot uses up work, whatever the BIOS left, whatever is typed and in
\* whatever order the processor and the devices take their steps; so that no loop of the
\* loader, of vga_init, keyboard_init or ata_read_sectors can go round for ever.
THEOREM BootUsesUpWork == BootSpec => BootWindsDown
<1>1. BootInv /\ Underway => WorkLeft
  BY BootWorkIsNat DEF WorkLeft
<1>2. BootInv /\ Underway /\ WorkLeft' /\ [BootNext]_bootVars
          => [BootWork' \in Nat /\ BootWork' < BootWork]_bootVars
  BY BootWorks DEF WorkLeft
<1>3. QED
  BY <1>1, <1>2, UnderwayInvariant, PTL DEF BootSpec, BootWindsDown

\* A boot that is not over has a step: the drive answers every command, the controller's
\* reply is on its way while ReadReply polls for it, the buffer that WriteConfig and
\* EnableScanning wait for is emptied, and a byte left behind has its interrupt.
LEMMA SomeoneCan ==
    ASSUME BootInv, Underway
    PROVE  NeverStuck
<1> SUFFICES ASSUME ldr # "hung", status # "error" PROVE NeverStuck
  BY DEF NeverStuck, BootOver, Underway
<1>1. CASE stage \in {"loader", "video"}
  BY <1>1 DEF NeverStuck, SomeoneCanGo
<1>2. CASE stage = "keyboard"
  BY <1>2 DEF NeverStuck, SomeoneCanGo, HostCanGo, ControllerCanGo, Underway
<1>3. CASE stage = "disk"
  <2>1. pc \in {"ready", "busy", "drq", "done"}
    BY DEF BootInv, AtaOK
  <2>2. CASE pc \in {"ready", "busy"}
    BY <1>3, <2>2 DEF NeverStuck, SomeoneCanGo, DriverCanGo
  <2>3. CASE pc = "drq"
    <3>1. status \in {"busy", "drq"}
      BY <2>1, <2>3 DEF BootInv, AtaOK, Transfer
    <3>2. QED
      BY <1>3, <2>3, <3>1 DEF NeverStuck, SomeoneCanGo, DriverCanGo
  <2>4. CASE pc = "done"
    <3>1. "irq" \in ccb /\ "off" \notin ccb /\ (Line(obf, ccb) => irr)
      BY <1>3 DEF Underway, BootInv, KbdOK, Conversation, Latched
    <3>2. obf # <<>> => irr
      BY <3>1 DEF Line
    <3>3. obf = <<>> /\ sending # <<>> => ControllerCanGo
      BY <3>1 DEF ControllerCanGo
    <3>4. QED
      BY <1>3, <2>4, <3>2, <3>3 DEF NeverStuck, SomeoneCanGo, BootOver
  <2>5. QED
    BY <2>1, <2>2, <2>3, <2>4
<1>4. QED
  BY <1>1, <1>2, <1>3 DEF Underway

\* No boot comes to a standstill before it is over, for any number of sectors, BIOS and
\* keys typed.
THEOREM BootIsNeverStuck == BootSpec => []NeverStuck
<1>1. BootInv /\ Underway => NeverStuck
  BY SomeoneCan
<1>2. QED
  BY <1>1, UnderwayInvariant, PTL
=============================================================================
